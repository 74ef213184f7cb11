SPECIFICATION Spec
CONSTANTS
    Regs = {0, 1}
    Ops = {"NOP", "HALT", "ADD", "SUB", "LOADI", "LOAD", "STORE", "PUSH", "JMP", "JNZ", "IN"}
    ByteBits = 2
    MEM_SIZE = 32
    MMIO_BASE = 200
    CapSize = 12
    Programs <- Files
    BpAddrs = {4, 8, 12, 16}
    WatchAddrs = {24, 252}
    MAX_BP = 3
    StepCounts = {0, 3}
    Guard = 5
    Inputs = {3}
    MaxCount = 10
INVARIANT SameRun
PROPERTIES StopsAtBreakpoints CommandReturns
CHECK_DEADLOCK FALSE
