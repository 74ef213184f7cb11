SPECIFICATION Spec
CONSTANTS
    Regs = {0, 1, 2, 3, 4, 5, 6, 7}
    Ops = {}
    ByteBits = 3
    MEM_SIZE = 1000
    MMIO_BASE = 4000
    CapSize = 12
    STACK_BASE = 840
    IMM_MAX = 1023
    Sources <- AllSources
    MaxSteps = 700
INVARIANTS FrontEndExact ComputesMeaning
PROPERTY FramesBalanced
CHECK_DEADLOCK FALSE
