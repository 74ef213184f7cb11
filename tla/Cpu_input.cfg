SPECIFICATION OSpec
CONSTANTS
    Regs = {0, 1}
    Ops = {"NOP", "HALT", "ADD", "SUB", "MUL", "DIV", "AND", "OR", "XOR", "NOT",
           "SHL", "SHR", "MOV", "LOAD", "STORE", "LOADI", "PUSH", "POP", "JMP",
           "JZ", "JNZ", "JG", "JL", "CALL", "RET", "IN", "OUT", "ILLEGAL"}
    ByteBits = 2
    MEM_SIZE = 32
    MMIO_BASE = 12
    Inputs = {0, 5}
    CapSize = 12
    Mixes <- DeviceMix
INVARIANTS OracleEquality
CHECK_DEADLOCK FALSE
