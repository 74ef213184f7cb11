SPECIFICATION Spec
CONSTANTS
    Regs = {0}
    Ops = {"LOAD"}
    Configs <- FarMemory
    WinCap = 4
    GenLimit = 4
INVARIANTS RunsToHalt
