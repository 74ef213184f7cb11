SPECIFICATION EqSpec
CONSTANTS
    Regs = {0, 1}
    Ops = {"ADD", "LOAD", "JZ"}
    Configs <- NoCacheConfigs
    WinCap = 4
    GenLimit = 5
INVARIANT WidthOneIsScalar
