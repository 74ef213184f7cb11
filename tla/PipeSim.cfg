SPECIFICATION FairSpec
CONSTANTS
    Regs = {0}
    Ops = {"ADD", "LOAD", "JZ", "HALT"}
    Configs <- OverlapConfigs
    WinCap = 4
    GenLimit = 5
INVARIANTS TypeOK InOrderOnce RingLive CycleBreakdown RedirectAccounting MissAccounting OncePerInstruction SafetyNetQuiet
PROPERTY Termination
