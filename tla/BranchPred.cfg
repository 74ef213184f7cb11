SPECIFICATION Spec
CONSTANTS
    Kinds = {"none", "static", "bimodal1", "bimodal2", "gshare", "tournament", "tournament3"}
    IdxBits = 1
    GhistBits = 1
    CondPcs = {0, 4, 8}
    RetPcs = {12}
    RetTargets = {16, 20, 24}
    MaxBranches = 7
INVARIANTS
    HalvesTrainAlike
    BtbFresh
    Hysteresis
    StaticNoWorseThanBaseline
    TournamentRegret
CHECK_DEADLOCK FALSE
