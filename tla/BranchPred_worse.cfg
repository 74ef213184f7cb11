SPECIFICATION Spec
CONSTANTS
    Kinds = {"bimodal2", "gshare", "tournament"}
    IdxBits = 1
    GhistBits = 1
    CondPcs = {0, 4}
    RetPcs = {}
    RetTargets = {}
    MaxBranches = 8
INVARIANT TournamentNotWorse
CHECK_DEADLOCK FALSE
