SPECIFICATION CSpec
CONSTANTS
    Regs = {0, 1}
    Ops = {"MUL", "LOAD", "JZ", "HALT"}
    WeakWidth = 2
    StrongWidth = 3
    WeakForwarding = FALSE
    StrongForwarding = TRUE
    WeakInOrder = TRUE
    StrongInOrder = FALSE
    RobSize = 3
    Predictor = TRUE
    GenLimit = 5
INVARIANTS SchedulesLegal SchedulesTight StrongerNeverSlower OooSchedulesLegal RobNeverOverfull OooNeverSlower OooDominates
CHECK_DEADLOCK FALSE
