SPECIFICATION HSpec
CONSTANTS
    Sources = {"Clock"}
    CNT_Ref = 2
    DIG_KEEP_Ref = 2
    Normal_Keep = 2
    Suppress_Off = 3
    SUPPRESS_ON = 6
    Alm_Cnt_Max = 2
    SUPPRESS_MAX = 2
    MaxEnv = 1
INVARIANTS
    SpentIsSuppressed
    SuppressionReported
    ResetsBounded
PROPERTIES
    ReleaseNotDuringAlarm
    SuppressionConverges
    AlarmFreeClears
