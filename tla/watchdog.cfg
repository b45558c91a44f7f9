SPECIFICATION WdFairSpec
CONSTANTS
    Timeout = 6
    QwenPoll = 1
    MaxGap = 4
    Delay = 2
    Boot = 30
CHECK_DEADLOCK FALSE
INVARIANTS
    NoFalseKill
    HangBounded
PROPERTIES
    HungIsEnded
