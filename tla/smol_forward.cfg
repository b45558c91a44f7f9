SPECIFICATION FairSpec
CONSTANTS
    L = 10
    Mode = 3
    Passes = 2
    Faults = {"first", "create", "recreate", "read", "serial", "tpu"}
    MaxFault = 2
CHECK_DEADLOCK FALSE
INVARIANTS
    TypeOK
    ExactUnlessRestarted
    BankExclusive
    WorkerJoined
PROPERTIES
    PassAnswers
