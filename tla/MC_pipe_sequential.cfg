\* Three python module calls, one after the other.
CONSTANTS
    K = 3
    Sequential = TRUE
SPECIFICATION Spec
INVARIANTS
    TypeOK
    FailuresPaidByExits
PROPERTIES
    AllCommandsReturn
