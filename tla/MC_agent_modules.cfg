CONSTANTS
    A = A
    B = B
SPECIFICATION Spec
INVARIANTS
    TypeOK
    CleanOnSuccess
    SafeSuccessIsFresh
    RunningAsAsked
    ConvergesUnlessSwallowed
    RunsOnceWhenGuarded
