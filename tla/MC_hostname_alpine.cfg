\* The alpine strategy on hosts whose /etc/hostname holds a name, with
\* every command and write succeeding.
CONSTANTS
    Names = {"n1", "n2"}
    LongNames = {}
    Strategies = {"alpine"}
    FileStates = {}
    Fallible = FALSE
SPECIFICATION Spec
INVARIANT RunningNameSet
