\* The controller may die in the middle of an attempt; later attempts follow.
CONSTANTS
    s1 = s1
    s2 = s2
    s3 = s3
    Sessions <- MCSessions
    Legacy = {}
    Faults = {"crash"}
    Become = {}
    Method = "su"
    HasPassword = TRUE
    Remotes = {"nopass"}
SPECIFICATION Spec
INVARIANTS
    NeverWedged
