\* A sudo become session with the right password, no faults: the ssh
\* transport may split what sudo writes into packets of any size.
CONSTANTS
    s1 = s1
    s2 = s2
    s3 = s3
    Sessions <- MCSessions
    Legacy <- MCLegacy
    Faults = {}
    Become <- MCBecome
    Method = "sudo"
    HasPassword = TRUE
    Remotes = {"right"}
SPECIFICATION Spec
\* A stuck StartBecome leaves no step to take: the hang is what is checked.
CHECK_DEADLOCK FALSE
PROPERTIES
    AllAttemptsEnd
