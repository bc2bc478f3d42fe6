\* Three attempts against one machine, one of them with a become user, in
\* any interleaving; ssh failures, dial timeouts and controller crashes.
CONSTANTS
    s1 = s1
    s2 = s2
    s3 = s3
    Sessions <- MCSessions
    Legacy <- MCLegacy
    Faults = {"net", "dial", "crash"}
    Become <- MCBecome
    Method = "su"
    HasPassword = TRUE
    Remotes = {"nopass", "right", "wrong"}
SPECIFICATION Spec
INVARIANTS
    TypeOK
    InstalledAfterUp
    AuthenticatedBeforeUp
PROPERTIES
    AllAttemptsEnd
