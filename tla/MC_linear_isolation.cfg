\* A "linear" play where a task may fail on one host.
CONSTANTS
    h1 = h1
    h2 = h2
    u1 = u1
    u2 = u2
    Hosts <- MCHosts
    Users <- MCUsers
    Methods <- MCMethods
    Plays <- LinearPlays
    MaxItems = 2
    Faults <- HostFaults
SPECIFICATION Spec
INVARIANTS
    FailureIsolation
