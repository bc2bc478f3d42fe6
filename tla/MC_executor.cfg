\* Two "free" plays, a "linear" play, an empty play and a play whose module
\* returns facts, every fault enabled.
CONSTANTS
    h1 = h1
    h2 = h2
    u1 = u1
    u2 = u2
    Hosts <- MCHosts
    Users <- MCUsers
    Methods <- MCMethods
    Plays <- ExecutorPlays
    MaxItems = 2
    Faults <- AllFaults
SPECIFICATION Spec
INVARIANTS
    TypeOK
    LoopItemScoped
    DispatchOverOpenSession
