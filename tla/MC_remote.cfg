\* Three calls on one session, the first and last python modules, no runtime
\* on the remote yet.
CONSTANTS
    N = 3
    Python <- MCPython
    RuntimeOnDisk = FALSE
SPECIFICATION Spec
INVARIANTS
    TypeOK
    AtMostOnceExecution
PROPERTIES
    AllCallsReturn
    ImplementsContract
