--------------------------- MODULE SessionManager ---------------------------
(***************************************************************************)
(* The per-host session cache conn.Manager of                              *)
(* src/executor/conn/connection_manager.go.  Each host has one default     *)
(* session and a map of become sessions keyed by the become user.  A       *)
(* session is abstracted to its state and to the become method it was      *)
(* created with; the SSH transport and the remote agent behind it are      *)
(* modelled in other modules.                                              *)
(***************************************************************************)
EXTENDS Naturals

CONSTANTS
    Hosts,      \* inventory hosts that get a manager
    Users,      \* become users a task may ask for
    Methods     \* become methods (plugin names), e.g. "sudo", "su"

\* The method of a session opened without become.
NoMethod == "none"

\* A cache slot: no session, an open one, or one that Close has closed.
Sess == [st : {"none", "open", "closed"}, m : Methods \cup {NoMethod}]
NoSess == [st |-> "none", m |-> NoMethod]

VARIABLES
    defConn,    \* defConn[h]: Manager.defaultConn of host h
    becConns    \* becConns[h][u]: Manager.becomeConns[u] of host h

sessVars == <<defConn, becConns>>

\* Mutant of NewManagers: the managers of the previous play are kept.
KeepManagers == UNCHANGED sessVars

\* NewManager for every host: empty caches.
NewManagers ==
    /\ defConn' = [h \in Hosts |-> NoSess]
    /\ becConns' = [h \in Hosts |-> [u \in Users |-> NoSess]]

\* getBecomeArgs + GetConnForTask: the slot a task's session is looked up
\* in.  The key is the become user alone; method and flags are not part of it.
Cached(h, t) == IF t.become THEN becConns[h][t.user] ELSE defConn[h]

\* The session createConnection returns for a task.
Fresh(t) == [st |-> "open", m |-> IF t.become THEN t.method ELSE NoMethod]

\* The session GetConnForTask hands out once it succeeds: the cached one
\* whatever its state (getDefaultConn / getBecomeConn only test for
\* presence), otherwise a freshly created one.
ConnAfter(h, t) == IF Cached(h, t).st = "none" THEN Fresh(t) ELSE Cached(h, t)

\* GetConnForTask when it succeeds: a session not yet in the cache is
\* created and stored; a cached one is returned as it is.
GetConnForTask(h, t) ==
    IF Cached(h, t).st # "none"
    THEN UNCHANGED sessVars
    ELSE IF t.become
         THEN /\ becConns' = [becConns EXCEPT ![h][t.user] = Fresh(t)]
              /\ UNCHANGED defConn
         ELSE /\ defConn' = [defConn EXCEPT ![h] = Fresh(t)]
              /\ UNCHANGED becConns

\* ConnectionContext.Close on one session.
CloseSess(s) == IF s.st = "open" THEN [s EXCEPT !.st = "closed"] ELSE s

\* Manager.Close: every become session is closed (in parallel); the default
\* session is not in becomeConns and is left open; closed sessions stay in
\* the map.
CloseMgr(bc) == [u \in Users |-> CloseSess(bc[u])]

\* CloseConnMgrs: Manager.Close on the managers of the hosts in S.
CloseConnMgrs(S) ==
    /\ becConns' = [h \in Hosts |-> IF h \in S THEN CloseMgr(becConns[h]) ELSE becConns[h]]
    /\ UNCHANGED defConn

\* Number of open default sessions among the hosts in S.
OpenDefaults(S) == {h \in S : defConn[h].st = "open"}
=============================================================================
