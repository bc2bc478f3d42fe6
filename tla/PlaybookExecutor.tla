-------------------------- MODULE PlaybookExecutor --------------------------
(***************************************************************************)
(* The play scheduler of src/executor/playbook_executor.go: plays run one  *)
(* after another; a play determines its hosts, creates one conn.Manager    *)
(* per host, and hands its tasks to tasksExecutors (one per task under     *)
(* "linear", one for all tasks under "free").  A tasksExecutor runs one    *)
(* goroutine per host (parallel.ForAll), which runs the                    *)
(* tasks on that host, stopping at the host's first error; ForAll joins    *)
(* them and any error aborts the play and so the playbook.  The deferred   *)
(* CloseConnMgrs runs when the play returns.                               *)
(*                                                                         *)
(* A task is abstracted to what decides the control flow: whether it is a  *)
(* plugin (FindAction) or a remote module, its become                      *)
(* identity, whether it loops, and whether its result carries facts.       *)
(* Template and variable errors, connection failures and remote failures   *)
(* are nondeterministic outcomes, enabled by the constant Faults.          *)
(***************************************************************************)
EXTENDS Naturals, Sequences, FiniteSets, SessionManager

CONSTANTS
    Plays,      \* Seq of [hosts : SUBSET Hosts, strategy : {"linear","free"},
                \*         tasks : Seq(Task)]
    MaxItems,   \* bound on the number of items GetLoopItems returns
    Faults      \* the environment failures that may happen, \subseteq FaultKinds

\* "play": the play banner, determineHosts or setupConnectionManagers fails;
\* "vars": GetVars or a template (name, when, args, loop items) fails;
\* "connect": createConnection fails; "remote": the module RPC fails.
FaultKinds == {"play", "vars", "connect", "remote"}

\* ResolveModuleArgs accepts only a plugin or module name as the action, so
\* no parsed task is a meta task and the meta branches of tasksExecutor are
\* never taken.
Task == [kind : {"module", "plugin"}, become : BOOLEAN, user : Users,
         method : Methods, loop : BOOLEAN, facts : BOOLEAN]

MaxTasks == 2

ASSUME /\ Plays \in Seq([hosts : SUBSET Hosts, strategy : {"linear", "free"},
                         tasks : Seq(Task)])
       /\ Len(Plays) > 0
       /\ \A p \in 1..Len(Plays) : Len(Plays[p].tasks) <= MaxTasks
       /\ MaxItems \in Nat
       /\ Faults \subseteq FaultKinds

VARIABLES
    pi,         \* index of the play ExecutePlaybook is running
    stage,      \* "start" | "batch" | "run" | "close" | "done" | "aborted" | "panic"
    lo, hi,     \* the task slice ex.tasks of the current tasksExecutor
    scope,      \* ex.hosts of the current play
    wpc,        \* wpc[h]: where the goroutine of host h is
    wt,         \* wt[h]: index of the task host h is executing
    left,       \* left[h]: loop items host h has still to run
    item,       \* item[h]: hostLoopVars[h] binds "item"
    err,        \* origin of the error the play returned: "none" | "play" | "host"
    orphans,    \* sessions left open after the play that opened them returned
    lastUse     \* lastUse[h]: session the last action on h ran over, and the
                \* become method its task asked for

vars == <<pi, stage, lo, hi, scope, wpc, wt, left, item, err, orphans, lastUse,
          defConn, becConns>>

Stages == {"start", "batch", "run", "close", "done", "aborted", "panic"}
Final == {"done", "aborted", "panic"}
WorkerPcs == {"idle", "run", "loop", "done", "failed"}
NoUse == [sess |-> NoSess, want |-> NoMethod]

Play == Plays[pi]
NT == Len(Play.tasks)
CurTask(h) == Play.tasks[wt[h]]
Ok(kind) == kind \notin Faults

\* The become method a task asks for (getBecomeArgs).
Wanted(t) == IF t.become THEN t.method ELSE NoMethod

Init ==
    /\ pi = 1
    /\ stage = "start"
    /\ lo = 1 /\ hi = 0
    /\ scope = {}
    /\ wpc = [h \in Hosts |-> "idle"]
    /\ wt = [h \in Hosts |-> 1]
    /\ left = [h \in Hosts |-> 0]
    /\ item = [h \in Hosts |-> FALSE]
    /\ err = "none"
    /\ orphans = 0
    /\ lastUse = [h \in Hosts |-> NoUse]
    /\ defConn = [h \in Hosts |-> NoSess]
    /\ becConns = [h \in Hosts |-> [u \in Users |-> NoSess]]

-----------------------------------------------------------------------------
(* playExecutor.execute up to executeStrategy.                             *)

PlayStart ==
    /\ stage = "start"
    /\ \/ /\ ~Ok("play")
          /\ stage' = "aborted"
          /\ err' = "play"
          /\ UNCHANGED <<pi, lo, hi, scope, wpc, wt, left, item, orphans,
                         lastUse, defConn, becConns>>
       \/ /\ scope' = Play.hosts
          /\ NewManagers
          /\ lo' = 1
          /\ hi' = IF Play.strategy = "linear" THEN 1 ELSE NT
          \* executeStrategy: "linear" over no tasks runs no tasksExecutor
          /\ stage' = IF Play.strategy = "linear" /\ NT = 0 THEN "close" ELSE "batch"
          /\ UNCHANGED <<pi, wpc, wt, left, item, err, orphans, lastUse>>

\* tasksExecutor.execute: one goroutine per host of the play runs the slice.
BatchStart ==
    /\ stage = "batch"
    /\ stage' = "run"
    /\ wpc' = [h \in Hosts |-> IF h \notin scope THEN "idle"
                               ELSE IF lo <= hi THEN "run" ELSE "done"]
    /\ wt' = [h \in Hosts |-> lo]
    /\ UNCHANGED <<pi, lo, hi, scope, left, item, err, orphans, lastUse, sessVars>>

-----------------------------------------------------------------------------
(* One host's goroutine: executeTasksOnHost and taskOnHostExecutor.        *)

\* Mutant of Advance: the slice bound is overrun by one.
AdvancePastSlice(h) ==
    IF wt[h] <= hi
    THEN /\ wt' = [wt EXCEPT ![h] = @ + 1]
         /\ UNCHANGED wpc
    ELSE /\ wpc' = [wpc EXCEPT ![h] = "done"]
         /\ UNCHANGED wt

\* Mutant of Advance: after the last task of the slice the goroutine starts
\* over from the first one instead of returning.
AdvanceWraps(h) ==
    IF wt[h] < hi
    THEN /\ wt' = [wt EXCEPT ![h] = @ + 1]
         /\ UNCHANGED wpc
    ELSE /\ wt' = [wt EXCEPT ![h] = lo]
         /\ UNCHANGED wpc

\* The task is done: on to the next task of the slice, or the goroutine ends.
Advance(h) ==
    IF wt[h] < hi
    THEN /\ wt' = [wt EXCEPT ![h] = @ + 1]
         /\ UNCHANGED wpc
    ELSE /\ wpc' = [wpc EXCEPT ![h] = "done"]
         /\ UNCHANGED wt

\* The task returned an error: executeTasksOnHost returns it.
HostFails(h) ==
    /\ wpc' = [wpc EXCEPT ![h] = "failed"]
    /\ UNCHANGED <<wt, left, item>>

\* MakeManager allocates extraVars and hostLoopVars only; hostFacts,
\* hostNonPersistentFacts and hostVars stay nil maps.
FactMapsAllocated == FALSE

\* SaveFacts: a result without facts returns early; facts go to hostFacts,
\* hostNonPersistentFacts or hostVars, and SetHostFacts & co. assign into
\* the map: into a nil map that panics.
SaveFactsPanics(t) == t.facts /\ ~FactMapsAllocated

\* executeAction: a plugin templates its args, then runs; a module runs over
\* the connection.  Either result is dropped (err is shadowed), except that
\* facts it carries are saved, and SaveFacts writes into a map MakeManager
\* never allocated: the process panics.
ExecuteAction(h, t, Cont, Failed) ==
    \/ /\ t.kind = "plugin"
       /\ ~Ok("vars")
       /\ Failed
       /\ UNCHANGED <<stage, lastUse>>
    \/ /\ lastUse' = [lastUse EXCEPT ![h] = [sess |-> ConnAfter(h, t), want |-> Wanted(t)]]
       /\ \/ /\ SaveFactsPanics(t)
             /\ stage' = "panic"
             /\ Failed
          \/ /\ ~SaveFactsPanics(t) \/ (t.kind = "module" /\ ~Ok("remote"))
             /\ Cont
             /\ UNCHANGED stage

\* executeActionIfWhenSatisfied: GetVars, the when conditions, the action.
ExecuteActionIfWhenSatisfied(h, t, Cont, Failed) ==
    \/ /\ ~Ok("vars")
       /\ Failed
       /\ UNCHANGED <<stage, lastUse>>
    \/ /\ Cont
       /\ UNCHANGED <<stage, lastUse>>
    \/ ExecuteAction(h, t, Cont, Failed)

\* runLoop up to its first item: ResetLoopContext, GetVars, GetLoopItems.
\* Failing, or with no items, the deferred ResetLoopContext runs.
StartLoop(h) ==
    /\ UNCHANGED <<stage, lastUse>>
    /\ \/ /\ ~Ok("vars")
          /\ HostFails(h)
       \/ /\ Advance(h)
          /\ UNCHANGED <<left, item>>
       \/ \E n \in 1..MaxItems :
             /\ wpc' = [wpc EXCEPT ![h] = "loop"]
             /\ left' = [left EXCEPT ![h] = n]
             /\ UNCHANGED <<wt, item>>

\* taskOnHostExecutor.execute: banner, setupConnection, then the loop or the
\* action.
RunTask(h) ==
    LET t == CurTask(h) IN
    /\ stage = "run"
    /\ wpc[h] = "run"
    /\ \/ /\ ~Ok("vars")
          /\ HostFails(h)
          /\ UNCHANGED <<stage, lastUse, sessVars>>
       \/ /\ Cached(h, t).st = "none"
          /\ ~Ok("connect")
          /\ HostFails(h)
          /\ UNCHANGED <<stage, lastUse, sessVars>>
       \/ /\ GetConnForTask(h, t)
          /\ IF t.loop
             THEN StartLoop(h)
             ELSE ExecuteActionIfWhenSatisfied(h, t,
                      Advance(h) /\ UNCHANGED <<left, item>>, HostFails(h))
    /\ UNCHANGED <<pi, lo, hi, scope, err, orphans>>

\* The rest of an item of runLoop once SetLoopItem bound it.
NextItem(h) ==
    IF left[h] > 1
    THEN /\ left' = [left EXCEPT ![h] = @ - 1]
         /\ item' = [item EXCEPT ![h] = TRUE]
         /\ UNCHANGED <<wpc, wt>>
    ELSE /\ left' = [left EXCEPT ![h] = 0]
         /\ item' = [item EXCEPT ![h] = FALSE]
         /\ Advance(h)

\* Mutant of LoopFails: ResetLoopContext is not deferred, so the item
\* SetLoopItem bound stays bound.
LoopFailsWithoutReset(h) ==
    /\ wpc' = [wpc EXCEPT ![h] = "failed"]
    /\ left' = [left EXCEPT ![h] = 0]
    /\ item' = [item EXCEPT ![h] = TRUE]
    /\ UNCHANGED wt

\* An item failed: runLoop returns, its deferred ResetLoopContext runs.
LoopFails(h) ==
    /\ wpc' = [wpc EXCEPT ![h] = "failed"]
    /\ left' = [left EXCEPT ![h] = 0]
    /\ item' = [item EXCEPT ![h] = FALSE]
    /\ UNCHANGED wt

\* One iteration of runLoop: SetLoopItem, executeActionIfWhenSatisfied.
LoopItem(h) ==
    /\ stage = "run"
    /\ wpc[h] = "loop"
    /\ ExecuteActionIfWhenSatisfied(h, CurTask(h), NextItem(h), LoopFails(h))
    /\ UNCHANGED <<pi, lo, hi, scope, err, orphans, sessVars>>

-----------------------------------------------------------------------------
(* ForAll returns, the strategy goes on, the play returns.                 *)

Join ==
    /\ stage = "run"
    /\ \A h \in scope : wpc[h] \in {"done", "failed"}
    /\ IF \E h \in scope : wpc[h] = "failed"
       THEN /\ stage' = "close"
            /\ err' = "host"
            /\ UNCHANGED <<lo, hi>>
       ELSE /\ IF Play.strategy = "linear" /\ hi < NT
               THEN /\ stage' = "batch"
                    /\ lo' = hi + 1
                    /\ hi' = hi + 1
               ELSE /\ stage' = "close"
                    /\ UNCHANGED <<lo, hi>>
            /\ UNCHANGED err
    /\ UNCHANGED <<pi, scope, wpc, wt, left, item, orphans, lastUse, sessVars>>

\* The deferred CloseConnMgrs, then ExecutePlaybook's loop: an error ends
\* the playbook, otherwise the next play starts.
PlayEnd ==
    /\ stage = "close"
    /\ CloseConnMgrs(scope)
    /\ orphans' = orphans + Cardinality(OpenDefaults(scope))
    /\ IF err # "none" \/ pi = Len(Plays)
       THEN /\ stage' = IF err # "none" THEN "aborted" ELSE "done"
            /\ UNCHANGED pi
       ELSE /\ stage' = "start"
            /\ pi' = pi + 1
    /\ UNCHANGED <<lo, hi, scope, wpc, wt, left, item, err, lastUse>>

\* The process has exited; nothing moves any more.
Terminated ==
    /\ stage \in Final
    /\ UNCHANGED vars

Next ==
    \/ PlayStart
    \/ BatchStart
    \/ \E h \in Hosts : h \in scope /\ (RunTask(h) \/ LoopItem(h))
    \/ Join
    \/ PlayEnd
    \/ Terminated

\* No fairness: a session start can block forever (a sudo become that waits
\* for a password at ssh.go:164), so no run is assumed to end.
Spec == Init /\ [][Next]_vars

-----------------------------------------------------------------------------
(* Properties.                                                             *)

TypeOK ==
    /\ pi \in 1..Len(Plays)
    /\ stage \in Stages
    /\ lo \in 1..MaxTasks /\ hi \in 0..MaxTasks
    /\ scope \subseteq Hosts
    /\ wpc \in [Hosts -> WorkerPcs]
    /\ wt \in [Hosts -> 1..MaxTasks]
    /\ left \in [Hosts -> 0..MaxItems]
    /\ item \in [Hosts -> BOOLEAN]
    /\ err \in {"none", "play", "host"}
    /\ orphans \in 0..(Len(Plays) * Cardinality(Hosts))
    /\ lastUse \in [Hosts -> [sess : Sess, want : Methods \cup {NoMethod}]]
    /\ defConn \in [Hosts -> Sess]
    /\ becConns \in [Hosts -> [Users -> Sess]]

\* Spec section 5: when one host fails, the play stops only after every
\* other host of the tasksExecutor has run all of its tasks or failed too
\* (ForAll joins all goroutines before executeStrategy returns the error).
\* Under "linear" the error returns after one task, so hosts that did not
\* fail are stopped with tasks left to run.
FailureIsolation ==
    err = "host" =>
        \A h \in scope : wpc[h] = "failed" \/ (wpc[h] = "done" /\ hi = NT)

\* The loop variable "item" of a host is bound only while runLoop runs on
\* that host: ResetLoopContext runs on entry and, deferred, on every exit.
LoopItemScoped ==
    stage # "panic" => \A h \in Hosts : item[h] => wpc[h] = "loop"

\* Every action runs over an open session: a session closed by
\* CloseConnMgrs at the end of a play is never handed out again
\* (setupConnectionManagers gives each play fresh managers).
DispatchOverOpenSession ==
    \A h \in Hosts : lastUse[h] # NoUse => lastUse[h].sess.st = "open"

\* Spec section 3: a session is reused only for the same become identity
\* (become, user, method).  getBecomeConn keys become sessions by user only.
SessionMatchesBecome ==
    \A h \in Hosts : lastUse[h].sess.m = lastUse[h].want

\* Every session a play opened is closed when the play returns
\* (CloseConnMgrs closes only becomeConns, never defaultConn).
NoOrphanSessions == orphans = 0

=============================================================================
