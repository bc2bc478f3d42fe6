-------------------------- MODULE RemoteModuleCall --------------------------
(***************************************************************************)
(* One session's module calls: the client executeRemoteModuleTask of      *)
(* src/executor/moduleExecutor/module_executor.go, issued one after the   *)
(* other by a host's goroutine, and the agent's gRPC server               *)
(* (src/remote/main/server.go) that runs every request it receives in its  *)
(* own handler goroutine.  Each call has a 10 s deadline the server does   *)
(* not see (ExecuteModule ignores its context).  A python module answers   *)
(* NeedsPythonRuntime while py_runtime.zip is missing next to the agent    *)
(* (PythonExecutorManager.getExecutor); the client then repeats the call   *)
(* once with the runtime attached, which PythonModule.Run saves first.     *)
(***************************************************************************)
EXTENDS Naturals, FiniteSets

CONSTANTS
    N,              \* number of module calls the host's goroutine makes
    Python,         \* the calls whose module is a python module, \subseteq 1..N
    RuntimeOnDisk   \* py_runtime.zip is already in the agent's directory

ASSUME N \in Nat /\ Python \subseteq 1..N /\ RuntimeOnDisk \in BOOLEAN

Calls == 1..N
\* A request is identified by its call and by uploadPyRuntime.
Req == [c : Calls, upl : BOOLEAN]
Results == {"needs", "ok", "failed"}

VARIABLES
    cc,         \* the call the client is making
    cpc,        \* "send" | "wait" | "done"
    upl,        \* uploadPyRuntime of the client's current attempt
    hst,        \* hst[r]: the server's handler for r: "none" | "recv" | "run" | "done"
    hres,       \* hres[r]: the Return the handler marshalled
    rtFile,     \* py_runtime.zip exists on the remote
    ran,        \* ran[c]: how many times the module of call c was executed
    answer      \* answer[c]: what executeRemoteModuleTask returned for call c

vars == <<cc, cpc, upl, hst, hres, rtFile, ran, answer>>

Init ==
    /\ cc = 1
    /\ cpc = IF N = 0 THEN "done" ELSE "send"
    /\ upl = FALSE
    /\ hst = [r \in Req |-> "none"]
    /\ hres = [r \in Req |-> "none"]
    /\ rtFile = RuntimeOnDisk
    /\ ran = [c \in Calls |-> 0]
    /\ answer = [c \in Calls |-> "none"]

Cur == [c |-> cc, upl |-> upl]

\* Mutant of Return: the last call also moves the call index on.
ReturnPastLast(a) ==
    /\ answer' = [answer EXCEPT ![cc] = a]
    /\ upl' = FALSE
    /\ IF cc <= N THEN cc' = cc + 1 /\ cpc' = "send"
                  ELSE cc' = cc /\ cpc' = "done"

\* executeRemoteModuleTask returned a value for the current call; the
\* goroutine goes on with its next call.
Return(a) ==
    /\ answer' = [answer EXCEPT ![cc] = a]
    /\ upl' = FALSE
    /\ IF cc < N THEN cc' = cc + 1 /\ cpc' = "send"
                 ELSE cc' = cc /\ cpc' = "done"

-----------------------------------------------------------------------------
(* Client.                                                                 *)

\* prepareArgs, marshalling and prepareMetaArgs (which reads the local
\* runtime archive when uploading) may fail before anything is sent;
\* otherwise the request goes out on the session's gRPC stream.
Send ==
    /\ cpc = "send"
    /\ \/ /\ Return("err")
          /\ UNCHANGED <<hst, hres, rtFile, ran>>
       \/ /\ hst' = [hst EXCEPT ![Cur] = "recv"]
          /\ cpc' = "wait"
          /\ UNCHANGED <<cc, upl, hres, rtFile, ran, answer>>

\* Mutant of Receive: a reply is matched to the call but not to the attempt.
ReceiveAnyAttempt ==
    /\ cpc = "wait"
    /\ \E r \in Req :
          /\ r.c = cc
          /\ hst[r] = "done"
          /\ IF hres[r] = "needs" /\ ~upl
             THEN /\ upl' = TRUE
                  /\ cpc' = "send"
                  /\ UNCHANGED <<cc, answer>>
             ELSE Return(hres[r])
    /\ UNCHANGED <<hst, hres, rtFile, ran>>

\* The reply arrives before the deadline.  A NeedsPythonRuntime return of
\* an attempt without the runtime is repeated once with it.
Receive ==
    /\ cpc = "wait"
    /\ hst[Cur] = "done"
    /\ IF hres[Cur] = "needs" /\ ~upl
       THEN /\ upl' = TRUE
            /\ cpc' = "send"
            /\ UNCHANGED <<cc, answer>>
       ELSE Return(hres[Cur])
    /\ UNCHANGED <<hst, hres, rtFile, ran>>

\* Mutant of Timeout: an expired call is sent again.
TimeoutRetries ==
    /\ cpc = "wait"
    /\ cpc' = "send"
    /\ UNCHANGED <<cc, upl, answer, hst, hres, rtFile, ran>>

\* Mutant of Timeout: the call runs under context.Background(), no deadline.
TimeoutNeverFires ==
    /\ FALSE
    /\ UNCHANGED vars

\* The context deadline expires first: ExecuteModule returns
\* DeadlineExceeded.  Nothing is sent to the server.
Timeout ==
    /\ cpc = "wait"
    /\ Return("err")
    /\ UNCHANGED <<hst, hres, rtFile, ran>>

-----------------------------------------------------------------------------
(* Server: one goroutine per received request.                             *)

\* PythonModule.Run first saves a runtime attached to the request.
RunSavesRuntime(r) == r.c \in Python /\ r.upl

\* PythonExecutorManager.getExecutor: with no live executor it stats
\* py_runtime.zip and fails with ErrNoExecutorRuntime when it is missing,
\* which makeErrorReturn turns into a NeedsPythonRuntime return.
NeedsRuntime(r, fileThere) == r.c \in Python /\ ~fileThere

\* ExecuteModule up to the module's work: FindModule, unmarshal, then Run.
HandlerStart(r) ==
    /\ hst[r] = "recv"
    /\ LET saved == rtFile \/ RunSavesRuntime(r) IN
       /\ rtFile' = saved
       /\ IF NeedsRuntime(r, saved)
          THEN /\ hst' = [hst EXCEPT ![r] = "done"]
               /\ hres' = [hres EXCEPT ![r] = "needs"]
          ELSE /\ hst' = [hst EXCEPT ![r] = "run"]
               /\ UNCHANGED hres
    /\ UNCHANGED <<cc, cpc, upl, ran, answer>>

\* The module's Run returns, succeeded or failed; the reply is marshalled.
HandlerFinish(r) ==
    /\ hst[r] = "run"
    /\ \E res \in {"ok", "failed"} :
          hres' = [hres EXCEPT ![r] = res]
    /\ hst' = [hst EXCEPT ![r] = "done"]
    /\ ran' = [ran EXCEPT ![r.c] = @ + 1]
    /\ UNCHANGED <<cc, cpc, upl, rtFile, answer>>

Done ==
    /\ cpc = "done"
    /\ \A r \in Req : hst[r] \in {"none", "done"}
    /\ UNCHANGED vars

Next ==
    \/ Send \/ Receive \/ Timeout
    \/ \E r \in Req : HandlerStart(r) \/ HandlerFinish(r)
    \/ Done

\* The deadline always fires, and the server's goroutines are scheduled.
\* A module may never return (a hung command), so HandlerFinish has no
\* fairness.
Spec ==
    /\ Init /\ [][Next]_vars
    /\ WF_vars(Send) /\ WF_vars(Receive) /\ WF_vars(Timeout)
    /\ \A r \in Req : WF_vars(HandlerStart(r))

-----------------------------------------------------------------------------
(* Properties.                                                             *)

TypeOK ==
    /\ cc \in 1..(IF N = 0 THEN 1 ELSE N)
    /\ cpc \in {"send", "wait", "done"}
    /\ upl \in BOOLEAN
    /\ hst \in [Req -> {"none", "recv", "run", "done"}]
    /\ hres \in [Req -> Results \cup {"none"}]
    /\ rtFile \in BOOLEAN
    /\ ran \in [Calls -> 0..2]
    /\ answer \in [Calls -> {"none", "err", "ok", "failed", "needs"}]

\* The module of a call is executed at most once: the client repeats a call
\* only after a NeedsPythonRuntime answer, which the server gives without
\* running the module.
AtMostOnceExecution == \A c \in Calls : ran[c] <= 1

\* Every call of the host's goroutine returns, even when a module hangs: the
\* deadline bounds each attempt and the runtime retry happens once.
AllCallsReturn == <>(cpc = "done")

\* The client implements ModuleCallContract: answers come in call order and
\* are an error or the outcome of the call's single execution.
Outcome(c) ==
    LET done == {r \in Req : r.c = c /\ hres[r] \in {"ok", "failed"}} IN
    IF done = {} THEN "no" ELSE hres[CHOOSE r \in done : TRUE]

Contract == INSTANCE ModuleCallContract WITH
    executed <- [c \in Calls |-> Outcome(c)],
    result <- answer,
    next <- IF cpc = "done" THEN N + 1 ELSE cc

ImplementsContract == Contract!Spec
=============================================================================
