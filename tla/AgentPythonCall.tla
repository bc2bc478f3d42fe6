-------------------------- MODULE AgentPythonCall --------------------------
(***************************************************************************)
(* The composition of RemoteModuleCall and PythonExecutorPipe: one         *)
(* session's calls of python modules.  The agent's gRPC handler for a      *)
(* request runs PythonModule.Run (src/module_utils/pythonModule/           *)
(* python_module.go), which calls executeCommand on the agent's single     *)
(* python executor; the handler of call c is pipe handler c.  The          *)
(* client's deadline lets the host's goroutine send its next call while    *)
(* the handler of the previous one is still inside executeCommand.         *)
(*                                                                         *)
(* py_runtime.zip is already on the remote, so no call answers             *)
(* NeedsPythonRuntime and every request is the first attempt of its call.  *)
(***************************************************************************)
EXTENDS Naturals

CONSTANT N      \* python module calls the host's goroutine makes

VARIABLES
    cc, cpc, upl, hst, hres, rtFile, ran, answer,   \* RemoteModuleCall
    pc, hello, ex, tg, exec, cur, made, exited, spawnFails, res,  \* PythonExecutorPipe
    got     \* got[c]: the request whose body the handler of call c decoded,
            \* 0 when it decoded none

rmcVars == <<cc, cpc, upl, hst, hres, rtFile, ran, answer>>
pipeVars == <<pc, hello, ex, tg, exec, cur, made, exited, spawnFails, res>>
vars == <<rmcVars, pipeVars, got>>

RMC == INSTANCE RemoteModuleCall WITH Python <- 1..N, RuntimeOnDisk <- TRUE
Pipe == INSTANCE PythonExecutorPipe WITH K <- N, Sequential <- FALSE

\* The request of call c's only attempt.
ReqOf(c) == [c |-> c, upl |-> FALSE]

Init ==
    /\ RMC!Init
    /\ Pipe!Init
    /\ got = [c \in 1..N |-> 0]

\* A step of the client or of ExecuteModule before Run.
RemoteStep ==
    /\ \/ RMC!Send \/ RMC!Receive \/ RMC!Timeout
       \/ \E r \in RMC!Req : RMC!HandlerStart(r)
    /\ UNCHANGED <<pipeVars, got>>

\* PythonModule.Run: handler c's getExecutor and executeCommand steps,
\* which it takes only while its gRPC handler is running the module.
PythonStep(c) ==
    /\ hst[ReqOf(c)] = "run"
    /\ \/ Pipe!GetExecutor(c) \/ Pipe!Start(c) \/ Pipe!Inc(c) \/ Pipe!WriteHdr(c)
       \/ Pipe!WriteReq(c) \/ Pipe!ReadHdr(c) \/ Pipe!ReadBody(c)
    /\ UNCHANGED <<rmcVars, got>>

\* The python process of executor g on the other end of the pipes.
PythonProcess ==
    /\ \E g \in 1..N : Pipe!Runtime(g) \/ Pipe!Exit(g)
    /\ UNCHANGED <<rmcVars, got>>

\* executeCommand returned: an error or an exception body makes a failed
\* Return (makeErrorReturn); a body converts to a Return whose failed flag
\* the module chose; an empty body is a success.  ExecuteModule marshals
\* it as the reply.
RunReturns(c) ==
    /\ hst[ReqOf(c)] = "run"
    /\ pc[c] = "done"
    /\ \E ret \in CASE res[c].st \in {"err", "exc"} -> {"failed"}
                    [] res[c].st = "empty" -> {"ok"}
                    [] OTHER -> {"ok", "failed"} :
          hres' = [hres EXCEPT ![ReqOf(c)] = ret]
    /\ hst' = [hst EXCEPT ![ReqOf(c)] = "done"]
    /\ ran' = [ran EXCEPT ![c] = @ + 1]
    /\ got' = [got EXCEPT ![c] = res[c].v]
    /\ UNCHANGED <<cc, cpc, upl, rtFile, answer, pipeVars>>

Done ==
    /\ cpc = "done"
    /\ \A r \in RMC!Req : hst[r] \in {"none", "done"}
    /\ UNCHANGED vars

Next ==
    \/ RemoteStep
    \/ \E c \in 1..N : PythonStep(c) \/ RunReturns(c)
    \/ PythonProcess
    \/ Done

Spec == Init /\ [][Next]_vars

-----------------------------------------------------------------------------

\* Spec section 5 (a host never runs two module invocations at once, the
\* python worker serialises requests): a python module call that the client
\* sees succeed was answered with the result of its own request.  A call
\* that timed out leaves its handler inside executeCommand, and the next
\* call's handler shares the unlocked tag counter and pipes with it.
CallGetsOwnResult ==
    \A c \in 1..N : answer[c] = "ok" => got[c] = c
=============================================================================
