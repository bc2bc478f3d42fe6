------------------------- MODULE PythonExecutorPipe -------------------------
(***************************************************************************)
(* The agent's python executors (src/module_utils/pythonModule/            *)
(* python_executor.go, python_executor_manager.go).  PythonModule.Run asks *)
(* the PythonExecutorManager for an executor: the current one unless it is *)
(* nil or invalidated, otherwise a new python process, greeted with the    *)
(* hello command before it becomes current.  executeCommand takes a tag    *)
(* from nextTag, writes a header line and a request line, then reads a     *)
(* response header, checks its tag, and reads the response body.  Nothing *)
(* serialises getExecutor or executeCommand: the gRPC handlers that run    *)
(* python modules call them from their own goroutines.                     *)
(*                                                                         *)
(* The python side (py_runtime) is not in the repository.  It is modelled  *)
(* as a sequential loop that reads two lines, answers with a header        *)
(* echoing the first line's tag and a body for the second line, and       *)
(* answers an exception when the pair is not a header and a request.      *)
(* A line is written with one Write and read with one Scan, so lines do    *)
(* not interleave.  Every handler creates at most one executor, so the     *)
(* executors are numbered 1..K in the order they are created.              *)
(***************************************************************************)
EXTENDS Naturals, Sequences, FiniteSets

CONSTANTS
    K,          \* handlers calling PythonModule.Run, numbered 1..K
    Sequential  \* TRUE: each call starts after the previous one returned

ASSUME K \in Nat \ {0} /\ Sequential \in BOOLEAN

Handlers == 1..K
Gens == 1..K
\* newExecutor starts nextTag at 1; the hello command takes it.
Tags == 1..(K + 1)

\* Lines on the pipes: a header with its tag; a request of handler v (0 is
\* the hello request); a body answering request v; an exception.
Line == [k : {"hdr"}, v : 0..(K + 1)] \cup [k : {"req", "body"}, v : 0..K]
        \cup [k : {"exc"}, v : {0}]

\* A new executor: its process started, pipes empty.
NewExecutor == [nextTag |-> 1, in |-> << >>, out |-> << >>, invalid |-> FALSE, alive |-> TRUE]

VARIABLES
    pc,         \* pc[h]: the step of Run handler h is at
    hello,      \* hello[h]: h is running newExecutor's hello command
    ex,         \* ex[h]: the executor h got (0 for none)
    tg,         \* tg[h]: reqHdr.Tag of handler h
    exec,       \* exec[g]: nextTag, stdin and stdout lines, invalid and the
                \* process running, of executor g
    cur,        \* m.current (0 for nil)
    made,       \* executors created so far
    exited,     \* executors whose process exited on its own
    spawnFails, \* newExecutor calls whose cmd.Start failed
    res         \* res[h]: what Run gave handler h: "err" (an executor error),
                \* "exc" (the module raised), "empty", or "ok" with the
                \* request whose body it read

vars == <<pc, hello, ex, tg, exec, cur, made, exited, spawnFails, res>>

Init ==
    /\ pc = [h \in Handlers |-> "idle"]
    /\ hello = [h \in Handlers |-> FALSE]
    /\ ex = [h \in Handlers |-> 0]
    /\ tg = [h \in Handlers |-> 0]
    /\ exec = [g \in Gens |-> NewExecutor]
    /\ cur = 0
    /\ made = 0
    /\ exited = {}
    /\ spawnFails = 0
    /\ res = [h \in Handlers |-> [st |-> "none", v |-> 0]]

E(h) == exec[ex[h]]

\* Run returns an executor error to handler h (makeErrorReturn).
Fail(h) ==
    /\ pc' = [pc EXCEPT ![h] = "done"]
    /\ res' = [res EXCEPT ![h] = [st |-> "err", v |-> 0]]

\* invalidate: the flag is set and the process killed.
Invalidate(g) == [exec[g] EXCEPT !.invalid = TRUE, !.alive = FALSE]

-----------------------------------------------------------------------------

\* getExecutor: the current executor unless it is nil or invalid; then a
\* new process (cmd.Start may fail), which runs the hello command first.
GetExecutor(h) ==
    /\ pc[h] = "idle"
    /\ Sequential => \A g \in Handlers : g < h => pc[g] = "done"
    /\ IF cur # 0 /\ ~exec[cur].invalid
       THEN /\ ex' = [ex EXCEPT ![h] = cur]
            /\ pc' = [pc EXCEPT ![h] = "start"]
            /\ UNCHANGED <<hello, made, spawnFails, res>>
       ELSE \/ /\ Fail(h)
               /\ spawnFails' = spawnFails + 1
               /\ UNCHANGED <<hello, ex, made>>
            \/ /\ made' = made + 1
               /\ ex' = [ex EXCEPT ![h] = made + 1]
               /\ hello' = [hello EXCEPT ![h] = TRUE]
               /\ pc' = [pc EXCEPT ![h] = "start"]
               /\ UNCHANGED <<spawnFails, res>>
    /\ UNCHANGED <<tg, exec, cur, exited>>

\* Mutant of Start: the tag is also advanced when it is taken.
StartIncrements(h) ==
    /\ pc[h] = "start"
    /\ IF E(h).invalid
       THEN Fail(h) /\ UNCHANGED <<tg, exec>>
       ELSE /\ tg' = [tg EXCEPT ![h] = E(h).nextTag]
            /\ exec' = [exec EXCEPT ![ex[h]].nextTag = @ + 1]
            /\ pc' = [pc EXCEPT ![h] = "inc"]
            /\ UNCHANGED res
    /\ UNCHANGED <<hello, ex, cur, made, exited, spawnFails>>

\* executeCommand: the invalid check and reqHdr.Tag = e.nextTag.
Start(h) ==
    /\ pc[h] = "start"
    /\ IF E(h).invalid
       THEN Fail(h) /\ UNCHANGED tg
       ELSE /\ tg' = [tg EXCEPT ![h] = E(h).nextTag]
            /\ pc' = [pc EXCEPT ![h] = "inc"]
            /\ UNCHANGED res
    /\ UNCHANGED <<hello, ex, exec, cur, made, exited, spawnFails>>

\* e.nextTag += 1, a separate access to the field.
Inc(h) ==
    /\ pc[h] = "inc"
    /\ exec' = [exec EXCEPT ![ex[h]].nextTag = @ + 1]
    /\ pc' = [pc EXCEPT ![h] = "whdr"]
    /\ UNCHANGED <<hello, ex, tg, cur, made, exited, spawnFails, res>>

\* Mutant of WriteLine: a failed write returns its error without
\* invalidating the executor.
WriteLineKeepsExecutor(h, line, nextPc) ==
    /\ IF ~E(h).alive
       THEN Fail(h) /\ UNCHANGED exec
       ELSE /\ exec' = [exec EXCEPT ![ex[h]].in = Append(@, line)]
            /\ pc' = [pc EXCEPT ![h] = nextPc]
            /\ UNCHANGED res
    /\ UNCHANGED <<hello, ex, tg, cur, made, exited, spawnFails>>

\* writeLine: a write to a process that is gone fails (broken pipe) and
\* invalidates.
WriteLine(h, line, nextPc) ==
    /\ IF ~E(h).alive
       THEN Fail(h) /\ exec' = [exec EXCEPT ![ex[h]] = Invalidate(ex[h])]
       ELSE /\ exec' = [exec EXCEPT ![ex[h]].in = Append(@, line)]
            /\ pc' = [pc EXCEPT ![h] = nextPc]
            /\ UNCHANGED res
    /\ UNCHANGED <<hello, ex, tg, cur, made, exited, spawnFails>>

WriteHdr(h) ==
    /\ pc[h] = "whdr"
    /\ WriteLine(h, [k |-> "hdr", v |-> tg[h]], "wreq")

\* Mutant of WriteReq: the request stays in a buffer that is not flushed.
WriteReqUnflushed(h) ==
    /\ pc[h] = "wreq"
    /\ pc' = [pc EXCEPT ![h] = "rhdr"]
    /\ UNCHANGED <<hello, ex, tg, exec, cur, made, exited, spawnFails, res>>

WriteReq(h) ==
    /\ pc[h] = "wreq"
    /\ WriteLine(h, [k |-> "req", v |-> IF hello[h] THEN 0 ELSE h], "rhdr")

\* Scan blocks until a line, or EOF once the process is gone and its
\* output is drained; EOF invalidates.
CanRead(h) == E(h).out # << >> \/ ~E(h).alive
Eof(h) ==
    /\ E(h).out = << >>
    /\ Fail(h)
    /\ exec' = [exec EXCEPT ![ex[h]] = Invalidate(ex[h])]
    /\ UNCHANGED <<hello, ex, tg, cur, made, exited, spawnFails>>

\* readLine of the response header; a line that is not the header with
\* this call's tag (a body decodes as Tag 0) invalidates.
ReadHdr(h) ==
    /\ pc[h] = "rhdr"
    /\ CanRead(h)
    /\ \/ Eof(h)
       \/ /\ E(h).out # << >>
          /\ IF Head(E(h).out).k = "hdr" /\ Head(E(h).out).v = tg[h]
             THEN /\ exec' = [exec EXCEPT ![ex[h]].out = Tail(@)]
                  /\ pc' = [pc EXCEPT ![h] = "rbody"]
                  /\ UNCHANGED res
             ELSE /\ exec' = [exec EXCEPT ![ex[h]] = [Invalidate(ex[h]) EXCEPT !.out = Tail(@)]]
                  /\ Fail(h)
          /\ UNCHANGED <<hello, ex, tg, cur, made, exited, spawnFails>>

\* What Run makes of the body line of its executeModule command: any line
\* decodes into executeModuleResponse; a header line leaves Result and
\* Exception empty, which Run reports as an empty success.
BodyResult(l) ==
    CASE l.k = "hdr" -> [st |-> "empty", v |-> 0]
      [] l.k = "exc" -> [st |-> "exc", v |-> 0]
      [] OTHER -> [st |-> "ok", v |-> l.v]

\* readLine of the body.  For the hello command any line decodes into
\* helloResponse; getExecutor makes the executor current and returns it,
\* and Run starts its own command on it.
ReadBody(h) ==
    /\ pc[h] = "rbody"
    /\ CanRead(h)
    /\ \/ Eof(h)
       \/ /\ E(h).out # << >>
          /\ exec' = [exec EXCEPT ![ex[h]].out = Tail(@)]
          /\ IF hello[h]
             THEN /\ cur' = ex[h]
                  /\ hello' = [hello EXCEPT ![h] = FALSE]
                  /\ pc' = [pc EXCEPT ![h] = "start"]
                  /\ UNCHANGED res
             ELSE /\ pc' = [pc EXCEPT ![h] = "done"]
                  /\ res' = [res EXCEPT ![h] = BodyResult(Head(E(h).out))]
                  /\ UNCHANGED <<cur, hello>>
          /\ UNCHANGED <<ex, tg, made, exited, spawnFails>>

\* py_runtime of executor g answers the next two lines of its stdin; the
\* module it runs may raise.
Runtime(g) ==
    /\ g <= made
    /\ exec[g].alive
    /\ Len(exec[g].in) >= 2
    /\ LET l1 == exec[g].in[1]
           l2 == exec[g].in[2]
           ok == l1.k = "hdr" /\ l2.k = "req"
       IN \E raised \in BOOLEAN :
            /\ ok /\ l2.v = 0 => ~raised
            /\ exec' = [exec EXCEPT ![g].in = SubSeq(@, 3, Len(@)),
                          ![g].out = @ \o << [k |-> "hdr", v |-> IF l1.k = "hdr" THEN l1.v ELSE 0],
                                             IF ok /\ ~raised THEN [k |-> "body", v |-> l2.v]
                                             ELSE [k |-> "exc", v |-> 0] >>]
    /\ UNCHANGED <<pc, hello, ex, tg, cur, made, exited, spawnFails, res>>

\* The python process of executor g exits on its own (a module calling
\* os._exit, the OOM killer); what it already wrote can still be scanned.
Exit(g) ==
    /\ g <= made
    /\ exec[g].alive
    /\ exec' = [exec EXCEPT ![g].alive = FALSE]
    /\ exited' = exited \cup {g}
    /\ UNCHANGED <<pc, hello, ex, tg, cur, made, spawnFails, res>>

Done ==
    /\ \A h \in Handlers : pc[h] = "done"
    /\ UNCHANGED vars

\* The steps of handler h.
Step(h) ==
    \/ GetExecutor(h) \/ Start(h) \/ Inc(h) \/ WriteHdr(h) \/ WriteReq(h)
    \/ ReadHdr(h) \/ ReadBody(h)

Next ==
    \/ \E h \in Handlers : Step(h)
    \/ \E g \in Gens : Runtime(g) \/ Exit(g)
    \/ Done

Spec ==
    /\ Init /\ [][Next]_vars
    /\ \A g \in Gens : WF_vars(Runtime(g))
    /\ \A h \in Handlers : WF_vars(Step(h))

-----------------------------------------------------------------------------
(* Properties.                                                             *)

TypeOK ==
    /\ pc \in [Handlers -> {"idle", "start", "inc", "whdr", "wreq", "rhdr", "rbody", "done"}]
    /\ hello \in [Handlers -> BOOLEAN]
    /\ ex \in [Handlers -> 0..K]
    /\ tg \in [Handlers -> {0} \cup Tags]
    /\ exec \in [Gens -> [nextTag : Tags \cup {K + 2}, in : Seq(Line), out : Seq(Line),
                          invalid : BOOLEAN, alive : BOOLEAN]]
    /\ cur \in 0..K /\ made \in 0..K
    /\ exited \subseteq Gens /\ spawnFails \in 0..K
    /\ res \in [Handlers -> [st : {"none", "err", "exc", "empty", "ok"}, v : 0..K]]

\* At most one python process is left running by the manager: every live
\* process is m.current or the one a handler is greeting with hello.
\* getExecutor starts a process only when m.current is nil or invalid,
\* and every invalidation kills the process; a process that is neither
\* would run until the agent exits, unreachable by any later call.
OneLiveProcess ==
    \A g \in 1..made :
        exec[g].alive => g = cur \/ \E h \in Handlers : hello[h] /\ ex[h] = g

\* Every Run returns: each request is answered, or the executor is
\* invalidated and the blocked reads see EOF.
AllCommandsReturn == <>(\A h \in Handlers : pc[h] = "done")

\* A python process that dies costs at most one call: the call that meets
\* the dead process invalidates its executor, and getExecutor replaces an
\* invalid executor with a new process.  Every executor error of a call
\* is paid for by a process exit or a failed process start.
FailuresPaidByExits ==
    Cardinality({h \in Handlers : res[h].st = "err"}) <= Cardinality(exited) + spawnFails
=============================================================================
