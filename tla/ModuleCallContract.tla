------------------------- MODULE ModuleCallContract -------------------------
(***************************************************************************)
(* What a caller of ExecuteRemoteModuleTask may rely on: calls are made    *)
(* and answered one after the other; the module of a call is executed at   *)
(* most once, possibly after its caller stopped waiting; an answer is      *)
(* either an error or the outcome of that execution.                       *)
(***************************************************************************)
EXTENDS Naturals

CONSTANT N

VARIABLES
    executed,   \* executed[c]: "no", or the outcome of the module's run
    result,     \* result[c]: "none", "err", or the outcome the caller got
    next        \* the call being made; N + 1 once all are answered

Calls == 1..N

Init ==
    /\ executed = [c \in Calls |-> "no"]
    /\ result = [c \in Calls |-> "none"]
    /\ next = 1

\* The module of a call already made runs, once.
Execute(c) ==
    /\ c <= next
    /\ executed[c] = "no"
    /\ \E o \in {"ok", "failed"} : executed' = [executed EXCEPT ![c] = o]
    /\ UNCHANGED <<result, next>>

\* The current call is answered: an error, or its module's outcome.
Answer ==
    /\ next <= N
    /\ \E a \in {"err"} \cup (IF executed[next] = "no" THEN {} ELSE {executed[next]}) :
          result' = [result EXCEPT ![next] = a]
    /\ next' = next + 1
    /\ UNCHANGED executed

Next == (\E c \in Calls : Execute(c)) \/ Answer

Spec == Init /\ [][Next]_<<executed, result, next>>
=============================================================================
