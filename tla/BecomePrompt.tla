---------------------------- MODULE BecomePrompt ----------------------------
(***************************************************************************)
(* connection.StartBecome (src/connection/connection.go): the controller   *)
(* starts the become command (sudo or su, src/plugins/become) on an ssh    *)
(* session and reads the session's stderr until it sees the success       *)
(* marker or the password prompt; after a prompt it writes the password    *)
(* and reads on until the marker.                                         *)
(*                                                                         *)
(* Bytes are abstracted to symbols: the marker BECOME-SUCCESS-<id> is      *)
(* Success, the prompt is Prompt, "Z" is a zero byte of the fresh buffer.  *)
(* The remote program writes whole messages; the ssh transport hands them *)
(* to the channel buffer in packets of any size (delivered), and           *)
(* Stderr.Read returns min(len(buffer), bytes delivered and unread).       *)
(***************************************************************************)
EXTENDS Naturals, Sequences

CONSTANTS
    Method,       \* "sudo" or "su": becomeArgs.Method
    HasPassword,  \* becomeArgs.Password # ""
    Remotes       \* what the remote program does, \subseteq RemoteKinds

\* nopass: no password is asked (NOPASSWD, cached, or su run by root);
\* right / wrong: a password is asked and the configured one is right / wrong.
RemoteKinds == {"nopass", "right", "wrong"}

ASSUME Method \in {"sudo", "su"} /\ HasPassword \in BOOLEAN /\ Remotes \subseteq RemoteKinds

VARIABLES
    remote,     \* the remote program's behaviour, chosen once
    rpc,        \* the remote program: "none" | "start" | "wait" | "run" | "exit"
    errOut,     \* every byte the remote program wrote to stderr
    delivered,  \* how many of them reached the channel buffer
    rd,         \* how many of them Stderr.Read returned
    buffer,     \* the controller's read buffer
    output,     \* the controller's accumulated output
    phase,      \* StartBecome: "idle" | "loop1" | "loop2" | "ok" | "err"
    stdin       \* a password line written and not yet read by the remote

becomeVars == <<remote, rpc, errOut, delivered, rd, buffer, output, phase, stdin>>

Success == <<"M1", "M2">>
Prompt == IF Method = "sudo" THEN <<"P1", "P2", "P3", "P4">> ELSE <<"P1", "P2">>
Failure == <<"F", "NL">>

\* BuildBecomeCommand's saveOutputReadLen: len(success)+1 for sudo, 1 for su.
BufLen == IF Method = "sudo" THEN Len(Success) + 1 ELSE 1

\* sudo sets its prompt only when a password is given; su always does.
\* GetOption("become_pass") returns a string, never nil, so ExpectPrompt is
\* "the prompt is set".
ExpectPrompt == Method = "su" \/ HasPassword

\* w occurs in o.  Base.CheckSuccess and CheckPasswordPrompt test each
\* line, su's CheckPasswordPrompt the whole output; neither word holds a
\* line break, so the two tests agree.
HasInfix(o, w) == \E i \in 1..(Len(o) + 1 - Len(w)) : SubSeq(o, i, i + Len(w) - 1) = w
CheckSuccess(o) == HasInfix(o, Success)
CheckPasswordPrompt(o) == HasInfix(o, Prompt)

BecomeInit ==
    /\ remote \in Remotes
    /\ rpc = "none"
    /\ errOut = << >>
    /\ delivered = 0
    /\ rd = 0
    /\ buffer = [i \in 1..BufLen |-> "Z"]
    /\ output = << >>
    /\ phase = "idle"
    /\ stdin = FALSE

\* session.Start(becomeCmd); without an expected prompt StartBecome
\* returns at once.
StartCmd ==
    /\ phase = "idle"
    /\ rpc' = "start"
    /\ phase' = IF ExpectPrompt THEN "loop1" ELSE "ok"
    /\ UNCHANGED <<remote, errOut, delivered, rd, buffer, output, stdin>>

\* The remote program starts: it prints the marker and runs the command
\* (echo MARKER >&2; cmd) or prints its prompt and waits for a line.
RemoteStart ==
    /\ rpc = "start"
    /\ \/ remote = "nopass" /\ rpc' = "run" /\ errOut' = errOut \o Success \o <<"NL">>
       \/ remote # "nopass" /\ rpc' = "wait" /\ errOut' = errOut \o Prompt
    /\ UNCHANGED <<remote, delivered, rd, buffer, output, phase, stdin>>

\* The remote program reads the password line.  Right: marker, then the
\* command.  Wrong: sudo prints "Sorry, try again." and prompts again; su
\* prints "Authentication failure" and exits.  An empty password is wrong.
RemoteAuth ==
    /\ rpc = "wait"
    /\ stdin
    /\ stdin' = FALSE
    /\ IF remote = "right" /\ HasPassword
       THEN rpc' = "run" /\ errOut' = errOut \o Success \o <<"NL">>
       ELSE IF Method = "sudo"
            THEN rpc' = "wait" /\ errOut' = errOut \o Failure \o Prompt
            ELSE rpc' = "exit" /\ errOut' = errOut \o Failure
    /\ UNCHANGED <<remote, delivered, rd, buffer, output, phase>>

\* The ssh transport delivers the next packet: any nonempty part of what
\* was written and not yet delivered.
Deliver ==
    /\ delivered < Len(errOut)
    /\ \E k \in (delivered + 1)..Len(errOut) : delivered' = k
    /\ UNCHANGED <<remote, rpc, errOut, rd, buffer, output, phase, stdin>>

LoopGoesOn ==
    IF phase = "loop1" THEN ~CheckSuccess(output) /\ ~CheckPasswordPrompt(output)
                       ELSE ~CheckSuccess(output)

\* pipes.Stderr.Read(buffer) then output = append(output, buffer...): the
\* whole buffer is appended, the bytes a short read did not overwrite too.
Read ==
    /\ phase \in {"loop1", "loop2"}
    /\ LoopGoesOn
    /\ rd < delivered
    /\ LET n == IF delivered - rd < BufLen THEN delivered - rd ELSE BufLen
           b == [i \in 1..BufLen |-> IF i <= n THEN errOut[rd + i] ELSE buffer[i]]
       IN /\ buffer' = b
          /\ output' = output \o b
          /\ rd' = rd + n
    /\ UNCHANGED <<remote, rpc, errOut, delivered, phase, stdin>>

\* Read returns io.EOF once the program exited and its output was read.
ReadEof ==
    /\ phase \in {"loop1", "loop2"}
    /\ LoopGoesOn
    /\ rpc = "exit" /\ rd = Len(errOut)
    /\ phase' = "err"
    /\ UNCHANGED <<remote, rpc, errOut, delivered, rd, buffer, output, stdin>>

\* Mutant of Loop1Exit: the end of the first loop is taken for success.
Loop1ExitReturns ==
    /\ phase = "loop1"
    /\ ~LoopGoesOn
    /\ phase' = "ok"
    /\ UNCHANGED <<remote, rpc, errOut, delivered, rd, buffer, output, stdin>>

\* The first loop ends: on the marker StartBecome returns the pipes; on the
\* prompt it writes the password, clears the output and reads on.
Loop1Exit ==
    /\ phase = "loop1"
    /\ ~LoopGoesOn
    /\ IF CheckSuccess(output)
       THEN phase' = "ok" /\ UNCHANGED <<output, stdin>>
       ELSE phase' = "loop2" /\ stdin' = TRUE /\ output' = << >>
    /\ UNCHANGED <<remote, rpc, errOut, delivered, rd, buffer>>

Loop2Exit ==
    /\ phase = "loop2"
    /\ ~LoopGoesOn
    /\ phase' = "ok"
    /\ UNCHANGED <<remote, rpc, errOut, delivered, rd, buffer, output, stdin>>

\* The ssh session breaks: Read (or the password Write) returns an error.
Broken ==
    /\ phase \in {"loop1", "loop2"}
    /\ phase' = "err"
    /\ UNCHANGED <<remote, rpc, errOut, delivered, rd, buffer, output, stdin>>

\* The controller's steps and the remote's, without session.Start.
Reader == Read \/ ReadEof \/ Loop1Exit \/ Loop2Exit
RemoteSide == RemoteStart \/ RemoteAuth \/ Deliver

BecomeTypeOK ==
    /\ remote \in RemoteKinds
    /\ rpc \in {"none", "start", "wait", "run", "exit"}
    /\ delivered \in 0..Len(errOut) /\ rd \in 0..delivered
    /\ buffer \in [1..BufLen -> {"Z", "M1", "M2", "P1", "P2", "P3", "P4", "F", "NL"}]
    /\ phase \in {"idle", "loop1", "loop2", "ok", "err"}
    /\ stdin \in BOOLEAN

=============================================================================
