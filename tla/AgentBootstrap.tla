--------------------------- MODULE AgentBootstrap ---------------------------
(***************************************************************************)
(* Starting the remote agent on one machine: remote.Execute               *)
(* (src/remote/handler.go) run by several sessions that reach the same    *)
(* machine, one after the other (successive runs) or at the same time      *)
(* (hosts of one play that alias one machine, or two controllers).        *)
(*                                                                         *)
(* A session without a become user probes the content-addressed           *)
(* directory (gatherSystemInfo), reuses gosible_client when the probe saw *)
(* it, and otherwise uploads gosible_client_tmp; the agent renames itself *)
(* to gosible_client when it starts (renameSelf).  A session with a       *)
(* become user takes the legacy path: a fresh mktemp directory and an     *)
(* upload every time.  The remote files are what the sessions share.     *)
(*                                                                         *)
(* SendFile to an existing gosible_client_tmp fails: the file is created  *)
(* with mode 0555 (the FIXME in ssh.go SendFile).                          *)
(*                                                                         *)
(* A become session starts the agent through StartBecome (BecomePrompt):  *)
(* the reader of at most one such session is modelled.                     *)
(***************************************************************************)
EXTENDS Naturals, FiniteSets

CONSTANTS
    Sessions,   \* bootstrap attempts against the machine
    Legacy,     \* the attempts with a become user, \subseteq Sessions
    Faults,     \* the failures that may happen, \subseteq FaultKinds
    Become,     \* the attempt with becomeArgs.Become, \subseteq Sessions
    Method, HasPassword, Remotes   \* its become plugin, see BecomePrompt

\* net: an ssh command or transfer fails; dial: grpc.DialContext times out
\* after the agent started; crash: the controller process dies; rename:
\* the agent's renameSelf fails (os.Executable, or a become user without
\* write access to the directory).
FaultKinds == {"net", "dial", "crash", "rename"}

ASSUME Legacy \subseteq Sessions /\ Faults \subseteq FaultKinds
ASSUME Become \subseteq Sessions /\ Cardinality(Become) <= 1

VARIABLES
    pc,         \* pc[s]: the step of session s
    path,       \* path[s]: the file session s runs: "bin", "tmp" or "legacy"
    bin,        \* gosible_client exists in the content-addressed directory
    tmp,        \* gosible_client_tmp there: "absent" | "partial" | "full"
    remote, rpc, errOut, delivered, rd, buffer, output, phase, stdin

BP == INSTANCE BecomePrompt

becomeVars == <<remote, rpc, errOut, delivered, rd, buffer, output, phase, stdin>>

vars == <<pc, path, bin, tmp, becomeVars>>

Pcs == {"idle", "send", "sending", "exec", "become", "up", "failed", "crashed"}
Finished(s) == pc[s] \in {"up", "failed", "crashed"}

Init ==
    /\ pc = [s \in Sessions |-> "idle"]
    /\ path = [s \in Sessions |-> "none"]
    /\ bin \in BOOLEAN
    /\ tmp = "absent"
    /\ BP!BecomeInit

\* Session s returns an error from remote.Execute.
Fail(s) == pc' = [pc EXCEPT ![s] = "failed"]

Goto(s, l) == pc' = [pc EXCEPT ![s] = l]

-----------------------------------------------------------------------------

\* Mutant of Probe: the directory, not the binary in it, is the path run.
ProbeUsesDir(s) ==
    /\ pc[s] = "idle"
    /\ s \notin Legacy
    /\ IF bin THEN path' = [path EXCEPT ![s] = "dir"] /\ Goto(s, "exec")
              ELSE path' = [path EXCEPT ![s] = "tmp"] /\ Goto(s, "send")
    /\ UNCHANGED <<bin, tmp, becomeVars>>

\* gatherSystemInfo and the first half of sendToRemote: one ssh command
\* prints Dir= and HasRunner=1 when gosible_client exists (and creates the
\* directory).  The command may fail, which fails the session.
Probe(s) ==
    /\ pc[s] = "idle"
    /\ s \notin Legacy
    /\ \/ /\ "net" \in Faults
          /\ Fail(s)
          /\ UNCHANGED path
       \/ IF bin THEN path' = [path EXCEPT ![s] = "bin"] /\ Goto(s, "exec")
                 ELSE path' = [path EXCEPT ![s] = "tmp"] /\ Goto(s, "send")
    /\ UNCHANGED <<bin, tmp, becomeVars>>

\* sendToRemoteLegacy: getDirPathLegacy runs mktemp -d over ssh; the binary
\* always goes to the fresh directory.
LegacyDir(s) ==
    /\ pc[s] = "idle"
    /\ s \in Legacy
    /\ \/ /\ "net" \in Faults
          /\ Fail(s)
          /\ UNCHANGED path
       \/ /\ path' = [path EXCEPT ![s] = "legacy"]
          /\ Goto(s, "send")
    /\ UNCHANGED <<bin, tmp, becomeVars>>

\* Mutant of SendStart: an upload waits for an existing target to go away.
SendStartBlocks(s) ==
    /\ pc[s] = "send"
    /\ path[s] = "tmp" => tmp = "absent"
    /\ Goto(s, "sending")
    /\ tmp' = IF path[s] = "tmp" THEN "partial" ELSE tmp
    /\ UNCHANGED <<path, bin, becomeVars>>

\* SendFile: scp creates the target with mode 0555, which fails when
\* gosible_client_tmp is already there; the fresh legacy directory is empty.
SendStart(s) ==
    /\ pc[s] = "send"
    /\ IF path[s] = "tmp" /\ tmp # "absent"
       THEN Fail(s) /\ UNCHANGED tmp
       ELSE /\ Goto(s, "sending")
            /\ tmp' = IF path[s] = "tmp" THEN "partial" ELSE tmp
    /\ UNCHANGED <<path, bin, becomeVars>>

\* The copy completes.
SendDone(s) ==
    /\ pc[s] = "sending"
    /\ Goto(s, "exec")
    /\ tmp' = IF path[s] = "tmp" THEN "full" ELSE tmp
    /\ UNCHANGED <<path, bin, becomeVars>>

\* The copy breaks off; what was written stays.
SendBreak(s) ==
    /\ pc[s] = "sending"
    /\ "net" \in Faults
    /\ Fail(s)
    /\ UNCHANGED <<path, bin, tmp, becomeVars>>

\* renameSelf in the agent's main: a binary started as gosible_client_tmp
\* renames itself to gosible_client, replacing one that is there; main
\* drops its error and serves on.
RenameSelf(s) ==
    IF path[s] = "tmp"
    THEN \/ bin' = TRUE /\ tmp' = "absent"
         \/ "rename" \in Faults /\ UNCHANGED <<bin, tmp>>
    ELSE UNCHANGED <<bin, tmp>>

\* Mutant of Exec: the agent does not recognise its temporary name.
ExecNoRename(s) ==
    /\ pc[s] = "exec"
    /\ s \notin Become
    /\ \/ Goto(s, "up")
       \/ "dial" \in Faults /\ Fail(s)
    /\ UNCHANGED <<path, bin, tmp, becomeVars>>

\* execute: ExecInteractiveCommand starts the file over ssh (which may
\* fail), the agent renames itself, and grpc.DialContext with WithBlock
\* waits up to grpcDialTimeout for it.  The file started is always
\* complete: only the session that uploaded gosible_client_tmp starts or
\* renames it, since any other upload to it fails.
Exec(s) ==
    /\ pc[s] = "exec"
    /\ s \notin Become
    /\ \/ /\ "net" \in Faults
          /\ Fail(s)
          /\ UNCHANGED <<bin, tmp>>
       \/ /\ RenameSelf(s)
          /\ \/ Goto(s, "up")
             \/ "dial" \in Faults /\ Fail(s)
    /\ UNCHANGED <<path, becomeVars>>

\* ExecInteractiveCommand with becomeArgs.Become: the ssh session (which
\* may fail) runs StartBecome, which starts the become command.
ExecBecome(s) ==
    /\ pc[s] = "exec"
    /\ s \in Become
    /\ \/ /\ "net" \in Faults
          /\ Fail(s)
          /\ UNCHANGED becomeVars
       \/ /\ BP!StartCmd
          /\ Goto(s, "become")
    /\ UNCHANGED <<path, bin, tmp>>

\* StartBecome reads the session's stderr; the ssh session may break.
BecomeRead(s) ==
    /\ pc[s] = "become"
    /\ \/ BP!Reader
       \/ "net" \in Faults /\ BP!Broken
    /\ UNCHANGED <<pc, path, bin, tmp>>

\* The become program on the machine; the agent it runs once
\* authenticated renames itself (renameSelf).
BecomeRemote(s) ==
    /\ pc[s] = "become"
    /\ BP!RemoteSide
    /\ IF rpc' = "run" /\ rpc # "run" THEN RenameSelf(s) ELSE UNCHANGED <<bin, tmp>>
    /\ UNCHANGED <<pc, path>>

\* StartBecome returned: an error ends the attempt (the session function
\* returns it through done), the pipes go on to grpc.DialContext.
BecomeDone(s) ==
    /\ pc[s] = "become"
    /\ \/ phase = "err" /\ Fail(s)
       \/ phase = "ok" /\ Goto(s, "up")
       \/ phase = "ok" /\ "dial" \in Faults /\ Fail(s)
    /\ UNCHANGED <<path, bin, tmp, becomeVars>>

\* The controller dies: every session in flight stops where it is.  The
\* sessions still idle are the attempts of a later run.
Crash ==
    /\ "crash" \in Faults
    /\ \E s \in Sessions : pc[s] \in {"send", "sending", "exec", "become"}
    /\ pc' = [s \in Sessions |->
                IF pc[s] \in {"send", "sending", "exec", "become"} THEN "crashed" ELSE pc[s]]
    /\ UNCHANGED <<path, bin, tmp, becomeVars>>

Done ==
    /\ \A s \in Sessions : Finished(s)
    /\ UNCHANGED vars

\* remote.Execute: sendToRemote, then execute.
BecomeStep(s) == ExecBecome(s) \/ BecomeRead(s) \/ BecomeRemote(s) \/ BecomeDone(s)

Next ==
    \/ \E s \in Sessions :
          \/ Probe(s) \/ LegacyDir(s) \/ SendStart(s) \/ SendDone(s) \/ SendBreak(s)
          \/ Exec(s) \/ BecomeStep(s)
    \/ Crash
    \/ Done

\* Each session's goroutine is scheduled, the remote program runs and the
\* ssh transport delivers what was written; failures are never forced.
Spec ==
    /\ Init /\ [][Next]_vars
    /\ \A s \in Sessions :
          /\ WF_vars(Probe(s) \/ LegacyDir(s) \/ SendStart(s) \/ SendDone(s) \/ Exec(s))
          /\ WF_vars(ExecBecome(s))
          /\ WF_vars(pc[s] = "become" /\ BP!Reader /\ UNCHANGED <<pc, path, bin, tmp>>)
          /\ WF_vars(BecomeRemote(s))
          /\ WF_vars(BecomeDone(s))

-----------------------------------------------------------------------------
(* Properties.                                                             *)

TypeOK ==
    /\ pc \in [Sessions -> Pcs]
    /\ path \in [Sessions -> {"none", "bin", "tmp", "legacy"}]
    /\ bin \in BOOLEAN
    /\ tmp \in {"absent", "partial", "full"}
    /\ BP!BecomeTypeOK

\* The machine is wedged when gosible_client is missing and a
\* gosible_client_tmp is left that no session is going to start: every
\* later probe misses the runner and every later upload fails on the
\* existing file, so no session to this machine can come up again.
Wedged ==
    /\ ~bin
    /\ tmp # "absent"
    /\ ~\E s \in Sessions : pc[s] \in {"sending", "exec"} /\ path[s] = "tmp"

\* Spec 4.4: a failed bootstrap leaves the next attempt unimpeded; the
\* rename of the uploaded binary keeps the probe idempotent.
NeverWedged == ~Wedged

\* Every attempt ends, up or failed, whatever fails: the dial timeout
\* bounds the wait for an agent that does not answer.
AllAttemptsEnd == <>(\A s \in Sessions : Finished(s))

\* Spec S5: after a session came up over the content-addressed path the
\* runner is at that path for the next probe (when renameSelf does not
\* fail: main ignores its error, see README).
InstalledAfterUp == \A s \in Sessions : pc[s] = "up" /\ path[s] \in {"bin", "tmp"} => bin


\* StartBecome hands the pipes on (and the session dials the agent) only
\* once the become program has authenticated and runs the command, and no
\* password line is left for the command to read: the marker, not the
\* prompt, ends the reading when a prompt is expected.
AuthenticatedBeforeUp ==
    phase = "ok" /\ BP!ExpectPrompt => rpc = "run" /\ ~stdin

=============================================================================
