------------------------------- MODULE Command -------------------------------
(***************************************************************************)
(* The command (and shell) module on the agent, src/modules/command/       *)
(* command.go, with the GosibleModule.RunCommand it calls                  *)
(* (src/module_utils/gosibleModule/gosible_module.go).  A behaviour is up  *)
(* to MaxCalls runs of one task on one host, the way a playbook is run     *)
(* again: every call gets a fresh module, the host's file system persists. *)
(* The started process is a second actor: it exits (and, when it exits 0, *)
(* has had its effect on the file F) at any point after Start, racing the *)
(* module's write of stdin.                                                *)
(***************************************************************************)
EXTENDS Naturals

CONSTANT MaxCalls    \* runs of the task in one behaviour

VARIABLES
    params,     \* the task's arguments (the same on every run)
    fs,         \* the paths among {"F"} that exist on the host
    pc,         \* where the current call is
    proc,       \* the process of the current call: "none", "running", "exited"
    exit,       \* its exit code once it exited
    ret,        \* the module's Return: [failed, rc]
    calls,      \* runs of the task so far
    okDone,     \* some run of the task exited 0
    rerunOk     \* a process was started after a run had exited 0

vars == <<params, fs, pc, proc, exit, ret, calls, okDone, rerunOk>>

\* cmd is Params.Cmd (or FreeForm): "none" is "", "blank" only spaces,
\* "unbalanced" an unclosed quote.  argv "nil" is a nil slice, "empty" []string{}.
\* prog says whether the command's first word is an absolute path or a bare name.
ParamSpace ==
    [decodes : BOOLEAN, cmd : {"none", "word", "blank", "unbalanced"},
     argv : {"nil", "empty", "word"}, prog : {"abs", "bare"}, shell : BOOLEAN,
     warn : BOOLEAN, creates : {"", "F"}, removes : {"", "F"},
     chdir : {"", "dir", "nodir"}, stdin : BOOLEAN, effect : {"touch", "rm", "none"}]

NewReturn == [failed |-> FALSE, rc |-> 0]

\* getCommand/getArgs: the string command when set, else the argv slice.
CmdSet(p) == p.cmd # "none"
ArgvSet(p) == p.argv # "nil"

Fail == ret' = [ret EXCEPT !.failed = TRUE] /\ pc' = "done"

Init ==
    /\ params \in ParamSpace
    /\ fs \in SUBSET {"F"}
    /\ pc = "parse"
    /\ proc = "none"
    /\ exit = 0
    /\ ret = NewReturn
    /\ calls = 1
    /\ okDone = FALSE
    /\ rerunOk = FALSE

\* Run: ParseParams; a decode error is returned as a failed Return.
ParseParams ==
    /\ pc = "parse"
    /\ IF params.decodes THEN pc' = "prereq" /\ UNCHANGED ret ELSE Fail
    /\ UNCHANGED <<params, fs, proc, exit, calls, okDone, rerunOk>>

\* checkCommand (warn): shlex.Split of the string, then element 0 of the split
\* or of the argv slice; a nil or empty slice panics the agent.
CheckCommandPanics(p) ==
    IF CmdSet(p) THEN p.cmd = "blank" ELSE p.argv \in {"nil", "empty"}
CheckCommandFails(p) == CmdSet(p) /\ p.cmd = "unbalanced"

\* Mutant: the creates check is lost (a stat error taken for "absent").
checkPrerequisitesNoCreates ==
    /\ pc = "prereq"
    /\ IF params.warn /\ CheckCommandPanics(params)
          THEN pc' = "panic" /\ UNCHANGED ret
       ELSE IF \/ params.warn /\ CheckCommandFails(params)
               \/ params.removes # "" /\ params.removes \notin fs
               \/ CmdSet(params) = ArgvSet(params)
          THEN Fail
       ELSE pc' = "getcmd" /\ UNCHANGED ret
    /\ UNCHANGED <<params, fs, proc, exit, calls, okDone, rerunOk>>

\* checkPrerequisites: warn, removes, creates, then exactly one of cmd/argv.
checkPrerequisites ==
    /\ pc = "prereq"
    /\ IF params.warn /\ CheckCommandPanics(params)
          THEN pc' = "panic" /\ UNCHANGED ret
       ELSE IF \/ params.warn /\ CheckCommandFails(params)
               \/ params.removes # "" /\ params.removes \notin fs
               \/ params.creates # "" /\ params.creates \in fs
               \/ CmdSet(params) = ArgvSet(params)
          THEN Fail
       ELSE pc' = "getcmd" /\ UNCHANGED ret
    /\ UNCHANGED <<params, fs, proc, exit, calls, okDone, rerunOk>>

\* RunCommand's getCmd: getArgs wraps the command in /bin/sh -c under the
\* shell, else shlex-splits a string; getCmdHelper takes args[0] (a panic on
\* an empty list) and then checks that chdir is a directory.
getCmd ==
    /\ pc = "getcmd"
    /\ LET noArgs == ~params.shell /\ IF CmdSet(params) THEN params.cmd = "blank"
                                                      ELSE params.argv = "empty"
           splitErr == ~params.shell /\ CmdSet(params) /\ params.cmd = "unbalanced"
       IN IF splitErr THEN Fail
          ELSE IF noArgs THEN pc' = "panic" /\ UNCHANGED ret
          ELSE IF params.chdir = "nodir" THEN Fail
          ELSE pc' = "start" /\ UNCHANGED ret
    /\ UNCHANGED <<params, fs, proc, exit, calls, okDone, rerunOk>>

\* cmd.Start: exec.Cmd with Path = args[0] and no PATH lookup, so a bare
\* program name fails to start unless it runs under the shell.
Start ==
    /\ pc = "start"
    /\ IF ~params.shell /\ params.prog = "bare"
          THEN Fail /\ UNCHANGED <<proc, rerunOk>>
          ELSE /\ proc' = "running"
               /\ rerunOk' = (rerunOk \/ okDone)
               /\ pc' = IF params.stdin THEN "write" ELSE "wait"
               /\ UNCHANGED ret
    /\ UNCHANGED <<params, fs, exit, calls, okDone>>

\* The process runs to its end: a zero exit has done what the command does.
ProcessExits ==
    /\ proc = "running"
    /\ \E rc \in {0, 1} :
         /\ exit' = rc
         /\ fs' = IF rc = 0 /\ params.effect = "touch" THEN fs \cup {"F"}
                  ELSE IF rc = 0 /\ params.effect = "rm" THEN fs \ {"F"}
                  ELSE fs
         /\ okDone' = (okDone \/ rc = 0)
    /\ proc' = "exited"
    /\ UNCHANGED <<params, pc, ret, calls, rerunOk>>

\* stdinPipe.Write of Data (stdin plus a newline) and Close: once the process
\* has exited the pipe has no reader, the write fails with EPIPE and
\* RunCommand returns that error without waiting for the process.
WriteStdin ==
    /\ pc = "write"
    /\ IF proc = "exited" THEN Fail ELSE pc' = "wait" /\ UNCHANGED ret
    /\ UNCHANGED <<params, fs, proc, exit, calls, okDone, rerunOk>>

\* readOutput to EOF, then cmd.Wait: a non-zero exit is an ExitError that
\* waitError turns into a result with that rc and a nil error (CheckRc is
\* off); runCommand then UpdateReturns rc, stdout and stderr.
Wait ==
    /\ pc = "wait"
    /\ proc = "exited"
    /\ ret' = [ret EXCEPT !.rc = exit]
    /\ pc' = "done"
    /\ UNCHANGED <<params, fs, proc, exit, calls, okDone, rerunOk>>

\* The task runs again: a fresh module, the same arguments, the same host.
Rerun ==
    /\ pc = "done"
    /\ calls < MaxCalls
    /\ calls' = calls + 1
    /\ pc' = "parse"
    /\ proc' = "none"
    /\ exit' = 0
    /\ ret' = NewReturn
    /\ UNCHANGED <<params, fs, okDone, rerunOk>>

\* The last run has returned, or the agent died of a panic.
Finished ==
    /\ \/ pc = "done" /\ calls = MaxCalls
       \/ pc = "panic"
    /\ UNCHANGED vars

Next ==
    \/ ParseParams \/ checkPrerequisites \/ getCmd \/ Start \/ ProcessExits
    \/ WriteStdin \/ Wait \/ Rerun \/ Finished

Spec == Init /\ [][Next]_vars /\ WF_vars(Next)

TypeOK ==
    /\ params \in ParamSpace
    /\ fs \subseteq {"F"}
    /\ pc \in {"parse", "prereq", "getcmd", "start", "write", "wait", "done", "panic"}
    /\ proc \in {"none", "running", "exited"}
    /\ exit \in {0, 1}
    /\ ret \in [failed : BOOLEAN, rc : {0, 1}]
    /\ calls \in 1..MaxCalls
    /\ okDone \in BOOLEAN
    /\ rerunOk \in BOOLEAN

\* A task guarded by creates (removes) whose command creates (removes) that
\* path is idempotent: once a run of it exited 0, checkPrerequisites stops
\* every later run before the process starts.
Guarded(p) == \/ p.creates = "F" /\ p.effect = "touch"
              \/ p.removes = "F" /\ p.effect = "rm"

RunsOnceWhenGuarded == Guarded(params) => ~rerunOk

=============================================================================
