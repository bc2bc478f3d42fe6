--------------------------- MODULE ServiceModule ---------------------------
(***************************************************************************)
(* One call of the service module on a Linux host: Module.Run             *)
(* (src/modules/service/service.go) over baseService                       *)
(* (base_service.go) and linuxService (linux_service.go).  The module is  *)
(* created fresh for every call and runs sequentially.                    *)
(*                                                                         *)
(* The host is what getServiceTools finds (its init system and tools) and *)
(* the service itself (running, crashed, enabled).  A command the module  *)
(* runs either exits 0 and takes effect ("ok"), exits non-zero with a     *)
(* message on stderr ("rc"), or cannot be started ("err": RunCommand      *)
(* returns a nil result and an error).  The status commands follow the    *)
(* LSB exit codes, so getServiceStatus's heuristics read them right.      *)
(***************************************************************************)
EXTENDS Naturals

CONSTANTS
    Hosts,     \* the hosts tried: records of HostKinds
    States,    \* the state parameters tried, \subseteq StateOpts \cup {""}
    Enables    \* the enabled parameters tried, \subseteq {"unset", "yes", "no"}

StateOpts == {"started", "stopped", "reloaded", "restarted"}
\* init: the service manager checkSystemd and getEnableAndSvcCmd find;
\* sysvTool: the first of update-rc.d, insserv, chkconfig installed ("" if
\* none); serviceBin: the service binary; initScript: /etc/init.d/<name>.
HostKinds == [init : {"systemd", "upstart", "openrc", "sysv", "none"},
              sysvTool : {"update-rc.d", "insserv", "chkconfig", ""},
              serviceBin : BOOLEAN, initScript : BOOLEAN]
Outcomes == {"ok", "rc", "err"}

ASSUME Hosts \subseteq HostKinds /\ States \subseteq StateOpts \cup {""}
ASSUME Enables \subseteq {"unset", "yes", "no"}

VARIABLES
    params,    \* state, enabled, pattern given
    env,       \* the host's tools
    svc,       \* the service on the host: running, crashed, enabled
    pc,        \* the step of Run
    running,   \* basicServiceSharedState.running: "nil", "true" or "false"
    crashed,   \* linuxService.crashed
    ret        \* failed, panicked (a nil result dereferenced)

vars == <<params, env, svc, pc, running, crashed, ret>>

Pcs == {"parse", "tools", "enable", "status", "changed", "modify", "return", "done"}

Init ==
    /\ params \in [state : States, enabled : Enables, pattern : BOOLEAN]
    /\ env \in Hosts
    /\ svc \in [running : BOOLEAN, crashed : BOOLEAN, enabled : BOOLEAN]
    /\ ~(svc.running /\ svc.crashed)
    /\ pc = "parse"
    /\ running = "nil"
    /\ crashed = FALSE
    /\ ret = [failed |-> FALSE, panicked |-> FALSE]

\* getEnableAndSvcCmd: the service control command and the enable command.
SvcCmd0 ==
    CASE env.init = "systemd" -> "systemctl"
      [] env.init = "openrc" -> "rc-service"
      [] OTHER -> ""
EnableCmd ==
    CASE env.init = "systemd" -> "systemctl"
      [] env.init = "upstart" -> "initctl"
      [] env.init = "openrc" -> "rc-service"
      [] env.init = "sysv" /\ env.initScript -> env.sysvTool
      [] OTHER -> ""
\* getServiceTools falls back to the service binary, after it returned
\* early when there is no enable command.
SvcCmd == IF SvcCmd0 = "" /\ EnableCmd # "" /\ env.serviceBin THEN "service" ELSE SvcCmd0

isTrue(r) == r = "true"
Ptr(b) == IF b THEN "true" ELSE "false"

Fail == pc' = "done" /\ ret' = [ret EXCEPT !.failed = TRUE]
Panic == pc' = "done" /\ ret' = [ret EXCEPT !.panicked = TRUE]

\* ParseParams: Params.Validate.
ParseParams ==
    /\ pc = "parse"
    /\ IF params.state = "" /\ params.enabled = "unset"
       THEN Fail ELSE pc' = "tools" /\ UNCHANGED ret
    /\ UNCHANGED <<params, env, svc, running, crashed>>

\* getService picks newLinuxService; getServiceTools: IsRegular stats
\* /etc/init.d/<name> and returns the error of a missing file, whatever
\* the init system; with no enable command it then returns
\* ErrorIfMissing(true, ...), which is nil; otherwise it needs a control
\* command or the init script, which it has by then.
GetServiceTools ==
    /\ pc = "tools"
    /\ IF ~env.initScript THEN Fail ELSE pc' = "enable" /\ UNCHANGED ret
    /\ UNCHANGED <<params, env, svc, running, crashed>>

\* After handleServiceEnabled: without a state Run returns GetReturn().
AfterEnable == pc' = IF params.state = "" THEN "done" ELSE "status"

\* Run one enable command: it takes effect, or its error ends Run.
Toggle(en) ==
    \/ svc' = [svc EXCEPT !.enabled = en] /\ AfterEnable /\ UNCHANGED ret
    \/ Fail /\ UNCHANGED svc
Unchanged == AfterEnable /\ UNCHANGED <<svc, ret>>

\* systemdServiceEnable and getSystemdServiceEnabled: `systemctl
\* is-enabled` exits 0 for an enabled unit and prints "disabled" for a
\* disabled one; any other answer (static, masked) goes to sysvExists,
\* which calls access(2) on the bare unit name and fails with ENOENT.
SystemdServiceEnable(en) ==
    \/ IF en = svc.enabled THEN Unchanged ELSE Toggle(en)
    \/ ~svc.enabled /\ Fail /\ UNCHANGED svc

\* initctlServiceEnable: reads <name>.conf (a "manual" stanza there is an
\* error) and adds or removes the manual stanza of <name>.override.
InitctlServiceEnable(en) ==
    \/ svc' = [svc EXCEPT !.enabled = en] /\ AfterEnable /\ UNCHANGED ret
    \/ Fail /\ UNCHANGED svc

\* sysvServiceEnable: `chkconfig --list <name>` prints the service's name,
\* and an output holding the name is taken for "does not support
\* chkconfig".
SysvServiceEnable(en) == Fail /\ UNCHANGED svc

\* updateRcDStyleServiceEnable and insservServiceEnable: the S links (or
\* insserv's dry run) tell whether a change is needed; `update-rc.d <name>
\* defaults` / `enable` / `disable`, or insserv [-r] <name>.
UpdateRcDStyleServiceEnable(en) == IF en = svc.enabled THEN Unchanged ELSE Toggle(en)
InsservServiceEnable(en) == IF en = svc.enabled THEN Unchanged ELSE Toggle(en)

\* serviceEnable picks the method whose name ends the enable command; for
\* OpenRC the enable command is rc-service, which no method matches, so
\* nothing runs and no error is returned.
ServiceEnable(en) ==
    CASE EnableCmd = "" -> Fail /\ UNCHANGED svc
      [] EnableCmd = "systemctl" -> SystemdServiceEnable(en)
      [] EnableCmd = "initctl" -> InitctlServiceEnable(en)
      [] EnableCmd = "chkconfig" -> SysvServiceEnable(en)
      [] EnableCmd = "update-rc.d" -> UpdateRcDStyleServiceEnable(en)
      [] EnableCmd = "insserv" -> InsservServiceEnable(en)
      [] OTHER -> Unchanged

\* handleServiceEnabled.
HandleServiceEnabled ==
    /\ pc = "enable"
    /\ IF params.enabled = "unset" THEN Unchanged ELSE ServiceEnable(params.enabled = "yes")
    /\ UNCHANGED <<params, env, running, crashed>>

\* checkPs: GetBinPath("ps", nil, true) fails when ps is missing; when
\* `ps auxww` exits 0 running is whether a line holds the pattern, when it
\* exits non-zero running stays nil, and when it cannot be started the nil
\* result's Rc is read.
CheckPs ==
    \/ running' = Ptr(svc.running) /\ pc' = "changed" /\ UNCHANGED <<crashed, ret>>
    \/ pc' = "changed" /\ UNCHANGED <<running, crashed, ret>>
    \/ (Fail \/ Panic) /\ UNCHANGED <<running, crashed>>

\* getSystemdServiceStatus: getSystemdStatusDict returns (nil, nil) when
\* `systemctl show` ran (it tests err == nil), so ActiveState is missing
\* and that is an error; when the command could not run it reads Rc of
\* the nil result.
GetSystemdServiceStatus == (Fail \/ Panic) /\ UNCHANGED <<running, crashed>>

\* getServiceStatus: under systemd getSystemdServiceStatus.  Otherwise serviceControl("status"), then initctl
\* or rc-service status and the exit code and output keywords.
GetServiceStatus ==
    IF SvcCmd = "systemctl"
    THEN GetSystemdServiceStatus
    ELSE \/ Fail /\ UNCHANGED <<running, crashed>>
         \/ /\ running' = Ptr(svc.running)
            /\ crashed' = (SvcCmd = "rc-service" /\ svc.crashed)
            /\ pc' = "changed"
            /\ UNCHANGED ret

\* Run with a state: checkPs when a pattern is given, else getServiceStatus.
ServiceStatus ==
    /\ pc = "status"
    /\ IF params.pattern THEN CheckPs ELSE GetServiceStatus
    /\ UNCHANGED <<params, env, svc>>

\* Mutant of CheckServiceChanged: a running service is taken for stopped.
CheckServiceChangedNoStop ==
    /\ pc = "changed"
    /\ LET state == params.state
           hasStarted == ~isTrue(running) /\ state \in {"reloaded", "started"}
           hasStopped == isTrue(running) /\ state \in {"reloaded"}
       IN pc' = IF hasStarted \/ hasStopped \/ state = "restarted" THEN "modify" ELSE "return"
    /\ UNCHANGED <<params, env, svc, running, crashed, ret>>

\* checkServiceChanged.
CheckServiceChanged ==
    /\ pc = "changed"
    /\ LET state == params.state
           hasStarted == ~isTrue(running) /\ state \in {"reloaded", "started"}
           hasStopped == isTrue(running) /\ state \in {"reloaded", "stopped"}
           hasRestarted == state = "restarted"
       IN pc' = IF hasStarted \/ hasStopped \/ hasRestarted THEN "modify" ELSE "return"
    /\ UNCHANGED <<params, env, svc, running, crashed, ret>>

\* What a control command that exits 0 does to the service.  OpenRC does
\* not start a crashed service before it is zapped.
Effect(s, action) ==
    CASE action = "start" /\ s.crashed /\ env.init = "openrc" -> s
      [] action = "start" -> [s EXCEPT !.running = TRUE, !.crashed = FALSE]
      [] action = "stop" -> [s EXCEPT !.running = FALSE]
      [] action = "restart" -> [s EXCEPT !.running = TRUE, !.crashed = FALSE]
      [] OTHER -> s

\* handleNonRestart, then Run's checkRc: a non-zero exit is an error unless
\* stderr says "Job is already running" (upstart starting a running job);
\* a command that could not run returns a nil result, which checkRc
\* dereferences.
HandleNonRestart(action, s) ==
    \E o \in Outcomes :
        CASE o = "ok" -> svc' = Effect(s, action) /\ pc' = "return" /\ UNCHANGED ret
          [] o = "rc" /\ action = "start" /\ s.running /\ env.init = "upstart" ->
                svc' = s /\ pc' = "return" /\ UNCHANGED ret
          [] o = "rc" -> svc' = s /\ Fail
          [] OTHER -> svc' = s /\ Panic

\* handleRestart: stop, then start.  An error of stop returns it; an error
\* of start returns errStop, which is nil, with a nil result.  A failed
\* stop followed by a good start returns the start's result; otherwise the
\* exit codes and the outputs are added, and checkRc lets the sum pass when
\* upstart's start said "Job is already running" (the stop had failed).
HandleRestart(s) ==
    \E o1, o2 \in Outcomes :
        LET s1 == IF o1 = "ok" THEN Effect(s, "stop") ELSE s
            s2 == IF o2 = "ok" THEN Effect(s1, "start") ELSE s1
        IN CASE o1 = "err" -> svc' = s /\ Panic
             [] o2 = "err" -> svc' = s1 /\ Panic
             [] o2 = "ok" -> svc' = s2 /\ pc' = "return" /\ UNCHANGED ret
             [] s1.running /\ env.init = "upstart" ->
                  svc' = s2 /\ pc' = "return" /\ UNCHANGED ret
             [] OTHER -> svc' = s2 /\ Fail

\* serviceControl: on OpenRC a crashed service is zapped before a start,
\* with `rc-service zap`: the service name is missing, so rc-service looks
\* for a service called zap and exits non-zero, which is ignored; only a
\* command that cannot run returns its error.  OpenRC restarts with one
\* command.
ServiceControl(action) ==
    LET zap == SvcCmd = "rc-service" /\ action = "start" /\ crashed
    IN \/ zap /\ Panic /\ UNCHANGED svc
       \/ IF action = "restart" /\ SvcCmd # "rc-service"
          THEN HandleRestart(svc)
          ELSE HandleNonRestart(action, svc)

\* modifyServiceState: a reload of a service not running starts it.
ModifyServiceState ==
    /\ pc = "modify"
    /\ LET state == params.state
           action == IF ~isTrue(running) /\ state = "reloaded" THEN "start"
                     ELSE CASE state = "started" -> "start"
                            [] state = "stopped" -> "stop"
                            [] state = "reloaded" -> "reload"
                            [] OTHER -> "restart"
       IN ServiceControl(action)
    /\ UNCHANGED <<params, env, running, crashed>>

\* addStateToReturn and Close; the local Return is never put into the
\* module's Return.
AddStateToReturn ==
    /\ pc = "return"
    /\ pc' = "done"
    /\ UNCHANGED <<params, env, svc, running, crashed, ret>>

\* Run has returned (or panicked).
Returned ==
    /\ pc = "done"
    /\ UNCHANGED vars

Next ==
    \/ ParseParams \/ GetServiceTools \/ HandleServiceEnabled \/ ServiceStatus
    \/ CheckServiceChanged \/ ModifyServiceState \/ AddStateToReturn \/ Returned

Spec == Init /\ [][Next]_vars /\ WF_vars(Next)

TypeOK ==
    /\ pc \in Pcs
    /\ svc \in [running : BOOLEAN, crashed : BOOLEAN, enabled : BOOLEAN]
    /\ running \in {"nil", "true", "false"}
    /\ crashed \in BOOLEAN
    /\ ret \in [failed : BOOLEAN, panicked : BOOLEAN]

\* A call with a state that returns without error and knew the service's
\* state leaves the service running for started, reloaded and restarted
\* and stopped for stopped (checkServiceChanged, modifyServiceState and
\* serviceControl together), unless OpenRC still shows the service as
\* crashed: neither the zap without a name nor a pattern call (checkPs,
\* which never sets crashed) resets it, and OpenRC refuses the start
\* (README, observations).
RunningAsAsked ==
    pc = "done" /\ ~ret.failed /\ ~ret.panicked /\ params.state # "" /\ running # "nil"
        /\ ~svc.crashed
        => svc.running = (params.state # "stopped")

=============================================================================
