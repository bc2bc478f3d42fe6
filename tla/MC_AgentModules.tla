--------------------------- MODULE MC_AgentModules ---------------------------
(***************************************************************************)
(* The agent's module calls: server.ExecuteModule (src/remote/main/        *)
(* server.go) finds a fresh module (ModuleRegistry.FindModule) and runs   *)
(* it to completion.  A behaviour is one call of get_url, of service or  *)
(* of hostname, or two runs of a command task; the modules share no       *)
(* state, so the state space is the sum of the four, each with its own    *)
(* variables.                                                             *)
(***************************************************************************)
EXTENDS Naturals

CONSTANTS A, B

VARIABLES
    which,
    gParams, gEnv, gPc, gDest, gOrig, gBackup, gTemps, gDeferRm, gChk,
    gMforce, gLastMod, gRet,
    sParams, sEnv, sSvc, sPc, sRunning, sCrashed, sRet,
    hName, hStrat, hHost, hPc, hChanged, hRet, hSwallowed,
    cParams, cFs, cPc, cProc, cExit, cRet, cCalls, cOkDone, cRerunOk

gVars == <<gParams, gEnv, gPc, gDest, gOrig, gBackup, gTemps, gDeferRm, gChk,
           gMforce, gLastMod, gRet>>
sVars == <<sParams, sEnv, sSvc, sPc, sRunning, sCrashed, sRet>>
hVars == <<hName, hStrat, hHost, hPc, hChanged, hRet, hSwallowed>>
cVars == <<cParams, cFs, cPc, cProc, cExit, cRet, cCalls, cOkDone, cRerunOk>>
allVars == <<which, gVars, sVars, hVars, cVars>>

G == INSTANCE GetUrl WITH
        Contents <- {A, B},
        Checksums <- {"", "nocolon", "hex", "short", "url"},
        Backups <- {FALSE, TRUE},
        UnsafeWrites <- {FALSE, TRUE},
        TmpDests <- {"", "dir", "bad"},
        Renames <- {"none", "exdev", "eperm"},
        params <- gParams, env <- gEnv, pc <- gPc, dest <- gDest, orig <- gOrig,
        backup <- gBackup, temps <- gTemps, deferRm <- gDeferRm, chk <- gChk,
        mforce <- gMforce, lastMod <- gLastMod, ret <- gRet

\* One host per init system and sysv enable tool, each with the service's
\* /etc/init.d script, and one host without it.
MCHosts ==
    {[init |-> "systemd", sysvTool |-> "", serviceBin |-> TRUE, initScript |-> TRUE],
     [init |-> "systemd", sysvTool |-> "", serviceBin |-> TRUE, initScript |-> FALSE],
     [init |-> "upstart", sysvTool |-> "", serviceBin |-> TRUE, initScript |-> TRUE],
     [init |-> "upstart", sysvTool |-> "", serviceBin |-> FALSE, initScript |-> TRUE],
     [init |-> "openrc", sysvTool |-> "", serviceBin |-> FALSE, initScript |-> TRUE],
     [init |-> "sysv", sysvTool |-> "update-rc.d", serviceBin |-> TRUE, initScript |-> TRUE],
     [init |-> "sysv", sysvTool |-> "insserv", serviceBin |-> FALSE, initScript |-> TRUE],
     [init |-> "sysv", sysvTool |-> "chkconfig", serviceBin |-> TRUE, initScript |-> TRUE],
     [init |-> "sysv", sysvTool |-> "", serviceBin |-> TRUE, initScript |-> TRUE],
     [init |-> "none", sysvTool |-> "", serviceBin |-> TRUE, initScript |-> TRUE]}

S == INSTANCE ServiceModule WITH
        Hosts <- MCHosts,
        States <- {"", "started", "stopped", "reloaded", "restarted"},
        Enables <- {"unset", "yes", "no"},
        params <- sParams, env <- sEnv, svc <- sSvc, pc <- sPc,
        running <- sRunning, crashed <- sCrashed, ret <- sRet

\* Every strategy, on files in each state, with failing commands and writes.
H == INSTANCE Hostname WITH
        Names <- {"n1", "n2", "long"},
        LongNames <- {"long"},
        Strategies <- {"file", "redhat", "openrc", "alpine", "freebsd", "solaris",
                       "systemd", "generic", "darwin"},
        FileStates <- {"missing", "notreg", "noentry"},
        Fallible <- TRUE,
        name <- hName, strat <- hStrat, host <- hHost, pc <- hPc, changed <- hChanged,
        ret <- hRet, swallowed <- hSwallowed

\* Two runs of a command task, every argument combination.
C == INSTANCE Command WITH
        MaxCalls <- 2,
        params <- cParams, fs <- cFs, pc <- cPc, proc <- cProc, exit <- cExit,
        ret <- cRet, calls <- cCalls, okDone <- cOkDone, rerunOk <- cRerunOk

\* The module not called keeps its variables at "off".
GOff == gParams = "off" /\ gEnv = "off" /\ gPc = "off" /\ gDest = "off" /\ gOrig = "off" /\ gBackup = "off" /\ gTemps = "off"
        /\ gDeferRm = "off" /\ gChk = "off" /\ gMforce = "off" /\ gLastMod = "off" /\ gRet = "off"
SOff == sParams = "off" /\ sEnv = "off" /\ sSvc = "off"
        /\ sPc = "off" /\ sRunning = "off" /\ sCrashed = "off" /\ sRet = "off"
HOff == hName = "off" /\ hStrat = "off" /\ hHost = "off" /\ hPc = "off" /\ hChanged = "off"
        /\ hRet = "off" /\ hSwallowed = "off"
COff == cParams = "off" /\ cFs = "off" /\ cPc = "off" /\ cProc = "off" /\ cExit = "off"
        /\ cRet = "off" /\ cCalls = "off" /\ cOkDone = "off" /\ cRerunOk = "off"

\* FindModule returns a fresh module of a registered name.
Init ==
    \/ which = "get_url" /\ G!Init /\ SOff /\ HOff /\ COff
    \/ which = "service" /\ S!Init /\ GOff /\ HOff /\ COff
    \/ which = "hostname" /\ H!Init /\ GOff /\ SOff /\ COff
    \/ which = "command" /\ C!Init /\ GOff /\ SOff /\ HOff

\* A step of the get_url call.
GetUrlStep == which = "get_url" /\ G!Next /\ UNCHANGED <<which, sVars, hVars, cVars>>

\* A step of the service call.
ServiceStep == which = "service" /\ S!Next /\ UNCHANGED <<which, gVars, hVars, cVars>>

\* A step of the hostname call.
HostnameStep == which = "hostname" /\ H!Next /\ UNCHANGED <<which, gVars, sVars, cVars>>

\* A step of a command task's run, or of its process.
CommandStep == which = "command" /\ C!Next /\ UNCHANGED <<which, gVars, sVars, hVars>>

\* ExecuteModule: action.Run of the module found.
Next == GetUrlStep \/ ServiceStep \/ HostnameStep \/ CommandStep

Spec == Init /\ [][Next]_allVars /\ WF_allVars(Next)

TypeOK ==
    \/ which = "get_url" /\ G!TypeOK /\ SOff /\ HOff /\ COff
    \/ which = "service" /\ S!TypeOK /\ GOff /\ HOff /\ COff
    \/ which = "hostname" /\ H!TypeOK /\ GOff /\ SOff /\ COff
    \/ which = "command" /\ C!TypeOK /\ GOff /\ SOff /\ HOff

\* get_url: a call that returns success has removed its temporary files.
CleanOnSuccess == G!CleanOnSuccess

\* get_url: a downloading call that succeeds without unsafe_writes leaves
\* dest holding the server's content.
SafeSuccessIsFresh == G!SafeSuccessIsFresh

\* service: a call that succeeds leaves the service in the state asked for.
RunningAsAsked == S!RunningAsAsked

\* hostname: a call that succeeds without dropping an error leaves both of
\* the strategy's getters reading the name.
ConvergesUnlessSwallowed == which = "hostname" => H!ConvergesUnlessSwallowed

\* command: a task whose command creates its creates path (removes its
\* removes path) never starts its process again once a run exited 0.
RunsOnceWhenGuarded == which = "command" => C!RunsOnceWhenGuarded

=============================================================================
