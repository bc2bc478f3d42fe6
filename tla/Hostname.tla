------------------------------ MODULE Hostname ------------------------------
(***************************************************************************)
(* One call of the hostname module: Module.Run                            *)
(* (src/modules/hostname/hostname.go) with the strategy getStrategy picks *)
(* and baseStrategy's update of the current and then the permanent name.  *)
(* The module is created fresh for every call and runs sequentially.      *)
(*                                                                         *)
(* The host is the running (kernel or transient) hostname, the permanent  *)
(* store the strategy reads and writes (a file, the systemd static name,  *)
(* the Solaris nodename) and the systemd pretty name.  A file is missing, *)
(* not a regular file, a regular file without the strategy's entry, or    *)
(* holds a name.  A command (RunCommand + Validate, or GetBinPath) or a   *)
(* file write fails only when Fallible; a write that fails may already    *)
(* have truncated the file.                                                *)
(***************************************************************************)
EXTENDS FiniteSets

CONSTANTS
    Names,       \* host names, "" excluded
    LongNames,   \* the names longer than 64 characters, \subseteq Names
    Strategies,  \* the strategies tried, \subseteq StrategyNames
    FileStates,  \* the non-name file states tried, \subseteq {NoFile, NotRegular, NoEntry}
    Fallible     \* whether commands and writes may fail

VARIABLES
    name,      \* Params.Name
    strat,     \* the strategy getStrategy returns for this host
    host,      \* [kern, store, pretty]
    pc,
    changed,   \* baseStrategy.changed
    ret,       \* the Return: [st : {"none", "ok", "failed"}, changed]
    swallowed  \* an update step has returned an error that was dropped

vars == <<name, strat, host, pc, changed, ret, swallowed>>

NoFile == "missing"
NotRegular == "notreg"
NoEntry == "noentry"

\* file: fileStrategy (Debian family, OpenBSD, SLES 10-12); redhat, openrc,
\* alpine, freebsd (FreeBSD and NetBSD), solaris, systemd; generic:
\* baseDeriverStrategy; darwin: newDarwinStrategy, which always fails.
StrategyNames == {"file", "redhat", "openrc", "alpine", "freebsd", "solaris",
                  "systemd", "generic", "darwin"}

\* The strategies whose permanent name lives in a file.
FileStrats == {"file", "alpine", "redhat", "openrc", "freebsd"}
\* The strategies that find their binary with GetBinPath at construction.
BinStrats == {"freebsd", "solaris", "systemd"}

Stores(s) == IF s \in FileStrats THEN Names \cup FileStates ELSE Names

Got(v) == [ok |-> TRUE, v |-> v]
Err == [ok |-> FALSE, v |-> ""]
Done(h) == [ok |-> TRUE, host |-> h]
Fail(h) == [ok |-> FALSE, host |-> h]

\* A command or write that leaves the host as h when it succeeds.
Cmd(h) == {Done(h)} \cup (IF Fallible THEN {Fail(host)} ELSE {})
\* A read through a command.
CmdRead(v) == {Got(v)} \cup (IF Fallible THEN {Err} ELSE {})
\* Rewriting a file: OpenFile fails, or Truncate succeeds and Write fails.
Rewrite(h) == Cmd(h) \cup (IF Fallible THEN {Fail([host EXCEPT !.store = NoEntry])} ELSE {})

\* fileStrategy.getPermanentHostname: IsRegular fails on a missing file,
\* a non-regular one reads as "", else the file's trimmed content.
fileGetPermanent ==
    CASE host.store = NoFile -> {Err}
      [] host.store \in {NotRegular, NoEntry} -> {Got("")}
      [] OTHER -> {Got(host.store)}

\* fileStrategy.setPermanentHostname: os.WriteFile of the name.
fileSetPermanent(n) ==
    IF host.store = NotRegular THEN {Fail(host)} ELSE Rewrite([host EXCEPT !.store = n])

\* redHatStrategy.getPermanentHostname: the value of the first HOSTNAME
\* line of the network file, an error without one.
redHatGetPermanent == IF host.store \in Names THEN {Got(host.store)} ELSE {Err}

\* redHatStrategy.setPermanentHostname: OpenFile with O_CREATE, the
\* HOSTNAME line replaced or appended, Truncate, Seek and Write.
redHatSetPermanent(n) == fileSetPermanent(n)

\* openRcStrategy.getPermanentHostname: as fileStrategy's, but the file
\* must hold a hostname= line.
openRcGetPermanent ==
    CASE host.store \in {NoFile, NoEntry} -> {Err}
      [] host.store = NotRegular -> {Got("")}
      [] OTHER -> {Got(host.store)}

\* openRcStrategy.setPermanentHostname: redHat's rewrite with hostname= lines.
openRcSetPermanent(n) == fileSetPermanent(n)

\* alpineStrategy.setCurrentHostname: fileStrategy's no-op, GetBinPath,
\* then hostname -F /etc/hostname, which loads what the file holds now.
alpineSetCurrent ==
    IF host.store \in Names THEN Cmd([host EXCEPT !.kern = host.store]) ELSE {Fail(host)}

\* freeBSDStrategy.getCurrentHostname: the output of hostname.
freeBSDGetCurrent == CmdRead(host.kern)

\* freeBSDStrategy.getPermanentHostname: openRc's, on rc.conf.d/hostname.
freeBSDGetPermanent == openRcGetPermanent

\* freeBSDStrategy.setPermanentHostname: IsRegular fails on a missing file
\* and os.Create on a non-regular one; a regular one is rewritten.
freeBSDSetPermanent(n) ==
    IF host.store \in {NoFile, NotRegular} THEN {Fail(host)}
    ELSE Rewrite([host EXCEPT !.store = n])

\* freeBSDStrategy.setCurrentHostname: hostname name.
freeBSDSetCurrent(n) == Cmd([host EXCEPT !.kern = n])

\* solarisStrategy.getPermanentHostname: svccfg's config/nodename.
solarisGetPermanent == CmdRead(host.store)

\* solarisStrategy.setHostname: hostname -t name for the running name,
\* hostname name (nodename and running name) for the permanent one.
solarisSetHostname(n, permanent) ==
    Cmd(IF permanent THEN [host EXCEPT !.store = n, !.kern = n] ELSE [host EXCEPT !.kern = n])

\* systemdStrategy.getHostname: hostnamectl --static or --transient status.
systemdGetHostname(permanent) == CmdRead(IF permanent THEN host.store ELSE host.kern)

\* systemdStrategy.setHostname with --transient: names over 64 characters
\* are refused before hostnamectl runs.
systemdSetCurrent(n) ==
    IF n \in LongNames THEN {Fail(host)} ELSE Cmd([host EXCEPT !.kern = n])

\* Mutant of systemdSetPermanent: the --static call is left out.
systemdSetPermanentPrettyOnly(n) ==
    IF n \in LongNames THEN {Fail(host)} ELSE Cmd([host EXCEPT !.pretty = n])

\* systemdStrategy.setPermanentHostname: setHostname --pretty, then, if it
\* succeeded, --static.
systemdSetPermanent(n) ==
    IF n \in LongNames THEN {Fail(host)}
    ELSE Cmd([host EXCEPT !.pretty = n, !.store = n])
         \cup (IF Fallible THEN {Fail([host EXCEPT !.pretty = n])} ELSE {})

\* The strategy's getPermanentHostname; baseDeriverStrategy (generic, and
\* darwin, which never gets here) fails.
getPermanentHostname(s) ==
    CASE s \in {"file", "alpine"} -> fileGetPermanent
      [] s = "redhat" -> redHatGetPermanent
      [] s = "openrc" -> openRcGetPermanent
      [] s = "freebsd" -> freeBSDGetPermanent
      [] s = "solaris" -> solarisGetPermanent
      [] s = "systemd" -> systemdGetHostname(TRUE)
      [] OTHER -> {Err}

\* The strategy's getCurrentHostname: every strategy but freeBSD and
\* systemd returns its getPermanentHostname.
getCurrentHostname(s) ==
    CASE s = "freebsd" -> freeBSDGetCurrent
      [] s = "systemd" -> systemdGetHostname(FALSE)
      [] OTHER -> getPermanentHostname(s)

\* The strategy's setCurrentHostname: a no-op returning nil for the file,
\* redHat, openRc and generic strategies.
setCurrentHostname(s, n) ==
    CASE s = "alpine" -> alpineSetCurrent
      [] s = "freebsd" -> freeBSDSetCurrent(n)
      [] s = "solaris" -> solarisSetHostname(n, FALSE)
      [] s = "systemd" -> systemdSetCurrent(n)
      [] OTHER -> {Done(host)}

\* The strategy's setPermanentHostname; baseDeriverStrategy's fails.
setPermanentHostname(s, n) ==
    CASE s \in {"file", "alpine"} -> fileSetPermanent(n)
      [] s = "redhat" -> redHatSetPermanent(n)
      [] s = "openrc" -> openRcSetPermanent(n)
      [] s = "freebsd" -> freeBSDSetPermanent(n)
      [] s = "solaris" -> solarisSetHostname(n, TRUE)
      [] s = "systemd" -> systemdSetPermanent(n)
      [] OTHER -> {Fail(host)}

\* The names the strategy's getters can read off the host now.
Reads(R) == {r.v : r \in {x \in R : x.ok}}

\* Both getters read the name and nothing else: a call would find nothing
\* to do.
Named ==
    /\ Reads(getCurrentHostname(strat)) = {name}
    /\ Reads(getPermanentHostname(strat)) = {name}

Return(st, c) == ret' = [st |-> st, changed |-> c] /\ pc' = "done"

Init ==
    /\ name \in Names \cup {""}
    /\ strat \in Strategies
    /\ host \in [kern : Names, store : Stores(strat), pretty : Names]
    /\ pc = "start"
    /\ changed = FALSE
    /\ ret = [st |-> "none", changed |-> FALSE]
    /\ swallowed = FALSE

\* Params.Validate: the name must be given (Use is one of strats here).
Validate(n) == n # ""

\* The strategy constructors that fail: newDarwinStrategy always, and
\* those that look up hostname or hostnamectl with GetBinPath.
ConstructorFails(s) == s = "darwin" \/ (Fallible /\ s \in BinStrats)

\* ParseParams with Params.Validate (name must be given) and getStrategy
\* with the strategy's constructor (darwin is not implemented; GetBinPath
\* may not find hostname or hostnamectl).
ParseAndGetStrategy ==
    /\ pc = "start"
    /\ \/ /\ ~Validate(name) \/ ConstructorFails(strat)
          /\ Return("failed", FALSE)
       \/ /\ Validate(name) /\ strat # "darwin"
          /\ pc' = "read"
          /\ UNCHANGED ret
    /\ UNCHANGED <<name, strat, host, changed, swallowed>>

\* Run reads the current and the permanent name (for the diff) and fails
\* if either read fails.
ReadHostnames ==
    /\ pc = "read"
    /\ \E c \in getCurrentHostname(strat), p \in getPermanentHostname(strat) :
          IF c.ok /\ p.ok THEN pc' = "cur" /\ UNCHANGED ret
          ELSE Return("failed", FALSE)
    /\ UNCHANGED <<name, strat, host, changed, swallowed>>

\* baseStrategy.updateCurrentHostname, called first by
\* updateCurrentAndPermanentHostname.  A read error makes the call return
\* (false, nil).  A set error is compared with the read's nil err
\* (`if err != b.setCurrentHostname(...)`) and nil is returned, so the
\* update goes on to the permanent name without setting changed.
updateCurrentHostname ==
    /\ pc = "cur"
    /\ \E r \in getCurrentHostname(strat) :
          \/ /\ ~r.ok
             /\ swallowed' = TRUE
             /\ Return("ok", FALSE)
             /\ UNCHANGED <<host, changed>>
          \/ /\ r.ok /\ r.v = name
             /\ pc' = "perm"
             /\ UNCHANGED <<host, changed, ret, swallowed>>
          \/ /\ r.ok /\ r.v # name
             /\ \E o \in setCurrentHostname(strat, name) :
                   /\ host' = o.host
                   /\ changed' = (changed \/ o.ok)
                   /\ swallowed' = (swallowed \/ ~o.ok)
             /\ pc' = "perm"
             /\ UNCHANGED ret
    /\ UNCHANGED <<name, strat>>

\* baseStrategy.updatePermanentHostname, and the return of
\* updateCurrentAndPermanentHostname: b.changed, or (false, nil) on a read
\* error; a set error is dropped as in updateCurrentHostname.  Run then
\* returns success with that changed flag.
updatePermanentHostname ==
    /\ pc = "perm"
    /\ \E r \in getPermanentHostname(strat) :
          \/ /\ ~r.ok
             /\ swallowed' = TRUE
             /\ Return("ok", FALSE)
             /\ UNCHANGED <<host, changed>>
          \/ /\ r.ok /\ r.v = name
             /\ Return("ok", changed)
             /\ UNCHANGED <<host, changed, swallowed>>
          \/ /\ r.ok /\ r.v # name
             /\ \E o \in setPermanentHostname(strat, name) :
                   /\ host' = o.host
                   /\ changed' = (changed \/ o.ok)
                   /\ swallowed' = (swallowed \/ ~o.ok)
                   /\ Return("ok", changed \/ o.ok)
    /\ UNCHANGED <<name, strat>>

\* Run has returned.
Returned ==
    /\ pc = "done"
    /\ UNCHANGED vars

Next ==
    \/ ParseAndGetStrategy \/ ReadHostnames \/ updateCurrentHostname
    \/ updatePermanentHostname \/ Returned

Spec == Init /\ [][Next]_vars /\ WF_vars(Next)

HostStates == [kern : Names, store : Names \cup {NoFile, NotRegular, NoEntry}, pretty : Names]

TypeOK ==
    /\ name \in Names \cup {""}
    /\ strat \in StrategyNames
    /\ host \in HostStates
    /\ pc \in {"start", "read", "cur", "perm", "done"}
    /\ changed \in BOOLEAN /\ swallowed \in BOOLEAN
    /\ ret \in [st : {"none", "ok", "failed"}, changed : BOOLEAN]

\* A call that returns success and dropped no error leaves the host so
\* that the strategy's current and permanent getters both read the name,
\* so that a second call finds nothing to do (the order of the two update
\* steps in updateCurrentAndPermanentHostname and what each setter writes,
\* alpine's hostname -F included).
ConvergesUnlessSwallowed ==
    ret.st = "ok" /\ ~swallowed => Named

\* The strategies whose setCurrentHostname changes the running hostname.
RunningStrats == {"alpine", "freebsd", "solaris", "systemd"}

\* A call that returns success and reports a change, on a strategy that
\* sets the running hostname, and dropped no error, leaves the running
\* hostname equal to the name: the change the module reports includes the
\* system's hostname, not only the name kept for the next boot.
RunningNameSet ==
    ret.st = "ok" /\ ret.changed /\ ~swallowed /\ strat \in RunningStrats
        => host.kern = name

====
