----------------------------- MODULE VarsManager -----------------------------
(***************************************************************************)
(* The variable manager (src/vars/manager.go): the store of extra vars,    *)
(* facts and loop items shared by the per-host workers, and GetVars, which *)
(* composes the environment of a (play, host, task) from the inventory,   *)
(* the play, the task and that store.  Every method holds the manager's   *)
(* lock for its whole body, so each is one step; GetVars only reads and   *)
(* is an operator of the state.                                           *)
(*                                                                         *)
(* A Vars is a function from the names it defines.  A value is a tag      *)
(* naming the source that set it.  A play or task var is a literal,      *)
(* Lit(tag), or the template {{ k }}, Ref(k).                             *)
(***************************************************************************)
EXTENDS Naturals, Sequences, FiniteSets, TLC

CONSTANTS
    Hosts,              \* the play's hosts
    GroupOrder,         \* the groups a host may be in (never "all"), by name
    AllGroupVarsSet,    \* candidate vars of group "all"
    GroupKeysSet,       \* candidate names a group other than all sets
    HostVarsSet,        \* candidate inventory vars of a host
    PlayVarsSet,        \* candidate vars templates of the play
    TaskVarsSet,        \* candidate vars templates of the task
    ExtraInputs,        \* candidate -e lists: sequences of raw items
    Items,              \* loop items
    VariablePrecedence, \* the VARIABLE_PRECEDENCE setting
    InjectFactsAsVars   \* the INJECT_FACTS_AS_VARS setting

VARIABLES
    conf,                   \* the inventory, play and task: fixed by the parsers
    extraInput,             \* the -e list given to SetExtraVars
    extraVars,              \* Manager.extraVars
    hostFacts,              \* Manager.hostFacts: NilMap or a map of hosts
    hostNonPersistentFacts, \* Manager.hostNonPersistentFacts
    hostVars,               \* Manager.hostVars
    hostLoopVars,           \* Manager.hostLoopVars
    phase                   \* "setup" | "run" | "failed" | "panicked"

varsMgrVars == <<conf, extraInput, extraVars, hostFacts, hostNonPersistentFacts,
                 hostVars, hostLoopVars, phase>>

NilMap == [isNil |-> TRUE]
NoHost == "nohost"
Empty == [k \in {} |-> "none"]
Ref(k) == [tmpl |-> TRUE, v |-> k]
Lit(t) == [tmpl |-> FALSE, v |-> t]
IsRef(v) == v.tmpl
Groups == {GroupOrder[i] : i \in 1..Len(GroupOrder)}

\* combineVars: a copy of a, overwritten by b.
combineVars(a, b) == [k \in DOMAIN a \cup DOMAIN b |-> IF k \in DOMAIN b THEN b[k] ELSE a[k]]

\* A nil or absent map entry ranges as an empty Vars.
Entry(m, h) == IF m # NilMap /\ h \in DOMAIN m THEN m[h] ELSE Empty

\* MagicVariableMapping, restricted to one canonical name with two aliases.
MagicVariableMapping == "remote_addr" :> <<"ansible_ssh_host", "ansible_host">>

\* SetMagicVars: each canonical name takes the value of the last of its
\* aliases that src defines.
SetMagicVars(src) ==
    LET def(attr) == {i \in 1..Len(MagicVariableMapping[attr]) : MagicVariableMapping[attr][i] \in DOMAIN src}
        last(attr) == CHOOSE i \in def(attr) : \A j \in def(attr) : j <= i
    IN [attr \in {a \in DOMAIN MagicVariableMapping : def(a) # {}} |->
            src[MagicVariableMapping[attr][last(attr)]]]

\* Template of a single variable: its value; an undefined one renders
\* empty or fails, as conf.undefFails says (gojinja2's choice, not src/).
Render(t, env) == IF IsRef(t) /\ t.v \in DOMAIN env THEN env[t.v]
                  ELSE IF IsRef(t) THEN "empty" ELSE t.v
RenderFails(t, env) == IsRef(t) /\ t.v \notin DOMAIN env /\ conf.undefFails

\* TemplateVarsTemplates: every value rendered in env, or an error.
TemplateVarsTemplates(vt, env) ==
    [ok |-> \A k \in DOMAIN vt : ~RenderFails(vt[k], env),
     vars |-> [k \in DOMAIN vt |-> Render(vt[k], env)]]

\* A group's vars: each name it sets has the group itself as value.
GroupVars(g) == [k \in conf.groups[g] |-> g]

\* groups_inventory: the groups' vars combined in order.
RECURSIVE FoldGroups(_, _)
FoldGroups(acc, gs) == IF gs = << >> THEN acc
                       ELSE FoldGroups(combineVars(acc, GroupVars(Head(gs))), Tail(gs))

\* The host's groups, sorted by name in place (sort.Slice on host.Groups).
SortedGroups(h) == SelectSeq(GroupOrder, LAMBDA g : g \in conf.hostGroups[h])

\* groupVars: the VARIABLE_PRECEDENCE entries in order; all_inventory is
\* group all's vars, groups_inventory the host's groups combined in that
\* order; the plugin entries are nil and unknown entries are skipped.
RECURSIVE ApplyPrecedence(_, _, _)
ApplyPrecedence(acc, h, es) ==
    IF es = << >> THEN acc
    ELSE LET e == Head(es)
             v == CASE e = "all_inventory"    -> conf.all
                    [] e = "groups_inventory" -> FoldGroups(Empty, SortedGroups(h))
                    [] OTHER                  -> Empty
         IN ApplyPrecedence(combineVars(acc, v), h, Tail(es))

groupVars(h) == ApplyPrecedence(Empty, h, VariablePrecedence)

\* hostFactVars: the host's facts, or only their ansible_local.
hostFactVars(h) ==
    LET facts == Entry(hostFacts, h)
    IN IF hostFacts = NilMap \/ h \notin DOMAIN hostFacts THEN Empty
       ELSE IF InjectFactsAsVars THEN facts
       ELSE "ansible_local" :> (IF "ansible_local" \in DOMAIN facts THEN facts["ansible_local"] ELSE "emptymap")

\* groupVars then hostVars: the inventory's layers; none without a host.
inventoryVars(h) == IF h = NoHost THEN Empty ELSE combineVars(groupVars(h), conf.host[h])

\* playVars: the play's vars templates rendered in env; the play is never nil.
playVars(env) == TemplateVarsTemplates(conf.play, env)

\* taskVars: the task's vars templates rendered in env; nothing for a nil task.
taskVars(withTask, env) ==
    IF withTask THEN TemplateVarsTemplates(conf.task, env) ELSE [ok |-> TRUE, vars |-> Empty]

\* includeVars: the host_vars bucket, then the set_fact bucket.
includeVars(h) == combineVars(Entry(hostVars, h), Entry(hostNonPersistentFacts, h))

loopVars(h) == Entry(hostLoopVars, h)

\* Mutant of GetVars: the second application of the extra vars dropped.
GetVarsNoSecondExtra(h, withTask) ==
    LET a1  == combineVars(combineVars(inventoryVars(h), hostFactVars(h)), extraVars)
        pv  == playVars(a1)
        a2  == combineVars(a1, pv.vars)
        tv  == taskVars(withTask, a2)
        a3  == combineVars(combineVars(combineVars(a2, tv.vars), includeVars(h)), extraVars)
        a4  == combineVars(a3, SetMagicVars(a3))
    IN [ok |-> pv.ok /\ tv.ok, vars |-> combineVars(a4, loopVars(h))]

\* GetVars(play, host, task), host NoHost for a nil host, withTask FALSE
\* for a nil task: the combine calls in the order of manager.go.
GetVars(h, withTask) ==
    LET a1  == combineVars(combineVars(inventoryVars(h), hostFactVars(h)), extraVars)
        pv  == playVars(a1)
        a2  == combineVars(combineVars(a1, pv.vars), extraVars)
        tv  == taskVars(withTask, a2)
        a3  == combineVars(combineVars(combineVars(a2, tv.vars), includeVars(h)), extraVars)
        a4  == combineVars(a3, SetMagicVars(a3))
    IN [ok |-> pv.ok /\ tv.ok, vars |-> combineVars(a4, loopVars(h))]

\* A raw -e item: key=value, or one of the forms SetExtraVars treats
\* otherwise.  "word" has no "=", "unbalanced" fails splitArgs.
KV(k, v) == [kind |-> "kv", key |-> k, val |-> v]
Raw(kind) == [kind |-> kind, key |-> "", val |-> ""]

\* Mutant of ApplyExtraVars: the earlier value of a key is kept.
RECURSIVE ApplyExtraVarsFirstWins(_, _)
ApplyExtraVarsFirstWins(ev, raws) ==
    IF raws = << >> THEN [ok |-> TRUE, vars |-> ev]
    ELSE LET r == Head(raws)
         IN CASE r.kind = "path" -> [ok |-> FALSE, vars |-> ev]
              [] r.kind = "kv"   -> ApplyExtraVarsFirstWins(combineVars(r.key :> r.val, ev), Tail(raws))
              [] r.kind = "word" -> ApplyExtraVarsFirstWins(combineVars(ev, "_raw_params" :> "word"), Tail(raws))
              [] OTHER           -> ApplyExtraVarsFirstWins(ev, Tail(raws))

\* SetExtraVars' loop: a path without '@' returns an error with the items
\* before it already combined; "", '@' files, yaml and unbalanced quotes
\* add nothing; ParseKeyValuePairsString puts a word without '=' into
\* _raw_params.
RECURSIVE ApplyExtraVars(_, _)
ApplyExtraVars(ev, raws) ==
    IF raws = << >> THEN [ok |-> TRUE, vars |-> ev]
    ELSE LET r == Head(raws)
         IN CASE r.kind = "path" -> [ok |-> FALSE, vars |-> ev]
              [] r.kind = "kv"   -> ApplyExtraVars(combineVars(ev, r.key :> r.val), Tail(raws))
              [] r.kind = "word" -> ApplyExtraVars(combineVars(ev, "_raw_params" :> "word"), Tail(raws))
              [] OTHER           -> ApplyExtraVars(ev, Tail(raws))

Confs == [all : AllGroupVarsSet, groups : [Groups -> GroupKeysSet],
          hostGroups : [Hosts -> {Groups}], host : [Hosts -> HostVarsSet],
          play : PlayVarsSet, task : TaskVarsSet, undefFails : BOOLEAN]

\* MakeManager allocates extraVars and hostLoopVars only.
Init ==
    /\ conf \in Confs
    /\ extraInput = << >>
    /\ extraVars = Empty
    /\ hostFacts = NilMap
    /\ hostNonPersistentFacts = NilMap
    /\ hostVars = NilMap
    /\ hostLoopVars = Empty
    /\ phase = "setup"

\* SetExtraVars(c.extraVars), once, before the play runs (playbook/play.go).
SetExtraVars ==
    /\ phase = "setup"
    /\ \E raws \in ExtraInputs :
         LET r == ApplyExtraVars(extraVars, raws)
         IN /\ extraInput' = raws
            /\ extraVars' = r.vars
            /\ phase' = IF r.ok THEN "run" ELSE "failed"
    /\ UNCHANGED <<conf, hostFacts, hostNonPersistentFacts, hostVars, hostLoopVars>>

\* DeleteHostFacts (the clear_facts meta task): delete from the map; on
\* the nil map a no-op.
DeleteHostFacts ==
    /\ phase = "run"
    /\ \E h \in Hosts :
         hostFacts' = IF hostFacts = NilMap THEN NilMap
                      ELSE [x \in DOMAIN hostFacts \ {h} |-> hostFacts[x]]
    /\ UNCHANGED <<conf, extraInput, extraVars, hostNonPersistentFacts, hostVars, hostLoopVars>>
    /\ UNCHANGED phase

\* SetHostFacts, SetHostNonPersistentFacts, SetHostVars: combine into the
\* host's entry; assigning into a nil map panics.
SetHostIn(m, h, facts) ==
    IF m = NilMap THEN m
    ELSE [x \in DOMAIN m \cup {h} |-> IF x = h THEN combineVars(Entry(m, h), facts) ELSE m[x]]
Panics(m) == m = NilMap

\* SaveFacts(bucket, facts, host) after an action that returned facts
\* (executeAction).  Nil facts and an unknown bucket return at once and
\* change nothing, so only the three stores are steps.
SaveFacts ==
    /\ phase = "run"
    /\ \E h \in Hosts, bucket \in {"", "ansible_facts", "np_ansible_facts", "host_vars"} :
         LET facts == "got" :> "fact"
             store == CASE bucket \in {"", "ansible_facts"} -> hostFacts
                        [] bucket = "np_ansible_facts"      -> hostNonPersistentFacts
                        [] OTHER                            -> hostVars
         IN /\ hostFacts' = IF bucket \in {"", "ansible_facts"} THEN SetHostIn(hostFacts, h, facts) ELSE hostFacts
            /\ hostNonPersistentFacts' = IF bucket = "np_ansible_facts"
                                         THEN SetHostIn(hostNonPersistentFacts, h, facts)
                                         ELSE hostNonPersistentFacts
            /\ hostVars' = IF bucket = "host_vars" THEN SetHostIn(hostVars, h, facts) ELSE hostVars
            /\ phase' = IF Panics(store) THEN "panicked" ELSE phase
    /\ UNCHANGED <<conf, extraInput, extraVars, hostLoopVars>>

\* ResetLoopContext: a fresh empty map for the host.
ResetLoopContext ==
    /\ phase = "run"
    /\ \E h \in Hosts :
         hostLoopVars' = [x \in DOMAIN hostLoopVars \cup {h} |-> IF x = h THEN Empty ELSE hostLoopVars[x]]
    /\ UNCHANGED <<conf, extraInput, extraVars, hostFacts, hostNonPersistentFacts, hostVars, phase>>

\* SetLoopItem: hostLoopVars[host]["item"] = item.  runLoop resets the
\* context first, so the host's map exists.
SetLoopItem ==
    /\ phase = "run"
    /\ \E h \in Hosts, it \in Items :
         /\ h \in DOMAIN hostLoopVars
         /\ hostLoopVars' = [hostLoopVars EXCEPT ![h] = combineVars(@, "item" :> it)]
    /\ UNCHANGED <<conf, extraInput, extraVars, hostFacts, hostNonPersistentFacts, hostVars, phase>>

\* The process ended: SetExtraVars failed or a fact write panicked.
Halted ==
    /\ phase \in {"failed", "panicked"}
    /\ UNCHANGED varsMgrVars

Next == SetExtraVars \/ DeleteHostFacts \/ SaveFacts \/ ResetLoopContext \/ SetLoopItem \/ Halted

Spec == Init /\ [][Next]_varsMgrVars

------------------------------------------------------------------------------
\* The precedence of the spec (section 4.5), low to high, as layers; the
\* value of a name is the one of the highest layer that sets it.  Play and
\* task vars are rendered in the environment of the layers below them.
Resolve(ls) ==
    LET setting(k) == {i \in 1..Len(ls) : k \in DOMAIN ls[i]}
        top(k) == CHOOSE i \in setting(k) : \A j \in setting(k) : j <= i
    IN [k \in UNION {DOMAIN ls[i] : i \in 1..Len(ls)} |-> ls[top(k)][k]]

SpecLayers(h, withTask) ==
    LET gs == SelectSeq(GroupOrder, LAMBDA g : g \in conf.hostGroups[h])
        inventory == IF h = NoHost THEN << >>
                     ELSE <<conf.all>> \o [i \in 1..Len(gs) |-> GroupVars(gs[i])]
                          \o <<conf.host[h], hostFactVars(h)>>
        upToPlay == inventory \o <<extraVars>>
        upToTask == upToPlay \o <<TemplateVarsTemplates(conf.play, Resolve(upToPlay)).vars, extraVars>>
        task == IF withTask THEN TemplateVarsTemplates(conf.task, Resolve(upToTask)).vars ELSE Empty
        upToMagic == upToTask \o <<task, Entry(hostVars, h), Entry(hostNonPersistentFacts, h), extraVars>>
    IN upToMagic \o <<SetMagicVars(Resolve(upToMagic)), loopVars(h)>>

\* GetVars binds every name to its value in the highest layer of the
\* spec's precedence that sets it, for every host (and none) and with or
\* without a task; the code reaches it by combining in sequence, with the
\* extra vars applied three times.
PrecedenceLaw ==
    \A h \in Hosts \cup {NoHost}, t \in BOOLEAN :
        GetVars(h, t).ok => GetVars(h, t).vars = Resolve(SpecLayers(h, t))

\* The -e list as the spec reads it: each key=value item binds its key,
\* a later item the same key winning.
SpecExtraVars(raws) ==
    LET kvs == {i \in 1..Len(raws) : raws[i].kind = "kv"}
        lastOf(k) == CHOOSE i \in kvs : raws[i].key = k /\ \A j \in kvs : raws[j].key = k => j <= i
    IN [k \in {raws[i].key : i \in kvs} |-> raws[lastOf(k)].val]

\* Once the play runs, every key=value given with -e is bound to its value
\* in every environment GetVars composes, except the names the magic and
\* loop layers set above it.
ExtraVarsWin ==
    phase = "run" =>
        \A h \in Hosts \cup {NoHost}, t \in BOOLEAN :
            LET env == GetVars(h, t)
                sx == SpecExtraVars(extraInput)
            IN env.ok => \A k \in DOMAIN sx \ ({"item"} \cup DOMAIN MagicVariableMapping) :
                            k \in DOMAIN env.vars /\ env.vars[k] = sx[k]

VarsTypeOK ==
    /\ conf \in Confs
    /\ hostFacts = NilMap /\ hostNonPersistentFacts = NilMap /\ hostVars = NilMap
    /\ \A h \in DOMAIN hostLoopVars : h \in Hosts /\ DOMAIN hostLoopVars[h] \subseteq {"item"}
    /\ phase \in {"setup", "run", "failed", "panicked"}

====
