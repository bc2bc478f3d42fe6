-------------------------- MODULE MC_InventoryLoad --------------------------
(***************************************************************************)
(* The controller's parsers of what the user writes, the inventory        *)
(* (InventoryLoad) and a task's free-form arguments (FreeFormArgs), and  *)
(* the variable manager that composes the vars of a play, host and task  *)
(* (VarsManager).  They share no state, so a behaviour loads one         *)
(* inventory, resolves one task or runs one manager, and the variables   *)
(* of the other two stay "off".                                           *)
(***************************************************************************)
EXTENDS InventoryLoad

Tok(o, nm) == [op |-> o, name |-> nm]

\* Every form of pattern: the special ones, each single name, every pair of
\* hosts, and every pair of names with each operator (the names are both
\* host and group names).
MCPatterns ==
    {[form |-> "empty", toks |-> << >>], [form |-> "all", toks |-> << >>]}
    \cup {[form |-> "single", toks |-> <<Tok("", x)>>] : x \in GroupNames \ {"all"}}
    \cup {[form |-> "commas", toks |-> <<Tok("", x), Tok("", y)>>] : x, y \in HostNames}
    \cup {[form |-> "colons", toks |-> <<Tok(o1, x), Tok(o2, y)>>] :
            o1, o2 \in {"", "!", "&"}, x, y \in GroupNames}

\* YAML entries: a null value; a mapping with any hosts of Names and null
\* "children", or at most one child, null or a mapping.
Entry(g, nl, hs, cn, cs) == [name |-> g, null |-> nl, hosts |-> hs, childrenNull |-> cn, children |-> cs]
Child(g, nl) == [name |-> g, null |-> nl]
NullEntry(g) == Entry(g, TRUE, {}, FALSE, << >>)
Entries1 ==
    {NullEntry(g) : g \in GroupNames}
    \cup {Entry(g, FALSE, hs, TRUE, << >>) : g \in GroupNames, hs \in SUBSET Names}
    \cup {Entry(g, FALSE, hs, FALSE, cs) : g \in GroupNames, hs \in SUBSET Names,
          cs \in {<< >>} \cup {<<Child(c, nl)>> : c \in GroupNames, nl \in BOOLEAN}}
\* Entries of two-entry documents: null, or a host and at most one null
\* child (enough for a cycle, a group declared after it is named as a
\* child, and a host in two groups).
Entries2 ==
    {NullEntry(g) : g \in GroupNames}
    \cup {Entry(g, FALSE, hs, FALSE, cs) : g \in GroupNames, hs \in {{}, {"a"}},
          cs \in {<< >>} \cup {<<Child(c, TRUE)>> : c \in GroupNames}}
\* Documents of one or two top-level entries with distinct names.
MCYamlDocs ==
    {<<e>> : e \in Entries1}
    \cup {p \in Entries2 \X Entries2 : p[1].name # p[2].name}

VARIABLES which, task, pc, lines, j, toks, i, sp, split, kv, rest, result, resplit,
          conf, extraInput, extraVars, hostFacts, hostNonPersistentFacts, hostVars,
          hostLoopVars, phase, seqTerms, seqCalled, seqOut

argVars == <<task, pc, lines, j, toks, i, sp, split, kv, rest, result, resplit>>
mgrVars == <<conf, extraInput, extraVars, hostFacts, hostNonPersistentFacts, hostVars,
             hostLoopVars, phase>>
seqVars == <<seqTerms, seqCalled, seqOut>>
parseVars == <<which, vars, argVars, mgrVars, seqVars>>

AT == INSTANCE MC_FreeFormArgs WITH Tasks <- {}
FA == INSTANCE FreeFormArgs WITH Tasks <- AT!MCTasks

InvOff == fmt = "off" /\ doc = "off" /\ d = "off" /\ group = "off" /\ typ = "off"
          /\ n = "off" /\ st = "off"
\* One host in groups "a" and "b"; every group and host setting "x" or
\* not, the host an alias of remote_addr; play vars that set "x" or
\* template "y" from it; task vars that template a defined or an
\* undefined name or set the other alias; -e lists with a repeated key,
\* an alias, "item", a word, a path and unbalanced quotes; the Ansible
\* default VARIABLE_PRECEDENCE.
MCLit(t) == [tmpl |-> FALSE, v |-> t]
MCRef(k) == [tmpl |-> TRUE, v |-> k]
MCKV(k, v) == [kind |-> "kv", key |-> k, val |-> v]
MCRaw(kd) == [kind |-> kd, key |-> "", val |-> ""]
MCEmpty == [k \in {} |-> "none"]
VM == INSTANCE VarsManager WITH
        Hosts <- {"h1"},
        GroupOrder <- <<"a", "b">>,
        AllGroupVarsSet <- {MCEmpty, "x" :> "all"},
        GroupKeysSet <- {{}, {"x"}},
        HostVarsSet <- {MCEmpty, "x" :> "host", "ansible_ssh_host" :> "host"},
        PlayVarsSet <- {MCEmpty, "x" :> MCLit("play"), "y" :> MCRef("x")},
        TaskVarsSet <- {MCEmpty, "y" :> MCRef("x"), "y" :> MCRef("z"), "ansible_host" :> MCLit("task")},
        ExtraInputs <- {<< >>, <<MCKV("x", "e1")>>, <<MCKV("x", "e1"), MCKV("x", "e2")>>,
                        <<MCKV("ansible_host", "e1"), MCRaw("word")>>,
                        <<MCKV("item", "e1"), MCRaw("path")>>,
                        <<MCRaw("unbalanced"), MCKV("remote_addr", "e1")>>},
        Items <- {"i1", "i2"},
        VariablePrecedence <- <<"all_inventory", "groups_inventory", "all_plugins_inventory",
                                "all_plugins_play", "groups_plugins_inventory", "groups_plugins_play">>,
        InjectFactsAsVars <- TRUE

\* Every lookup of one term: shortcut terms with end, start and stride in
\* {0, 1, 3} (a bad end, every format); key=value terms with any keys
\* over {-1, 0, 1, 2, 3} (-1 the "unset" mark), an unknown key or not;
\* and two end terms in a row, over {-1, 2, 3}.
SeqTerm(sh, gv, bd, vl, fm, ex) ==
    [short |-> sh, given |-> gv, bad |-> bd, val |-> vl, fmt |-> fm, extra |-> ex]
SeqEndForms == {x \cup {"end"} : x \in SUBSET {"start", "stride"}}
SeqSingles ==
    UNION {{SeqTerm(TRUE, g, bd, vl, fm, FALSE) : bd \in {{}, {"end"}},
             vl \in [g -> {0, 1, 3}], fm \in {"none", "ok", "bad"}} : g \in SeqEndForms}
    \cup UNION {{SeqTerm(FALSE, g, {}, v, f, x) : v \in [g -> {-1, 0, 1, 2, 3}],
                 f \in {"none", "ok"}, x \in BOOLEAN} : g \in SUBSET {"start", "count", "end", "stride"}}
SeqPairTerms ==
    UNION {{SeqTerm(FALSE, g, {}, v, "none", FALSE) : v \in [g -> {-1, 2, 3}]} :
           g \in SeqEndForms}
SQ == INSTANCE Sequence WITH
        TermLists <- {<<t>> : t \in SeqSingles} \cup (SeqPairTerms \X SeqPairTerms),
        terms <- seqTerms, called <- seqCalled, out <- seqOut
SeqOff == seqTerms = "off" /\ seqCalled = "off" /\ seqOut = "off"

MgrOff == conf = "off" /\ extraInput = "off" /\ extraVars = "off" /\ hostFacts = "off"
          /\ hostNonPersistentFacts = "off" /\ hostVars = "off" /\ hostLoopVars = "off"
          /\ phase = "off"
ArgsOff == task = "off" /\ pc = "off" /\ lines = "off" /\ j = "off" /\ toks = "off"
           /\ i = "off" /\ sp = "off" /\ split = "off" /\ kv = "off" /\ rest = "off"
           /\ result = "off" /\ resplit = "off"

ParseInit ==
    \/ which = "inventory" /\ Init /\ ArgsOff /\ MgrOff /\ SeqOff
    \/ which = "args" /\ FA!Init /\ InvOff /\ MgrOff /\ SeqOff
    \/ which = "vars" /\ VM!Init /\ InvOff /\ ArgsOff /\ SeqOff
    \/ which = "seq" /\ SQ!Init /\ InvOff /\ ArgsOff /\ MgrOff

\* A step of loading the inventory.
InventoryStep == which = "inventory" /\ Next /\ UNCHANGED <<which, argVars, mgrVars, seqVars>>

\* A step of resolving the task's arguments.
ArgsStep == which = "args" /\ FA!Next /\ UNCHANGED <<which, vars, mgrVars, seqVars>>

\* A call of the variable manager.
ManagerStep == which = "vars" /\ VM!Next /\ UNCHANGED <<which, vars, argVars, seqVars>>

\* A call of the sequence lookup.
SequenceStep == which = "seq" /\ SQ!Next /\ UNCHANGED <<which, vars, argVars, mgrVars>>

ParseNext == InventoryStep \/ ArgsStep \/ ManagerStep \/ SequenceStep

ParseSpec == ParseInit /\ [][ParseNext]_parseVars

ParseTypeOK ==
    \/ which = "inventory" /\ TypeOK /\ ArgsOff /\ MgrOff /\ SeqOff
    \/ which = "args" /\ FA!TypeOK /\ InvOff /\ MgrOff /\ SeqOff
    \/ which = "vars" /\ VM!VarsTypeOK /\ InvOff /\ ArgsOff /\ SeqOff
    \/ which = "seq" /\ SQ!TypeOK /\ InvOff /\ ArgsOff /\ MgrOff

\* sequence: a lookup of terms given by their end returns the reference
\* progression of each term, in order.
EndTermsMatchReference == which = "seq" => SQ!EndTermsMatchReference

\* splitArgs(joinArgs(xs)) = xs for the params of every string without a
\* jinja2 delimiter (splitArgs, joinArgs and the line ends of splitArgs).
BlockFreeRoundTrip == which = "args" => FA!BlockFreeRoundTrip

\* A free-form string that starts with a word never panics splitArgs.
NoPanicAfterWord == which = "args" => FA!NoPanicAfterWord

\* GetVars binds every name to its value in the highest layer of the
\* spec's precedence that sets it (GetVars and its layer helpers).
PrecedenceLaw == which = "vars" => VM!PrecedenceLaw

\* Every key=value given with -e, the last one of a key, wins in every
\* environment GetVars composes below the magic and loop layers
\* (SetExtraVars and GetVars).
ExtraVarsWin == which = "vars" => VM!ExtraVarsWin
=============================================================================
