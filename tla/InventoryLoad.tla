---------------------------- MODULE InventoryLoad ----------------------------
(***************************************************************************)
(* Loading an INI or YAML inventory (src/inventory/ini.go, yaml.go) and    *)
(* what is done with it (src/inventory/common.go, data_types.go).          *)
(* parseIni hands every line to handleLine, which keeps the current group  *)
(* and section type; getData adds the groups of a YAML document one        *)
(* top-level entry at a time.  At the end formatAndValidate normalises the *)
(* data and validates it.  Host patterns of plays are resolved on the      *)
(* loaded data by DetermineHosts.                                          *)
(*                                                                         *)
(* The Go lists Group.Hosts, Group.Children, Group.Parents and Host.Groups *)
(* are sets here: every reader of them (GetHosts, circularReference,       *)
(* DetermineHosts, GetVars) is insensitive to order and duplicates, and    *)
(* simplify deduplicates Parents and Groups in a random map order.         *)
(* Variables are not modelled: a name=value pair is a line kind only.      *)
(***************************************************************************)
EXTENDS Naturals, FiniteSets, Sequences, SequencesExt, Relation

CONSTANTS
    Names,      \* the names a file uses for its hosts and groups
    MaxLines,   \* bound on the lines of one file
    Patterns,   \* host patterns resolved on the loaded inventory
    YamlDocs    \* the YAML documents loaded (see YamlEntry)

GroupNames == Names \cup {"all", "ungrouped"}
\* A data line may name a host anything a group may be named.
HostNames == GroupNames
SectionTypes == {"section", "vars", "children"}

\* The lines handleLine tells apart: [name], [name:vars], [name:children];
\* a bare name; a name=value pair.  Blank lines are skipped by handleLine.
Lines == [k : {"section"}, name : GroupNames, typ : SectionTypes]
         \cup [k : {"name"}, name : HostNames]
         \cup [k : {"pair"}]

\* Data: the groups and hosts maps, with each group's initialized flag and
\* the fields Group.Hosts, Host.Groups, Group.Parents and Group.Children.
Data == [groups : SUBSET GroupNames, initialized : SUBSET GroupNames,
         hosts : SUBSET HostNames,
         Hosts : [GroupNames -> SUBSET HostNames],
         Groups : [HostNames -> SUBSET GroupNames],
         Parents : [GroupNames -> SUBSET GroupNames],
         Children : [GroupNames -> SUBSET GroupNames]]

\* newState: the data holds group "all", initialized, which is current.
NewData == [groups |-> {"all"}, initialized |-> {"all"}, hosts |-> {},
            Hosts |-> [g \in GroupNames |-> {}],
            Groups |-> [h \in HostNames |-> {}],
            Parents |-> [g \in GroupNames |-> {}],
            Children |-> [g \in GroupNames |-> {}]]

\* A top-level entry of a YAML document: a group name and its value, null
\* or a mapping whose "hosts" key maps host names and whose "children" key
\* is null or maps group names; only the null-ness of a child's value
\* matters to addGroups.  Group "vars" are not modelled.
\* An absent key and an empty mapping have the same effect, so "hosts" is a
\* set of host names and "children" a sequence with a flag for null.
YamlEntry == [name : GroupNames, null : BOOLEAN, hosts : SUBSET HostNames,
              childrenNull : BOOLEAN, children : Seq([name : GroupNames, null : BOOLEAN])]

VARIABLES
    fmt,        \* the inventory's format: "ini" or "yaml"
    doc,        \* the YAML document, a sequence of entries (<< >> for INI)
    d,          \* state.data, or getData's data
    group,      \* state.group, by name
    typ,        \* state.typ
    n,          \* lines, or top-level YAML entries, handled
    st          \* "parsing", or how loading ended: "ok", an error, or
                \* "panic" (the loading goroutine dereferenced nil)

vars == <<fmt, doc, d, group, typ, n, st>>

\* parseIni's newState, or getData's newData with "all" made and
\* initialized: the same data.
Init ==
    /\ \/ fmt = "ini" /\ doc = << >>
       \/ fmt = "yaml" /\ doc \in YamlDocs
    /\ d = NewData
    /\ group = "all"
    /\ typ = "section"
    /\ n = 0
    /\ st = "parsing"

\* groupByName: the group of that name, created when missing.
GroupByName(dd, name) == [dd EXCEPT !.groups = @ \cup {name}]

-----------------------------------------------------------------------------
(* Parsing.                                                                *)

\* Mutant of HandleSectionLine: the section name keeps its ":vars" or
\* ":children" suffix.
HandleSectionLineKeepsSuffix(l) ==
    /\ group' = IF l.typ = "section" THEN l.name ELSE <<l.name, l.typ>>
    /\ typ' = l.typ
    /\ d' = GroupByName(d, l.name)
    /\ UNCHANGED st

\* handleSectionLine: the named group becomes current; [name] and
\* [name:children] initialize it, [name:vars] does not.
HandleSectionLine(l) ==
    LET dd == GroupByName(d, l.name) IN
    /\ group' = l.name
    /\ typ' = l.typ
    /\ d' = IF l.typ \in {"section", "children"}
            THEN [dd EXCEPT !.initialized = @ \cup {l.name}]
            ELSE dd
    /\ UNCHANGED st

\* A vars section takes name=value pairs, the other sections bare names.
Accepts(t, k) == (t = "vars") = (k = "pair")

\* handleDataLine: a bare name is a host of the current group in a plain
\* section and a child group in a children section; a pair is a group
\* variable in a vars section.  Any other line is a parse error (getHostData,
\* getVar and getChild reject it), which ends parseIni.
HandleDataLine(l) ==
    /\ UNCHANGED <<group, typ>>
    /\ \/ /\ typ = "section" /\ l.k = "name"
          /\ d' = [d EXCEPT !.hosts = @ \cup {l.name},
                            !.Groups[l.name] = @ \cup {group},
                            !.Hosts[group] = @ \cup {l.name}]
          /\ UNCHANGED st
       \/ /\ typ = "vars" /\ l.k = "pair"
          /\ UNCHANGED <<d, st>>
       \/ /\ typ = "children" /\ l.k = "name"
          /\ d' = [GroupByName(d, l.name) EXCEPT
                      !.Parents[l.name] = @ \cup {group},
                      !.Children[group] = @ \cup {l.name}]
          /\ UNCHANGED st
       \/ /\ ~Accepts(typ, l.k)
          /\ st' = "parse_error"
          /\ UNCHANGED d

-----------------------------------------------------------------------------
(* formatAndValidate.                                                      *)

\* addUngroupedGroup: group "ungrouped" is created and initialized and takes
\* over the hosts listed directly in "all" (those before any section or
\* under [all]); the hosts keep "all" in their Groups.
AddUngroupedGroup(dd) ==
    LET du == GroupByName(dd, "ungrouped") IN
    [du EXCEPT !.initialized = @ \cup {"ungrouped"},
               !.Hosts = [@ EXCEPT !["ungrouped"] = @ \cup dd.Hosts["all"],
                                   !["all"] = {}]]

\* addToAllGroup: every group without parents except "all" becomes a child
\* of "all".
AddToAllGroup(dd) ==
    LET orphans == {g \in dd.groups : dd.Parents[g] = {} /\ g # "all"} IN
    [dd EXCEPT !.Children["all"] = @ \cup orphans,
               !.Parents = [g \in GroupNames |->
                               IF g \in orphans THEN dd.Parents[g] \cup {"all"}
                                                ELSE dd.Parents[g]]]

\* removeAllGroupFromHosts.
RemoveAllGroupFromHosts(dd) ==
    [dd EXCEPT !.Groups = [h \in HostNames |-> dd.Groups[h] \ {"all"}]]

\* Mutant of FormatAndValidate: the orphans are re-parented before
\* "ungrouped" exists.
FormatAndValidateSwapped(dd) ==
    RemoveAllGroupFromHosts(AddUngroupedGroup(AddToAllGroup(dd)))

\* The normalisation steps of formatAndValidate, in their order; simplify,
\* between the last two, is deduplication, which sets make implicit.
FormatAndValidate(dd) ==
    RemoveAllGroupFromHosts(AddToAllGroup(AddUngroupedGroup(dd)))

\* validateGroupInitialization.
ValidateGroupInitialization(dd) == dd.groups \subseteq dd.initialized

\* Mutant of CircularReference: only a group's own parents are compared.
CircularReferenceDirect(par, parents, g, maxDepth) ==
    \E parent \in parents : parent = g

\* circularReference: a depth-first walk up the parents of g, reporting a
\* cycle when it meets g or when it is maxDepth levels deep.
RECURSIVE CircularReference(_, _, _, _)
CircularReference(par, parents, g, maxDepth) ==
    IF maxDepth = 0 THEN TRUE
    ELSE \E parent \in parents :
            parent = g \/ CircularReference(par, par[parent], g, maxDepth - 1)

\* validateNoCircularReferences: the walk from every group, as deep as
\* there are groups.
ValidateNoCircularReferences(dd) ==
    ~\E g \in dd.groups :
        CircularReference(dd.Parents, dd.Parents[g], g, Cardinality(dd.groups))

\* validate: the first validator that fails gives parseIni's error.
Validate(dd) ==
    CASE ~ValidateGroupInitialization(dd) -> "uninitialized"
      [] ~ValidateNoCircularReferences(dd) -> "circular"
      [] OTHER -> "ok"

-----------------------------------------------------------------------------
(* Reading the loaded inventory.                                           *)

\* Group.GetHosts: the group's hosts and, recursively, its children's.
RECURSIVE GetHosts(_, _)
GetHosts(dd, g) == dd.Hosts[g] \cup UNION {GetHosts(dd, c) : c \in dd.Children[g]}

\* A pattern: its form (the branch DetermineHosts takes on its text) and
\* its tokens, each a name with the operator "", "!" or "&" before it.
\* What DetermineHosts returns: a set of hosts, or an error.
Found(hs) == [ok |-> TRUE, hosts |-> hs]
NotFound == [ok |-> FALSE, hosts |-> {}]

\* Mutant of DetermineHostsFromGroupsPattern: "&g" keeps the hosts that
\* are not in g.
DetermineHostsFromGroupsPatternInverted(dd, toks) ==
    LET step(acc, t) ==
            IF ~acc.ok \/ t.name \notin dd.groups THEN NotFound
            ELSE LET gh == GetHosts(dd, t.name) IN
                 CASE t.op = "!" -> Found(acc.hosts \ gh)
                   [] t.op = "&" -> Found(acc.hosts \ gh)
                   [] OTHER -> Found(acc.hosts \cup gh)
    IN FoldLeft(step, Found({}), toks)

\* determineHostsFromGroupsPattern: left to right, each group's hosts are
\* added, removed ("!") or intersected with ("&"); an unknown group or an
\* empty token is an error.
DetermineHostsFromGroupsPattern(dd, toks) ==
    LET step(acc, t) ==
            IF ~acc.ok \/ t.name \notin dd.groups THEN NotFound
            ELSE LET gh == GetHosts(dd, t.name) IN
                 CASE t.op = "!" -> Found(acc.hosts \ gh)
                   [] t.op = "&" -> Found(acc.hosts \cap gh)
                   [] OTHER -> Found(acc.hosts \cup gh)
    IN FoldLeft(step, Found({}), toks)

\* DetermineHosts: "" and "all" are special; a single name is a host or
\* else a group; a comma list names hosts only; a colon list names groups
\* only (the FIXME of the code: ':' is no host separator).
DetermineHosts(dd, p) ==
    CASE p.form = "empty" -> Found({})
      [] p.form = "all" -> Found(dd.hosts)
      [] p.form = "single" ->
            LET nm == p.toks[1].name IN
            IF nm \in dd.hosts THEN Found({nm})
            ELSE IF nm \in dd.groups THEN Found(GetHosts(dd, nm))
            ELSE NotFound
      [] p.form = "commas" ->
            IF \A i \in DOMAIN p.toks : p.toks[i].name \in dd.hosts
            THEN Found({p.toks[i].name : i \in DOMAIN p.toks})
            ELSE NotFound
      [] p.form = "colons" -> DetermineHostsFromGroupsPattern(dd, p.toks)

-----------------------------------------------------------------------------

\* parseIni's loop: the scanner hands the next line to handleLine.
ParseLine ==
    /\ fmt = "ini"
    /\ st = "parsing"
    /\ n < MaxLines
    /\ n' = n + 1
    /\ \E l \in Lines :
          IF l.k = "section" THEN HandleSectionLine(l) ELSE HandleDataLine(l)
    /\ UNCHANGED <<fmt, doc>>

\* addHosts and the hosts case of processGroupElement.
AddHosts(dd, g, hs) ==
    [dd EXCEPT !.hosts = @ \cup hs,
               !.Hosts[g] = @ \cup hs,
               !.Groups = [h \in HostNames |-> IF h \in hs THEN dd.Groups[h] \cup {g} ELSE dd.Groups[h]]]

\* The children of an entry whose children are all null: addGroups makes
\* and initializes each, and processGroupElement links it under g.
Kids(e) == {e.children[i].name : i \in DOMAIN e.children}
AddChildren(dd, g, cs) ==
    [dd EXCEPT !.groups = @ \cup cs,
               !.initialized = @ \cup cs,
               !.Children[g] = @ \cup cs,
               !.Parents = [c \in GroupNames |-> IF c \in cs THEN dd.Parents[c] \cup {g} ELSE dd.Parents[c]]]

\* getData's loop: addGroup on the next top-level entry.  The group is made
\* and initialized; a null value ends there.  A null "children" value is
\* no mapping, an error.  addGroups' type switch has cases for nil and
\* yaml.MapItem only, and a child mapping decodes as yaml.MapSlice: its
\* group stays nil and processGroupElement's g.Parents dereferences it.
AddGroup ==
    /\ fmt = "yaml"
    /\ st = "parsing"
    /\ n < Len(doc)
    /\ n' = n + 1
    /\ LET e == doc[n + 1]
           dg == [GroupByName(d, e.name) EXCEPT !.initialized = @ \cup {e.name}]
       IN \/ e.null /\ d' = dg /\ UNCHANGED st
          \/ ~e.null /\ e.childrenNull /\ st' = "parse_error" /\ UNCHANGED d
          \/ /\ ~e.null /\ ~e.childrenNull
             /\ \E i \in DOMAIN e.children : ~e.children[i].null
             /\ st' = "panic" /\ UNCHANGED d
          \/ /\ ~e.null /\ ~e.childrenNull
             /\ \A i \in DOMAIN e.children : e.children[i].null
             /\ d' = AddChildren(AddHosts(dg, e.name, e.hosts), e.name, Kids(e))
             /\ UNCHANGED st
    /\ UNCHANGED <<fmt, doc, group, typ>>

\* End of file, or the last YAML entry added: formatAndValidate, whose error
\* is parseIni's or getData's.
Eof ==
    /\ st = "parsing"
    /\ fmt = "yaml" => n = Len(doc)
    /\ d' = FormatAndValidate(d)
    /\ st' = Validate(FormatAndValidate(d))
    /\ UNCHANGED <<fmt, doc, group, typ, n>>

Done ==
    /\ st # "parsing"
    /\ UNCHANGED vars

Next == ParseLine \/ AddGroup \/ Eof \/ Done

Spec == Init /\ [][Next]_vars

-----------------------------------------------------------------------------
(* Reference definitions, from the inventory section of the spec.          *)

\* The groups reachable from S over Parents links, S included.
RECURSIVE Upward(_, _)
Upward(dd, S) ==
    LET T == S \cup UNION {dd.Parents[g] : g \in S} IN
    IF T = S THEN S ELSE Upward(dd, T)

\* The hosts placed in g or in a group below it.
Members(dd, g) ==
    {h \in dd.hosts : \E g2 \in dd.groups : h \in dd.Hosts[g2] /\ g \in Upward(dd, {g2})}

\* What one token of a selection denotes: a host itself (as the single form
\* reads a name that is both), else the hosts of a group.
Denoted(dd, nm) == IF nm \in dd.hosts THEN {nm} ELSE Members(dd, nm)

\* t1:t2:...:tk read left to right: tk is added to, subtracted from (!) or
\* intersected with (&) the selection of t1..t(k-1).
RECURSIVE SpecFold(_, _)
SpecFold(dd, toks) ==
    IF toks = << >> THEN {}
    ELSE LET acc == SpecFold(dd, Front(toks))
             m == Denoted(dd, Last(toks).name)
         IN CASE Last(toks).op = "!" -> acc \ m
              [] Last(toks).op = "&" -> acc \cap m
              [] OTHER -> acc \cup m

TokNames(p) == {p.toks[i].name : i \in DOMAIN p.toks}

\* The host-selection expression: "" selects nothing, "all" every host, a
\* comma list the hosts it names; otherwise a single host, or the fold over
\* the hosts and groups named.  An unknown name is an error.
SpecSelect(dd, p) ==
    CASE p.form = "empty" -> Found({})
      [] p.form = "all" -> Found(dd.hosts)
      [] p.form = "commas" ->
            IF TokNames(p) \subseteq dd.hosts THEN Found(TokNames(p)) ELSE NotFound
      [] p.form = "single" /\ p.toks[1].name \in dd.hosts -> Found(TokNames(p))
      [] OTHER ->
            IF TokNames(p) \subseteq dd.groups \cup dd.hosts
            THEN Found(SpecFold(dd, p.toks)) ELSE NotFound

\* The group-parent graph as a relation, and a cycle in it.
ParentRel(dd) == [x, y \in GroupNames |-> y \in dd.Parents[x]]
HasCycle(dd) ==
    LET tc == TransitiveClosure(ParentRel(dd), GroupNames) IN \E g \in GroupNames : tc[g, g]

-----------------------------------------------------------------------------
(* Properties.                                                             *)

TypeOK ==
    /\ fmt \in {"ini", "yaml"}
    /\ doc \in YamlDocs \cup {<< >>}
    /\ d \in Data
    /\ group \in GroupNames
    /\ typ \in SectionTypes
    /\ n \in 0..MaxLines
    /\ st \in {"parsing", "parse_error", "uninitialized", "circular", "ok", "panic"}

\* The bounded walk of validateNoCircularReferences (depth = number of
\* groups) reports a circular reference exactly when the group-parent graph
\* that formatAndValidate produced has a cycle: no acyclic chain is long
\* enough to reach depth 0, and every cycle is found.
CycleDetectionExact ==
    st \in {"circular", "ok"} => (st = "circular" <=> HasCycle(d))

\* Spec 3 (InventoryData): after a successful load every host is a
\* transitive member of group "all": GetHosts("all") is the whole hosts map,
\* which is what the pattern "all" selects.
AllCoversHosts == st = "ok" => GetHosts(d, "all") = d.hosts

\* Spec 3: DetermineHosts on the loaded inventory selects what the
\* host-selection expression denotes.  A colon list may name hosts in the
\* spec; the code sends every colon list to determineHostsFromGroupsPattern
\* (the FIXME at common.go:271), which rejects a host name, so this fails
\* for "h1:h2".
SelectionMatchesSpec ==
    st = "ok" => \A p \in Patterns : DetermineHosts(d, p) = SpecSelect(d, p)

\* SelectionMatchesSpec for the patterns the code does read as the spec
\* does: the special forms, single names, comma lists, and colon lists of
\* names that are groups and not hosts.  For those GetHosts, walking
\* Children down with !/& folded left to right, must agree with membership
\* computed upwards over Parents.
GroupPatternsMatchSpec ==
    st = "ok" =>
        \A p \in Patterns :
            (p.form = "colons" => TokNames(p) \subseteq d.groups \ d.hosts)
            => DetermineHosts(d, p) = SpecSelect(d, p)

\* Spec 3 (InventoryData): the implicit group "ungrouped" contains exactly
\* the hosts not placed in any explicit group.  addUngroupedGroup moves
\* every host listed directly under "all" into it.
UngroupedExact ==
    st = "ok" =>
        d.Hosts["ungrouped"] =
            {h \in d.hosts : \A g \in d.groups \ {"all", "ungrouped"} : h \notin d.Hosts[g]}
=============================================================================
