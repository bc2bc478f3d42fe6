------------------------------ MODULE Sequence ------------------------------
(***************************************************************************)
(* The sequence lookup plugin, src/plugins/lookup/sequence/sequence.go.    *)
(* Run takes a list of terms; for each it resets the seq, parses the term *)
(* as the shortcut "[start-]end[/stride][:format]" or as key=value pairs, *)
(* sanity-checks it and appends the numbers it generates; the first error *)
(* is the lookup's value.  The parsing of digits (strconv.ParseInt base 0) *)
(* is abstracted to its result: an integer or "bad"; the regular          *)
(* expression match to the term's kind; the format to "ok" when it has    *)
(* exactly one "%" and contains "%d", and the items are the numbers before *)
(* they are formatted.                                                    *)
(***************************************************************************)
EXTENDS Integers, Sequences, SequencesExt

CONSTANT TermLists   \* the argument lists of the lookup to check

VARIABLES
    terms,  \* va.Args
    called, \* Run has returned
    out     \* the value of Run: [err, val], with val the list of numbers

Keys == {"start", "count", "end", "stride"}

\* A term: short says it matched the shortcut expression; given is the set
\* of keys it sets, bad those whose digits ParseInt rejects, val their
\* values; fmt is "none" when no format is given; extra says key=value
\* pairs name an unknown key.
Term(short, given, bad, val, fmt, extra) ==
    [short |-> short, given |-> given, bad |-> bad, val |-> val, fmt |-> fmt,
     extra |-> extra]

Ok(x) == [err |-> FALSE, val |-> x]
Err(x) == [err |-> TRUE, val |-> x]

\* seq.reset: the defaults, with -1 standing for "not given".
Reset == [start |-> 1, count |-> -1, end |-> -1, stride |-> 1, fmt |-> "ok"]

\* The given values of a parsed term over the seq; a bad number is an error.
Override(s, t) ==
    IF t.bad # {} THEN Err(s)
    ELSE Ok([k \in DOMAIN s |->
               IF k = "fmt" THEN (IF t.fmt = "none" THEN s.fmt ELSE t.fmt)
               ELSE IF k \in t.given THEN t.val[k] ELSE s[k]])

\* parseSimpleArgs: start, end and stride of the shortcut, and its format.
parseSimpleArgs(s, t) == Override(s, t)

\* parseKvArgs: every known key, the format, and no other key.
parseKvArgs(s, t) == IF t.extra THEN Err(s) ELSE Override(s, t)

\* sanityCheck: exactly one of count and end (by the -1 marks), count
\* turned into end, the direction of stride, and the format.
sanityCheck(s) ==
    IF s.count = -1 /\ s.end = -1 THEN Err(s)
    ELSE IF s.count # -1 /\ s.end # -1 THEN Err(s)
    ELSE LET c == IF s.count = -1 THEN s
                  ELSE IF s.count = 0
                       THEN [s EXCEPT !.start = 0, !.end = 0, !.stride = 0]
                  ELSE [s EXCEPT !.end = s.start + s.count * s.stride - 1]
         IN IF \/ c.stride > 0 /\ c.end < c.start
               \/ c.stride < 0 /\ c.end > c.start
               \/ c.fmt = "bad"
            THEN Err(c) ELSE Ok(c)

\* The loop of generateSequence from i, stepping by stride, before stop.
RECURSIVE Numbers(_, _, _)
Numbers(i, stop, stride) ==
    IF (stride > 0 /\ i < stop) \/ (stride < 0 /\ i > stop)
    THEN <<i>> \o Numbers(i + stride, stop, stride)
    ELSE << >>

\* Mutant: the loop stops before end.
generateSequenceShort(s) ==
    Numbers(s.start, s.end, s.stride)

\* generateSequence: the loop bound is end + 1, or end - 1 for a stride
\* below 1.
generateSequence(s) ==
    Numbers(s.start, IF s.stride < 1 THEN s.end - 1 ELSE s.end + 1, s.stride)

\* Run: each term from a reset seq; an error ends the lookup; a zero
\* stride adds nothing.
RECURSIVE RunFrom(_, _, _)
RunFrom(ts, k, acc) ==
    IF k > Len(ts) THEN Ok(acc)
    ELSE LET t == ts[k]
             p == IF t.short THEN parseSimpleArgs(Reset, t) ELSE parseKvArgs(Reset, t)
             c == IF p.err THEN p ELSE sanityCheck(p.val)
         IN IF c.err THEN Err(<< >>)
            ELSE RunFrom(ts, k + 1, IF c.val.stride # 0 THEN acc \o generateSequence(c.val)
                                    ELSE acc)

Run(ts) == RunFrom(ts, 1, << >>)

Init == terms \in TermLists /\ called = FALSE /\ out = Ok(<< >>)

\* The template engine calls the lookup once.
Lookup == ~called /\ called' = TRUE /\ out' = Run(terms) /\ UNCHANGED terms

\* The lookup's value has been returned.
Returned == called /\ UNCHANGED <<terms, called, out>>

Next == Lookup \/ Returned

TypeOK ==
    /\ \A k \in DOMAIN terms :
         /\ terms[k].bad \subseteq terms[k].given /\ terms[k].given \subseteq Keys
         /\ terms[k].val \in [terms[k].given -> Int]
    /\ called \in BOOLEAN
    /\ out \in [err : BOOLEAN, val : Seq(Int)]

(***************************************************************************)
(* The reference: the arithmetic progression from start by stride that    *)
(* stays between start and end (the range the spec's "[start-]end[/stride]"*)
(* describes), computed by counting, not by looping.                      *)
(***************************************************************************)
RefRange(start, end, stride) ==
    LET n == CASE stride > 0 /\ end >= start -> (end - start) \div stride + 1
               [] stride < 0 /\ end <= start -> (start - end) \div (-stride) + 1
               [] OTHER -> 0
    IN [k \in 1..n |-> start + (k - 1) * stride]

Given(t, k, dflt) == IF k \in t.given THEN t.val[k] ELSE dflt

\* A term given by its end, as the spec reads it.
EndTerm(t) == "count" \notin t.given /\ "end" \in t.given /\ t.val["end"] # -1

\* A lookup of terms given by their end that returns numbers returns, term
\* by term, the progression from start by stride up to end (Run's reset,
\* sanityCheck's direction checks and generateSequence's loop bounds).
EndTermsMatchReference ==
    /\ called /\ ~out.err
    /\ \A k \in DOMAIN terms : EndTerm(terms[k])
    => out.val = FlattenSeq([j \in DOMAIN terms |->
                RefRange(Given(terms[j], "start", 1), terms[j].val["end"],
                         Given(terms[j], "stride", 1))])

\* A term given by a count yields count numbers (the spec's "count").
CountYieldsCount ==
    called /\ ~out.err /\ Len(terms) = 1 /\ "count" \in terms[1].given /\ terms[1].val.count >= 0
    => Len(out.val) = terms[1].val.count

=============================================================================
