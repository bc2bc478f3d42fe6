---------------------------- MODULE FreeFormArgs ----------------------------
(***************************************************************************)
(* The free-form argument parser of src/parsing/splitter.go and            *)
(* quoting.go, and its use by normalizeNewStyleArgs in                     *)
(* src/playbook/module_args_resolver.go for a task written as              *)
(* "module: k1=v1 k2=v2".                                                   *)
(*                                                                         *)
(* A string is a sequence of one-character strings.  The characters that   *)
(* steer the parser are kept (blank, line break, quotes, backslash, "=",   *)
(* braces, "%", "#"); every other character is one of two letters: "k",    *)
(* and "c", which spells a key of the ignoredFromRawParams list.           *)
(***************************************************************************)
EXTENDS Naturals, Sequences, SequencesExt

CONSTANTS
    Tasks   \* the tasks resolved: [str : a free-form string,
            \*   freeform : the action is on the free-form list,
            \*   extra : the task's args mapping, a key to "str" or "list"]

SP == " "
NL == "\n"
BS == "\\"
SQ == "'"
DQ == "\""

\* The key the unparsed words are recombined under.
RawParamsKey == <<"_raw_params">>
\* ignoredFromRawParams: creates, removes, chdir, ...
IgnoredFromRawParams == {<<"c">>}

-----------------------------------------------------------------------------
(* String helpers with the semantics of Go's strings package.              *)

\* strings.Split(s, sep) for a one-character sep: n separators give n+1
\* pieces, the empty string gives one empty piece.
RECURSIVE SplitOn(_, _)
SplitOn(s, sep) ==
    IF \A i \in 1..Len(s) : s[i] # sep
    THEN << s >>
    ELSE LET i == CHOOSE i \in 1..Len(s) : s[i] = sep /\ \A j \in 1..(i-1) : s[j] # sep
         IN << SubSeq(s, 1, i - 1) >> \o SplitOn(SubSeq(s, i + 1, Len(s)), sep)

\* strings.Count of a two-character pattern: non-overlapping, leftmost.
RECURSIVE CountPat(_, _)
CountPat(s, pat) ==
    IF Len(s) < 2 THEN 0
    ELSE IF SubSeq(s, 1, 2) = pat THEN 1 + CountPat(SubSeq(s, 3, Len(s)), pat)
    ELSE CountPat(Tail(s), pat)

\* strings.ReplaceAll of a two-character pattern by a one-character one.
RECURSIVE ReplacePat(_, _, _)
ReplacePat(s, pat, by) ==
    IF Len(s) < 2 THEN s
    ELSE IF SubSeq(s, 1, 2) = pat THEN << by >> \o ReplacePat(SubSeq(s, 3, Len(s)), pat, by)
    ELSE << Head(s) >> \o ReplacePat(Tail(s), pat, by)

\* strings.TrimSpace for the blanks and line breaks of the alphabet.
RECURSIVE TrimSpace(_)
TrimSpace(s) ==
    CASE s # << >> /\ Head(s) \in {SP, NL} -> TrimSpace(Tail(s))
      [] s # << >> /\ Last(s) \in {SP, NL} -> TrimSpace(Front(s))
      [] OTHER -> s

-----------------------------------------------------------------------------
(* quoting.go                                                              *)

IsQuoted(s) ==
    /\ Len(s) >= 2
    /\ s[1] = s[Len(s)]
    /\ s[1] \in {DQ, SQ}
    /\ s[Len(s) - 1] # BS

Unquote(s) == IF IsQuoted(s) THEN SubSeq(s, 2, Len(s) - 1) ELSE s

-----------------------------------------------------------------------------
(* splitter.go: joinArgs and splitArgs                                     *)

\* joinArgs: a blank between parts unless nothing was written yet or the
\* last character written is a line break.  (The builder's LastChar and
\* NonEmpty are the last character and non-emptiness of what it holds.)
RECURSIVE JoinArgs(_)
JoinArgs(xs) ==
    IF xs = << >> THEN << >>
    ELSE LET r == JoinArgs(Front(xs)) IN
         IF r = << >> \/ Last(r) = NL THEN r \o Last(xs) ELSE r \o << SP >> \o Last(xs)

\* getQuoteState: the quote character left open after token, starting
\* with quoteChar ("" when outside quotes).  A quote after a backslash is
\* not a quote.
RECURSIVE QuoteScan(_, _, _)
QuoteScan(token, q, i) ==
    IF i > Len(token) THEN q
    ELSE QuoteScan(token,
                   IF token[i] \in {DQ, SQ} /\ ~(i > 1 /\ token[i - 1] = BS)
                   THEN IF q # "" THEN (IF token[i] = q THEN "" ELSE q) ELSE token[i]
                   ELSE q,
                   i + 1)

GetQuoteState(token, quoteChar) == QuoteScan(token, quoteChar, 1)

\* The nested jinja2 blocks splitArgs counts, and their delimiters.
OpenTag == [print |-> << "{", "{" >>, block |-> << "{", "%" >>, comment |-> << "{", "#" >>]
CloseTag == [print |-> << "}", "}" >>, block |-> << "%", "}" >>, comment |-> << "#", "}" >>]

\* countJinja2Blocks: the depth moves by the difference of the counts and
\* is clamped at 0.
CountJinja2Blocks(token, curDepth, open, close) ==
    LET numOpen == CountPat(token, open)
        numClose == CountPat(token, close)
    IN IF numOpen # numClose
       THEN IF curDepth + numOpen < numClose THEN 0 ELSE curDepth + numOpen - numClose
       ELSE curDepth

\* The locals of splitArgs: params, quoteChar, the three depths and the
\* line-continuation flag of the current line; panic records an index of
\* params[len(params)-1] while params is empty (a run-time panic in Go).
SplitStart ==
    [params |-> << >>, quoteChar |-> "", depth |-> [b \in {"print", "block", "comment"} |-> 0],
     lineContinuation |-> FALSE, panic |-> FALSE]

InBlock(st) == \E b \in DOMAIN st.depth : st.depth[b] > 0

\* params[len(params)-1] += s
AddToLast(st, s) ==
    IF st.params = << >>
    THEN [st EXCEPT !.panic = TRUE]
    ELSE [st EXCEPT !.params[Len(st.params)] = @ \o s]

\* params = append(params, token)
Push(st, token) == [st EXCEPT !.params = Append(@, token)]

\* Mutant of Token: a token that opens a quote is added to the last param.
TokenOpensOnLast(st, token, i, n) ==
    LET wasInsideQuotes == st.quoteChar # ""
        q == GetQuoteState(token, st.quoteChar)
        insideQuotes == q # ""
        s0 == [st EXCEPT !.quoteChar = q]
        opens == insideQuotes /\ ~wasInsideQuotes /\ ~InBlock(st)
        joins == InBlock(st) \/ insideQuotes \/ wasInsideQuotes
        s1 == IF opens THEN AddToLast(s0, token)
              ELSE IF ~joins THEN s0
              ELSE IF i = 1 /\ wasInsideQuotes THEN AddToLast(s0, token)
              ELSE IF n > 1 THEN AddToLast(s0, (IF i > 1 THEN << SP >> ELSE << >>) \o token)
              ELSE AddToLast(s0, << NL >> \o token)
        depth == [b \in DOMAIN st.depth |->
                    CountJinja2Blocks(token, st.depth[b], OpenTag[b], CloseTag[b])]
        appended == opens \/ joins \/ depth # st.depth
        s2 == IF ~(opens \/ joins) /\ depth # st.depth
              THEN Push([s1 EXCEPT !.depth = depth], token)
              ELSE [s1 EXCEPT !.depth = depth]
    IN IF ~InBlock(s2) /\ ~insideQuotes /\ ~appended /\ token # << >>
       THEN Push(s2, token)
       ELSE s2

\* Mutant of Token: a quoted string continued at the start of a line gets
\* the blank spacer too.
TokenSpacesLineStart(st, token, i, n) ==
    LET wasInsideQuotes == st.quoteChar # ""
        q == GetQuoteState(token, st.quoteChar)
        insideQuotes == q # ""
        s0 == [st EXCEPT !.quoteChar = q]
        opens == insideQuotes /\ ~wasInsideQuotes /\ ~InBlock(st)
        joins == InBlock(st) \/ insideQuotes \/ wasInsideQuotes
        s1 == IF opens THEN Push(s0, token)
              ELSE IF ~joins THEN s0
              ELSE IF i = 1 /\ wasInsideQuotes THEN AddToLast(s0, << SP >> \o token)
              ELSE IF n > 1 THEN AddToLast(s0, (IF i > 1 THEN << SP >> ELSE << >>) \o token)
              ELSE AddToLast(s0, << NL >> \o token)
        depth == [b \in DOMAIN st.depth |->
                    CountJinja2Blocks(token, st.depth[b], OpenTag[b], CloseTag[b])]
        appended == opens \/ joins \/ depth # st.depth
        s2 == IF ~(opens \/ joins) /\ depth # st.depth
              THEN Push([s1 EXCEPT !.depth = depth], token)
              ELSE [s1 EXCEPT !.depth = depth]
    IN IF ~InBlock(s2) /\ ~insideQuotes /\ ~appended /\ token # << >>
       THEN Push(s2, token)
       ELSE s2

\* The body of the token loop for a token that is neither a repeated blank
\* nor a line continuation: the quote state, the first append or
\* concatenation, the three block depths, and the final append.
Token(st, token, i, n) ==
    LET wasInsideQuotes == st.quoteChar # ""
        q == GetQuoteState(token, st.quoteChar)
        insideQuotes == q # ""
        s0 == [st EXCEPT !.quoteChar = q]
        opens == insideQuotes /\ ~wasInsideQuotes /\ ~InBlock(st)
        joins == InBlock(st) \/ insideQuotes \/ wasInsideQuotes
        s1 == IF opens THEN Push(s0, token)
              ELSE IF ~joins THEN s0
              ELSE IF i = 1 /\ wasInsideQuotes THEN AddToLast(s0, token)
              ELSE IF n > 1 THEN AddToLast(s0, (IF i > 1 THEN << SP >> ELSE << >>) \o token)
              ELSE AddToLast(s0, << NL >> \o token)
        \* the three countJinja2Blocks calls; the first whose depth changed
        \* appends the token unless it was appended above
        depth == [b \in DOMAIN st.depth |->
                    CountJinja2Blocks(token, st.depth[b], OpenTag[b], CloseTag[b])]
        appended == opens \/ joins \/ depth # st.depth
        s2 == IF ~(opens \/ joins) /\ depth # st.depth
              THEN Push([s1 EXCEPT !.depth = depth], token)
              ELSE [s1 EXCEPT !.depth = depth]
    IN IF ~InBlock(s2) /\ ~insideQuotes /\ ~appended /\ token # << >>
       THEN Push(s2, token)
       ELSE s2

\* The body of the token loop, at (1-based) index i of tokens: a repeated
\* blank is added to the last param, a lone "\" outside quotes marks a
\* line continuation, any other token goes through Token.
TokenStep(st, tokens, i) ==
    IF tokens[i] = << >> /\ i # 1 THEN AddToLast(st, << SP >>)
    ELSE IF tokens[i] = << BS >> /\ st.quoteChar = "" THEN [st EXCEPT !.lineContinuation = TRUE]
    ELSE Token(st, tokens[i], i, Len(tokens))

\* The end of line j of items: the line break put back unless this is the
\* last line or it ended in "\".
LineEnd(st, items, j) ==
    IF Len(items) > 1 /\ j # Len(items) /\ ~st.lineContinuation
    THEN AddToLast(st, << NL >>)
    ELSE st

\* What splitArgs returns once its loops are over: the params, or the
\* error for unbalanced quotes or blocks.
SplitOutcome(st) ==
    IF st.panic THEN [st |-> "panic", params |-> << >>]
    ELSE IF InBlock(st) \/ st.quoteChar # "" THEN [st |-> "error", params |-> << >>]
    ELSE [st |-> "ok", params |-> st.params]
-----------------------------------------------------------------------------
-----------------------------------------------------------------------------
(* splitter.go: ParseKeyValuePairsString                                   *)

DecodeEscapes(x) ==
    ReplacePat(ReplacePat(ReplacePat(x, << BS, BS >>, BS), << BS, SQ >>, SQ), << BS, DQ >>, DQ)

\* findUnescapedEqualsSignPos: the (0-based) index of the first "=" at
\* index offset or later that is not after a backslash, -1 if none; the
\* search starts at index 1.
RECURSIVE FindEq(_, _)
FindEq(x, offset) ==
    LET at == {p \in offset..(Len(x) - 1) : x[p + 1] = "="} IN
    IF at = {} THEN -1
    ELSE IF x[Min(at)] # BS THEN Min(at)
    ELSE FindEq(x, Min(at) + 1)

FindUnescapedEqualsSignPos(x) == FindEq(x, 1)

NoOptions == [k \in {} |-> << >>]

\* One iteration over the split args: a word with an unescaped "=" is an
\* option unless checkRaw keeps it raw; a word with only escaped "=" goes
\* to the raw params with the escapes removed; any other word as it is.
KvStep(checkRaw, acc, rawArg) ==
        LET x == DecodeEscapes(rawArg)
            pos == FindUnescapedEqualsSignPos(x)
            k == SubSeq(x, 1, pos)
            v == SubSeq(x, pos + 2, Len(x))
        IN IF \A i \in 1..Len(x) : x[i] # "="
           THEN [acc EXCEPT !.rawParams = Append(@, rawArg)]
           ELSE IF pos < 0
           THEN [acc EXCEPT !.rawParams = Append(@, ReplacePat(x, << BS, "=" >>, "="))]
           ELSE IF checkRaw /\ k \notin IgnoredFromRawParams
           THEN [acc EXCEPT !.rawParams = Append(@, rawArg)]
           ELSE [acc EXCEPT !.options = (TrimSpace(k) :> Unquote(TrimSpace(v))) @@ @]

\* The options ParseKeyValuePairsString returns after its loop: the raw
\* params are recombined by joinArgs under _raw_params.
KvOptions(acc) ==
    IF acc.rawParams = << >> THEN acc.options
    ELSE (RawParamsKey :> JoinArgs(acc.rawParams)) @@ acc.options
-----------------------------------------------------------------------------
(* module_args_resolver.go: the arguments of a task "action: <string>".    *)

\* isFreeformAction: the action is on the moduleRequireArgs list.
IsFreeformAction(t) == t.freeform

NoSplit == [st |-> "none", params |-> << >>]

VARIABLES
    task,    \* the task whose action is resolved
    pc,      \* "start", "split" (splitArgs of the task's string), "kv" (the
             \* loop of ParseKeyValuePairsString), "rejoin", "resplit"
             \* (splitArgs of joinArgs of the first split), "done"
    lines,   \* items: the lines of the string being split
    j,       \* the index of the current line
    toks,    \* tokens: the blank-separated tokens of line j
    i,       \* the index of the next token
    sp,      \* the locals of splitArgs
    split,   \* what splitArgs returned for the task's string
    kv,      \* options and rawParams of ParseKeyValuePairsString
    rest,    \* the split args the loop of ParseKeyValuePairsString has left
    result,  \* what normalizeParameters returned
    resplit  \* what splitArgs returned for joinArgs(split.params)

vars == << task, pc, lines, j, toks, i, sp, split, kv, rest, result, resplit >>
splitVars == << lines, j, toks, i, sp >>

\* splitArgs(args) starts: the lines, the tokens of the first line.
StartSplit(args) ==
    /\ lines' = SplitOn(args, NL)
    /\ j' = 1
    /\ toks' = SplitOn(lines'[1], SP)
    /\ i' = 1
    /\ sp' = SplitStart

Init ==
    /\ task \in Tasks
    /\ pc = "start"
    /\ lines = << >> /\ j = 0 /\ toks = << >> /\ i = 1 /\ sp = SplitStart
    /\ split = NoSplit
    /\ kv = [options |-> NoOptions, rawParams |-> << >>]
    /\ rest = << >>
    /\ result = [st |-> "pending", args |-> NoOptions]
    /\ resplit = NoSplit

\* normalizeParameters: an args value that is not a string is an error
\* before the action's value is parsed; otherwise normalizeNewStyleArgs
\* calls ParseKeyValuePairsString, which calls splitArgs.
Resolve ==
    /\ pc = "start"
    /\ IF \E k \in DOMAIN task.extra : task.extra[k] = "list"
       THEN /\ pc' = "done"
            /\ result' = [st |-> "error", args |-> NoOptions]
            /\ UNCHANGED splitVars
       ELSE /\ pc' = "split"
            /\ StartSplit(task.str)
            /\ UNCHANGED result
    /\ UNCHANGED << task, split, kv, rest, resplit >>

Splitting == pc \in {"split", "resplit"} /\ ~sp.panic

\* One iteration of the token loop.
SplitToken ==
    /\ Splitting
    /\ i <= Len(toks)
    /\ sp' = TokenStep(sp, toks, i)
    /\ i' = i + 1
    /\ UNCHANGED << task, pc, lines, j, toks, split, kv, rest, result, resplit >>

\* The tokens of line j are done and another line follows; a new line
\* clears lineContinuation.
SplitLine ==
    /\ Splitting
    /\ i > Len(toks)
    /\ j < Len(lines)
    /\ sp' = [LineEnd(sp, lines, j) EXCEPT !.lineContinuation = FALSE]
    /\ j' = j + 1
    /\ toks' = SplitOn(lines[j + 1], SP)
    /\ i' = 1
    /\ UNCHANGED << task, pc, lines, split, kv, rest, result, resplit >>

\* splitArgs returns, or panics at params[len(params)-1].  A panic ends
\* the program; a nil map from an error ranges over nothing, so the
\* task's args are its args mapping alone.
SplitReturn ==
    /\ pc \in {"split", "resplit"}
    /\ sp.panic \/ (i > Len(toks) /\ j = Len(lines))
    /\ LET out == SplitOutcome(sp) IN
       IF pc = "resplit"
       THEN /\ resplit' = out
            /\ pc' = "done"
            /\ UNCHANGED << split, rest, result >>
       ELSE /\ split' = out
            /\ CASE out.st = "panic" -> pc' = "done" /\ result' = [st |-> "panic", args |-> NoOptions]
                 [] out.st = "error" -> pc' = "done" /\ result' = [st |-> "ok", args |-> task.extra]
                 [] OTHER            -> pc' = "kv" /\ UNCHANGED result
            /\ rest' = out.params
            /\ UNCHANGED resplit
    /\ UNCHANGED << task, splitVars, kv >>

\* One iteration of the loop of ParseKeyValuePairsString.
KvWord ==
    /\ pc = "kv"
    /\ rest # << >>
    /\ kv' = KvStep(IsFreeformAction(task), kv, Head(rest))
    /\ rest' = Tail(rest)
    /\ UNCHANGED << task, pc, splitVars, split, result, resplit >>

\* ParseKeyValuePairsString returns; normalizeParameters lays the parsed
\* pairs over the task's args mapping.
KvReturn ==
    /\ pc = "kv"
    /\ rest = << >>
    /\ result' = [st |-> "ok", args |-> KvOptions(kv) @@ task.extra]
    /\ pc' = "rejoin"
    /\ UNCHANGED << task, splitVars, split, kv, rest, resplit >>

\* The params of the first split are recombined by joinArgs and split
\* again, to check the round trip below.
Rejoin ==
    /\ pc = "rejoin"
    /\ pc' = "resplit"
    /\ StartSplit(JoinArgs(split.params))
    /\ UNCHANGED << task, split, kv, rest, result, resplit >>

\* The task list has been resolved; a panic ends the process.
Resolved ==
    /\ pc = "done"
    /\ UNCHANGED vars

Next ==
    \/ Resolve \/ SplitToken \/ SplitLine \/ SplitReturn
    \/ KvWord \/ KvReturn \/ Rejoin \/ Resolved

Spec == Init /\ [][Next]_vars

TypeOK ==
    /\ task.freeform \in BOOLEAN
    /\ pc \in {"start", "split", "kv", "rejoin", "resplit", "done"}
    /\ j \in Nat /\ i \in Nat
    /\ sp.quoteChar \in {"", SQ, DQ} /\ sp.panic \in BOOLEAN
    /\ split.st \in {"none", "ok", "error", "panic"}
    /\ resplit.st \in {"none", "ok", "error", "panic"}
    /\ result.st \in {"pending", "ok", "error", "panic"}
-----------------------------------------------------------------------------

\* Spec section 8 (round-trips and laws): splitArgs(joinArgs(xs)) = xs for
\* xs without unbalanced quotes or jinja2 blocks.  Checked for the xs that
\* splitArgs made of the task's string, which is how joinArgs recombines
\* the raw params; the line break splitArgs puts back at the end of a line
\* inside a block is added a second time when the next line is one token.
SplitJoinLaw ==
    pc = "done" /\ split.st = "ok" => resplit = split
\* The law above holds for every string without a jinja2 delimiter: blanks,
\* line breaks (put back by the line end of splitArgs, not followed by a
\* blank by joinArgs), quotes and escapes all survive the round trip.
BlockFreeRoundTrip ==
    (pc = "done" /\ split.st = "ok" /\ \A x \in 1..Len(task.str) : task.str[x] # "{")
        => resplit = split

\* splitArgs indexes params[len(params)-1] only once a token was pushed
\* unless the string starts with a blank, a line break or a line
\* continuation: a string that starts with a word never panics the
\* controller.
NoPanicAfterWord ==
    split.st = "panic" => task.str # << >> /\ Head(task.str) \in {SP, NL, BS}
====
