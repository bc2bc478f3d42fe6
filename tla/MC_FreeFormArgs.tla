--------------------------- MODULE MC_FreeFormArgs ---------------------------
(* Instances of FreeFormArgs for TLC.                                       *)
EXTENDS FreeFormArgs

\* Pieces of argument strings: words, key=value words (key "c" is on the
\* ignored list), quotes opening and closing, an escaped quote, a lone
\* backslash, an escaped "=", jinja2 delimiters, blank and line break.
Atoms ==
    { << "k" >>, << "k", "=", "k" >>, << "c", "=", "k" >>, << "k", BS, "=", "k" >>,
      << SQ, "k" >>, << "k", SQ >>, << DQ >>, << BS, DQ >>, << BS >>,
      << "{", "{" >>, << "}", "}" >>, << "{", "%" >>, << "%", "}" >>, << SP >>, << NL >> }

MaxAtoms == 3

ArgStrings == { FlattenSeq(a) : a \in BoundedSeq(Atoms, MaxAtoms) }

\* The task's args mapping: none, a string value, a list value.
Extras == { NoOptions, << "c" >> :> << "k" >>, << "k" >> :> "list" }

MCTasks == [str : ArgStrings, freeform : BOOLEAN, extra : Extras]
=============================================================================
