------------------------------- MODULE MCGlob -------------------------------
(***************************************************************************)
(* Keys and patterns for model checking Glob.                              *)
(***************************************************************************)
EXTENDS Glob

LowerA == 97
LowerB == 98
LowerC == 99

UpTo(S, n) == UNION {[1 .. m -> S] : m \in 0 .. n}

MCKeys == UpTo({LowerA, LowerB, Star, Open}, 3)

\* Patterns are put together from these, two classes with a range or a dash at the
\* end, one with a range and a dash, and a bracket that nothing closes among them.
Pieces ==
    {<<LowerA>>, <<LowerB>>, <<Star>>, <<AnyOne>>, <<Open>>, <<Open, LowerA, Close>>,
     <<Open, Caret, LowerA, Close>>, <<Open, LowerB, Dash, LowerC, Close>>,
     <<Open, LowerA, Dash, LowerA, Dash, LowerC, Close>>, <<Open, Caret, LowerB, Dash, Close>>}

MCPatterns == {FlattenSeq(p) : p \in UpTo(Pieces, 3)}
=============================================================================
