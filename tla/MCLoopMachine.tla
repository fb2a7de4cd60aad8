--------------------------- MODULE MCLoopMachine ---------------------------
(* Small instances of LoopMachine for TLC.                                 *)
EXTENDS LoopMachine, TLC

CONSTANTS s1, s2, s2fmt

\* s2fmt is s2 reformatted: another hash, the same normalised hash.
TwoSpecs == {s1, s2}
FormattedSpecs == {s1, s2, s2fmt}
PlainNorm == [s \in TwoSpecs |-> s]
FormatNorm == [s \in FormattedSpecs |-> IF s = s2fmt THEN s2 ELSE s]
\* Texts are compared, and so are their norms: with PlainNorm the two texts
\* are interchangeable, with FormatNorm those of the same norm are.
PlainSymmetry == Permutations({s1, s2})
FormatSymmetry == Permutations({s2, s2fmt})
\* Enough for properties that do not ask what an observer knows.
Unobserved == <<file, mod, cur, drafts, lock, moves>>
=============================================================================
