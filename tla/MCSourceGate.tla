---------------------------- MODULE MCSourceGate ----------------------------
(* Small instances of SourceGate for TLC. *)
EXTENDS SourceGate, TLC

CONSTANTS p1, p2, f1, f2

TwoPulls == {p1, p2}
OnePull == {p1}
OneFetch == {f1}
NoFetch == {}

\* The jobs of one kind are interchangeable.
JobSymmetry == Permutations(TwoPulls)
=============================================================================
