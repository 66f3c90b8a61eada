----------------------------- MODULE MCSyncLoop -----------------------------
(* Small instances of SyncLoop for TLC. *)
EXTENDS SyncLoop, Sequences

\* Two items that cannot be read, with a gap and a skipped item between them; then an
\* old document first; then the shortest list with an unreadable head.
KindsMixed == <<"doc", "poison", "skip", "gap", "poison">>
KindsPoison == <<"poison", "doc", "poison">>
KindsWalk == <<"old", "skip", "poison", "doc">>

NormalOnly == {"normal"}
BothModes == {"normal", "first_setup"}
=============================================================================
