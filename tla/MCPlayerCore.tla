---------------------------- MODULE MCPlayerCore ----------------------------
(* PlayerCore for TLC. *)
EXTENDS PlayerCore, TLC

CONSTANTS a, b, c, d

\* Lists a caller loads or adds: one row, two rows, and a longer queue.
ListsLinear  == {<<a>>, <<a, b, c>>}
ListsShuffle == {<<a, b, c>>}
ListsSkip    == {<<a, b, d>>}

=============================================================================
