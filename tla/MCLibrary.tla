----------------------------- MODULE MCLibrary -----------------------------
(* Small instances of Library for TLC. *)
EXTENDS Library, TLC

CONSTANTS a, low, high

OneFile == {a}
TwoRatings == {low, high}
============================================================================
