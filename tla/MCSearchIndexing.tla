-------------------------- MODULE MCSearchIndexing --------------------------
(* Small instances of SearchIndexing for TLC: one text, or two, the second longer. *)
EXTENDS SearchIndexing, TLC

CONSTANTS text, longer

TwoQueries == {text, longer}
\* The same row of two revisions may match or not.
SomeMatch == [q \in Queries |-> {rec \in Records : (rec[1] + rec[2]) % 2 = 0}]
ByTyping == {n \in Queries \X Queries : n[1] = text /\ n[2] = longer}
=============================================================================
