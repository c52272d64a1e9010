--------------------------- MODULE MCAnalysisPool ---------------------------
(* Small instances of AnalysisPool for TLC. *)
EXTENDS AnalysisPool, TLC

CONSTANTS r1, r2, flac, mp3

TwoReaders == {r1, r2}
\* Small files, and one that is larger than a budget of 2.
Sizes == [i \in Candidates |-> CASE i = 0 -> 1 [] i = 1 -> 3 [] i = 2 -> 2 [] OTHER -> 1]
Extensions == [i \in Candidates |-> IF i % 2 = 0 THEN flac ELSE mp3]
\* Of pending candidates, read ahead; and of the representatives, with a spurious wakeup.
StagedAndBounded ==
    {[count |-> 2, staging |-> TRUE, bounded |-> FALSE, wakeups |-> 0],
     [count |-> 4, staging |-> FALSE, bounded |-> TRUE, wakeups |-> 1]}
=============================================================================
