------------------------------ MODULE WorkPool ------------------------------
(***************************************************************************)
(* What the caller of an analysis pool may rely on.  Candidates are taken  *)
(* in order; what was analysed reaches the caller exactly once; and the    *)
(* call returns only with everything analysed delivered, and with all of   *)
(* the candidates unless it was asked to stop.  Threads, queues and bytes  *)
(* are left out: AnalysisPool has them.                                    *)
(***************************************************************************)
EXTENDS Integers, Sequences

VARIABLES
    count,          \* the candidates are 0 .. count - 1
    claimed,        \* how many candidates were taken
    analysed,       \* those whose analysis is finished
    delivered,      \* the analyses the caller was given, in that order
    stopping,       \* whether the process was asked to stop
    returned        \* whether the call is over

pool == <<count, claimed, analysed, delivered, stopping, returned>>

Given == {delivered[k] : k \in DOMAIN delivered}

Init ==
    /\ count \in Nat /\ claimed = 0 /\ analysed = {} /\ delivered = <<>>
    /\ stopping = FALSE /\ returned = FALSE

Claim ==
    /\ ~returned /\ claimed < count
    /\ claimed' = claimed + 1
    /\ UNCHANGED <<count, analysed, delivered, stopping, returned>>

Analyse(i) ==
    /\ ~returned /\ i \in (0 .. claimed - 1) \ analysed
    /\ analysed' = analysed \union {i}
    /\ UNCHANGED <<count, claimed, delivered, stopping, returned>>

Deliver(i) ==
    /\ ~returned /\ i \in analysed \ Given
    /\ delivered' = Append(delivered, i)
    /\ UNCHANGED <<count, claimed, analysed, stopping, returned>>

Stop ==
    /\ stopping' = TRUE
    /\ UNCHANGED <<count, claimed, analysed, delivered, returned>>

Return ==
    /\ Given = analysed
    /\ stopping \/ analysed = 0 .. count - 1
    /\ returned' = TRUE
    /\ UNCHANGED <<count, claimed, analysed, delivered, stopping>>

Next ==
    \/ Claim \/ Stop \/ Return
    \/ \E i \in 0 .. count - 1 : Analyse(i) \/ Deliver(i)

Spec == Init /\ [][Next]_pool
=============================================================================
