------------------------- MODULE MCScrobbleDelivery -------------------------
(* ScrobbleDelivery for TLC. *)
EXTENDS ScrobbleDelivery, TLC

CONSTANTS lb, lf, t, u

=============================================================================
