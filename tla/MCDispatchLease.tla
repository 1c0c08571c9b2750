--------------------------- MODULE MCDispatchLease ---------------------------
(* Model values for the runs of DispatchLease. *)
EXTENDS DispatchLease

CONSTANTS c1, c2

TwoCallers == {c1, c2}
=============================================================================
