-------------------------------- MODULE RunLog --------------------------------
(***************************************************************************)
(* What run_unit promises of every run that has a sink, without saying     *)
(* how: at most one record, never changed afterwards, and nobody is told   *)
(* of an end before the record of that very end is durable.  A run that    *)
(* could not be recorded, or died, ends as "error": its caller knows       *)
(* nothing of what it did.                                                 *)
(***************************************************************************)
CONSTANTS Run, Status

VARIABLES
  record,   \* the status filed for each run, or "none"
  told      \* what its caller has been told

vars == <<record, told>>

Init ==
  /\ record = [r \in Run |-> "none"]
  /\ told = [r \in Run |-> "nothing"]

File(r, s) ==
  /\ told[r] = "nothing" /\ record[r] = "none"
  /\ record' = [record EXCEPT ![r] = s]
  /\ UNCHANGED told

Tell(r) ==
  /\ told[r] = "nothing" /\ record[r] # "none"
  /\ told' = [told EXCEPT ![r] = record[r]]
  /\ UNCHANGED record

Lose(r) ==
  /\ told[r] = "nothing"
  /\ told' = [told EXCEPT ![r] = "error"]
  /\ UNCHANGED record

Next == \E r \in Run : Tell(r) \/ Lose(r) \/ \E s \in Status : File(r, s)

Spec == Init /\ [][Next]_vars
=============================================================================
