------------------------------ MODULE QueueRow ------------------------------
(***************************************************************************)
(* What every outbox table promises about its rows: a row is taken by one  *)
(* publisher at a time, each taking is counted, only the taker moves it,   *)
(* and a row that is sent or failed is never touched again.                *)
(***************************************************************************)
EXTENDS Naturals

CONSTANT Rows

VARIABLES
  status,  \* where the row is
  tries    \* how often it has been taken

Init ==
  /\ status = [r \in Rows |-> "absent"]
  /\ tries = [r \in Rows |-> 0]

Insert(r) ==
  /\ status[r] = "absent"
  /\ status' = [status EXCEPT ![r] = "pending"]
  /\ UNCHANGED tries

\* One statement takes any number of waiting rows.
Take(R) ==
  /\ \A r \in R : status[r] = "pending"
  /\ status' = [r \in Rows |-> IF r \in R THEN "taken" ELSE status[r]]
  /\ tries' = [r \in Rows |-> IF r \in R THEN tries[r] + 1 ELSE tries[r]]

Finish(r, verdict) ==
  /\ status[r] = "taken"
  /\ status' = [status EXCEPT ![r] = verdict]
  /\ UNCHANGED tries

Next ==
  \/ \E r \in Rows : Insert(r) \/ \E v \in {"pending", "sent", "failed"} : Finish(r, v)
  \/ \E R \in SUBSET Rows : Take(R)

Spec == Init /\ [][Next]_<<status, tries>>
=============================================================================
