------------------------- MODULE PositionLifecycle -------------------------
(* What a live_positions row promises its readers (the GUI, the reports, the *)
(* caps of the bridge): it is opened once, closed once, and the first close   *)
(* reason stays.                                                              *)
CONSTANTS Positions, Reasons

VARIABLES row, reason

Init ==
  /\ row = [p \in Positions |-> "absent"]
  /\ reason = [p \in Positions |-> "none"]

OpenRow(p) ==
  /\ row[p] = "absent"
  /\ row' = [row EXCEPT ![p] = "open"]
  /\ UNCHANGED reason

CloseRow(p, why) ==
  /\ row[p] = "open"
  /\ row' = [row EXCEPT ![p] = "closed"]
  /\ reason' = [reason EXCEPT ![p] = why]

Next == \E p \in Positions : OpenRow(p) \/ \E why \in Reasons : CloseRow(p, why)

Spec == Init /\ [][Next]_<<row, reason>>
=============================================================================
