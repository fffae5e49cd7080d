----------------------------- MODULE MCOutboxes -----------------------------
(* A small instance of Outboxes for TLC. *)
EXTENDS Outboxes, TLC

CONSTANTS p1, p2

\* Two processes that share one kind of loop, and its producer.
MCDeployments ==
  {(p1 :> {"watch", "x"} @@ p2 :> {"x"}),
   (p1 :> {"watch", "notify"} @@ p2 :> {"notify"}),
   (p1 :> {"announce", "bcast", "x"} @@ p2 :> {"bcast"}),
   (p1 :> {"report"} @@ p2 :> {"report"})}
=============================================================================
