---------------------------- MODULE MCOrderLoops ----------------------------
(* Small instances of OrderLoops for TLC. *)
EXTENDS OrderLoops, TLC

CONSTANTS p1, p2

Run(a, b, x, y) == [on |-> (p1 :> a @@ p2 :> b), auto |-> x, paper |-> y]

MCDeployments ==
  {Run({"kill", "sync"}, {"sync"}, FALSE, FALSE),
   Run({"kill", "sync", "follow", "bridge"}, {}, FALSE, FALSE),
   Run({"kill", "sync", "copy"}, {}, TRUE, FALSE),
   Run({"sync", "copy"}, {"sync", "copy"}, TRUE, FALSE),
   Run({"sync", "copy"}, {}, FALSE, FALSE),
   Run({"sync", "range"}, {"sync", "range"}, FALSE, TRUE),
   Run({"sync", "range"}, {}, FALSE, FALSE),
   Run({"kill", "sync", "range"}, {}, FALSE, TRUE)}
=============================================================================
