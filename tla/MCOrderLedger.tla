--------------------------- MODULE MCOrderLedger ---------------------------
(* Small instances of OrderLedger for TLC. *)
EXTENDS OrderLedger

CONSTANTS o1, o2

Both == {"worker", "http"}
\* The stream beside both reconcilers on one order, with failures; the reconcilers on
\* two orders, with and without the query.
MCDeployments ==
  {[orders |-> {o1}, stream |-> TRUE, patch |-> Both, refine |-> {"worker"}, limit |-> 2,
    most |-> 1, kinds |-> FaultKinds, faults |-> 1],
   [orders |-> {o1, o2}, stream |-> FALSE, patch |-> {}, refine |-> {"worker"}, limit |-> 2,
    most |-> 1, kinds |-> {"query", "patch", "cancel"}, faults |-> 1],
   [orders |-> {o1, o2}, stream |-> FALSE, patch |-> {"worker"}, refine |-> {}, limit |-> 1,
    most |-> 1, kinds |-> {"patch"}, faults |-> 1]}
MCStream ==
  {[orders |-> {o1}, stream |-> TRUE, patch |-> {}, refine |-> {}, limit |-> 2,
    most |-> 1, kinds |-> {}, faults |-> 0]}
=============================================================================
