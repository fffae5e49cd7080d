------------------------ MODULE MCExecutionPipeline ------------------------
(* Small instances of ExecutionPipeline for TLC. *)
EXTENDS ExecutionPipeline, TLC

CONSTANTS s1, s2, s3

\* s1 and s2 trade the same symbol in the same direction, s3 another one.
MCKeyOf == [s \in Setups |-> IF s = s3 THEN "ETH BUY" ELSE "BTC BUY"]
MCOneKeyEach == [s \in Setups |-> s]
\* s1 asks for more than one position may have.
MCRawNotional == [s \in Setups |-> IF s = s1 THEN 5 ELSE 2]
MCConfig == {[dry |-> TRUE, live |-> TRUE], [dry |-> TRUE, live |-> FALSE]}
MCOnConfig == {[dry |-> TRUE, live |-> TRUE]}
\* The bridge alone with failures of every kind, everything that closes a setup at once, or
\* a count that fails.
MCFaultyOrRetiring ==
  {[claim |-> 2, retirers |-> {}, config |-> MCConfig, faults |-> 2,
    kinds |-> {"select", "crash", "mark", "venue", "order", "insert", "reject"}],
   [claim |-> 1, retirers |-> {"time_stop", "supersede"}, config |-> MCOnConfig, faults |-> 1,
    kinds |-> {"retire"}],
   [claim |-> 1, retirers |-> {}, config |-> MCOnConfig, faults |-> 1, kinds |-> {"count"}]}
MCSound == {[claim |-> 2, retirers |-> {}, config |-> MCOnConfig, faults |-> 0, kinds |-> {}]}
MCSettling == {[claim |-> 1, retirers |-> {}, config |-> MCConfig, faults |-> 1,
                kinds |-> {"venue", "order", "insert", "count", "select"}]}
=============================================================================
