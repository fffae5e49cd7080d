--------------------------- MODULE MCSetupWatcher ---------------------------
(* Small instances of SetupWatcher for TLC: a1 is long from 100 with its stop at *)
(* 90, b1 short from 100 with its stop at 110.                                 *)
EXTENDS SetupWatcher

CONSTANTS a1, b1

MCLong == {a1}
MCEntry == [s \in Setups |-> 100]
MCEntrySl == [s \in Setups |-> IF s = a1 THEN 90 ELSE 110]
\* b1's current_sl as the allocator's insert leaves it when entry_sl is not exact in
\* six digits: next to entry_sl, and not equal to it.
MCStoredSl == [s \in Setups |-> IF s = a1 THEN 90 ELSE 109]
\* raw_meta with two targets, or none.
MCTps == [s \in Setups |-> IF s = a1 THEN <<110, 120, 0>> ELSE <<0, 0, 0>>]
MCPrices == [s \in Setups |-> IF s = a1 THEN {90, 109, 111, 119} ELSE {90, 100, 109}]
\* Both features, or neither, from tick to tick.
MCConfig == {[koruma |-> b, approach |-> b] : b \in BOOLEAN}
MCDeployments ==
  {[open |-> {a1}, others |-> TRUE, days |-> 2, kinds |-> {"crash", "stop", "card"}, faults |-> 1],
   [open |-> {b1}, others |-> FALSE, days |-> 3,
    kinds |-> {"crash", "stop", "bit", "close", "card"}, faults |-> 2]}
=============================================================================
