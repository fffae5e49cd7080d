--------------------------- MODULE MCTacticalDesk ---------------------------
(* The deployments checked: what may be live, advised and failing at once.  *)
EXTENDS TacticalDesk

Desk(live, mode, advice, admin, kinds, rows, hand) ==
  [live |-> live, mode |-> mode, advice |-> advice, admin |-> admin, faults |-> kinds,
   rows |-> rows, manual |-> hand]

MCConfigs == {
  Desk(FALSE, "off", {"buy", "sell"}, FALSE, {"mark"}, 2, 0),
  Desk(FALSE, "off", {"partial", "full"}, FALSE, {"insert"}, 1, 1),
  Desk(TRUE, "off", {"buy"}, TRUE, {"mark", "child"}, 1, 0),
  Desk(TRUE, "off", {"keep", "widen"}, TRUE, {"mark", "halt"}, 1, 1),
  Desk(TRUE, "off", {"buy"}, FALSE, {"crash", "stream"}, 1, 0),
  Desk(TRUE, "off", {"buy"}, FALSE, {}, 1, 1),
  Desk(FALSE, "off", {"buy", "partial"}, FALSE, {}, 2, 0),
  Desk(FALSE, "off", {"sell", "buy"}, TRUE, {}, 2, 0),
  Desk(TRUE, "off", {"buy", "sell"}, FALSE, {"lost", "risk"}, 2, 0),
  Desk(TRUE, "off", {"buy", "full"}, FALSE, {}, 2, 0),
  Desk(TRUE, "off", {"full"}, FALSE, {"mark", "insert", "lost"}, 1, 1),
  Desk(TRUE, "native", {"trail", "full"}, FALSE, {"refuse"}, 2, 1),
  Desk(TRUE, "managed", {"trail"}, FALSE, {"crash", "refuse"}, 2, 1),
  Desk(TRUE, "managed", {"trail"}, FALSE, {"refuse", "lost", "insert"}, 2, 1),
  Desk(TRUE, "managed", {"trail", "untrail"}, FALSE, {"mark"}, 2, 1) }

\* One dry desk that only enters long, without failures.
MCDryConfig == {Desk(FALSE, "off", {"buy"}, FALSE, {}, 1, 0)}
=============================================================================
