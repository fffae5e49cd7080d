------------------------- MODULE MCPositionTracking -------------------------
(* Small instances of PositionTracking for TLC.  Quotes 90 .. 120 with a     *)
(* panic band of 1.5%: a long opened near 110 has its stop at 100, its target  *)
(* at 120 and its liquidation price at 90.                                    *)
EXTENDS PositionTracking, TLC

CONSTANTS p1, p2, k1

MCOneKey == [p \in Positions |-> k1]
\* p1 is long, p2 short.
MCBuy == {p1} \cap Positions
MCStop == [p \in Positions |-> IF p = p1 THEN 100 ELSE 120]
MCTarget == [p \in Positions |-> IF p = p1 THEN 120 ELSE 100]
MCLiq == [p \in Positions |-> IF p = p1 THEN 90 ELSE 0]
=============================================================================
