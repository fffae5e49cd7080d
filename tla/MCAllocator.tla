---------------------------- MODULE MCAllocator ----------------------------
(* Two sibling symbols, one of them on two timeframes and in both directions. *)
EXTENDS Allocator

Cnd(symbol, tf, direction) == [symbol |-> symbol, tf |-> tf, direction |-> direction]
Btc1h == Cnd("BTC", 1, "long")
Btc1d == Cnd("BTC", 2, "long")
BtcShort == Cnd("BTC", 1, "short")
Eth == Cnd("ETH", 1, "long")

Deploy(order, modes, sure, caps, most, kinds) ==
  [order |-> order, modes |-> modes, sure |-> sure, tick |-> caps[1], cluster |-> caps[2],
   daily |-> caps[3], streak |-> caps[4], closes |-> most, faults |-> kinds]

MCConfigs == {
  Deploy(<<Btc1h, Btc1d, Eth>>, {"dry"}, TRUE, <<1, 2, 3, 2>>, 2, {}),
  Deploy(<<Btc1h, Btc1d>>, {"dry"}, TRUE, <<9, 9, 9, 9>>, 3, {}),
  Deploy(<<Btc1d, Btc1h, BtcShort>>, {"dry"}, FALSE, <<2, 3, 3, 3>>, 1, {"read"}),
  Deploy(<<Btc1h, Eth, Btc1d>>, {"dry", "live"}, TRUE, <<2, 2, 9, 9>>, 1, {}),
  Deploy(<<Btc1h, Btc1d>>, {"dry", "live"}, TRUE, <<9, 9, 9, 9>>, 1, {"insert", "retire", "crash"}),
  Deploy(<<Eth, Btc1d, BtcShort>>, {"dry", "live"}, FALSE, <<9, 9, 3, 2>>, 1, {}) }
=============================================================================
