\* A long and a short position under one key, with a restart or a failed statement,
\* every task scheduled fairly.
SPECIFICATION TrackFairSpec
CONSTANTS
  p1 = p1
  p2 = p2
  k1 = k1
  Positions = {p1, p2}
  Keys = {k1}
  NoPos = NoPos
  Quotes = {90, 120}
  KeyOf <- MCOneKey
  Buy <- MCBuy
  Stop <- MCStop
  Target <- MCTarget
  Liq <- MCLiq
  BandPermille = 15
  Faults = {"crash", "hydrate", "close"}
  MaxFaults = 1
INVARIANTS IndexAgrees
PROPERTIES OpenStaysTracked RowLifecycle StopFires OpenGetsTracked
