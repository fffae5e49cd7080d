\* Three setups on as many keys, two bridges, the notional gate at its limit.
SPECIFICATION Spec
CONSTANTS
  s1 = s1
  s2 = s2
  s3 = s3
  Setups = {s1, s2, s3}
  Workers = {w1, w2}
  NoCand = NoCand
  KeyOf <- MCOneKeyEach
  RawNotional <- MCRawNotional
  PosCap = 3
  AggCap = 3
  SelectorBatch = 3
  LiveRows = {}
  Deployments <- MCSound
INVARIANTS RowsHeldOnce NotionalBound
