\* Two setups on one key, one bridge: two failures of any kind, everything that closes
\* a setup at once, or a count that fails.
SPECIFICATION Spec
CONSTANTS
  s1 = s1
  s2 = s2
  s3 = s3
  Setups = {s1, s2}
  Workers = {w1}
  NoCand = NoCand
  KeyOf <- MCKeyOf
  RawNotional <- MCRawNotional
  PosCap = 3
  AggCap = 3
  SelectorBatch = 2
  LiveRows = {s1}
  Deployments <- MCFaultyOrRetiring
INVARIANTS AtMostOnce LiveAgrees ExposureDedup
PROPERTIES ClosedIsFinal
