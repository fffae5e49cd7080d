\* A bridge that neither dies nor loses a status update, and a selector, both scheduled
\* fairly; the venue, the inserts and the reads may fail.
SPECIFICATION FairSpec
CONSTANTS
  s1 = s1
  s2 = s2
  s3 = s3
  Setups = {s1, s2}
  Workers = {w1}
  NoCand = NoCand
  KeyOf <- MCKeyOf
  RawNotional <- MCRawNotional
  PosCap = 3
  AggCap = 3
  SelectorBatch = 1
  LiveRows = {s1}
  Deployments <- MCSettling
INVARIANTS FailedLiveSetupClosed
PROPERTIES EveryRowSettles SelectorReaches PlacesOnce
