\* A long setup with two targets, both ratchets and the trail, that another loop may
\* close, or a short one without targets as the allocator writes it.
SPECIFICATION FairSpec
CONSTANTS
  a1 = a1
  b1 = b1
  Setups = {a1, b1}
  Long <- MCLong
  NoSetup = NoSetup
  Entry <- MCEntry
  EntrySl <- MCEntrySl
  StoredSl <- MCStoredSl
  Tps <- MCTps
  Prices <- MCPrices
  TrailPermille = 10
  ApproachPermille = 10
  MinGain = 5
  Buffer = 50
  TrailLastOnly = FALSE
  Llm = {"ride", "scale", "exit", "tighten", "trail"}
  Config <- MCConfig
  Deployments <- MCDeployments
INVARIANTS CardsOnce TrailStopMeansMoved
PROPERTIES StopLoosensOnlyWhenStale StopCloses
