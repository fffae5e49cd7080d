\* Six deployments whose caps bite, with setups closing under the tick.
SPECIFICATION FairSpec
CONSTANTS
  Configs <- MCConfigs
  MaxFaults = 1
INVARIANTS OnePerSlot CapsHold RetiredWasReplaced
PROPERTIES EveryoneServed
