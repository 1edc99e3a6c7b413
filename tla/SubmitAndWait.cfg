\* One client called again and again on a chain of up to nine blocks: every
\* interleaving of its probes, polls and timers with new blocks.
CONSTANTS
  c1 = c1
  Caller <- OneCaller
  Timeout = 2
  Poll = 1
  Config <- MCConfig
  MaxHeight = 8
SPECIFICATION FairSpec
INVARIANTS WindowHoldsBlock ResolvedIsIncluded LatestIsCurrent
PROPERTIES EveryCallSettles KeepsPromise
