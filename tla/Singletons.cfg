\* Two calls, two networks, and time for a rate to outlive both caches; the limits of the services
\* are small enough to be passed.
CONSTANTS
  c1 = c1  c2 = c2  mainnet = mainnet  protonet = protonet
  Call = {c1, c2}
  Net = {mainnet, protonet}
  Default = mainnet
  TokenTtl = 1
  RateTtl = 2
  Latency = 1
  MaxTime = 4
  FeeTtl = 2
  None = None
  n1 = n1  n2 = n2
  Names = {n1, n2}
  MaxPoints = 2
  MaxDepth = 2  MaxNodes = 3  MaxEntries = 3
  Timeout = 4
  Services <- MCServices
  MaxChanges = 4
SPECIFICATION SpecAny
CHECK_DEADLOCK FALSE
INVARIANTS TokenAge RateAge FeeTokensAge MonitoringSound
PROPERTY RunEnds
