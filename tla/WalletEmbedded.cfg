\* One tab with an injected provider: overlapping calls, events, reloads.
CONSTANTS
  t1 = t1  t2 = t2  k1 = k1  k2 = k2  NoKey = NoKey
  Tab <- OneTab
  Key <- TwoKeys
  ProviderTabs <- OneTab
  AutoConnect = TRUE
  ConnectTtl = 0
  SignTimeout = 1
  MaxSignTtl = 0
  MaxSkew = 1
  MaxRequests = 2
  MaxCalls = 2
  MaxInbox = 2
  MaxTime = 1
SPECIFICATION Spec
SYMMETRY KeySymmetry
INVARIANT EmbeddedSound
