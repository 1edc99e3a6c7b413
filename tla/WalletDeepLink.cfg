\* Two tabs of an external browser: deep links, callbacks, broadcasts.
CONSTANTS
  t1 = t1  t2 = t2  k1 = k1  k2 = k2  NoKey = NoKey
  Tab <- TwoTabs
  Key <- OneKey
  ProviderTabs <- NoTab
  AutoConnect = FALSE
  ConnectTtl = 0
  SignTimeout = 1
  MaxSignTtl = 0
  MaxSkew = 0
  MaxRequests = 2
  MaxCalls = 1
  MaxInbox = 2
  MaxTime = 1
SPECIFICATION Spec
SYMMETRY TabSymmetry
INVARIANTS SingleUse SignatureOfRequest
PROPERTIES ClaimedByOwner
