\* Two hash types, as in the README.
CONSTANTS
  Account = {0, 1}
  MaxCount = 2
  Text <- MCText
  Lists <- TwoHashes
  MaxCalls = 3
  None = None  Junk = Junk
  n1 = n1  n2 = n2
  KeyLength <- MCKeyLength
  SignatureLength <- MCSignatureLength
  Exports <- MCExports
  MaxHeard = 5
  Cases <- NoCases
SPECIFICATION SpecAny
INVARIANTS SameSettingsSameAddress
