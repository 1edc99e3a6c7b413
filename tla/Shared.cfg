\* Eight parts, one per behaviour; their bounds are in MCShared and MCWallets: two signing calls
\* which the application awaits, or which overlap with each other and its edits; up to four calls
\* with one options object, and clears between them; exchanges of every kind; and the sequential
\* parts of the library.
CONSTANTS
  Account = {0, 1}
  MaxCount = 2
  Text <- MCText
  Lists <- MCLists
  MaxCalls = 4
  None = None  Junk = Junk
  n1 = n1  n2 = n2
  KeyLength <- MCKeyLength
  SignatureLength <- MCSignatureLength
  Exports <- MCExports
  MaxHeard = 5
  Cases <- MCCases
  Bad = Bad  Blank = Blank  OK = OK  Failed = Failed
  h1 = h1  h2 = h2  h3 = h3
  t1 = t1  t2 = t2  b1 = b1  b2 = b2  mainnet = mainnet  protonet = protonet
  Body = {b1, b2}
  Chain = {mainnet, protonet}
  N = 2
  Task = {t1, t2}
SPECIFICATION SpecShared
SYMMETRY TaskSymmetry
CHECK_DEADLOCK FALSE
INVARIANTS SignaturesClean AwaitedSound AmountsSound EntriesSound AnswersSound KeysOfSeed AddressesAgree ExchangeSound
PROPERTY FailureLeavesNoHash
