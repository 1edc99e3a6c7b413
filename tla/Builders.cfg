\* Every builder with any input, and with any options for one good input; of createCoinTXN up
\* to three inputs, and each wallet may advance once meanwhile.
CONSTANTS
  None = None
  Life = 3  Skew = 1  Listed = 2
  Parts = 100  Dollar = 40
  Powers = {10, 100, 1000}
  Cases <- MCCases
  MaxTime = 4  MaxEvents = 2
  w1 = w1  w2 = w2  w3 = w3
  Wallet = {w1, w2, w3}
  Input <- MCInput
  MaxInput = 3
  Total = {1, 2}
  MaxUsed = 1
  Native = Native  usd = usd  memo = memo  Alice = Alice  Bob = Bob
  Wide = 1000
  FeeCases <- MCFeeCases
  Sources <- MCSources
  MaxReads = 4
SPECIFICATION SpecAny
CHECK_DEADLOCK FALSE
INVARIANTS FeeCoversFinal ContextFresh LookupsOfCall  CoinSound FeeCoversSize ChargesSound NothingLost
