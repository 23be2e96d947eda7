SPECIFICATION CallsSpec
CONSTANTS
  MaxUint = 9999
  PRECISION = 10
  ADDITIONAL_FEED_PRECISION = 5
  TIMEOUT = 0
  MaxTime = 0
  weth = weth
  wbtc = wbtc
  doge = doge
  WethOwners = {u1, u2}
  User = {u1, u2}
  Engine = engine
  Pool = pool
  ZeroAddress = zero
  Token = {weth}
  Feed = {weth}
  s_collateralTokens <- OneToken
  TransferFails = {}
  TransferFromFails = {}
  Answers = {3, 4}
  RoundTimes = {}
  CollateralAmounts = {20}
  DscAmounts = {20}
  TransferAmounts = {}
  ApprovalAmounts = {9999}
  DscSpenders = {}
  InitialWallet = 40
  InitialCollateral <- SomeWithoutWeth
  InitialAllowance = 9999
  CallbackTokens = {weth}
  MaxDepth = 2
  FaultSets <- SingleFaults
SYMMETRY Symmetry
INVARIANT GuardIsExact
PROPERTIES CallsKeepPromise FailedPaymentsAreUndone
