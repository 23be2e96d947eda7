SPECIFICATION CallsSpec
CONSTANTS
  MaxUint = 9999
  PRECISION = 10
  ADDITIONAL_FEED_PRECISION = 5
  TIMEOUT = 0
  MaxTime = 0
  weth = weth
  wbtc = wbtc
  doge = doge
  WethOwners = {u1}
  User = {u1, u2}
  Engine = engine
  Pool = pool
  ZeroAddress = zero
  Token = {weth, wbtc}
  Feed = {weth, wbtc}
  s_collateralTokens <- TwoTokens
  TransferFails = {}
  TransferFromFails = {}
  Answers = {2, 4}
  RoundTimes = {}
  CollateralAmounts = {20}
  DscAmounts = {18}
  TransferAmounts = {}
  ApprovalAmounts = {9999}
  DscSpenders = {}
  InitialWallet = 20
  InitialCollateral <- SomeWithoutWeth
  InitialAllowance = 9999
  CallbackTokens = {}
  MaxDepth = 1
  FaultSets <- NoFaults
PROPERTIES StepsAreAtomic PartialLiquidationsImprove
