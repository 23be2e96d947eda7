SPECIFICATION Spec
CONSTANTS
  MaxUint = 9999
  PRECISION = 10
  ADDITIONAL_FEED_PRECISION = 5
  TIMEOUT = 0
  MaxTime = 0
  weth = weth
  wbtc = wbtc
  doge = doge
  User = {u1, u2}
  Engine = engine
  Pool = pool
  ZeroAddress = zero
  Token = {weth}
  Feed = {weth}
  s_collateralTokens <- OneToken
  TransferFails = {}
  TransferFromFails = {}
  Answers = {2, 3, 4}
  RoundTimes = {}
  CollateralAmounts = {40}
  DscAmounts = {10,25}
  TransferAmounts = {25}
  ApprovalAmounts = {9999}
  DscSpenders = {}
  InitialWallet = 80
  InitialCollateral <- Wallets
  InitialAllowance = 9999
SYMMETRY Symmetry
INVARIANT PartialLiquidationPossible
