SPECIFICATION Spec
CONSTANTS
  MaxUint = 9999
  PRECISION = 10
  ADDITIONAL_FEED_PRECISION = 5
  TIMEOUT = 1
  MaxTime = 2
  weth = weth
  wbtc = wbtc
  doge = doge
  User = {u1, u2}
  Engine = engine
  Pool = pool
  ZeroAddress = zero
  Token = {weth, wbtc, doge}
  Feed = {weth, wbtc}
  s_collateralTokens <- TwoTokens
  TransferFails = {wbtc}
  TransferFromFails = {doge}
  Answers <- ExtremeAnswers
  RoundTimes = {0, 2}
  CollateralAmounts = {20}
  DscAmounts = {20}
  TransferAmounts = {}
  ApprovalAmounts = {9999}
  DscSpenders = {}
  InitialWallet = 20
  InitialCollateral <- Wallets
  InitialAllowance = 9999
SYMMETRY Symmetry
PROPERTIES RiskNeedsGoodPrices
