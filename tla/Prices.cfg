SPECIFICATION Spec
CONSTANTS
  MaxUint = 9999
  PRECISION = 10
  ADDITIONAL_FEED_PRECISION = 5
  TIMEOUT = 0
  MaxTime = 0
  weth = weth
  wbtc = wbtc
  doge = doge
  User = {u1, u2}
  Engine = engine
  Pool = pool
  ZeroAddress = zero
  Token = {weth}
  Feed = {weth}
  s_collateralTokens <- OneToken
  TransferFails = {}
  TransferFromFails = {}
  Answers = {2, 3, 4, 100}
  RoundTimes = {}
  CollateralAmounts = {20}
  DscAmounts = {10, 25}
  TransferAmounts = {20}
  ApprovalAmounts = {9999}
  DscSpenders = {}
  InitialWallet = 40
  InitialCollateral <- Wallets
  InitialAllowance = 9999
SYMMETRY Symmetry
INVARIANTS TypeOK SolventWhileHealthy PositionCanBeClosed LiquidatableFrom110Percent
PROPERTIES RiskIncreaseEndsHealthy OnlyPricesBreakHealth HealthyKeepsCollateral LiquidatorPaidAtMostTheBonus SingleCollateralLiquidationIsFull KeepsPromise
