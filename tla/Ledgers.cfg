SPECIFICATION Spec
CONSTANTS
  MaxUint = 9999
  PRECISION = 10
  ADDITIONAL_FEED_PRECISION = 5
  TIMEOUT = 0
  MaxTime = 0
  weth = weth
  wbtc = wbtc
  doge = doge
  User = {u1, u2}
  Engine = engine
  Pool = pool
  ZeroAddress = zero
  Token = {weth}
  Feed = {weth}
  s_collateralTokens <- OneToken
  TransferFails = {}
  TransferFromFails = {}
  Answers = {3, 4}
  RoundTimes = {}
  CollateralAmounts = {0, 10}
  DscAmounts = {0, 10}
  TransferAmounts = {10}
  ApprovalAmounts = {10}
  DscSpenders = {engine, u1}
  InitialWallet = 10
  InitialCollateral <- Wallets
  InitialAllowance = 0
INVARIANTS CollateralBacked DscBackedByDebt
PROPERTIES SurplusOnlyFromDonation DebtGapOnlyFromBurnFrom KeepsPromise
