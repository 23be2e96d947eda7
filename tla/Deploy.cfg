SPECIFICATION DeploySpec
CONSTANTS
  MaxUint = 9999
  PRECISION = 10
  ADDITIONAL_FEED_PRECISION = 5
  TIMEOUT = 0
  MaxTime = 0
  weth = weth
  wbtc = wbtc
  doge = doge
  User = {deployer, user}
  Engine = engine
  Pool = pool
  ZeroAddress = zero
  Token = {weth}
  Feed = {weth}
  s_collateralTokens <- OneToken
  TransferFails = {}
  TransferFromFails = {}
  Answers = {3, 4}
  RoundTimes = {}
  CollateralAmounts = {20}
  DscAmounts = {20}
  TransferAmounts = {}
  ApprovalAmounts = {9999}
  DscSpenders = {engine}
  InitialWallet = 40
  InitialCollateral <- Wallets
  InitialAllowance = 0
  Deployer = deployer
  Networks = {"sepolia", "anvil"}
  ETH_USD_PRICE = 4
  PoolAmounts = {6}
  MaxEther = 6
INVARIANTS NothingMintedBeforeHandOver PositionCanBeClosed
PROPERTIES EngineEndsUpOwner PoolPaysOnlyItsOwner
CHECK_DEADLOCK FALSE
