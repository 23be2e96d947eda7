SPECIFICATION Spec
CONSTANTS
  MaxUint = 15
  Caller = {owner, engine}
  Pool = pool
  i_owner = owner
  Token = {weth, wbtc}
  Amounts = {0, 1, 2}
  InitialBalance = 2
  MaxEther = 3
INVARIANT CollectedCanBeWithdrawn
