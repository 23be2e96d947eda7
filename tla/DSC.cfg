SPECIFICATION Spec
CONSTANTS
  MaxUint = 3
  Account = {a1, a2}
  Deployer = a1
  ZeroAddress = zero
  Spenders = {a1, a2}
  Amounts <- MCAmounts
INVARIANTS TypeOK SupplyIsHeld
PROPERTY RenouncedIsFinal
