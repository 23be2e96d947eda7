SPECIFICATION Spec
CONSTANTS
  MaxUint = 31
  MaxKey <- MCMaxKey
  MaxValue <- MCMaxValue
  Keys = {0, 1, 3, 5, 7, 9}
  Values <- MCValues
  MaxBlock = 8
INVARIANTS TypeOK KeysIncrease LowerLookupFindsNext RecentLookupAgrees
PROPERTIES MinedBlocksAreFinal IsValueHistory
