SPECIFICATION Spec
CONSTANTS
  MaxBytes32 = 4
  MaxAddress = 3
  Types <- AllTypes
  Key = {0, 1, 2, 3}
  Value = {0, 2, 4}
INVARIANTS IndexesInvertValues EnumerationIsComplete ReadsAgree
PROPERTY IsKeyValueStore
