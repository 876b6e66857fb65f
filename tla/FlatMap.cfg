SPECIFICATION Spec
CONSTANTS
  Key = {1, 2, 3}
  Val = {"a", "b"}
  MaxSize = 3
INVARIANTS
  Sorted
  LookupsAgree
PROPERTIES
  KeepsMultimap
