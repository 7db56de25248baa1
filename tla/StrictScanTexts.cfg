SPECIFICATION Spec
CONSTANTS
  Keys = {"a", "b"}
  MaxDepth = 4
INVARIANTS
  DuplicatesFound
  
