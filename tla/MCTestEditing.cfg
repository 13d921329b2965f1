SPECIFICATION Spec
CONSTANTS
  Authors = {ann, bob}
  MaxEdits = 1
  MaxVersion = 3
SYMMETRY Alike
CHECK_DEADLOCK FALSE
INVARIANTS
  CacheKnowsOwnSaves

  
