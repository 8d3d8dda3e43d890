\* Two slots and five bytes a page: pages run out of either.
SPECIFICATION Spec
CONSTANTS
  PAGE_SIZE = 7
  HEADER_SIZE = 2
  MAX_SLOTS_PER_PAGE = 2
  MaxPages = 2
  a = a
  b = b
  ZeroByte = z
  Byte = {z, a, b}
  Tuple <- Tuples
INVARIANTS TypeOK TuplesDisjoint
PROPERTY ImplementsTupleStore
