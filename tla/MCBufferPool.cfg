\* Three pages of one file compete for two frames.
SPECIFICATION Spec
CONSTANTS
  MaxFiles = 1
  MaxPages = 3
  Data = {zero, d1}
  Zero = zero
  PoolSize = 2
  Client = {c1, c2}
  NoPage = NoPage
INVARIANTS TypeOK PointersValid PinCountsExact LruExact CleanMatchesDisk
PROPERTIES ImplementsPageStore FlushAllDurable
SYMMETRY Symmetry
