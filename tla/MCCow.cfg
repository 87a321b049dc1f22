SPECIFICATION Spec
CONSTANTS
  Procs = {h1, h2}
  Tables = {t1, t2, t3}
  Pages = {p1, p2, p3, p4}
  NV = 3
  Zero = zero
  Image = image
  Vals = {zero, image}
  Junk = junk
  Text = {0}
  Guard = {1}
  ImageSizes = {3}
  Deltas = {1}
  CopyoutToShared = FALSE
  NoTable = NoTable
  NoPage = NoPage
  Dead = Dead
SYMMETRY Symmetry
CHECK_DEADLOCK FALSE
INVARIANTS TablesExact SharingExact
PROPERTY MemoryIsPrivate
