SPECIFICATION Spec
CONSTANTS
  Procs = {h1, h2}
  Tables = {t1, t2, t3}
  Pages = {p1, p2, p3}
  NV = 2
  Zero = zero
  Image = image
  Vals = {zero, image}
  Junk = junk
  Text = {0}
  Guard = {}
  ImageSizes = {1, 2}
  Deltas = {}
  CopyoutToShared = TRUE
  NoTable = NoTable
  NoPage = NoPage
  Dead = Dead
SYMMETRY Symmetry
CHECK_DEADLOCK FALSE

PROPERTY MemoryIsPrivate
