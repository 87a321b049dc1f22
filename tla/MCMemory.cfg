SPECIFICATION MemorySpec
CONSTANTS
  Procs = {t1, t2, t3}
  Pages = {p1, p2, p3}
  NoPage = NoPage
  NoProc = NoProc
  RefMod = 4
  CountMod = 4
  SIZEOF = 2
  MINUNITS = 4
  TOP = 12
  Requests = {0, 3, 8}
  Gaps = 1
  MAXARGS = 3
  NBUF = 6
  Cells = {"a", "|", "(", ")", ";", "&", "<", ">", " "}
  BSIZE = 2
  NDIRECT = 2
  NINODES = 4
  IPB = 2
  FSSIZE = 15
  nlog = 1
  Host <- MCHost
  Tasks = {u1, u2}
  Handles = {f1, f2}
  None = none
  Buffers <- MCBuffers
  Counts = {1, 3, 15}
  UINT = 16
  MAXOP = 6
  MaxReboots = 1
  MaxCalls = 3
SYMMETRY Symmetry
CHECK_DEADLOCK FALSE
INVARIANTS TypeOK Exclusive CountExact NoLeak HeapExact ParsesGrammar ImageExact
PROPERTIES KeepsFaith FilesAreBytes
