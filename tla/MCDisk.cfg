SPECIFICATION DiskSpec
CONSTANTS
  Procs = {p1, p2, p3}
  Blocks = {b1, b2, b3}
  Blank = blank
  Vals = {blank, data}
  MAXOPBLOCKS = 2
  OpBlocks = 1
  LOGSIZE = 4
  NLOG = 4
  MaxCrashes = 2
  Callers = {u1, u2}
  None = none
  NINODES = 3
  Names = {"a", "b"}
  DataBlocks = {k1}
  OpenPaths <- MCOpen
  CreatePaths <- MCCreate
  MkdirPaths <- MCMkdir
  UnlinkPaths <- MCUnlink
  ChdirPaths <- MCChdir
  LinkPaths <- MCLink
SYMMETRY Symmetry
INVARIANTS LogSound DurableWhenQuiet NoLostWakeup InodesExact LinksExact
PROPERTY CrashAtomic
