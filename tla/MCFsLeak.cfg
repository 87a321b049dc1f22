SPECIFICATION RoomySpec
CONSTANTS
  Callers = {u1, u2}
  None = none
  NINODES = 2
  Names = {"b"}
  DataBlocks = {}
  OpenPaths = {}
  CreatePaths <- OneFile
  MkdirPaths = {}
  UnlinkPaths <- OneFile
  ChdirPaths = {}
  LinkPaths = {}
INVARIANT NoInodeLeak
