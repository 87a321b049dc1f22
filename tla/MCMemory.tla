------------------------------ MODULE MCMemory ------------------------------
(* Kalloc, Umalloc, ShParse and FileData for TLC: a behaviour is one of the *)
(* kernel's allocator, one of a user program's, one of a line that is typed *)
(* and parsed, or one of files that are read and written, so that the state *)
(* spaces add up.                                                           *)
EXTENDS MCKalloc, Umalloc, ShParse, FileData

VARIABLE part

MCHost == << <<1, 2, 1>>, <<2>> >>
MCBuffers == {<<1>>, <<2, 1, 1, 2, 2, 1>>}

MemoryInit ==
  /\ part \in {"kernel", "heap", "line", "files"}
  /\ Init /\ HeapInit /\ GetcmdStart /\ FdInit

MemoryNext ==
  \/ part = "kernel" /\ Next /\ UNCHANGED <<heapVars, lineVars, fdVars, part>>
  \/ part = "heap" /\ HeapNext /\ UNCHANGED <<vars, lineVars, fdVars, part>>
  \/ part = "line" /\ LineNext /\ UNCHANGED <<vars, heapVars, fdVars, part>>
  \/ part = "files" /\ FdNext /\ UNCHANGED <<vars, heapVars, lineVars, part>>

MemorySpec == MemoryInit /\ [][MemoryNext]_<<vars, heapVars, lineVars, fdVars, part>>
=============================================================================
