----------------------------- MODULE BlockCache -----------------------------
(***************************************************************************)
(* What the buffer cache promises the file system and the log: one copy of *)
(* every block, used by one process at a time; what a process finds in a   *)
(* block is what the last process left there; a block is forgotten (falls  *)
(* back to what is on the disk) only while nobody uses it or has pinned it.*)
(***************************************************************************)
EXTENDS Naturals

CONSTANTS Procs, Blocks, Vals, None

VARIABLES
  disk,     \* what is on the disk
  content,  \* what bread() returns
  owner,    \* who has the block locked
  pinned    \* blocks that must not be forgotten

vars == <<disk, content, owner, pinned>>

Init ==
  /\ disk \in [Blocks -> Vals] /\ content = disk
  /\ owner = [k \in Blocks |-> None]
  /\ pinned = {}

Acquire(p, k) ==
  /\ owner[k] = None
  /\ owner' = [owner EXCEPT ![k] = p]
  /\ UNCHANGED <<disk, content, pinned>>

Release(p, k) ==
  /\ owner[k] = p
  /\ owner' = [owner EXCEPT ![k] = None]
  /\ UNCHANGED <<disk, content, pinned>>

Modify(p, k, v) ==
  /\ owner[k] = p
  /\ content' = [content EXCEPT ![k] = v]
  /\ UNCHANGED <<disk, owner, pinned>>

\* The disk takes the content over, while the writer has the block locked.
Flush(k) ==
  /\ owner[k] # None
  /\ disk' = [disk EXCEPT ![k] = content[k]]
  /\ UNCHANGED <<content, owner, pinned>>

Forget(k) ==
  /\ owner[k] = None /\ k \notin pinned
  /\ content' = [content EXCEPT ![k] = disk[k]]
  /\ UNCHANGED <<disk, owner, pinned>>

Pin(p, k) ==
  /\ owner[k] = p
  /\ pinned' \in {pinned \cup {k}, pinned \ {k}}
  /\ UNCHANGED <<disk, content, owner>>

Next ==
  \E k \in Blocks :
    \/ Flush(k) \/ Forget(k)
    \/ \E p \in Procs : \/ Acquire(p, k) \/ Release(p, k) \/ Pin(p, k)
                        \/ \E v \in Vals : Modify(p, k, v)

Spec == Init /\ [][Next]_vars
=============================================================================
