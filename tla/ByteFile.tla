------------------------------ MODULE ByteFile ------------------------------
(***************************************************************************)
(* What a file promises: it is a sequence of bytes, and every open file    *)
(* has an offset into it.  A read returns the bytes at the offset and      *)
(* moves it.  The bytes of a write go to the offset in their order, in as  *)
(* many pieces as the system likes, and each piece moves the offset; a     *)
(* write may end before all its bytes are in.  Truncation empties a file;  *)
(* a machine that stops loses the open files and no bytes that were        *)
(* counted.  A write that ends early may have put more of its bytes over   *)
(* old ones than it counts: they are read, but not kept, until they are    *)
(* forgotten or a later write makes them last.                             *)
(***************************************************************************)
EXTENDS Naturals, Sequences

CONSTANTS Files, Handles, Writers, None, Start

VARIABLES
  content,   \* the bytes of each file, as they are read
  kept,      \* the same, as they are after the machine has stopped
  handle,    \* each open file: [file, off], or None
  pending,   \* each write under way: [h, data], data still to go, or None
  got        \* what the last read returned

Open(f) ==
  /\ handle[f] = None
  /\ \E i \in Files :
       /\ handle' = [handle EXCEPT ![f] = [file |-> i, off |-> 0]]
       /\ \/ UNCHANGED <<content, kept>>
          \/ /\ content' = [content EXCEPT ![i] = <<>>]
             /\ kept' = [kept EXCEPT ![i] = <<>>]
  /\ got' = <<>>
  /\ UNCHANGED pending

Close(f) ==
  /\ handle' = [handle EXCEPT ![f] = None]
  /\ got' = <<>>
  /\ UNCHANGED <<content, kept, pending>>

Read(f) ==
  /\ handle[f] # None
  /\ LET data == content[handle[f].file]
         off == handle[f].off
     IN  /\ \E end \in {off} \cup off .. Len(data) : got' = SubSeq(data, off + 1, end)
         /\ handle' = [handle EXCEPT ![f].off = @ + Len(got')]
  /\ UNCHANGED <<content, kept, pending>>

Begin(p) ==
  /\ pending[p] = None /\ pending'[p] # None
  /\ pending' = [pending EXCEPT ![p] = pending'[p]]
  /\ got' = <<>>
  /\ UNCHANGED <<content, kept, handle>>

\* Bytes data of a write put over the bytes old from offset off, n of them counted.
Over(old, off, data, n) ==
  [k \in 1 .. IF n > 0 /\ off + n > Len(old) THEN off + n ELSE Len(old) |->
     IF k > off /\ k <= off + Len(data) THEN data[k - off] ELSE old[k]]

\* n bytes of the write go into the file; it may end there, with x bytes more that
\* are not counted.  Other bytes that were not kept may be from now on.
Piece(p) ==
  /\ pending[p] # None
  /\ LET f == pending[p].h
         data == pending[p].data
         i == handle[f].file
         off == handle[f].off
         old == content[i]
     IN  \E n \in 0 .. Len(data) : \E x \in 0 .. Len(data) - n :
           /\ n > 0 => off <= Len(old)
           /\ handle' = [handle EXCEPT ![f].off = @ + n]
           /\ content' = [content EXCEPT ![i] = Over(old, off, SubSeq(data, 1, n + x), n)]
           /\ kept' = [kept EXCEPT ![i] = [k \in DOMAIN content'[i] |->
                IF k > off /\ k <= off + n THEN data[k - off]
                ELSE IF kept'[i][k] = old[k] /\ k \notin off + n + 1 .. off + n + x
                THEN old[k] ELSE kept[i][k]]]
           /\ \/ pending' = [pending EXCEPT ![p] = None]
              \/ /\ n > 0 /\ x = 0
                 /\ pending' = [pending EXCEPT ![p].data = SubSeq(data, n + 1, Len(data))]
  /\ got' = <<>>

\* Bytes that were not kept are forgotten.
Forget ==
  /\ DOMAIN content' = Files
  /\ \A i \in Files :
       /\ DOMAIN content'[i] = DOMAIN content[i]
       /\ \A k \in DOMAIN content[i] : content'[i][k] \in {content[i][k], kept[i][k]}
  /\ got' = <<>>
  /\ UNCHANGED <<kept, handle, pending>>

Stop ==
  /\ handle' = [f \in Handles |-> None]
  /\ pending' = [p \in Writers |-> None]
  /\ content' = kept
  /\ got' = <<>>
  /\ UNCHANGED kept

Init ==
  /\ content = Start /\ kept = Start
  /\ handle = [f \in Handles |-> None]
  /\ pending = [p \in Writers |-> None]
  /\ got = <<>>

Next ==
  \/ \E f \in Handles : Open(f) \/ Close(f) \/ Read(f)
  \/ \E p \in Writers : Begin(p) \/ Piece(p)
  \/ Forget \/ Stop

Spec == Init /\ [][Next]_<<content, kept, handle, pending, got>>
=============================================================================
