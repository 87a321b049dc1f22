----------------------------- MODULE ByteStream -----------------------------
(***************************************************************************)
(* What pipes promise: each is a bounded first-in first-out stream of      *)
(* bytes.  A byte is handed to one reader, in the order in which it was    *)
(* written; nothing is overwritten, read twice or found in another pipe.   *)
(***************************************************************************)
EXTENDS Naturals, Sequences

CONSTANTS Pipes, Bytes, None, SIZE

VARIABLES
  stream,  \* of each pipe, the bytes written and not yet read
  got      \* the last byte handed to the reader at work, if there is one

Init ==
  /\ stream = [q \in Pipes |-> <<>>]
  /\ got = [q \in Pipes |-> None]

Write(q, b) ==
  /\ Len(stream[q]) < SIZE
  /\ stream' = [stream EXCEPT ![q] = Append(@, b)]
  /\ UNCHANGED got

Read(q) ==
  /\ stream[q] # <<>>
  /\ got' = [got EXCEPT ![q] = Head(stream[q])]
  /\ stream' = [stream EXCEPT ![q] = Tail(@)]

\* read() returns.
Return(q) == got' = [got EXCEPT ![q] = None] /\ UNCHANGED stream

\* Both ends are closed; a new pipe may take the place of the old one.
Reset(q) == stream' = [stream EXCEPT ![q] = <<>>] /\ UNCHANGED got

Next ==
  \E q \in Pipes : (\E b \in Bytes : Write(q, b)) \/ Read(q) \/ Return(q) \/ Reset(q)

Spec == Init /\ [][Next]_<<stream, got>>
=============================================================================
