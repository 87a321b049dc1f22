------------------------------ MODULE Console ------------------------------
(***************************************************************************)
(* Console input (kernel/console.c): the interrupt handler that edits the  *)
(* line being typed, and the readers that sleep for a line.                *)
(*                                                                         *)
(* consoleintr() holds cons.lock from its first statement to its last and  *)
(* touches nothing else a reader looks at, so it is one step; the echo it  *)
(* sends meanwhile is in module Uart.  consoleread() holds the lock for    *)
(* several steps, one per character.                                       *)
(***************************************************************************)
EXTENDS Naturals, Sequences, FiniteSets

CONSTANTS
  Readers, None,
  Plain,              \* ordinary characters
  INPUT_BUF_SIZE,
  WRAP,               \* cons.r, cons.w, cons.e are uints: taken modulo WRAP
  Sizes               \* byte counts asked of read()

ASSUME ConsoleAssumption ==
  /\ None \notin Readers \cup Plain
  /\ INPUT_BUF_SIZE \in Nat \ {0}
  /\ WRAP \in Nat /\ WRAP > INPUT_BUF_SIZE /\ WRAP % INPUT_BUF_SIZE = 0
  /\ Sizes \subseteq Nat \ {0}

NL == "newline"
EOF == "^D"
Keys == Plain \cup {NL, "return", EOF, "^U", "^H", "delete", "^P", "NUL"}

VARIABLES
  cons,    \* lock, buf, r, w, e
  pc,      \* where each reader is
  left,    \* n of consoleread()
  killed,
  line     \* characters the current read() has copied out

vars == <<cons, pc, left, killed, line>>

Init ==
  /\ cons = [lock |-> None, buf |-> [j \in 0 .. INPUT_BUF_SIZE - 1 |-> None],
             r |-> 0, w |-> 0, e |-> 0]
  /\ pc = [p \in Readers |-> "idle"]
  /\ left = [p \in Readers |-> 0]
  /\ killed = [p \in Readers |-> FALSE]
  /\ line = [p \in Readers |-> <<>>]

Goto(p, point) == pc' = [pc EXCEPT ![p] = point]

-----------------------------------------------------------------------------
\* consoleintr().

Dist(a, b) == (a + WRAP - b) % WRAP     \* a - b on uints
Back(a, k) == Dist(a, k)
Inc(a) == (a + 1) % WRAP
At(a) == cons.buf[a % INPUT_BUF_SIZE]

Erase(k) == cons' = [cons EXCEPT !.e = Back(@, k)]

\* MUTANT: backspace looks at the read index.
BackspacePastLine ==
  /\ cons.e # cons.r
  /\ Erase(1)
  /\ UNCHANGED pc

\* ^H or delete: one character, if the line has one.
Backspace ==
  /\ cons.e # cons.w
  /\ Erase(1)
  /\ UNCHANGED pc

\* ^U: back to the start of the line or to a newline, whichever comes first.
KillLine ==
  LET stop(k) == \/ Back(cons.e, k) = cons.w
                 \/ At(Back(cons.e, k + 1)) = NL
  IN \E k \in 0 .. INPUT_BUF_SIZE :
       /\ stop(k) /\ \A j \in 0 .. k - 1 : ~stop(j)
       /\ Erase(k)
       /\ UNCHANGED pc

\* MUTANT: a full buffer is not handed to the readers.
StoreNoCommit(key) ==
  LET c == IF key = "return" THEN NL ELSE key
      stored == [cons EXCEPT !.buf[cons.e % INPUT_BUF_SIZE] = c, !.e = Inc(@)]
  IN /\ key # "NUL" /\ Dist(cons.e, cons.r) < INPUT_BUF_SIZE
     /\ IF c \in {NL, EOF}
        THEN /\ cons' = [stored EXCEPT !.w = stored.e]
             /\ pc' = [p \in Readers |-> IF pc[p] = "asleep" THEN "read" ELSE pc[p]]
        ELSE cons' = stored /\ UNCHANGED pc

\* MUTANT: only a newline wakes the readers.
StoreWakesOnNewline(key) ==
  LET c == IF key = "return" THEN NL ELSE key
      stored == [cons EXCEPT !.buf[cons.e % INPUT_BUF_SIZE] = c, !.e = Inc(@)]
  IN /\ key # "NUL" /\ Dist(cons.e, cons.r) < INPUT_BUF_SIZE
     /\ IF c \in {NL, EOF} \/ Dist(stored.e, cons.r) = INPUT_BUF_SIZE
        THEN /\ cons' = [stored EXCEPT !.w = stored.e]
             /\ pc' = [p \in Readers |->
                  IF pc[p] = "asleep" /\ c = NL THEN "read" ELSE pc[p]]
        ELSE cons' = stored /\ UNCHANGED pc

\* Any other key but NUL: stored if there is room; a newline, ^D or a full
\* buffer enters the line and wakes the readers.
Store(key) ==
  LET c == IF key = "return" THEN NL ELSE key
      stored == [cons EXCEPT !.buf[cons.e % INPUT_BUF_SIZE] = c, !.e = Inc(@)]
  IN /\ key # "NUL" /\ Dist(cons.e, cons.r) < INPUT_BUF_SIZE
     /\ IF c \in {NL, EOF} \/ Dist(stored.e, cons.r) = INPUT_BUF_SIZE
        THEN /\ cons' = [stored EXCEPT !.w = stored.e]
             /\ pc' = [p \in Readers |-> IF pc[p] = "asleep" THEN "read" ELSE pc[p]]
        ELSE cons' = stored /\ UNCHANGED pc

\* The handler, with the lock.  ^P prints the process table; NUL, a key that
\* finds no room and an erasing key that finds no line change nothing.
ConsoleIntr(key) ==
  /\ cons.lock = None
  /\ \/ key = "^U" /\ KillLine
     \/ key \in {"^H", "delete"} /\ Backspace
     \/ key \notin {"^U", "^H", "delete", "^P"} /\ Store(key)
  /\ UNCHANGED <<left, killed, line>>

-----------------------------------------------------------------------------
\* consoleread().

\* read() on the console device: fileread(), consoleread().
StartRead(p, n) ==
  /\ pc[p] = "idle" /\ ~killed[p]
  /\ left' = [left EXCEPT ![p] = n]
  /\ Goto(p, "read")
  /\ UNCHANGED <<cons, killed, line>>

\* With cons.lock: just taken, taken again after sleep(), or still held.
InRead(p) == \/ pc[p] = "read" /\ cons.lock = None
             \/ pc[p] = "read_more"

ReadReturn(p, r) ==
  /\ cons' = [cons EXCEPT !.lock = None, !.r = r]
  /\ left' = [left EXCEPT ![p] = 0]
  /\ line' = [line EXCEPT ![p] = <<>>]
  /\ Goto(p, "idle")

\* Nothing entered: give up when killed, else sleep(); kill() may strike
\* between the two.
ReadWait(p) ==
  /\ InRead(p) /\ cons.r = cons.w /\ left[p] > 0
  /\ IF killed[p]
     THEN ReadReturn(p, cons.r)
     ELSE /\ cons' = [cons EXCEPT !.lock = p]
          /\ Goto(p, "read_sleep")
          /\ UNCHANGED <<left, line>>
  /\ UNCHANGED killed

ReadSleep(p) ==
  /\ pc[p] = "read_sleep"
  /\ cons' = [cons EXCEPT !.lock = None]
  /\ Goto(p, "asleep")
  /\ UNCHANGED <<left, killed, line>>

\* MUTANT: an end of file in the middle of a read() is not saved.
ReadCharEatsEof(p) ==
  /\ InRead(p) /\ cons.r # cons.w /\ left[p] > 0
  /\ LET c == At(cons.r)
     IN IF c = EOF
        THEN ReadReturn(p, Inc(cons.r))
        ELSE /\ cons' = [cons EXCEPT !.lock = p, !.r = Inc(@)]
             /\ line' = [line EXCEPT ![p] = Append(@, c)]
             /\ left' = [left EXCEPT ![p] = IF c = NL THEN 0 ELSE @ - 1]
             /\ Goto(p, "read_more")
  /\ UNCHANGED killed

\* One character: ^D ends the read(), and stays for the next one when this one
\* has something to return; a newline ends it too.
ReadChar(p) ==
  /\ InRead(p) /\ cons.r # cons.w /\ left[p] > 0
  /\ LET c == At(cons.r)
     IN IF c = EOF
        THEN ReadReturn(p, IF line[p] # <<>> THEN cons.r ELSE Inc(cons.r))
        ELSE /\ cons' = [cons EXCEPT !.lock = p, !.r = Inc(@)]
             /\ line' = [line EXCEPT ![p] = Append(@, c)]
             /\ left' = [left EXCEPT ![p] = IF c = NL THEN 0 ELSE @ - 1]
             /\ Goto(p, "read_more")
  /\ UNCHANGED killed

\* either_copyout() fails: the character is gone.
ReadFault(p) ==
  /\ InRead(p) /\ cons.r # cons.w /\ left[p] > 0 /\ At(cons.r) # EOF
  /\ ReadReturn(p, Inc(cons.r))
  /\ UNCHANGED killed

ReadDone(p) ==
  /\ pc[p] = "read_more" /\ left[p] = 0
  /\ ReadReturn(p, cons.r)
  /\ UNCHANGED killed

\* kill(): a sleeper goes back to its test.
Kill(p) ==
  /\ pc[p] # "idle" /\ ~killed[p]
  /\ killed' = [killed EXCEPT ![p] = TRUE]
  /\ pc' = [pc EXCEPT ![p] = IF @ = "asleep" THEN "read" ELSE @]
  /\ UNCHANGED <<cons, left, line>>

\* A killed process exits when its call returns; a new one takes its place.
Exit(p) ==
  /\ pc[p] = "idle" /\ killed[p]
  /\ killed' = [killed EXCEPT ![p] = FALSE]
  /\ UNCHANGED <<cons, pc, left, line>>

-----------------------------------------------------------------------------
Next ==
  \/ \E key \in Keys : ConsoleIntr(key)
  \/ \E p \in Readers :
       \/ \E n \in Sizes : StartRead(p, n)
       \/ ReadWait(p) \/ ReadSleep(p) \/ ReadChar(p) \/ ReadFault(p)
       \/ ReadDone(p) \/ Kill(p) \/ Exit(p)

Spec == Init /\ [][Next]_vars

-----------------------------------------------------------------------------
\* Properties.

\* Every variable has its type; the indices are in the order r, w, e and span
\* at most the buffer, though each wraps on its own.
TypeOK ==
  /\ {cons.r, cons.w, cons.e} \subseteq 0 .. WRAP - 1
  /\ Dist(cons.w, cons.r) <= Dist(cons.e, cons.r)
  /\ Dist(cons.e, cons.r) <= INPUT_BUF_SIZE
  /\ cons.lock \in Readers \cup {None}
  /\ killed \in [Readers -> BOOLEAN]

\* With the lock free, a reader sleeps only while no input has been entered,
\* whichever readers were killed, woke up or took the input in between.
NoLostWakeup ==
  \A p \in Readers :
    pc[p] = "asleep" /\ cons.lock = None => cons.r = cons.w

\* A full input buffer has been entered: when no more can be typed, the readers
\* can make room.
InputNotJammed ==
  Dist(cons.e, cons.r) = INPUT_BUF_SIZE => cons.w = cons.e

\* The input buffer is sound: its indices keep their order, and it cannot jam.
BufferSound == TypeOK /\ InputNotJammed

\* The ring with its three wrapping indices is the line-at-a-time input that
\* readers expect.
Segment(a, b) == [j \in 1 .. Dist(b, a) |-> At((a + j - 1) % WRAP)]
Lines == INSTANCE LineInput WITH
  Chars <- Plain, SIZE <- INPUT_BUF_SIZE,
  entered <- Segment(cons.r, cons.w), editing <- Segment(cons.w, cons.e)
LineDiscipline == Lines!Spec
=============================================================================
