--------------------------- MODULE Console_proofs ---------------------------
(***************************************************************************)
(* Proofs about Console, for any number of readers, any size of the input  *)
(* buffer and any width of its indices: the three wrapping indices keep    *)
(* their order and the buffer cannot jam, no reader sleeps over entered    *)
(* input, and the ring is the line-at-a-time input of LineInput.  Then     *)
(* about Clock, the other interrupt readers wait for: for any number of    *)
(* sleepers, any width of the clock and any latency below half a turn of   *)
(* it, sleep() takes as long as it was asked to and, once it has a reason  *)
(* to return, hardly longer.                                               *)
(***************************************************************************)
EXTENDS Console, Clock, Integers, SequenceTheorems, TLAPS

Index == 0 .. WRAP - 1
Stored == Plain \cup {NL, EOF, None}
Buffers == [0 .. INPUT_BUF_SIZE - 1 -> Stored]
-----------------------------------------------------------------------------
\* Arithmetic of the wrapping indices.

\* a - b on uints: no borrow, or one.
LEMMA DistIs ==
  ASSUME NEW a \in Index, NEW b \in Index
  PROVE  /\ Dist(a, b) = IF b <= a THEN a - b ELSE a + WRAP - b
         /\ Dist(a, b) \in Index /\ Dist(a, b) \in Nat
  BY ConsoleAssumption DEF Index, Dist

\* a + 1 on uints.
LEMMA IncIs ==
  ASSUME NEW a \in Index
  PROVE  /\ Inc(a) = IF a = WRAP - 1 THEN 0 ELSE a + 1
         /\ Inc(a) \in Index
  BY ConsoleAssumption DEF Index, Inc

\* a + j on uints.
LEMMA PlusIs ==
  ASSUME NEW a \in Index, NEW j \in Index
  PROVE  /\ (a + j) % WRAP = IF a + j < WRAP THEN a + j ELSE a + j - WRAP
         /\ (a + j) % WRAP \in Index
  BY ConsoleAssumption DEF Index

\* Quotient and remainder.
LEMMA DivMod ==
  ASSUME NEW x \in Int, NEW s \in Nat \ {0}
  PROVE  /\ x = s * (x \div s) + (x % s)
         /\ x % s \in 0 .. s - 1 /\ x \div s \in Int
  OBVIOUS

\* Two indices that are apart by less than the buffer name two slots: the
\* buffer's size divides the wrap.
LEMMA SlotsApart ==
  ASSUME NEW a \in Index, NEW b \in Index,
         0 < Dist(b, a), Dist(b, a) < INPUT_BUF_SIZE
  PROVE  a % INPUT_BUF_SIZE # b % INPUT_BUF_SIZE
  <1> DEFINE S == INPUT_BUF_SIZE
             qa == a \div S
             qb == b \div S
             qw == WRAP \div S
  <1>1. /\ S \in Nat \ {0} /\ WRAP \in Nat
        /\ WRAP % S = 0 /\ a \in Nat /\ b \in Nat
      BY ConsoleAssumption DEF Index
  <1>2. SUFFICES ASSUME a % S = b % S PROVE FALSE
      OBVIOUS
  <1>3. /\ qa \in Int /\ qb \in Int /\ qw \in Int
        /\ a = S * qa + (a % S) /\ b = S * qb + (b % S) /\ WRAP = S * qw
        /\ a % S \in Int /\ b % S \in Int
      <2> HIDE DEF S
      <2>1. WRAP = S * (WRAP \div S) + (WRAP % S) /\ WRAP \div S \in Int
          BY <1>1, DivMod
      <2>2. WRAP = S * qw
          BY <1>1, <2>1
      <2> QED BY <1>1, <2>1, <2>2, DivMod
  <1>4. Dist(b, a) = b - a \/ Dist(b, a) = b + WRAP - a
      BY DistIs
  <1>5. PICK k \in Int : Dist(b, a) = S * k
      <2>1. CASE Dist(b, a) = b - a
          <3>1. Dist(b, a) = S * (qb - qa)
              BY <2>1, <1>1, <1>2, <1>3
          <3> QED BY <3>1, <1>3
      <2>2. CASE Dist(b, a) = b + WRAP - a
          <3>1. Dist(b, a) = S * (qb + qw - qa)
              BY <2>2, <1>1, <1>2, <1>3
          <3> QED BY <3>1, <1>3
      <2> QED BY <1>4, <2>1, <2>2
  <1> HIDE DEF S
  <1>6. 0 < S * k /\ S * k < S
      BY <1>5 DEF S
  <1> QED BY <1>1, <1>5, <1>6

-----------------------------------------------------------------------------
\* The characters between two indices of the ring.

Seg(buf, a, b) ==
  [j \in 1 .. Dist(b, a) |-> buf[((a + j - 1) % WRAP) % INPUT_BUF_SIZE]]

\* A slot of the buffer for every index.
LEMMA SlotIs ==
  ASSUME NEW a \in Index
  PROVE  a % INPUT_BUF_SIZE \in 0 .. INPUT_BUF_SIZE - 1
  BY ConsoleAssumption DEF Index

\* The j-th index from a on, before b.
LEMMA InsideIs ==
  ASSUME NEW a \in Index, NEW b \in Index, NEW j \in 1 .. Dist(b, a)
  PROVE  /\ (a + j - 1) % WRAP \in Index
         /\ Dist(b, (a + j - 1) % WRAP) = Dist(b, a) - j + 1
         /\ Dist((a + j - 1) % WRAP, a) = j - 1
  <1>1. /\ j - 1 \in Index /\ WRAP \in Nat /\ j \in Int
        /\ a \in Int /\ b \in Int /\ a + j - 1 = a + (j - 1)
      BY DistIs, ConsoleAssumption DEF Index
  <1> DEFINE i == (a + (j - 1)) % WRAP
  <1>2. /\ i \in Index
        /\ i = IF a + j - 1 < WRAP THEN a + j - 1 ELSE a + j - 1 - WRAP
      BY <1>1, PlusIs
  <1>3. /\ Dist(b, a) = IF a <= b THEN b - a ELSE b + WRAP - a
        /\ Dist(b, a) \in Index
      BY DistIs
  <1> HIDE DEF i
  <1>4. Dist(b, i) = IF i <= b THEN b - i ELSE b + WRAP - i
      BY <1>2, DistIs
  <1>5. Dist(i, a) = IF a <= i THEN i - a ELSE i + WRAP - a
      BY <1>2, DistIs
  <1>6. Dist(b, i) = Dist(b, a) - j + 1 /\ Dist(i, a) = j - 1
      BY <1>1, <1>2, <1>3, <1>4, <1>5 DEF Index
  <1> QED BY <1>1, <1>2, <1>6 DEF i

\* A segment is a sequence as long as the distance of its ends.
LEMMA SegType ==
  ASSUME NEW buf \in Buffers, NEW a \in Index, NEW b \in Index
  PROVE  /\ Seg(buf, a, b) \in Seq(Stored)
         /\ Len(Seg(buf, a, b)) = Dist(b, a)
         /\ \A j \in 1 .. Dist(b, a) :
              Seg(buf, a, b)[j] = buf[((a + j - 1) % WRAP) % INPUT_BUF_SIZE]
         /\ (Seg(buf, a, b) = <<>>) <=> a = b
  <1>1. Dist(b, a) \in Nat
      BY DistIs DEF Index
  <1>2. ASSUME NEW j \in 1 .. Dist(b, a)
        PROVE  buf[((a + j - 1) % WRAP) % INPUT_BUF_SIZE] \in Stored
      BY InsideIs, SlotIs DEF Buffers
  <1>3. Seg(buf, a, b) \in Seq(Stored) /\ Len(Seg(buf, a, b)) = Dist(b, a)
      BY <1>1, <1>2 DEF Seg
  <1>4. Dist(b, a) = 0 <=> a = b
      <2>1. Dist(b, a) = IF a <= b THEN b - a ELSE b + WRAP - a
          BY DistIs
      <2> QED BY <2>1, ConsoleAssumption DEF Index
  <1>5. (Seg(buf, a, b) = <<>>) <=> Len(Seg(buf, a, b)) = 0
      BY <1>3, EmptySeq
  <1> QED BY <1>3, <1>4, <1>5 DEF Seg

\* Distances add up along the ring.
LEMMA DistSum ==
  ASSUME NEW a \in Index, NEW b \in Index, NEW c \in Index,
         Dist(b, a) <= Dist(c, a)
  PROVE  Dist(c, b) = Dist(c, a) - Dist(b, a)
  <1>1. /\ Dist(b, a) = IF a <= b THEN b - a ELSE b + WRAP - a
        /\ Dist(c, a) = IF a <= c THEN c - a ELSE c + WRAP - a
        /\ Dist(c, b) = IF b <= c THEN c - b ELSE c + WRAP - b
      BY DistIs
  <1> QED BY <1>1, ConsoleAssumption DEF Index

\* Two segments meet: they are one.
LEMMA SegJoin ==
  ASSUME NEW buf \in Buffers, NEW a \in Index, NEW b \in Index, NEW c \in Index,
         Dist(b, a) <= Dist(c, a)
  PROVE  Seg(buf, a, c) = Seg(buf, a, b) \o Seg(buf, b, c)
  <1> DEFINE m == Dist(b, a)
             cnt == Dist(c, b)
             s == Seg(buf, a, b)
             t == Seg(buf, b, c)
             u == Seg(buf, a, c)
  <1>1. m \in Index /\ cnt \in Index /\ Dist(c, a) \in Index
      BY DistIs
  <1>2. Dist(c, a) = m + cnt
      BY <1>1, DistSum DEF Index
  <1>3. /\ s \in Seq(Stored) /\ Len(s) = m
        /\ \A j \in 1 .. m :
             s[j] = buf[((a + j - 1) % WRAP) % INPUT_BUF_SIZE]
      BY SegType
  <1>4. /\ t \in Seq(Stored) /\ Len(t) = cnt
        /\ \A j \in 1 .. cnt :
             t[j] = buf[((b + j - 1) % WRAP) % INPUT_BUF_SIZE]
      BY SegType
  <1>5. /\ u \in Seq(Stored) /\ Len(u) = m + cnt
        /\ \A j \in 1 .. m + cnt :
             u[j] = buf[((a + j - 1) % WRAP) % INPUT_BUF_SIZE]
      BY <1>2, SegType
  <1>6. m = IF a <= b THEN b - a ELSE b + WRAP - a
      BY DistIs
  <1>7. m + cnt \in Index /\ m \in Int /\ cnt \in Int
      BY <1>1, <1>2 DEF Index
  <1> HIDE DEF m, cnt, s, t, u
  <1>8. /\ s \o t \in Seq(Stored) /\ Len(s \o t) = m + cnt
        /\ \A j \in 1 .. m + cnt :
             (s \o t)[j] = IF j <= m THEN s[j] ELSE t[j - m]
      BY <1>3, <1>4, ConcatProperties
  <1>9. ASSUME NEW j \in 1 .. m + cnt PROVE u[j] = (s \o t)[j]
      <2>1. CASE j <= m
          <3>1. j \in 1 .. m
              BY <1>1, <2>1 DEF Index
          <3> QED BY <1>3, <1>5, <1>8, <2>1, <3>1
      <2>2. CASE ~(j <= m)
          <3>1. j - m \in 1 .. cnt
              BY <1>1, <2>2 DEF Index
          <3>2. t[j - m] = buf[((b + (j - m) - 1) % WRAP) % INPUT_BUF_SIZE]
              BY <1>4, <3>1
          <3>3. j - m - 1 \in Index /\ j - 1 \in Index
              BY <1>1, <1>7, <3>1, ConsoleAssumption DEF Index
          <3>4. /\ b + (j - m) - 1 = b + (j - m - 1)
                /\ a + j - 1 = a + (j - 1)
              BY <1>7 DEF Index
          <3>5. /\ (b + (j - m - 1)) % WRAP
                     = IF b + (j - m - 1) < WRAP
                       THEN b + (j - m - 1) ELSE b + (j - m - 1) - WRAP
                /\ (a + (j - 1)) % WRAP
                     = IF a + (j - 1) < WRAP
                       THEN a + (j - 1) ELSE a + (j - 1) - WRAP
              BY <3>3, PlusIs
          <3>6. (b + (j - m - 1)) % WRAP = (a + (j - 1)) % WRAP
              BY <3>3, <3>5, <1>6, <1>7, ConsoleAssumption DEF Index
          <3> QED BY <1>5, <1>8, <2>2, <3>2, <3>4, <3>6
      <2> QED BY <2>1, <2>2
  <1>10. u = s \o t
      BY <1>5, <1>8, <1>9, SeqEqual
  <1> QED BY <1>10 DEF s, t, u

\* A slot outside a segment may change: the segment does not.
LEMMA SegSame ==
  ASSUME NEW buf \in Buffers, NEW a \in Index, NEW b \in Index, NEW e \in Index,
         NEW c \in Stored,
         Dist(b, a) <= Dist(e, a), Dist(e, a) < INPUT_BUF_SIZE
  PROVE  Seg([buf EXCEPT ![e % INPUT_BUF_SIZE] = c], a, b) = Seg(buf, a, b)
  <1> DEFINE new == [buf EXCEPT ![e % INPUT_BUF_SIZE] = c]
  <1>1. ASSUME NEW j \in 1 .. Dist(b, a)
        PROVE  new[((a + j - 1) % WRAP) % INPUT_BUF_SIZE]
                 = buf[((a + j - 1) % WRAP) % INPUT_BUF_SIZE]
      <2> DEFINE i == (a + j - 1) % WRAP
      <2>1. Dist(b, a) \in Nat /\ Dist(e, a) \in Nat /\ INPUT_BUF_SIZE \in Nat
          BY DistIs, ConsoleAssumption DEF Index
      <2>2. j \in 1 .. Dist(e, a)
          BY <2>1
      <2>3. i \in Index /\ Dist(e, i) = Dist(e, a) - j + 1
          BY <2>2, InsideIs
      <2> HIDE DEF i
      <2>4. 0 < Dist(e, i) /\ Dist(e, i) < INPUT_BUF_SIZE
          BY <2>1, <2>2, <2>3
      <2>5. i % INPUT_BUF_SIZE # e % INPUT_BUF_SIZE
          BY <2>3, <2>4, SlotsApart
      <2>6. i % INPUT_BUF_SIZE \in 0 .. INPUT_BUF_SIZE - 1
          BY <2>3, SlotIs
      <2>7. new[i % INPUT_BUF_SIZE] = buf[i % INPUT_BUF_SIZE]
          BY <2>5, <2>6 DEF Buffers
      <2> QED BY <2>7 DEF i
  <1> QED BY <1>1 DEF Seg

\* A segment of one.
LEMMA SegOne ==
  ASSUME NEW buf \in Buffers, NEW a \in Index
  PROVE  /\ Seg(buf, a, Inc(a)) = <<buf[a % INPUT_BUF_SIZE]>>
         /\ Dist(Inc(a), a) = 1
  <1>1. Dist(Inc(a), a) = 1
      <2>1. /\ Inc(a) = IF a = WRAP - 1 THEN 0 ELSE a + 1
            /\ Inc(a) \in Index
          BY IncIs
      <2>2. Dist(Inc(a), a) = IF a <= Inc(a) THEN Inc(a) - a
                                            ELSE Inc(a) + WRAP - a
          BY <2>1, DistIs
      <2> QED BY <2>1, <2>2, ConsoleAssumption DEF Index
  <1>2. Seg(buf, a, Inc(a)) = [j \in 1 .. 1 |-> buf[((a + j - 1) % WRAP) % INPUT_BUF_SIZE]]
      BY <1>1 DEF Seg
  <1>3. (a + 1 - 1) % WRAP = a
      BY ConsoleAssumption DEF Index
  <1> QED BY <1>1, <1>2, <1>3

\* One step on from an index that is less than a whole wrap away.
LEMMA IncDist ==
  ASSUME NEW a \in Index, NEW b \in Index, Dist(b, a) < WRAP - 1
  PROVE  Dist(Inc(b), a) = Dist(b, a) + 1
  <1>1. /\ Inc(b) = IF b = WRAP - 1 THEN 0 ELSE b + 1
        /\ Inc(b) \in Index
      BY IncIs
  <1>2. /\ Dist(Inc(b), a)
             = IF a <= Inc(b) THEN Inc(b) - a ELSE Inc(b) + WRAP - a
        /\ Dist(b, a) = IF a <= b THEN b - a ELSE b + WRAP - a
      BY <1>1, DistIs
  <1> QED BY <1>1, <1>2, ConsoleAssumption DEF Index

\* A character stored in the free slot after a segment extends it.
LEMMA SegExtend ==
  ASSUME NEW buf \in Buffers, NEW a \in Index, NEW e \in Index,
         NEW c \in Stored, Dist(e, a) < INPUT_BUF_SIZE
  PROVE  Seg([buf EXCEPT ![e % INPUT_BUF_SIZE] = c], a, Inc(e))
           = Append(Seg(buf, a, e), c)
  <1> DEFINE new == [buf EXCEPT ![e % INPUT_BUF_SIZE] = c]
  <1>1. new \in Buffers /\ new[e % INPUT_BUF_SIZE] = c
      BY SlotIs DEF Buffers
  <1>2. Dist(e, a) \in Nat /\ Inc(e) \in Index
      BY DistIs, IncIs DEF Index
  <1>3. Dist(Inc(e), a) = Dist(e, a) + 1
      BY <1>2, IncDist, ConsoleAssumption
  <1>4. Seg(new, a, e) = Seg(buf, a, e)
      BY <1>2, SegSame
  <1>5. Seg(new, e, Inc(e)) = <<c>>
      <2> HIDE DEF new
      <2> QED BY <1>1, SegOne
  <1>6. Seg(new, a, Inc(e)) = Seg(new, a, e) \o Seg(new, e, Inc(e))
      <2> HIDE DEF new
      <2> QED BY <1>1, <1>2, <1>3, SegJoin
  <1>7. Seg(buf, a, e) \in Seq(Stored)
      BY SegType
  <1>8. \A s \in Seq(Stored) : s \o <<c>> = Append(s, c)
      OBVIOUS
  <1> QED BY <1>4, <1>5, <1>6, <1>7, <1>8

\* Taking the first character of a segment leaves its tail.
LEMMA SegTake ==
  ASSUME NEW buf \in Buffers, NEW a \in Index, NEW b \in Index, a # b
  PROVE  /\ Seg(buf, a, b) # <<>>
         /\ Head(Seg(buf, a, b)) = buf[a % INPUT_BUF_SIZE]
         /\ Tail(Seg(buf, a, b)) = Seg(buf, Inc(a), b)
         /\ Dist(b, Inc(a)) = Dist(b, a) - 1
  <1> DEFINE x == buf[a % INPUT_BUF_SIZE]
             t == Seg(buf, Inc(a), b)
  <1>1. Inc(a) \in Index
      BY IncIs
  <1>2. Dist(b, a) \in Nat /\ Dist(b, a) # 0
      <2>1. Dist(b, a) = IF a <= b THEN b - a ELSE b + WRAP - a
          BY DistIs
      <2> QED BY <2>1, ConsoleAssumption DEF Index
  <1>3. Dist(Inc(a), a) = 1
      BY SegOne
  <1>4. Dist(b, Inc(a)) = Dist(b, a) - 1
      BY <1>1, <1>2, <1>3, DistSum
  <1>5. Seg(buf, a, b) = <<x>> \o t
      <2>1. Dist(Inc(a), a) <= Dist(b, a)
          BY <1>2, <1>3
      <2>2. Seg(buf, a, b) = Seg(buf, a, Inc(a)) \o Seg(buf, Inc(a), b)
          BY <1>1, <2>1, SegJoin
      <2> QED BY <2>2, SegOne
  <1>6. t \in Seq(Stored) /\ x \in Stored
      BY <1>1, SegType, SlotIs DEF Buffers
  <1> HIDE DEF x, t
  <1>7. /\ <<x>> \o t # <<>> /\ Head(<<x>> \o t) = x /\ Tail(<<x>> \o t) = t
      BY <1>6
  <1> QED BY <1>4, <1>5, <1>7 DEF x, t

\* k characters back from e is nearer to every index up to k behind it.
LEMMA BackDist ==
  ASSUME NEW a \in Index, NEW e \in Index, NEW k \in 0 .. Dist(e, a)
  PROVE  /\ Back(e, k) \in Index
         /\ Dist(Back(e, k), a) = Dist(e, a) - k
  <1>1. /\ Dist(e, a) \in Index
        /\ Dist(e, a) = IF a <= e THEN e - a ELSE e + WRAP - a
      BY DistIs
  <1>2. k \in Index
      BY <1>1, ConsoleAssumption DEF Index
  <1>3. /\ Back(e, k) \in Index
        /\ Back(e, k) = IF k <= e THEN e - k ELSE e + WRAP - k
      BY <1>2, DistIs DEF Back
  <1>4. Dist(Back(e, k), a)
          = IF a <= Back(e, k) THEN Back(e, k) - a ELSE Back(e, k) + WRAP - a
      BY <1>3, DistIs
  <1> QED BY <1>1, <1>2, <1>3, <1>4, ConsoleAssumption DEF Index

\* One character back is the segment without its last character.
LEMMA SegBack ==
  ASSUME NEW buf \in Buffers, NEW a \in Index, NEW e \in Index, a # e
  PROVE  /\ Seg(buf, a, e) # <<>>
         /\ Seg(buf, a, Back(e, 1))
              = SubSeq(Seg(buf, a, e), 1, Len(Seg(buf, a, e)) - 1)
  <1> DEFINE i == Back(e, 1)
             s == Seg(buf, a, i)
             x == buf[i % INPUT_BUF_SIZE]
  <1>1. Dist(e, a) \in Nat /\ Dist(e, a) # 0
      <2>1. Dist(e, a) = IF a <= e THEN e - a ELSE e + WRAP - a
          BY DistIs
      <2> QED BY <2>1, ConsoleAssumption DEF Index
  <1>2. i \in Index /\ Dist(i, a) = Dist(e, a) - 1
      BY <1>1, BackDist
  <1>3. Inc(i) = e
      <2>1. i = IF 1 <= e THEN e - 1 ELSE e + WRAP - 1
          <3>1. 1 \in Index
              BY ConsoleAssumption DEF Index
          <3> QED BY <3>1, DistIs DEF Back
      <2> HIDE DEF i
      <2> QED BY <1>2, <2>1, IncIs, ConsoleAssumption DEF Index
  <1>4. s \in Seq(Stored) /\ x \in Stored
      BY <1>2, SegType, SlotIs DEF Buffers
  <1>5. Seg(buf, a, e) = s \o <<x>>
      <2>1. Seg(buf, i, e) = <<x>>
          BY <1>2, <1>3, SegOne
      <2>2. Dist(i, a) <= Dist(e, a)
          BY <1>1, <1>2
      <2> HIDE DEF i
      <2> QED BY <1>2, <2>1, <2>2, SegJoin
  <1> HIDE DEF i, s, x
  <1>6. /\ s \o <<x>> # <<>>
        /\ SubSeq(s \o <<x>>, 1, Len(s \o <<x>>) - 1) = s
      BY <1>4
  <1> QED BY <1>5, <1>6 DEF i, s
-----------------------------------------------------------------------------
\* The invariant.

Points == {"idle", "read", "read_more", "read_sleep", "asleep"}

Entered == Segment(cons.r, cons.w)
Editing == Segment(cons.w, cons.e)

ConsType == [lock : Readers \cup {None}, buf : Buffers,
             r : Index, w : Index, e : Index]

Typed ==
  /\ pc \in [Readers -> Points]
  /\ left \in [Readers -> Nat]
  /\ killed \in [Readers -> BOOLEAN]
  /\ line \in [Readers -> Seq(Stored)]

Ordered ==
  /\ Dist(cons.w, cons.r) <= Dist(cons.e, cons.r)
  /\ Dist(cons.e, cons.r) <= INPUT_BUF_SIZE

\* cons.lock is held exactly by a reader between two characters, or between
\* its test for input and sleep().
LockHeld ==
  \A p \in Readers : pc[p] \in {"read_more", "read_sleep"} <=> cons.lock = p

\* Whoever sleeps or is about to does so with no input entered, whoever has
\* the lock.
SleepsOnNone ==
  \A p \in Readers : pc[p] \in {"read_sleep", "asleep"} => cons.r = cons.w

\* The line being typed has no newline: ^U finds its start.
OneLine == \A j \in DOMAIN Editing : Editing[j] # NL

\* A read() that wants more has not been given a newline.
Wanting ==
  \A p \in Readers :
    /\ pc[p] = "idle" => line[p] = <<>>
    /\ left[p] > 0 => line[p] = <<>> \/ line[p][Len(line[p])] # NL

\* The inductive invariant: what it says of the ring, and of its readers.
RingKept == cons \in ConsType /\ Ordered /\ InputNotJammed /\ OneLine
IInv == RingKept /\ Typed /\ LockHeld /\ SleepsOnNone /\ Wanting

\* A segment of the current buffer.
LEMMA SegmentIs ==
  ASSUME NEW a, NEW b
  PROVE  Segment(a, b) = Seg(cons.buf, a, b)
  BY DEF Segment, Seg, At

LEMMA InitIInv == Init => IInv
  <1> SUFFICES ASSUME Init PROVE IInv
      OBVIOUS
  <1> USE ConsoleAssumption DEF Init
  <1>0. 0 \in Index /\ Dist(0, 0) = 0
      BY DEF Index, Dist
  <1>1. Typed /\ cons \in ConsType
      <2>1. cons.buf \in Buffers
          BY DEF Buffers, Stored
      <2>2. killed \in [Readers -> BOOLEAN]
          OBVIOUS
      <2>3. pc \in [Readers -> Points] /\ left \in [Readers -> Nat]
          BY DEF Points
      <2>4. line \in [Readers -> Seq(Stored)]
          OBVIOUS
      <2> QED BY <1>0, <2>1, <2>2, <2>3, <2>4 DEF Typed, ConsType
  <1>2. Ordered /\ InputNotJammed
      BY <1>0 DEF Ordered, InputNotJammed
  <1>3. LockHeld /\ SleepsOnNone /\ Wanting
      BY DEF LockHeld, SleepsOnNone, Wanting
  <1>4. OneLine
      BY <1>0 DEF OneLine, Editing, Segment
  <1> QED BY <1>1, <1>2, <1>3, <1>4 DEF IInv, RingKept

-----------------------------------------------------------------------------
\* What the actions do to the ring.

\* The invariant fixes the characters of the two segments.
LEMMA Contents ==
  ASSUME RingKept
  PROVE  /\ Entered = Seg(cons.buf, cons.r, cons.w) /\ Entered \in Seq(Stored)
         /\ Editing = Seg(cons.buf, cons.w, cons.e) /\ Editing \in Seq(Stored)
         /\ Len(Entered) = Dist(cons.w, cons.r)
         /\ Len(Editing) = Dist(cons.e, cons.w)
         /\ Len(Entered) + Len(Editing) = Dist(cons.e, cons.r)
         /\ Dist(cons.w, cons.r) \in Nat /\ Dist(cons.e, cons.w) \in Nat
         /\ Dist(cons.e, cons.r) \in Nat
  <1>1. /\ cons.buf \in Buffers
        /\ cons.r \in Index /\ cons.w \in Index /\ cons.e \in Index
      BY DEF RingKept, ConsType
  <1>2. /\ Dist(cons.w, cons.r) \in Nat /\ Dist(cons.e, cons.w) \in Nat
        /\ Dist(cons.e, cons.r) \in Nat
      BY <1>1, DistIs
  <1>3. Dist(cons.e, cons.w) = Dist(cons.e, cons.r) - Dist(cons.w, cons.r)
      BY <1>1, DistSum DEF RingKept, Ordered
  <1>4. /\ Entered = Seg(cons.buf, cons.r, cons.w)
        /\ Editing = Seg(cons.buf, cons.w, cons.e)
      BY SegmentIs DEF Entered, Editing
  <1>5. /\ Entered \in Seq(Stored) /\ Len(Entered) = Dist(cons.w, cons.r)
        /\ Editing \in Seq(Stored) /\ Len(Editing) = Dist(cons.e, cons.w)
      BY <1>1, <1>4, SegType
  <1> QED BY <1>2, <1>3, <1>4, <1>5

\* A step that leaves the ring alone leaves its contents alone.
LEMMA RingSame ==
  ASSUME RingKept, cons' \in ConsType,
         cons'.buf = cons.buf, cons'.r = cons.r, cons'.w = cons.w, cons'.e = cons.e
  PROVE  RingKept' /\ Entered' = Entered /\ Editing' = Editing
  <1>1. Entered' = Entered /\ Editing' = Editing
      BY DEF Entered, Editing, Segment, At
  <1>2. Ordered' /\ InputNotJammed'
      BY DEF RingKept, Ordered, InputNotJammed
  <1>3. OneLine'
      BY <1>1 DEF RingKept, OneLine
  <1> QED BY <1>1, <1>2, <1>3 DEF RingKept, ConsType

\* Typing a character: LineInput's Type, but for the readers' side.
LEMMA StoreRing ==
  ASSUME NEW key \in Keys, RingKept, Store(key),
         key \notin {"^U", "^H", "delete", "^P"}
  PROVE  LET c == IF key = "return" THEN NL ELSE key
             full == Len(Entered) + Len(Editing) + 1 = INPUT_BUF_SIZE
         IN /\ c \in Plain \cup {NL, EOF}
            /\ Len(Entered) + Len(Editing) < INPUT_BUF_SIZE
            /\ RingKept' /\ cons'.lock = cons.lock /\ cons'.r = cons.r
            /\ \/ /\ c \in {NL, EOF} \/ full
                  /\ Entered' = Entered \o Append(Editing, c)
                  /\ Editing' = <<>>
                  /\ pc' = [p \in Readers |->
                              IF pc[p] = "asleep" THEN "read" ELSE pc[p]]
               \/ /\ ~(c \in {NL, EOF} \/ full)
                  /\ Editing' = Append(Editing, c) /\ Entered' = Entered
                  /\ cons'.w = cons.w /\ pc' = pc
  <1> DEFINE c == IF key = "return" THEN NL ELSE key
             stored == [cons EXCEPT !.buf[cons.e % INPUT_BUF_SIZE] = c, !.e = Inc(@)]
             new == [cons.buf EXCEPT ![cons.e % INPUT_BUF_SIZE] = c]
             full == Len(Entered) + Len(Editing) + 1 = INPUT_BUF_SIZE
             enters == c \in {NL, EOF} \/ full
  <1>1. /\ cons.buf \in Buffers /\ cons.lock \in Readers \cup {None}
        /\ cons.r \in Index /\ cons.w \in Index /\ cons.e \in Index
      BY DEF RingKept, ConsType
  <1>2. c \in Plain \cup {NL, EOF} /\ c \in Stored
      BY DEF Store, Keys, Stored
  <1>3. new \in Buffers /\ Inc(cons.e) \in Index
      BY <1>1, <1>2, SlotIs, IncIs DEF Buffers
  <1>4. /\ stored \in ConsType /\ stored.lock = cons.lock /\ stored.buf = new
        /\ stored.r = cons.r /\ stored.w = cons.w /\ stored.e = Inc(cons.e)
      BY <1>1, <1>3 DEF RingKept, ConsType
  <1>5. /\ Dist(cons.e, cons.r) < INPUT_BUF_SIZE
        /\ Dist(cons.w, cons.r) <= Dist(cons.e, cons.r)
        /\ Dist(cons.e, cons.w) < INPUT_BUF_SIZE
      BY Contents, ConsoleAssumption DEF Store, RingKept, Ordered
  <1>6. /\ Dist(Inc(cons.e), cons.r) = Dist(cons.e, cons.r) + 1
        /\ Dist(Inc(cons.e), cons.w) = Dist(cons.e, cons.w) + 1
      BY <1>1, <1>5, Contents, IncDist, ConsoleAssumption
  <1>7. full <=> Dist(Inc(cons.e), cons.r) = INPUT_BUF_SIZE
      BY <1>6, Contents
  <1>8. /\ Seg(new, cons.r, cons.w) = Entered
        /\ Seg(new, cons.w, Inc(cons.e)) = Append(Editing, c)
        /\ Seg(new, cons.r, Inc(cons.e)) = Entered \o Append(Editing, c)
      <2>1. Seg(new, cons.r, cons.w) = Entered
          BY <1>1, <1>2, <1>5, SegSame, Contents
      <2>2. Seg(new, cons.w, Inc(cons.e)) = Append(Editing, c)
          BY <1>1, <1>2, <1>5, SegExtend, Contents
      <2>3. Dist(cons.w, cons.r) <= Dist(Inc(cons.e), cons.r)
          BY <1>5, <1>6, Contents
      <2> HIDE DEF new
      <2>4. Seg(new, cons.r, Inc(cons.e))
              = Seg(new, cons.r, cons.w) \o Seg(new, cons.w, Inc(cons.e))
          BY <1>1, <1>3, <2>3, SegJoin
      <2> QED BY <2>1, <2>2, <2>4
  <1>9. Len(Entered) + Len(Editing) < INPUT_BUF_SIZE
      BY <1>5, Contents
  <1>10. IF enters
         THEN /\ cons' = [stored EXCEPT !.w = stored.e]
              /\ pc' = [p \in Readers |->
                          IF pc[p] = "asleep" THEN "read" ELSE pc[p]]
         ELSE cons' = stored /\ pc' = pc
      BY <1>4, <1>7 DEF Store
  <1> HIDE DEF stored, new, full, c
  <1>11. CASE enters
      <2>1. /\ cons' \in ConsType /\ cons'.lock = cons.lock /\ cons'.buf = new
            /\ cons'.r = cons.r /\ cons'.w = Inc(cons.e) /\ cons'.e = Inc(cons.e)
          BY <1>4, <1>10, <1>11 DEF ConsType
      <2>2. Dist(Inc(cons.e), Inc(cons.e)) = 0
          BY <1>3, DistIs DEF Index
      <2>3. Editing' = <<>> /\ Entered' = Entered \o Append(Editing, c)
          <3>1. Editing' = Seg(new, Inc(cons.e), Inc(cons.e))
              BY <2>1 DEF Editing, Segment, At, Seg
          <3>2. Entered' = Seg(new, cons.r, Inc(cons.e))
              BY <2>1 DEF Entered, Segment, At, Seg
          <3> QED BY <1>3, <1>8, <3>1, <3>2, SegType
      <2>4. Ordered' /\ InputNotJammed'
          BY <1>5, <1>6, <2>1, Contents, ConsoleAssumption
             DEF Ordered, InputNotJammed
      <2>5. OneLine'
          BY <2>3 DEF OneLine
      <2>6. RingKept'
          BY <2>1, <2>4, <2>5 DEF RingKept, ConsType
      <2> QED BY <1>2, <1>9, <1>10, <1>11, <2>1, <2>3, <2>6 DEF c, full
  <1>12. CASE ~enters
      <2>1. /\ cons' \in ConsType /\ cons'.lock = cons.lock /\ cons'.buf = new
            /\ cons'.r = cons.r /\ cons'.w = cons.w /\ cons'.e = Inc(cons.e)
          BY <1>4, <1>10, <1>12
      <2>3. Editing' = Append(Editing, c) /\ Entered' = Entered
          <3>1. Editing' = Seg(new, cons.w, Inc(cons.e))
              BY <2>1 DEF Editing, Segment, At, Seg
          <3>2. Entered' = Seg(new, cons.r, cons.w)
              BY <2>1 DEF Entered, Segment, At, Seg
          <3> QED BY <1>8, <3>1, <3>2
      <2>4. Ordered' /\ InputNotJammed'
          BY <1>5, <1>6, <1>7, <1>12, <2>1, Contents, ConsoleAssumption
             DEF Ordered, InputNotJammed
      <2>5. OneLine'
          <3>1. Editing \in Seq(Stored) /\ \A j \in DOMAIN Editing : Editing[j] # NL
              BY Contents DEF RingKept, OneLine
          <3>2. c # NL /\ c \in Stored
              BY <1>2, <1>12
          <3>3. \A j \in DOMAIN Append(Editing, c) : Append(Editing, c)[j] # NL
              BY <3>1, <3>2, AppendProperties
          <3> QED BY <2>3, <3>3 DEF OneLine
      <2>6. RingKept'
          BY <2>1, <2>4, <2>5 DEF RingKept, ConsType
      <2> QED BY <1>2, <1>9, <1>10, <1>12, <2>1, <2>3, <2>6 DEF c, full
  <1> QED BY <1>11, <1>12

\* Taking back the last character of the line.
LEMMA BackspaceRing ==
  ASSUME RingKept, Backspace
  PROVE  /\ RingKept' /\ cons'.lock = cons.lock
         /\ cons'.r = cons.r /\ cons'.w = cons.w
         /\ Editing # <<>> /\ Entered' = Entered
         /\ Editing' = SubSeq(Editing, 1, Len(Editing) - 1)
  <1>1. /\ cons.buf \in Buffers /\ cons.lock \in Readers \cup {None}
        /\ cons.r \in Index /\ cons.w \in Index /\ cons.e \in Index
        /\ cons.w # cons.e
      BY DEF RingKept, ConsType, Backspace
  <1>2. Dist(cons.e, cons.w) # 0
      <2>1. Dist(cons.e, cons.w) = IF cons.w <= cons.e THEN cons.e - cons.w
                                   ELSE cons.e + WRAP - cons.w
          BY <1>1, DistIs
      <2> QED BY <1>1, <2>1, ConsoleAssumption DEF Index
  <1>3. 1 \in 0 .. Dist(cons.e, cons.w) /\ 1 \in 0 .. Dist(cons.e, cons.r)
      BY <1>2, Contents
  <1>4. /\ Back(cons.e, 1) \in Index
        /\ Dist(Back(cons.e, 1), cons.w) = Dist(cons.e, cons.w) - 1
        /\ Dist(Back(cons.e, 1), cons.r) = Dist(cons.e, cons.r) - 1
      BY <1>1, <1>3, BackDist
  <1>5. /\ cons' \in ConsType /\ cons'.lock = cons.lock /\ cons'.buf = cons.buf
        /\ cons'.r = cons.r /\ cons'.w = cons.w /\ cons'.e = Back(cons.e, 1)
      BY <1>1, <1>4 DEF RingKept, ConsType, Backspace, Erase
  <1>6. Entered' = Entered
      BY <1>5 DEF Entered, Segment, At
  <1>7. Editing # <<>> /\ Editing' = SubSeq(Editing, 1, Len(Editing) - 1)
      <2>1. Editing' = Seg(cons.buf, cons.w, Back(cons.e, 1))
          BY <1>5 DEF Editing, Segment, At, Seg
      <2> QED BY <1>1, <2>1, SegBack, Contents
  <1>8. Ordered' /\ InputNotJammed'
      BY <1>2, <1>4, <1>5, Contents, ConsoleAssumption
         DEF RingKept, Ordered, InputNotJammed
  <1>9. OneLine'
      <2>1. /\ Editing \in Seq(Stored) /\ Len(Editing) \in Nat /\ Len(Editing) > 0
            /\ \A j \in 1 .. Len(Editing) : Editing[j] # NL
          BY <1>2, Contents DEF RingKept, OneLine
      <2>2. \A j \in DOMAIN SubSeq(Editing, 1, Len(Editing) - 1) :
              SubSeq(Editing, 1, Len(Editing) - 1)[j] # NL
          BY <2>1
      <2> QED BY <1>7, <2>2 DEF OneLine
  <1> QED BY <1>5, <1>6, <1>7, <1>8, <1>9 DEF RingKept, ConsType

\* ^U stops at the start of the line, never at a newline: there is none in it.
LEMMA KillLineRing ==
  ASSUME RingKept, KillLine
  PROVE  /\ RingKept' /\ cons'.lock = cons.lock
         /\ cons'.r = cons.r /\ cons'.w = cons.w
         /\ Editing' = <<>> /\ Entered' = Entered
  <1>0. \A j \in 1 .. Dist(cons.e, cons.w) :
          Editing[j] = cons.buf[((cons.w + j - 1) % WRAP) % INPUT_BUF_SIZE]
      BY SegmentIs DEF Editing, Seg
  <1> DEFINE cnt == Dist(cons.e, cons.w)
             stop(k) == \/ Back(cons.e, k) = cons.w
                        \/ At(Back(cons.e, k + 1)) = NL
  <1>1. /\ cons.buf \in Buffers /\ cons.lock \in Readers \cup {None}
        /\ cons.r \in Index /\ cons.w \in Index /\ cons.e \in Index
      BY DEF RingKept, ConsType
  <1>2. cnt \in Nat /\ cnt <= INPUT_BUF_SIZE
      BY Contents, ConsoleAssumption DEF RingKept, Ordered
  <1>3. \A a, b \in Index : Dist(a, b) = 0 <=> a = b
      <2>1. ASSUME NEW a \in Index, NEW b \in Index
            PROVE  Dist(a, b) = 0 <=> a = b
          <3>1. Dist(a, b) = IF b <= a THEN a - b ELSE a + WRAP - b
              BY DistIs
          <3> QED BY <3>1, ConsoleAssumption DEF Index
      <2> QED BY <2>1
  <1>4. ASSUME NEW k \in 0 .. cnt
        PROVE  /\ Back(cons.e, k) \in Index
               /\ Dist(Back(cons.e, k), cons.w) = cnt - k
      BY <1>1, <1>2, BackDist
  <1>5. ASSUME NEW k \in 0 .. cnt - 1 PROVE ~stop(k)
      <2>1. k \in 0 .. cnt /\ k + 1 \in 0 .. cnt /\ cnt - k \in 1 .. cnt /\ cnt - k # 0
          BY <1>2
      <2>2. Back(cons.e, k) # cons.w
          BY <1>1, <1>3, <1>4, <2>1
      <2>3. /\ Back(cons.e, k + 1) \in Index
            /\ Dist(Back(cons.e, k + 1), cons.w) = cnt - (k + 1)
          BY <1>4, <2>1
      <2>4. Editing[cnt - k] # NL
          BY <2>1, Contents DEF RingKept, OneLine
      <2>5. Editing[cnt - k]
              = cons.buf[((cons.w + (cnt - k) - 1) % WRAP) % INPUT_BUF_SIZE]
          <3>1. \A j \in 1 .. cnt :
                  Editing[j] = cons.buf[((cons.w + j - 1) % WRAP) % INPUT_BUF_SIZE]
              BY <1>0
          <3> HIDE DEF cnt
          <3> QED BY <2>1, <3>1
      <2>6. (cons.w + (cnt - k) - 1) % WRAP = Back(cons.e, k + 1)
          <3> DEFINE i == Back(cons.e, k + 1)
                     j == cnt - (k + 1)
          <3>1. /\ j = IF cons.w <= i THEN i - cons.w ELSE i + WRAP - cons.w
                /\ j \in Index /\ i \in Index
              BY <1>1, <2>3, DistIs
          <3>2. /\ cons.w + (cnt - k) - 1 = cons.w + j
                /\ cons.w \in Int /\ j \in Int
              BY <1>1, <1>2, <2>1 DEF Index
          <3> HIDE DEF i, j
          <3>3. (cons.w + j) % WRAP = IF cons.w + j < WRAP THEN cons.w + j
                                      ELSE cons.w + j - WRAP
              BY <1>1, <3>1, PlusIs
          <3>4. (cons.w + j) % WRAP = i
              BY <1>1, <3>1, <3>3, ConsoleAssumption DEF Index
          <3> QED BY <3>2, <3>4 DEF i
      <2> QED BY <2>2, <2>4, <2>5, <2>6 DEF At
  <1>6. stop(cnt)
      <2>1. cnt \in 0 .. cnt /\ cnt - cnt = 0
          BY <1>2
      <2> QED BY <1>1, <1>3, <1>4, <2>1
  <1>7. Erase(cnt)
      <2>1. PICK k \in 0 .. INPUT_BUF_SIZE :
              stop(k) /\ (\A j \in 0 .. k - 1 : ~stop(j)) /\ Erase(k)
          BY DEF KillLine
      <2> HIDE DEF stop
      <2>2. k = cnt
          <3>1. CASE k < cnt
              BY <1>2, <1>5, <2>1, <3>1
          <3>2. CASE cnt < k
              BY <1>2, <1>6, <2>1, <3>2
          <3> QED BY <1>2, <2>1, <3>1, <3>2, ConsoleAssumption
      <2> QED BY <2>1, <2>2
  <1>8. Back(cons.e, cnt) = cons.w
      <2>1. cnt \in 0 .. cnt /\ cnt - cnt = 0
          BY <1>2
      <2> QED BY <1>1, <1>3, <1>4, <2>1
  <1>9. /\ cons' \in ConsType /\ cons'.lock = cons.lock /\ cons'.buf = cons.buf
        /\ cons'.r = cons.r /\ cons'.w = cons.w /\ cons'.e = cons.w
      BY <1>1, <1>7, <1>8 DEF RingKept, ConsType, Erase
  <1>10. Entered' = Entered
      BY <1>9 DEF Entered, Segment, At
  <1>11. Editing' = <<>>
      <2>1. Editing' = Seg(cons.buf, cons.w, cons.w)
          BY <1>9 DEF Editing, Segment, At, Seg
      <2> QED BY <1>1, <2>1, SegType
  <1>12. Ordered' /\ InputNotJammed'
      BY <1>9, Contents, ConsoleAssumption
         DEF RingKept, Ordered, InputNotJammed
  <1>13. OneLine'
      BY <1>11 DEF OneLine
  <1> QED BY <1>9, <1>10, <1>11, <1>12, <1>13 DEF RingKept, ConsType

\* A reader takes the next entered character.
LEMMA TakeRing ==
  ASSUME RingKept, cons.r # cons.w, NEW holder \in Readers \cup {None},
         cons' = [cons EXCEPT !.lock = holder, !.r = Inc(cons.r)]
  PROVE  /\ RingKept' /\ cons'.lock = holder /\ cons'.w = cons.w
         /\ Entered # <<>> /\ Head(Entered) = At(cons.r)
         /\ Entered' = Tail(Entered) /\ Editing' = Editing
  <1>1. /\ cons.buf \in Buffers /\ cons.lock \in Readers \cup {None}
        /\ cons.r \in Index /\ cons.w \in Index /\ cons.e \in Index
      BY DEF RingKept, ConsType
  <1>2. Inc(cons.r) \in Index
      BY <1>1, IncIs
  <1>3. /\ cons' \in ConsType /\ cons'.lock = holder /\ cons'.buf = cons.buf
        /\ cons'.r = Inc(cons.r) /\ cons'.w = cons.w /\ cons'.e = cons.e
      BY <1>1, <1>2 DEF RingKept, ConsType
  <1>4. /\ Entered # <<>> /\ Head(Entered) = At(cons.r)
        /\ Tail(Entered) = Seg(cons.buf, Inc(cons.r), cons.w)
        /\ Dist(cons.w, Inc(cons.r)) = Dist(cons.w, cons.r) - 1
      BY <1>1, SegTake, Contents DEF At
  <1>5. Entered' = Tail(Entered) /\ Editing' = Editing
      <2>1. Entered' = Seg(cons.buf, Inc(cons.r), cons.w)
          BY <1>3 DEF Entered, Segment, At, Seg
      <2>2. Editing' = Editing
          BY <1>3 DEF Editing, Segment, At
      <2> QED BY <1>4, <2>1, <2>2
  <1>6. Dist(cons.e, Inc(cons.r)) = Dist(cons.e, cons.r) - 1
      <2>1. Dist(cons.w, cons.r) # 0
          BY <1>4, <1>1, <1>2, DistIs
      <2>2. Dist(cons.e, cons.r) # 0
          BY <2>1, Contents DEF RingKept, Ordered
      <2>3. cons.r # cons.e
          BY <1>1, <2>2, DistIs DEF Index
      <2> QED BY <1>1, <2>3, SegTake
  <1>7. Ordered' /\ InputNotJammed'
      BY <1>3, <1>4, <1>6, Contents, ConsoleAssumption
         DEF RingKept, Ordered, InputNotJammed
  <1>8. OneLine'
      BY <1>5 DEF RingKept, OneLine
  <1> QED BY <1>3, <1>4, <1>5, <1>7, <1>8 DEF RingKept, ConsType

-----------------------------------------------------------------------------
\* Every step keeps the invariant, and is a step of LineInput.

LineStep == Lines!Next \/ UNCHANGED <<Entered, Editing, line>>
Kept == IInv' /\ LineStep

\* A key, with the lock free.
LEMMA ConsoleIntrKept ==
  ASSUME IInv, NEW key \in Keys, ConsoleIntr(key)
  PROVE  Kept
  <1>0. RingKept /\ Typed /\ LockHeld /\ SleepsOnNone /\ Wanting
      BY DEF IInv
  <1>1. left' = left /\ killed' = killed /\ line' = line /\ cons.lock = None
      BY DEF ConsoleIntr
  <1>2. ASSUME pc' = pc, RingKept', cons'.lock = cons.lock,
               cons'.r = cons.r, cons'.w = cons.w
        PROVE  IInv'
      <2>1. LockHeld' /\ SleepsOnNone' /\ Wanting'
          BY <1>0, <1>1, <1>2 DEF LockHeld, SleepsOnNone, Wanting
      <2>2. Typed'
          BY <1>0, <1>1, <1>2 DEF Typed
      <2> QED BY <1>2, <2>1, <2>2 DEF IInv
  <1>3. CASE key = "^U" /\ KillLine
      <2>1. IInv'
          BY <1>0, <1>2, <1>3, KillLineRing DEF KillLine
      <2>2. Lines!KillLine
          BY <1>0, <1>1, <1>3, KillLineRing DEF Lines!KillLine, Entered, Editing
      <2> QED BY <2>1, <2>2 DEF Kept, LineStep, Lines!Next
  <1>4. CASE key \in {"^H", "delete"} /\ Backspace
      <2>1. IInv'
          BY <1>0, <1>2, <1>4, BackspaceRing DEF Backspace
      <2>2. Lines!Erase
          BY <1>0, <1>1, <1>4, BackspaceRing
             DEF Lines!Erase, Lines!Front, Entered, Editing
      <2> QED BY <2>1, <2>2 DEF Kept, LineStep, Lines!Next
  <1>5. CASE key \notin {"^U", "^H", "delete", "^P"} /\ Store(key)
      <2> DEFINE c == IF key = "return" THEN NL ELSE key
                 full == Len(Entered) + Len(Editing) + 1 = INPUT_BUF_SIZE
      <2>1. /\ c \in Plain \cup {NL, EOF}
            /\ Len(Entered) + Len(Editing) < INPUT_BUF_SIZE
            /\ RingKept' /\ cons'.lock = cons.lock /\ cons'.r = cons.r
            /\ \/ /\ c \in {NL, EOF} \/ full
                  /\ Entered' = Entered \o Append(Editing, c)
                  /\ Editing' = <<>>
                  /\ pc' = [p \in Readers |->
                              IF pc[p] = "asleep" THEN "read" ELSE pc[p]]
               \/ /\ ~(c \in {NL, EOF} \/ full)
                  /\ Editing' = Append(Editing, c) /\ Entered' = Entered
                  /\ cons'.w = cons.w /\ pc' = pc
          BY <1>0, <1>5, StoreRing
      <2> HIDE DEF c
      <2>2. Lines!Type(c)
          BY <1>1, <2>1 DEF Lines!Type, Entered, Editing
      <2>3. IInv'
          <3>1. CASE pc' = pc /\ cons'.w = cons.w
              BY <1>2, <2>1, <3>1
          <3>2. CASE pc' = [p \in Readers |->
                              IF pc[p] = "asleep" THEN "read" ELSE pc[p]]
              <4>1. ASSUME NEW p \in Readers
                    PROVE  /\ pc[p] \in Points
                           /\ pc[p] # "read_more" /\ pc[p] # "read_sleep"
                           /\ pc'[p] = IF pc[p] = "asleep" THEN "read" ELSE pc[p]
                  <5>1. cons.lock # p
                      BY <1>1, ConsoleAssumption
                  <5> QED BY <1>0, <3>2, <5>1 DEF LockHeld, Typed
              <4>2. Typed'
                  <5>1. pc' \in [Readers -> Points]
                      BY <3>2, <4>1 DEF Points
                  <5> QED BY <1>0, <1>1, <5>1 DEF Typed
              <4>3. LockHeld' /\ SleepsOnNone' /\ Wanting'
                  <5>1. LockHeld'
                      BY <1>0, <2>1, <4>1 DEF LockHeld
                  <5>2. SleepsOnNone'
                      BY <4>1 DEF SleepsOnNone
                  <5>3. Wanting'
                      BY <1>0, <1>1, <4>1 DEF Wanting
                  <5> QED BY <5>1, <5>2, <5>3
              <4> QED BY <2>1, <4>2, <4>3 DEF IInv
          <3> QED BY <2>1, <3>1, <3>2
      <2> QED BY <2>1, <2>2, <2>3 DEF Kept, LineStep, Lines!Next
  <1> QED BY <1>3, <1>4, <1>5 DEF ConsoleIntr

\* The reader that has the lock, or may take it: nobody else is between two
\* characters or about to sleep.
LEMMA ReaderIn ==
  ASSUME IInv, NEW p \in Readers, InRead(p)
  PROVE  /\ \A q \in Readers \ {p} : pc[q] \notin {"read_more", "read_sleep"}
         /\ pc[p] \in {"read", "read_more"}
  <1>1. cons.lock \in {p, None}
      BY DEF IInv, InRead, LockHeld
  <1>2. \A q \in Readers \ {p} : cons.lock # q
      BY <1>1, ConsoleAssumption
  <1> QED BY <1>2 DEF IInv, LockHeld, InRead

\* The reader's call ends, its lock with it, and the ring is as it was left.
LEMMA ReturnKept ==
  ASSUME IInv, NEW p \in Readers, NEW r, ReadReturn(p, r), UNCHANGED killed,
         pc[p] \in {"read", "read_more"},
         \A q \in Readers \ {p} : pc[q] \notin {"read_more", "read_sleep"},
         RingKept', cons'.w = cons.w, cons'.lock = None,
         cons.r = cons.w => cons'.r = cons.r
  PROVE  IInv' /\ line' = [line EXCEPT ![p] = <<>>]
  <1>0. RingKept /\ Typed /\ LockHeld /\ SleepsOnNone /\ Wanting
      BY DEF IInv
  <1>1. /\ pc' = [pc EXCEPT ![p] = "idle"] /\ left' = [left EXCEPT ![p] = 0]
        /\ line' = [line EXCEPT ![p] = <<>>] /\ killed' = killed
      BY DEF ReadReturn, Goto
  <1>2. Typed'
      <2>1. killed' \in [Readers -> BOOLEAN]
          BY <1>0, <1>1 DEF Typed
      <2>2. pc' \in [Readers -> Points] /\ left' \in [Readers -> Nat]
          BY <1>0, <1>1 DEF Typed, Points
      <2>3. line' \in [Readers -> Seq(Stored)]
          BY <1>0, <1>1 DEF Typed
      <2> QED BY <2>1, <2>2, <2>3 DEF Typed
  <1>3. LockHeld'
      BY <1>0, <1>1, ConsoleAssumption DEF LockHeld, Typed
  <1>4. SleepsOnNone'
      BY <1>0, <1>1 DEF SleepsOnNone, Typed
  <1>5. Wanting'
      BY <1>0, <1>1 DEF Wanting, Typed
  <1> QED BY <1>1, <1>2, <1>3, <1>4, <1>5 DEF IInv

\* The mapped read() ends.
LEMMA ReturnStep ==
  ASSUME NEW p \in Readers, line' = [line EXCEPT ![p] = <<>>],
         Entered' = Entered, Editing' = Editing
  PROVE  LineStep
  BY DEF LineStep, Lines!Next, Lines!Return, Entered, Editing

\* read() begins.
LEMMA StartReadKept ==
  ASSUME IInv, NEW p \in Readers, NEW cnt \in Sizes, StartRead(p, cnt)
  PROVE  Kept
  <1>0. RingKept /\ Typed /\ LockHeld /\ SleepsOnNone /\ Wanting
      BY DEF IInv
  <1>1. /\ pc' = [pc EXCEPT ![p] = "read"] /\ left' = [left EXCEPT ![p] = cnt]
        /\ line' = line /\ killed' = killed /\ cons' = cons
        /\ pc[p] = "idle" /\ cnt \in Nat
      BY ConsoleAssumption DEF StartRead, Goto
  <1>2. Typed'
      BY <1>0, <1>1 DEF Typed, Points
  <1>3. LockHeld' /\ SleepsOnNone' /\ Wanting'
      BY <1>0, <1>1 DEF LockHeld, SleepsOnNone, Wanting, Typed
  <1>4. RingKept' /\ Entered' = Entered /\ Editing' = Editing
      BY <1>0, <1>1, RingSame DEF RingKept
  <1> QED BY <1>1, <1>2, <1>3, <1>4 DEF Kept, LineStep, IInv

\* consoleread() finds nothing entered.
LEMMA ReadWaitKept ==
  ASSUME IInv, NEW p \in Readers, ReadWait(p)
  PROVE  Kept
  <1>0. RingKept /\ Typed /\ LockHeld /\ SleepsOnNone /\ Wanting
      BY DEF IInv
  <1>1. /\ \A q \in Readers \ {p} : pc[q] \notin {"read_more", "read_sleep"}
        /\ pc[p] \in {"read", "read_more"}
      BY ReaderIn DEF ReadWait
  <1>2. CASE killed[p]
      <2>1. ReadReturn(p, cons.r) /\ UNCHANGED killed
          BY <1>2 DEF ReadWait
      <2>2. /\ cons' \in ConsType /\ cons'.buf = cons.buf /\ cons'.r = cons.r
            /\ cons'.w = cons.w /\ cons'.e = cons.e /\ cons'.lock = None
          BY <1>0, <2>1 DEF ReadReturn, RingKept, ConsType
      <2>3. RingKept' /\ Entered' = Entered /\ Editing' = Editing
          BY <1>0, <2>2, RingSame
      <2>4. IInv' /\ line' = [line EXCEPT ![p] = <<>>]
          BY <1>1, <2>1, <2>2, <2>3, ReturnKept
      <2> QED BY <2>3, <2>4, ReturnStep DEF Kept
  <1>3. CASE ~killed[p]
      <2>1. /\ cons' = [cons EXCEPT !.lock = p] /\ cons.r = cons.w
            /\ pc' = [pc EXCEPT ![p] = "read_sleep"]
            /\ left' = left /\ line' = line /\ killed' = killed
          BY <1>3 DEF ReadWait, Goto
      <2>2. /\ cons' \in ConsType /\ cons'.buf = cons.buf /\ cons'.r = cons.r
            /\ cons'.w = cons.w /\ cons'.e = cons.e /\ cons'.lock = p
          BY <1>0, <2>1 DEF RingKept, ConsType
      <2>3. RingKept' /\ Entered' = Entered /\ Editing' = Editing
          BY <1>0, <2>2, RingSame
      <2>4. Typed'
          BY <1>0, <2>1 DEF Typed, Points
      <2>5. LockHeld'
          BY <1>0, <1>1, <2>1, <2>2 DEF LockHeld, Typed
      <2>6. SleepsOnNone' /\ Wanting'
          BY <1>0, <2>1, <2>2 DEF SleepsOnNone, Wanting, Typed
      <2> QED BY <2>1, <2>3, <2>4, <2>5, <2>6 DEF Kept, LineStep, IInv
  <1> QED BY <1>2, <1>3

\* sleep() releases the lock.
LEMMA ReadSleepKept ==
  ASSUME IInv, NEW p \in Readers, ReadSleep(p)
  PROVE  Kept
  <1>0. RingKept /\ Typed /\ LockHeld /\ SleepsOnNone /\ Wanting
      BY DEF IInv
  <1>1. /\ cons' = [cons EXCEPT !.lock = None] /\ pc[p] = "read_sleep"
        /\ pc' = [pc EXCEPT ![p] = "asleep"]
        /\ left' = left /\ line' = line /\ killed' = killed
      BY DEF ReadSleep, Goto
  <1>2. /\ cons' \in ConsType /\ cons'.buf = cons.buf /\ cons'.r = cons.r
        /\ cons'.w = cons.w /\ cons'.e = cons.e /\ cons'.lock = None
      BY <1>0, <1>1 DEF RingKept, ConsType
  <1>3. RingKept' /\ Entered' = Entered /\ Editing' = Editing
      BY <1>0, <1>2, RingSame
  <1>4. Typed'
      BY <1>0, <1>1 DEF Typed, Points
  <1>5. LockHeld'
      <2>1. cons.lock = p
          BY <1>0, <1>1 DEF LockHeld
      <2> QED BY <1>0, <1>1, <1>2, <2>1, ConsoleAssumption DEF LockHeld, Typed
  <1>6. SleepsOnNone' /\ Wanting'
      BY <1>0, <1>1, <1>2 DEF SleepsOnNone, Wanting, Typed
  <1> QED BY <1>1, <1>3, <1>4, <1>5, <1>6 DEF Kept, LineStep, IInv

\* consoleread() looks at the next entered character.
LEMMA ReadCharKept ==
  ASSUME IInv, NEW p \in Readers, ReadChar(p)
  PROVE  Kept
  <1> DEFINE c == At(cons.r)
  <1>0. RingKept /\ Typed /\ LockHeld /\ SleepsOnNone /\ Wanting
      BY DEF IInv
  <1>1. /\ \A q \in Readers \ {p} : pc[q] \notin {"read_more", "read_sleep"}
        /\ pc[p] \in {"read", "read_more"}
      BY ReaderIn DEF ReadChar
  <1>2. /\ cons.r # cons.w /\ left[p] > 0 /\ killed' = killed
        /\ cons.lock \in Readers \cup {None}
      BY <1>0 DEF ReadChar, RingKept, ConsType
  <1>3. CASE c = EOF /\ line[p] # <<>>
      <2>1. ReadReturn(p, cons.r) /\ UNCHANGED killed
          BY <1>3 DEF ReadChar
      <2>2. /\ cons' \in ConsType /\ cons'.buf = cons.buf /\ cons'.r = cons.r
            /\ cons'.w = cons.w /\ cons'.e = cons.e /\ cons'.lock = None
          BY <1>0, <2>1 DEF ReadReturn, RingKept, ConsType
      <2>3. RingKept' /\ Entered' = Entered /\ Editing' = Editing
          BY <1>0, <2>2, RingSame
      <2>4. IInv' /\ line' = [line EXCEPT ![p] = <<>>]
          BY <1>1, <2>1, <2>2, <2>3, ReturnKept
      <2> QED BY <2>3, <2>4, ReturnStep DEF Kept
  <1>4. CASE c = EOF /\ line[p] = <<>>
      <2>1. ReadReturn(p, Inc(cons.r)) /\ UNCHANGED killed
          BY <1>4 DEF ReadChar
      <2>2. cons' = [cons EXCEPT !.lock = None, !.r = Inc(cons.r)]
          BY <2>1 DEF ReadReturn
      <2>3. /\ RingKept' /\ cons'.lock = None /\ cons'.w = cons.w
            /\ Entered # <<>> /\ Head(Entered) = c
            /\ Entered' = Tail(Entered) /\ Editing' = Editing
          BY <1>0, <1>2, <2>2, TakeRing
      <2>4. IInv' /\ line' = [line EXCEPT ![p] = <<>>]
          BY <1>1, <1>2, <2>1, <2>3, ReturnKept
      <2>5. line' = line
          BY <1>0, <1>4, <2>4 DEF Typed
      <2>6. Lines!TakeEof(p)
          BY <1>4, <2>3, <2>5 DEF Lines!TakeEof, Entered, Editing
      <2> QED BY <2>4, <2>6 DEF Kept, LineStep, Lines!Next
  <1>5. CASE c # EOF
      <2>1. /\ cons' = [cons EXCEPT !.lock = p, !.r = Inc(cons.r)]
            /\ line' = [line EXCEPT ![p] = Append(line[p], c)]
            /\ left' = [left EXCEPT ![p] = IF c = NL THEN 0 ELSE left[p] - 1]
            /\ pc' = [pc EXCEPT ![p] = "read_more"]
          BY <1>0, <1>5 DEF ReadChar, Goto, Typed
      <2>2. /\ RingKept' /\ cons'.lock = p /\ cons'.w = cons.w
            /\ Entered # <<>> /\ Head(Entered) = c
            /\ Entered' = Tail(Entered) /\ Editing' = Editing
          BY <1>0, <1>2, <2>1, TakeRing
      <2>3. /\ line[p] \in Seq(Stored) /\ c \in Stored /\ left[p] \in Nat
          <3>1. c = cons.buf[cons.r % INPUT_BUF_SIZE]
              BY DEF At
          <3>2. cons.r \in Index /\ cons.buf \in Buffers
              BY <1>0 DEF RingKept, ConsType
          <3>3. c \in Stored
              BY <3>1, <3>2, SlotIs DEF Buffers
          <3> QED BY <1>0, <3>3 DEF Typed
      <2> HIDE DEF c
      <2>4. Append(line[p], c) \in Seq(Stored)
          BY <2>3
      <2>5. Typed'
          <3>1. killed' \in [Readers -> BOOLEAN]
              BY <1>0, <1>2 DEF Typed
          <3>2. pc' \in [Readers -> Points]
              BY <1>0, <2>1 DEF Typed, Points
          <3>3. left' \in [Readers -> Nat]
              BY <1>0, <1>2, <2>1, <2>3 DEF Typed
          <3>4. line' \in [Readers -> Seq(Stored)]
              BY <1>0, <2>1, <2>4 DEF Typed
          <3> QED BY <3>1, <3>2, <3>3, <3>4 DEF Typed
      <2>6. LockHeld'
          BY <1>0, <1>1, <2>1, <2>2 DEF LockHeld, Typed
      <2>7. SleepsOnNone'
          BY <1>0, <1>2, <2>1 DEF SleepsOnNone, Typed
      <2>8. Wanting'
          <3>1. /\ Len(Append(line[p], c)) = Len(line[p]) + 1
                /\ Append(line[p], c)[Len(line[p]) + 1] = c
              BY <2>3, AppendProperties
          <3>2. ASSUME NEW q \in Readers
                PROVE  /\ pc'[q] = "idle" => line'[q] = <<>>
                       /\ left'[q] > 0 => \/ line'[q] = <<>>
                                          \/ line'[q][Len(line'[q])] # NL
              <4>1. CASE q = p
                  <5>1. /\ pc'[q] = "read_more" /\ line'[q] = Append(line[p], c)
                        /\ left'[q] = IF c = NL THEN 0 ELSE left[p] - 1
                      BY <1>0, <2>1, <4>1 DEF Typed
                  <5> QED BY <3>1, <5>1
              <4>2. CASE q # p
                  BY <1>0, <2>1, <4>2 DEF Typed, Wanting
              <4> QED BY <4>1, <4>2
          <3> QED BY <3>2 DEF Wanting
      <2>9. Lines!Take(p)
          <3>1. line[p] = <<>> \/ line[p][Len(line[p])] # NL
              BY <1>0, <1>2 DEF Wanting
          <3> QED BY <1>5, <2>1, <2>2, <3>1
                  DEF Lines!Take, Lines!Last, Entered, Editing
      <2> QED BY <2>2, <2>5, <2>6, <2>7, <2>8, <2>9
              DEF Kept, LineStep, Lines!Next, IInv
  <1> QED BY <1>3, <1>4, <1>5

\* either_copyout() fails after the character was taken.
LEMMA ReadFaultKept ==
  ASSUME IInv, NEW p \in Readers, ReadFault(p)
  PROVE  Kept
  <1>0. RingKept
      BY DEF IInv
  <1>1. /\ \A q \in Readers \ {p} : pc[q] \notin {"read_more", "read_sleep"}
        /\ pc[p] \in {"read", "read_more"}
      BY ReaderIn DEF ReadFault
  <1>2. /\ ReadReturn(p, Inc(cons.r)) /\ UNCHANGED killed
        /\ cons.r # cons.w /\ At(cons.r) # EOF
      BY DEF ReadFault
  <1>3. cons' = [cons EXCEPT !.lock = None, !.r = Inc(cons.r)]
      BY <1>2 DEF ReadReturn
  <1>4. /\ RingKept' /\ cons'.lock = None /\ cons'.w = cons.w
        /\ Entered # <<>> /\ Head(Entered) = At(cons.r)
        /\ Entered' = Tail(Entered) /\ Editing' = Editing
      BY <1>0, <1>2, <1>3, TakeRing
  <1>5. IInv' /\ line' = [line EXCEPT ![p] = <<>>]
      BY <1>1, <1>2, <1>4, ReturnKept
  <1>6. Lines!Drop(p)
      BY <1>2, <1>4, <1>5 DEF Lines!Drop, Entered, Editing
  <1> QED BY <1>5, <1>6 DEF Kept, LineStep, Lines!Next

\* Everything asked for has been copied.
LEMMA ReadDoneKept ==
  ASSUME IInv, NEW p \in Readers, ReadDone(p)
  PROVE  Kept
  <1>0. RingKept
      BY DEF IInv
  <1>1. /\ \A q \in Readers \ {p} : pc[q] \notin {"read_more", "read_sleep"}
        /\ pc[p] \in {"read", "read_more"}
      BY ReaderIn DEF ReadDone, InRead
  <1>2. ReadReturn(p, cons.r) /\ UNCHANGED killed
      BY DEF ReadDone
  <1>3. /\ cons' \in ConsType /\ cons'.buf = cons.buf /\ cons'.r = cons.r
        /\ cons'.w = cons.w /\ cons'.e = cons.e /\ cons'.lock = None
      BY <1>0, <1>2 DEF ReadReturn, RingKept, ConsType
  <1>4. RingKept' /\ Entered' = Entered /\ Editing' = Editing
      BY <1>0, <1>3, RingSame
  <1>5. IInv' /\ line' = [line EXCEPT ![p] = <<>>]
      BY <1>1, <1>2, <1>3, <1>4, ReturnKept
  <1> QED BY <1>4, <1>5, ReturnStep DEF Kept

\* kill() and the exit it leads to.
LEMMA KillKept ==
  ASSUME IInv, NEW p \in Readers, Kill(p) \/ Exit(p)
  PROVE  Kept
  <1>0. RingKept /\ Typed /\ LockHeld /\ SleepsOnNone /\ Wanting
      BY DEF IInv
  <1>1. /\ cons' = cons /\ left' = left /\ line' = line
        /\ killed' \in [Readers -> BOOLEAN]
      <2>1. CASE Kill(p)
          BY <1>0, <2>1 DEF Kill, Typed
      <2>2. CASE Exit(p)
          BY <1>0, <2>2 DEF Exit, Typed
      <2> QED BY <2>1, <2>2
  <1>2. \A q \in Readers : \/ pc'[q] = pc[q]
                           \/ pc[q] = "asleep" /\ pc'[q] = "read"
      BY <1>0 DEF Kill, Exit, Typed
  <1>3. Typed'
      <2>1. pc' \in [Readers -> Points]
          BY <1>0 DEF Kill, Exit, Typed, Points
      <2> QED BY <1>0, <1>1, <2>1 DEF Typed
  <1>4. LockHeld' /\ SleepsOnNone' /\ Wanting'
      BY <1>0, <1>1, <1>2 DEF LockHeld, SleepsOnNone, Wanting
  <1>5. RingKept' /\ Entered' = Entered /\ Editing' = Editing
      BY <1>0, <1>1, RingSame DEF RingKept
  <1> QED BY <1>1, <1>3, <1>4, <1>5 DEF Kept, LineStep, IInv

\* Every step of the console.
LEMMA StepKept == IInv /\ [Next]_vars => Kept
  <1> SUFFICES ASSUME IInv, [Next]_vars PROVE Kept
      OBVIOUS
  <1>1. CASE UNCHANGED vars
      <2>1. RingKept' /\ Entered' = Entered /\ Editing' = Editing
          BY <1>1, RingSame DEF vars, IInv, RingKept
      <2>2. Typed' /\ LockHeld' /\ SleepsOnNone' /\ Wanting'
          BY <1>1 DEF vars, IInv, Typed, LockHeld, SleepsOnNone, Wanting
      <2> QED BY <1>1, <2>1, <2>2 DEF vars, Kept, LineStep, IInv
  <1>2. ASSUME NEW key \in Keys, ConsoleIntr(key) PROVE Kept
      BY <1>2, ConsoleIntrKept
  <1>3. ASSUME NEW p \in Readers, NEW cnt \in Sizes, StartRead(p, cnt) PROVE Kept
      BY <1>3, StartReadKept
  <1>4. ASSUME NEW p \in Readers,
               \/ ReadWait(p) \/ ReadSleep(p) \/ ReadChar(p) \/ ReadFault(p)
               \/ ReadDone(p) \/ Kill(p) \/ Exit(p)
        PROVE  Kept
      BY <1>4, ReadWaitKept, ReadSleepKept, ReadCharKept, ReadFaultKept,
         ReadDoneKept, KillKept
  <1> QED BY <1>1, <1>2, <1>3, <1>4 DEF Next

LEMMA Invariance == Spec => []IInv
  <1>1. IInv /\ [Next]_vars => IInv'
      BY StepKept DEF Kept
  <1> QED BY <1>1, InitIInv, PTL DEF Spec
-----------------------------------------------------------------------------
\* However many keys come and however often the uints wrap, cons.r, cons.w and
\* cons.e keep their order, span at most the buffer, and a full buffer has been
\* entered, so that consoleread() can empty it.
THEOREM InputBufferSound == Spec => []BufferSound
  <1>1. IInv => BufferSound
      <2> SUFFICES ASSUME IInv PROVE BufferSound
          OBVIOUS
      <2>1. killed \in [Readers -> BOOLEAN]
          BY DEF IInv, Typed
      <2>2. /\ {cons.r, cons.w, cons.e} \subseteq 0 .. WRAP - 1
            /\ cons.lock \in Readers \cup {None}
          BY DEF IInv, RingKept, ConsType, Index
      <2>3. InputNotJammed /\ Ordered
          BY DEF IInv, RingKept
      <2> QED BY <2>1, <2>2, <2>3 DEF BufferSound, TypeOK, Ordered
  <1> QED BY <1>1, Invariance, PTL

\* No reader of consoleread() sleeps over input that consoleintr() has entered,
\* whichever readers were killed, woke up or took the input in between.
THEOREM ReaderWoken == Spec => []NoLostWakeup
  <1>1. IInv => NoLostWakeup
      BY DEF IInv, SleepsOnNone, NoLostWakeup
  <1> QED BY <1>1, Invariance, PTL

\* The ring that consoleintr() and consoleread() share is the line-at-a-time
\* input of LineInput: entered lines are never edited, and readers get the
\* characters in the order they were typed.
THEOREM InputByLines == Spec => LineDiscipline
  <1>1. Init => Lines!Init
      <2> SUFFICES ASSUME Init PROVE Lines!Init
          OBVIOUS
      <2>1. Dist(0, 0) = 0
          BY ConsoleAssumption DEF Dist
      <2> QED BY <2>1 DEF Init, Lines!Init, Segment
  <1>2. IInv /\ [Next]_vars
          => [Lines!Next]_<<Segment(cons.r, cons.w), Segment(cons.w, cons.e), line>>
      BY StepKept DEF Kept, LineStep, Entered, Editing
  <1> QED BY <1>1, <1>2, Invariance, PTL DEF Spec, LineDiscipline, Lines!Spec

-----------------------------------------------------------------------------
\* The clock.

Uint == 0 .. M - 1

ClockTyped ==
  /\ ticks \in Uint
  /\ tickslock \in Sleepers \cup {Nobody, "clock"}
  /\ spc \in [Sleepers -> {"user", "test", "doze", "asleep", "woken"}]
  /\ ticks0 \in [Sleepers -> Uint]
  /\ n \in [Sleepers -> Delays \cup {0}]
  /\ struck \in [Sleepers -> BOOLEAN]
  /\ passed \in [Sleepers -> 0 .. M]
  /\ ready \in [Sleepers -> Nat]
  /\ late \in [Sleepers -> Nat]

\* tickslock is held exactly by the process that tests the clock or is about
\* to sleep, or by clockintr().
TicksLockHeld == \A s \in Sleepers : spc[s] \in {"test", "doze"} <=> tickslock = s

\* The unsigned difference is the time that has passed, up to a whole turn of
\* the clock.
Elapsed ==
  \A s \in Sleepers :
    IF InSleep(s)
    THEN passed[s] = M \/ passed[s] = (ticks - ticks0[s]) % M
    ELSE passed[s] = 0 /\ late[s] = 0

\* A call that is late had a reason to return, and still has it; time beyond
\* the one asked for is counted as late.
LateForAReason ==
  \A s \in Sleepers :
    /\ late[s] > 0 => Due(s)
    /\ n[s] >= 0 => passed[s] <= n[s] + late[s]

\* How late a call can be, by where it is: nobody dozes off late, a sleeper is
\* late by the tick that wakes it, then it waits for a CPU.
LateBound ==
  \A s \in Sleepers :
    /\ spc[s] = "asleep" => late[s] <= IF tickslock = "clock" THEN 1 ELSE 0
    /\ spc[s] = "woken" => late[s] <= 1 + ready[s]
    /\ spc[s] = "doze" => late[s] = 0
    /\ ready[s] <= Latency
    /\ late[s] <= 1 + Latency

\* The inductive invariant.
ClockIInv == ClockTyped /\ TicksLockHeld /\ Elapsed /\ LateForAReason /\ LateBound
-----------------------------------------------------------------------------
\* Unsigned arithmetic.

\* a - b on uints.
LEMMA MinusIs ==
  ASSUME NEW a \in Uint, NEW b \in Uint
  PROVE  /\ (a - b) % M = IF b <= a THEN a - b ELSE a - b + M
         /\ (a - b) % M \in Uint
  BY ClockAssumption DEF Uint

\* The tick of the clock.
LEMMA TickIs ==
  ASSUME NEW a \in Uint
  PROVE  /\ (a + 1) % M = IF a = M - 1 THEN 0 ELSE a + 1
         /\ (a + 1) % M \in Uint
  BY ClockAssumption DEF Uint

\* One tick adds one to the difference, or turns it over.
LEMMA TickMinus ==
  ASSUME NEW a \in Uint, NEW b \in Uint
  PROVE  (((a + 1) % M) - b) % M = IF (a - b) % M = M - 1 THEN 0
                                 ELSE ((a - b) % M) + 1
  <1>1. /\ (a + 1) % M = IF a = M - 1 THEN 0 ELSE a + 1
        /\ (a + 1) % M \in Uint
      BY TickIs
  <1> DEFINE c == (a + 1) % M
  <1> HIDE DEF c
  <1>2. (c - b) % M = IF b <= c THEN c - b ELSE c - b + M
      BY <1>1, MinusIs DEF c
  <1>3. (a - b) % M = IF b <= a THEN a - b ELSE a - b + M
      BY MinusIs
  <1>4. c = IF a = M - 1 THEN 0 ELSE a + 1
      BY <1>1 DEF c
  <1>5. (c - b) % M = IF (a - b) % M = M - 1 THEN 0 ELSE ((a - b) % M) + 1
      BY <1>2, <1>3, <1>4, ClockAssumption DEF Uint
  <1> QED BY <1>5 DEF c

\* An int as a uint.
LEMMA DelayIs ==
  ASSUME NEW d \in Delays \cup {0}
  PROVE  /\ d \in Int /\ d < M \div 2 /\ M \div 2 \in Nat /\ 2 * (M \div 2) <= M
         /\ d >= 0 => d % M = d
         /\ d % M \in Uint
  <1>1. /\ M \in Nat \ {0, 1} /\ M \div 2 \in Nat
        /\ 2 * (M \div 2) <= M /\ M \div 2 > 0
      BY ClockAssumption
  <1>2. d \in -(M \div 2) .. (M \div 2) - 1
      BY <1>1, ClockAssumption
  <1> QED BY <1>1, <1>2 DEF Uint

\* A late call is never a whole turn of the clock late: the test sees that the
\* time is over.
LEMMA DueIsSeen ==
  ASSUME ClockIInv, NEW s \in Sleepers, Due(s)
  PROVE  struck[s] \/ ~TooEarly(s)
  <1>1. /\ InSleep(s) /\ (struck[s] \/ (n[s] >= 0 /\ passed[s] >= n[s]))
      BY DEF Due
  <1>2. SUFFICES ASSUME ~struck[s] PROVE ~TooEarly(s)
      OBVIOUS
  <1>3. /\ n[s] \in Delays \cup {0} /\ passed[s] \in 0 .. M /\ late[s] \in Nat
        /\ ticks \in Uint /\ ticks0[s] \in Uint
      BY DEF ClockIInv, ClockTyped
  <1>4. /\ n[s] \in Int /\ n[s] < M \div 2 /\ M \div 2 \in Nat
        /\ 2 * (M \div 2) <= M /\ n[s] % M = n[s]
      BY <1>1, <1>2, <1>3, DelayIs
  <1>5. passed[s] <= n[s] + late[s] /\ late[s] <= 1 + Latency
      BY <1>1, <1>2 DEF ClockIInv, LateForAReason, LateBound
  <1>6. passed[s] < M
      BY <1>3, <1>4, <1>5, ClockAssumption
  <1>7. passed[s] = (ticks - ticks0[s]) % M
      BY <1>1, <1>3, <1>6, ClockAssumption DEF ClockIInv, Elapsed
  <1> QED BY <1>1, <1>2, <1>3, <1>4, <1>7 DEF TooEarly
-----------------------------------------------------------------------------
LEMMA ClockInitIInv == ClockInit => ClockIInv
  <1> SUFFICES ASSUME ClockInit PROVE ClockIInv
      OBVIOUS
  <1> USE DEF ClockInit
  <1>1. ClockTyped
      <2>1. struck \in [Sleepers -> BOOLEAN]
          OBVIOUS
      <2>2. ticks \in Uint /\ passed \in [Sleepers -> 0 .. M]
            /\ ticks0 \in [Sleepers -> Uint]
          BY ClockAssumption DEF Uint
      <2> QED BY <2>1, <2>2 DEF ClockTyped
  <1>2. TicksLockHeld
      BY ClockAssumption DEF TicksLockHeld
  <1>3. Elapsed
      BY DEF Elapsed, InSleep
  <1>4. LateForAReason /\ LateBound
      BY ClockAssumption DEF LateForAReason, LateBound
  <1> QED BY <1>1, <1>2, <1>3, <1>4 DEF ClockIInv

\* sys_sleep() begins: nothing has passed.
LEMMA SysSleepIInv ==
  ASSUME ClockIInv, NEW s \in Sleepers, SysSleep(s)
  PROVE  ClockIInv'
  <1>0. ClockTyped /\ TicksLockHeld /\ Elapsed /\ LateForAReason /\ LateBound
      BY DEF ClockIInv
  <1>1. PICK d \in Delays : n' = [n EXCEPT ![s] = d]
      BY DEF SysSleep
  <1>2. /\ spc[s] = "user" /\ tickslock = Nobody /\ tickslock' = s
        /\ ticks0' = [ticks0 EXCEPT ![s] = ticks]
        /\ spc' = [spc EXCEPT ![s] = "test"] /\ ticks' = ticks
        /\ struck' = struck /\ passed' = passed /\ ready' = ready /\ late' = late
      BY DEF SysSleep
  <1>3. d \in Int
      BY DelayIs
  <1>4. ClockTyped'
      BY <1>0, <1>1, <1>2 DEF ClockTyped
  <1>5. TicksLockHeld'
      BY <1>0, <1>2, ClockAssumption DEF TicksLockHeld, ClockTyped
  <1>6. passed[s] = 0 /\ late[s] = 0
      BY <1>0, <1>2 DEF Elapsed, InSleep
  <1>7. Elapsed'
      <2>1. (ticks - ticks) % M = 0
          BY <1>0, ClockAssumption DEF ClockTyped, Uint
      <2> QED BY <1>0, <1>2, <1>6, <2>1 DEF Elapsed, InSleep, ClockTyped
  <1>8. LateForAReason'
      BY <1>0, <1>1, <1>2, <1>3, <1>6 DEF LateForAReason, Due, InSleep, ClockTyped
  <1>9. LateBound'
      BY <1>0, <1>2, <1>6, ClockAssumption DEF LateBound, ClockTyped
  <1> QED BY <1>4, <1>5, <1>7, <1>8, <1>9 DEF ClockIInv

\* The test of the loop: whoever sleeps on has no reason to return.
LEMMA SleepTestIInv ==
  ASSUME ClockIInv, NEW s \in Sleepers, SleepTest(s)
  PROVE  ClockIInv'
  <1>0. ClockTyped /\ TicksLockHeld /\ Elapsed /\ LateForAReason /\ LateBound
      BY DEF ClockIInv
  <1>1. /\ spc[s] = "test" /\ ticks' = ticks /\ struck' = struck /\ ready' = ready
        /\ tickslock = s
      BY <1>0 DEF SleepTest, TicksLockHeld
  <1>2. CASE TooEarly(s) /\ ~struck[s]
      <2>1. /\ spc' = [spc EXCEPT ![s] = "doze"] /\ tickslock' = tickslock
            /\ n' = n /\ ticks0' = ticks0 /\ passed' = passed /\ late' = late
          BY <1>2 DEF SleepTest
      <2>2. late[s] = 0
          <3>1. ~Due(s)
              BY <1>2, DueIsSeen
          <3> QED BY <1>0, <3>1 DEF LateForAReason, ClockTyped
      <2>3. ClockTyped'
          BY <1>0, <1>1, <2>1 DEF ClockTyped
      <2>4. TicksLockHeld'
          BY <1>0, <1>1, <2>1 DEF TicksLockHeld, ClockTyped
      <2>5. Elapsed'
          BY <1>0, <1>1, <2>1 DEF Elapsed, InSleep, ClockTyped
      <2>6. LateForAReason'
          BY <1>0, <1>1, <2>1 DEF LateForAReason, Due, InSleep, ClockTyped
      <2>7. LateBound'
          BY <1>0, <1>1, <2>1, <2>2 DEF LateBound, ClockTyped
      <2> QED BY <2>3, <2>4, <2>5, <2>6, <2>7 DEF ClockIInv
  <1>3. CASE ~(TooEarly(s) /\ ~struck[s])
      <2>1. /\ spc' = [spc EXCEPT ![s] = "user"] /\ tickslock' = Nobody
            /\ n' = [n EXCEPT ![s] = 0] /\ ticks0' = [ticks0 EXCEPT ![s] = 0]
            /\ passed' = [passed EXCEPT ![s] = 0]
            /\ late' = [late EXCEPT ![s] = 0]
          BY <1>3 DEF SleepTest
      <2>2. ClockTyped'
          <3>1. 0 \in Uint /\ 0 \in 0 .. M
              BY ClockAssumption DEF Uint
          <3> QED BY <1>0, <1>1, <2>1, <3>1 DEF ClockTyped
      <2>3. TicksLockHeld'
          BY <1>0, <1>1, <2>1, ClockAssumption DEF TicksLockHeld, ClockTyped
      <2>4. Elapsed'
          BY <1>0, <1>1, <2>1 DEF Elapsed, InSleep, ClockTyped
      <2>5. LateForAReason'
          BY <1>0, <1>1, <2>1 DEF LateForAReason, Due, InSleep, ClockTyped
      <2>6. LateBound'
          <3>1. tickslock # "clock"
              BY <1>1, ClockAssumption
          <3> QED BY <1>0, <1>1, <2>1, <3>1, ClockAssumption DEF LateBound, ClockTyped
      <2> QED BY <2>2, <2>3, <2>4, <2>5, <2>6 DEF ClockIInv
  <1> QED BY <1>2, <1>3

\* sleep() switches away and gives tickslock back.
LEMMA DozeIInv ==
  ASSUME ClockIInv, NEW s \in Sleepers, Doze(s)
  PROVE  ClockIInv'
  <1>0. ClockTyped /\ TicksLockHeld /\ Elapsed /\ LateForAReason /\ LateBound
      BY DEF ClockIInv
  <1>1. /\ spc[s] = "doze" /\ tickslock = s /\ tickslock' = Nobody
        /\ spc' = [spc EXCEPT ![s] = "asleep"]
        /\ ticks' = ticks /\ ticks0' = ticks0 /\ n' = n /\ struck' = struck
        /\ passed' = passed /\ ready' = ready /\ late' = late
      BY <1>0 DEF Doze, TicksLockHeld
  <1>2. ClockTyped'
      BY <1>0, <1>1 DEF ClockTyped
  <1>3. TicksLockHeld'
      BY <1>0, <1>1, ClockAssumption DEF TicksLockHeld, ClockTyped
  <1>4. Elapsed'
      BY <1>0, <1>1 DEF Elapsed, InSleep, ClockTyped
  <1>5. LateForAReason'
      BY <1>0, <1>1 DEF LateForAReason, Due, InSleep, ClockTyped
  <1>6. LateBound'
      <2>1. tickslock # "clock" /\ Nobody # "clock"
          BY <1>1, ClockAssumption
      <2> QED BY <1>0, <1>1, <2>1, ClockAssumption DEF LateBound, ClockTyped
  <1> QED BY <1>2, <1>3, <1>4, <1>5, <1>6 DEF ClockIInv

\* The woken process gets a CPU and tickslock.
LEMMA SleepAgainIInv ==
  ASSUME ClockIInv, NEW s \in Sleepers, SleepAgain(s)
  PROVE  ClockIInv'
  <1>0. ClockTyped /\ TicksLockHeld /\ Elapsed /\ LateForAReason /\ LateBound
      BY DEF ClockIInv
  <1>1. /\ spc[s] = "woken" /\ tickslock = Nobody /\ tickslock' = s
        /\ spc' = [spc EXCEPT ![s] = "test"] /\ ready' = [ready EXCEPT ![s] = 0]
        /\ ticks' = ticks /\ ticks0' = ticks0 /\ n' = n /\ struck' = struck
        /\ passed' = passed /\ late' = late
      BY DEF SleepAgain
  <1>2. ClockTyped'
      BY <1>0, <1>1 DEF ClockTyped
  <1>3. TicksLockHeld'
      BY <1>0, <1>1, ClockAssumption DEF TicksLockHeld, ClockTyped
  <1>4. Elapsed'
      BY <1>0, <1>1 DEF Elapsed, InSleep, ClockTyped
  <1>5. LateForAReason'
      BY <1>0, <1>1 DEF LateForAReason, Due, InSleep, ClockTyped
  <1>6. LateBound'
      <2>1. tickslock # "clock" /\ s # "clock"
          BY <1>1, ClockAssumption
      <2> QED BY <1>0, <1>1, <2>1, ClockAssumption DEF LateBound, ClockTyped
  <1> QED BY <1>2, <1>3, <1>4, <1>5, <1>6 DEF ClockIInv

\* A tick: the late ones are asleep or wait for a CPU.
LEMMA ClockIntrIInv ==
  ASSUME ClockIInv, ClockIntr
  PROVE  ClockIInv'
  <1>0. ClockTyped /\ TicksLockHeld /\ Elapsed /\ LateForAReason /\ LateBound
      BY DEF ClockIInv
  <1>1. /\ tickslock = Nobody /\ tickslock' = "clock"
        /\ ticks' = (ticks + 1) % M
        /\ \A s \in Sleepers : ready[s] < Latency
        /\ spc' = spc /\ ticks0' = ticks0 /\ n' = n /\ struck' = struck
      BY DEF ClockIntr
  <1>2. ASSUME NEW s \in Sleepers
        PROVE  /\ passed'[s] = IF InSleep(s) THEN Counted(passed[s]) ELSE passed[s]
               /\ ready'[s] = IF spc[s] = "woken" THEN ready[s] + 1 ELSE ready[s]
               /\ late'[s] = IF Due(s) THEN Counted(late[s]) ELSE late[s]
               /\ passed[s] \in 0 .. M /\ ready[s] \in Nat /\ late[s] \in Nat
               /\ ticks \in Uint /\ ticks0[s] \in Uint
               /\ n[s] \in Int /\ M \in Nat /\ Latency \in Nat
      <2>1. n[s] \in Delays \cup {0}
          BY <1>0 DEF ClockTyped
      <2> QED BY <1>0, <2>1, DelayIs, ClockAssumption DEF ClockIntr, ClockTyped
  <1>3. ClockTyped'
      <2>1. passed' \in [Sleepers -> 0 .. M]
          BY <1>2 DEF ClockIntr, Counted
      <2>2. ready' \in [Sleepers -> Nat] /\ late' \in [Sleepers -> Nat]
          BY <1>2 DEF ClockIntr, Counted
      <2>3. ticks' \in Uint
          BY <1>0, <1>1, TickIs DEF ClockTyped
      <2> QED BY <1>0, <1>1, <2>1, <2>2, <2>3 DEF ClockTyped
  <1>4. TicksLockHeld'
      BY <1>0, <1>1, ClockAssumption DEF TicksLockHeld
  <1>5. Elapsed'
      <2>1. ASSUME NEW s \in Sleepers
            PROVE  IF InSleep(s)
                   THEN \/ passed'[s] = M
                        \/ passed'[s] = (ticks' - ticks0[s]) % M
                   ELSE passed'[s] = 0 /\ late'[s] = 0
          <3>1. CASE InSleep(s)
              <4>1. (ticks' - ticks0[s]) % M
                      = IF (ticks - ticks0[s]) % M = M - 1 THEN 0
                        ELSE ((ticks - ticks0[s]) % M) + 1
                  BY <1>1, <1>2, TickMinus
              <4>2. passed[s] = M \/ passed[s] = (ticks - ticks0[s]) % M
                  BY <1>0, <3>1 DEF Elapsed
              <4>3. (ticks - ticks0[s]) % M \in Uint
                  BY <1>2, MinusIs
              <4> QED BY <1>2, <3>1, <4>1, <4>2, <4>3 DEF Counted, Uint
          <3>2. CASE ~InSleep(s)
              BY <1>0, <1>2, <3>2 DEF Elapsed, Due
          <3> QED BY <3>1, <3>2
      <2> QED BY <1>1, <2>1 DEF Elapsed, InSleep
  <1>6. LateForAReason'
      <2>1. ASSUME NEW s \in Sleepers
            PROVE  /\ late'[s] > 0 => Due(s)'
                   /\ n[s] >= 0 => passed'[s] <= n[s] + late'[s]
          <3>1. passed'[s] >= passed[s] /\ passed'[s] \in Nat
              BY <1>2 DEF Counted
          <3>2. Due(s) => Due(s)'
              BY <1>1, <1>2, <3>1 DEF Due, InSleep
          <3>3. late[s] > 0 => Due(s)
              BY <1>0 DEF LateForAReason
          <3>4. late'[s] > 0 => Due(s)'
              BY <1>2, <3>2, <3>3
          <3>5. ASSUME n[s] >= 0 PROVE passed'[s] <= n[s] + late'[s]
              <4>1. passed[s] <= n[s] + late[s]
                  BY <1>0, <3>5 DEF LateForAReason
              <4>2. CASE Due(s)
                  BY <1>2, <3>5, <4>1, <4>2 DEF Counted
              <4>3. CASE ~Due(s) /\ InSleep(s)
                  <5>1. passed[s] < n[s]
                      BY <1>2, <3>5, <4>3 DEF Due
                  <5> QED BY <1>2, <4>3, <5>1 DEF Counted
              <4>4. CASE ~InSleep(s)
                  BY <1>2, <4>1, <4>4 DEF Due
              <4> QED BY <4>2, <4>3, <4>4
          <3> QED BY <3>4, <3>5
      <2> QED BY <1>1, <2>1 DEF LateForAReason
  <1>7. LateBound'
      <2>1. ASSUME NEW s \in Sleepers
            PROVE  /\ spc[s] = "asleep" => late'[s] <= 1
                   /\ spc[s] = "woken" => late'[s] <= 1 + ready'[s]
                   /\ spc[s] = "doze" => late'[s] = 0
                   /\ ready'[s] <= Latency
                   /\ late'[s] <= 1 + Latency
          <3>1. spc[s] \notin {"test", "doze"}
              BY <1>0, <1>1, ClockAssumption DEF TicksLockHeld
          <3>2. ready[s] < Latency
              BY <1>1
          <3>3. late'[s] <= late[s] + 1
              BY <1>2 DEF Counted
          <3>4. spc[s] \in {"user", "asleep", "woken"}
              BY <1>0, <3>1 DEF ClockTyped
          <3>5. CASE spc[s] = "user"
              BY <1>0, <1>2, <3>2, <3>5 DEF LateBound, Due, InSleep
          <3>6. CASE spc[s] = "asleep"
              <4>1. late[s] <= 0
                  BY <1>0, <1>1, <3>6, ClockAssumption DEF LateBound
              <4>2. late'[s] <= 1 /\ late'[s] \in Nat
                  BY <1>2, <3>3, <4>1 DEF Counted
              <4> QED BY <1>2, <3>2, <3>6, <4>2
          <3>7. CASE spc[s] = "woken"
              <4>1. late[s] <= 1 + ready[s]
                  BY <1>0, <3>7 DEF LateBound
              <4>2. late'[s] \in Nat
                  BY <1>2 DEF Counted
              <4> QED BY <1>2, <3>2, <3>3, <3>7, <4>1, <4>2
          <3> QED BY <3>4, <3>5, <3>6, <3>7
      <2> QED BY <1>1, <2>1 DEF LateBound
  <1> QED BY <1>3, <1>4, <1>5, <1>6, <1>7 DEF ClockIInv

\* The rest of clockintr(): everyone on &ticks is woken.
LEMMA ClockWakesIInv ==
  ASSUME ClockIInv, ClockWakes
  PROVE  ClockIInv'
  <1>0. ClockTyped /\ TicksLockHeld /\ Elapsed /\ LateForAReason /\ LateBound
      BY DEF ClockIInv
  <1>1. /\ tickslock = "clock" /\ tickslock' = Nobody
        /\ ticks' = ticks /\ ticks0' = ticks0 /\ n' = n /\ struck' = struck
        /\ passed' = passed /\ ready' = ready /\ late' = late
      BY DEF ClockWakes
  <1>2. \A s \in Sleepers :
          spc'[s] = IF spc[s] = "asleep" THEN "woken" ELSE spc[s]
      BY DEF ClockWakes
  <1>3. ClockTyped'
      <2>1. spc' \in [Sleepers -> {"user", "test", "doze", "asleep", "woken"}]
          BY <1>0 DEF ClockWakes, ClockTyped
      <2> QED BY <1>0, <1>1, <2>1 DEF ClockTyped
  <1>4. TicksLockHeld'
      BY <1>0, <1>1, <1>2, ClockAssumption DEF TicksLockHeld
  <1>5. Elapsed'
      BY <1>0, <1>1, <1>2 DEF Elapsed, InSleep
  <1>6. LateForAReason'
      BY <1>0, <1>1, <1>2 DEF LateForAReason, Due, InSleep
  <1>7. LateBound'
      BY <1>0, <1>1, <1>2, ClockAssumption DEF LateBound, ClockTyped
  <1> QED BY <1>3, <1>4, <1>5, <1>6, <1>7 DEF ClockIInv

\* kill(), at any moment of the call, and the exit it leads to.
LEMMA StrikeIInv ==
  ASSUME ClockIInv, NEW s \in Sleepers, Strike(s) \/ Replaced(s)
  PROVE  ClockIInv'
  <1>0. ClockTyped /\ TicksLockHeld /\ Elapsed /\ LateForAReason /\ LateBound
      BY DEF ClockIInv
  <1>1. /\ tickslock' = tickslock /\ ticks' = ticks /\ ticks0' = ticks0 /\ n' = n
        /\ passed' = passed /\ ready' = ready /\ late' = late
      BY DEF Strike, Replaced
  <1>2. \A t \in Sleepers : \/ spc'[t] = spc[t]
                            \/ spc[t] = "asleep" /\ spc'[t] = "woken"
      BY <1>0 DEF Strike, Replaced, ClockTyped
  <1>3. \A t \in Sleepers : InSleep(t) /\ struck[t] => struck'[t]
      BY <1>0 DEF Strike, Replaced, ClockTyped, InSleep
  <1>4. ClockTyped'
      <2>1. struck' \in [Sleepers -> BOOLEAN]
          <3>1. CASE Strike(s)
              BY <1>0, <3>1 DEF Strike, ClockTyped
          <3>2. CASE Replaced(s)
              BY <1>0, <3>2 DEF Replaced, ClockTyped
          <3> QED BY <3>1, <3>2
      <2>2. spc' \in [Sleepers -> {"user", "test", "doze", "asleep", "woken"}]
          BY <1>0 DEF Strike, Replaced, ClockTyped
      <2> QED BY <1>0, <1>1, <2>1, <2>2 DEF ClockTyped
  <1>5. TicksLockHeld'
      BY <1>0, <1>1, <1>2 DEF TicksLockHeld
  <1>6. Elapsed'
      BY <1>0, <1>1, <1>2 DEF Elapsed, InSleep
  <1>7. LateForAReason'
      <2>1. \A t \in Sleepers : Due(t) => Due(t)'
          BY <1>1, <1>2, <1>3 DEF Due, InSleep
      <2> QED BY <1>0, <1>1, <2>1 DEF LateForAReason
  <1>8. LateBound'
      BY <1>0, <1>1, <1>2, ClockAssumption DEF LateBound, ClockTyped
  <1> QED BY <1>4, <1>5, <1>6, <1>7, <1>8 DEF ClockIInv

\* Every step.
LEMMA ClockNextIInv == ClockIInv /\ [ClockNext]_clockVars => ClockIInv'
  <1> SUFFICES ASSUME ClockIInv, [ClockNext]_clockVars PROVE ClockIInv'
      OBVIOUS
  <1>1. CASE UNCHANGED clockVars
      BY <1>1 DEF clockVars, ClockIInv, ClockTyped, TicksLockHeld, Elapsed, LateForAReason,
                  LateBound, Due, InSleep
  <1>2. CASE ClockIntr \/ ClockWakes
      BY <1>2, ClockIntrIInv, ClockWakesIInv
  <1>3. ASSUME NEW s \in Sleepers,
               SysSleep(s) \/ InKernel(s) \/ Strike(s) \/ Replaced(s)
        PROVE  ClockIInv'
      BY <1>3, SysSleepIInv, SleepTestIInv, DozeIInv, SleepAgainIInv, StrikeIInv
         DEF InKernel
  <1> QED BY <1>1, <1>2, <1>3 DEF ClockNext

\* A step that returns from sys_sleep() is the loop's test finding the time
\* over, or the process killed.
LEMMA StepAsAsked ==
  ASSUME ClockIInv, ClockIInv', ClockNext, NEW s \in Sleepers
  PROVE  /\ InSleep(s) /\ spc'[s] = "user" /\ ~struck[s] => passed[s] >= n[s] % M
         /\ late'[s] <= 1 + Latency
  <1>1. late'[s] <= 1 + Latency
      BY DEF ClockIInv, LateBound
  <1>2. ASSUME InSleep(s), spc'[s] = "user", ~struck[s]
        PROVE  passed[s] >= n[s] % M
      <2>1. SleepTest(s) /\ ~TooEarly(s)
          BY <1>2 DEF ClockIInv, ClockTyped, InSleep, ClockNext, InKernel, SysSleep,
             SleepTest, Doze, SleepAgain, ClockIntr, ClockWakes, Strike, Replaced
      <2>2. passed[s] = M \/ passed[s] = (ticks - ticks0[s]) % M
          BY <1>2 DEF ClockIInv, Elapsed
      <2>3. n[s] % M \in Uint /\ (ticks - ticks0[s]) % M \in Uint
          BY DelayIs, MinusIs DEF ClockIInv, ClockTyped
      <2> QED BY <2>1, <2>2, <2>3, ClockAssumption DEF TooEarly, Uint
  <1> QED BY <1>1, <1>2
-----------------------------------------------------------------------------
\* sys_sleep() in a process that is not killed takes the ticks it was asked
\* for, across the wrap of ticks, and no call outstays its reason to return,
\* be it the time or kill(), by more than a tick and the latency.
THEOREM SleepTimes == ClockSpec => SleepsAsAsked
  <1> DEFINE A == \A s \in Sleepers :
                    /\ InSleep(s) /\ spc'[s] = "user" /\ ~struck[s]
                         => passed[s] >= n[s] % M
                    /\ late'[s] <= 1 + Latency
  <1>1. ClockIInv /\ [ClockNext]_clockVars => ClockIInv'
      BY ClockNextIInv
  <1>2. ClockIInv /\ ClockIInv' /\ [ClockNext]_clockVars => [A]_clockVars
      <2> SUFFICES ASSUME ClockIInv, ClockIInv', ClockNext PROVE A
          OBVIOUS
      <2> QED BY StepAsAsked
  <1> QED BY <1>1, <1>2, ClockInitIInv, PTL DEF ClockSpec, SleepsAsAsked
=============================================================================
