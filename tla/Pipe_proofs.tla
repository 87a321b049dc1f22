----------------------------- MODULE Pipe_proofs -----------------------------
(***************************************************************************)
(* Proofs about Pipe, for any number of processes, files, descriptors and  *)
(* pipes, any size of the ring and any width of its counters: references   *)
(* are exact and no pipe is used after it is freed, no sleeper is          *)
(* forgotten, and the rings are the byte streams of ByteStream.            *)
(***************************************************************************)
EXTENDS Pipe, Integers, FiniteSetTheorems, WellFoundedInduction,
        SequenceTheorems, TLAPS

\* The points inside piperead() and pipewrite(), those at which pi->lock is
\* held, and all of them.
IOPoints == {"read", "read_sleep", "read_asleep", "read_copy",
             "write", "write_test", "write_body", "write_asleep"}
LockPoints == {"read_sleep", "read_copy", "write_test", "write_body"}
Points == IOPoints \cup {"unused", "user", "pipe_wf", "pipe_page", "close", "exit"}

FileType == [ref : Nat, type : {"FD_NONE", "FD_PIPE"}, writable : BOOLEAN,
             pipe : Pages \cup {None}]
ArgType == [rf : Files \cup {NoFile}, wf : Files \cup {NoFile},
            pipe : Pages \cup {None}, writable : BOOLEAN, i : Nat, n : Nat]
PipeType == [used : BOOLEAN, lock : Procs \cup {None}, nread : 0 .. WRAP - 1,
             nwrite : 0 .. WRAP - 1, readopen : BOOLEAN, writeopen : BOOLEAN,
             data : [0 .. PIPESIZE - 1 -> Bytes \cup {None}]]

\* What TypeOK leaves out.
Typed ==
  /\ arg \in [Procs -> ArgType]
  /\ pi \in [Pages -> PipeType]
  /\ pc \in [Procs -> Points]
  /\ killed \in [Procs -> BOOLEAN]
  /\ got \in [Pages -> Bytes \cup {None}]

\* An entry without references has no type; one with the type of a pipe has one.
Entries ==
  \A f \in Files : /\ file[f].ref = 0 => file[f].type = "FD_NONE"
                   /\ file[f].type = "FD_PIPE" => file[f].pipe \in Pages

\* What each local variable may hold at each point.
Locals ==
  \A p \in Procs :
    /\ pc[p] \in {"unused", "user"} => arg[p] = NoArg
    /\ pc[p] = "unused" => \A d \in Fds : ofile[p][d] = NoFile
    /\ pc[p] = "pipe_wf" => arg[p].rf # NoFile /\ arg[p].wf = NoFile
    /\ pc[p] = "pipe_page" =>
         arg[p].rf # NoFile /\ arg[p].wf # NoFile /\ arg[p].rf # arg[p].wf
    /\ arg[p].rf # NoFile \/ arg[p].wf # NoFile =>
         pc[p] \in {"pipe_wf", "pipe_page", "close"}
    /\ arg[p].pipe # None => pc[p] \in {"close", "exit"} \cup IOPoints
    /\ pc[p] \in IOPoints => arg[p].pipe # None
    /\ arg[p].pipe = None => ~arg[p].writable
    /\ pc[p] \notin IOPoints => arg[p].i = 0 /\ arg[p].n = 0

\* The entries sys_pipe() has just allocated are its own and have no type yet;
\* those a descriptor refers to are pipes.
Fresh ==
  \A p \in Procs : pc[p] \in {"pipe_wf", "pipe_page"} =>
    \A f \in {arg[p].rf, arg[p].wf} \ {NoFile} :
      /\ file[f].type = "FD_NONE" /\ file[f].ref = 1
      /\ \A r \in Procs \ {p} : arg[r].rf # f /\ arg[r].wf # f
Opened ==
  \A p \in Procs, d \in Fds :
    ofile[p][d] # NoFile => file[ofile[p][d]].type = "FD_PIPE"

\* One open file, or one process about to call pipeclose(), for each end.
EndFile(f, q, w) == /\ file[f].type = "FD_PIPE"
                    /\ file[f].pipe = q /\ file[f].writable = w
Closer(p, q, w) == ~InPipe(p) /\ arg[p].pipe = q /\ arg[p].writable = w
OneEnd ==
  \A q \in Pages, w \in BOOLEAN :
    /\ \A f, g \in Files : EndFile(f, q, w) /\ EndFile(g, q, w) => f = g
    /\ \A p, r \in Procs : Closer(p, q, w) /\ Closer(r, q, w) => p = r
    /\ \A f \in Files, p \in Procs : ~(EndFile(f, q, w) /\ Closer(p, q, w))

\* A process in piperead() or pipewrite() has a descriptor of that end.
WriteSide(p) == pc[p] \in {"write", "write_test", "write_body", "write_asleep"}
Users ==
  \A p \in Procs : InPipe(p) =>
    \E d \in Fds : /\ ofile[p][d] # NoFile
                   /\ file[ofile[p][d]].pipe = arg[p].pipe
                   /\ file[ofile[p][d]].writable = WriteSide(p)

\* Who holds pi->lock.
Locked ==
  /\ \A p \in Procs : pc[p] \in LockPoints => pi[arg[p].pipe].lock = p
  /\ \A q \in Pages : pi[q].lock # None =>
       pc[pi[q].lock] \in LockPoints /\ arg[pi[q].lock].pipe = q

\* What a process has found out stays true until it acts on it: nobody else
\* writes to, reads from or closes the pipe while it holds the lock.
Testing ==
  \A p \in Procs : /\ pc[p] = "read_sleep" => ReaderWaits(p)
                   /\ pc[p] = "write_body" => arg[p].i < arg[p].n /\ pi[arg[p].pipe].readopen

\* Who has reason to sleep, with the lock free or not: the holder of the lock
\* will wake the sleepers, or leave them what they wait for.
ReaderMaySleep(p) ==
  \/ ReaderWaits(p) \/ arg[p].pipe \in owed
  \/ LET h == pi[arg[p].pipe].lock IN h # None /\ WriteSide(h) /\ arg[h].i > 0
WriterMaySleep(p) ==
  \/ WriterWaits(p)
  \/ LET h == pi[arg[p].pipe].lock IN h # None /\ pc[h] = "read_copy"
Sleeping ==
  \A p \in Procs : /\ pc[p] = "read_asleep" => ReaderMaySleep(p)
                   /\ pc[p] = "write_asleep" => WriterMaySleep(p)

IInv == /\ TypeOK /\ Typed /\ Entries /\ Locals /\ Fresh /\ Opened /\ OneEnd
        /\ EndsMatch /\ RefsExact /\ Users /\ Locked /\ Testing /\ Sleeping

-----------------------------------------------------------------------------
\* Arithmetic of the counters and of the slots of the ring.

Index == 0 .. WRAP - 1
Dist(a, b) == (a + WRAP - b) % WRAP
After(a) == (a + 1) % WRAP

\* nwrite - nread and nread + 1 on uints.
LEMMA DistIs ==
  ASSUME NEW a \in Index, NEW b \in Index
  PROVE  /\ Dist(a, b) = IF b <= a THEN a - b ELSE a + WRAP - b
         /\ Dist(a, b) \in Index /\ Dist(a, b) \in Nat
  BY PipeAssumption DEF Index, Dist

LEMMA AfterIs ==
  ASSUME NEW a \in Index
  PROVE  /\ After(a) = IF a = WRAP - 1 THEN 0 ELSE a + 1
         /\ After(a) \in Index
  BY PipeAssumption DEF Index, After

\* The test for full and the test for empty, as counts.
LEMMA FullIs ==
  ASSUME NEW a \in Index, NEW b \in Index
  PROVE  /\ (a = (b + PIPESIZE) % WRAP) <=> Dist(a, b) = PIPESIZE
         /\ (b = a) <=> Dist(a, b) = 0
  <1>1. (b + PIPESIZE) % WRAP = IF b + PIPESIZE < WRAP THEN b + PIPESIZE
                                                    ELSE b + PIPESIZE - WRAP
      BY PipeAssumption DEF Index
  <1>2. Dist(a, b) = IF b <= a THEN a - b ELSE a + WRAP - b
      BY DistIs
  <1> QED BY <1>1, <1>2, PipeAssumption DEF Index

\* One byte more, one byte less.
LEMMA DistStep ==
  ASSUME NEW a \in Index, NEW b \in Index, Dist(a, b) <= PIPESIZE
  PROVE  /\ Dist(a, b) < PIPESIZE => Dist(After(a), b) = Dist(a, b) + 1
         /\ Dist(a, b) > 0 => Dist(a, After(b)) = Dist(a, b) - 1
  <1>1. /\ Dist(a, b) = IF b <= a THEN a - b ELSE a + WRAP - b
        /\ Dist(After(a), b) = IF b <= After(a) THEN After(a) - b
                                               ELSE After(a) + WRAP - b
        /\ Dist(a, After(b)) = IF After(b) <= a THEN a - After(b)
                                               ELSE a + WRAP - After(b)
      BY AfterIs, DistIs
  <1> QED BY <1>1, AfterIs, PipeAssumption DEF Index

\* Quotient and remainder.
LEMMA DivMod ==
  ASSUME NEW x \in Int, NEW s \in Nat \ {0}
  PROVE  /\ x = s * (x \div s) + (x % s)
         /\ x % s \in 0 .. s - 1 /\ x \div s \in Int
  OBVIOUS

\* Two numbers name the same slot just when they are a multiple of the size
\* apart.
LEMMA SlotsEqual ==
  ASSUME NEW x \in Int, NEW y \in Int, NEW s \in Nat \ {0}
  PROVE  x % s = y % s <=> \E k \in Int : x = y + s * k
  <1>1. /\ x = s * (x \div s) + (x % s) /\ x \div s \in Int /\ x % s \in 0 .. s - 1
        /\ y = s * (y \div s) + (y % s) /\ y \div s \in Int /\ y % s \in 0 .. s - 1
      BY DivMod
  <1> DEFINE a == x \div s
             b == y \div s
             c == x % s
             d == y % s
  <1>2. /\ x = s * a + c /\ a \in Int /\ c \in 0 .. s - 1
        /\ y = s * b + d /\ b \in Int /\ d \in 0 .. s - 1
      BY <1>1
  <1> HIDE DEF a, b, c, d
  <1>3. c = d => \E k \in Int : x = y + s * k
      <2>1. c = d => x = y + s * (a - b)
          BY <1>2
      <2>2. a - b \in Int
          BY <1>2
      <2> QED BY <2>1, <2>2
  <1>4. ASSUME NEW k \in Int, x = y + s * k PROVE c = d
      <2>1. PICK j \in Int : j = b + k - a
          BY <1>2
      <2>2. c - d = s * j
          BY <1>2, <1>4, <2>1
      <2>3. -s < s * j /\ s * j < s
          BY <1>2, <2>2
      <2>4. j = 0
          BY <2>3
      <2> QED BY <1>2, <2>2, <2>4
  <1> QED BY <1>3, <1>4 DEF c, d

LEMMA SlotIs ==
  ASSUME NEW x \in Nat
  PROVE  x % PIPESIZE \in 0 .. PIPESIZE - 1
  BY PipeAssumption

\* A turn of the counters changes no slot; less than a turn of the ring does.
LEMMA WrapSlot ==
  ASSUME NEW x \in Nat
  PROVE  (x + WRAP) % PIPESIZE = x % PIPESIZE
  <1>1. WRAP \in Int /\ PIPESIZE \in Nat \ {0} /\ WRAP % PIPESIZE = 0
      BY PipeAssumption
  <1> DEFINE k == WRAP \div PIPESIZE
  <1>2. WRAP = PIPESIZE * k + (WRAP % PIPESIZE) /\ k \in Int
      BY <1>1, DivMod
  <1> HIDE DEF k
  <1>3. WRAP = PIPESIZE * k
      BY <1>1, <1>2
  <1> DEFINE z == x + WRAP
  <1>4. z = x + PIPESIZE * k /\ z \in Int /\ x \in Int
      BY <1>1, <1>3
  <1> HIDE DEF z
  <1>5. z % PIPESIZE = x % PIPESIZE
      BY <1>1, <1>2, <1>4, SlotsEqual
  <1> QED BY <1>5 DEF z

LEMMA SlotsApart ==
  ASSUME NEW x \in Nat, NEW y \in Nat, x < y, y < x + PIPESIZE
  PROVE  x % PIPESIZE # y % PIPESIZE
  <1>1. SUFFICES ASSUME x % PIPESIZE = y % PIPESIZE PROVE FALSE
      OBVIOUS
  <1>2. PIPESIZE \in Nat \ {0} /\ x \in Int /\ y \in Int
      BY PipeAssumption
  <1>3. PICK k \in Int : y = x + PIPESIZE * k
      <2>1. y % PIPESIZE = x % PIPESIZE => \E k \in Int : y = x + PIPESIZE * k
          BY <1>2, SlotsEqual
      <2> QED BY <1>1, <2>1
  <1>4. 0 < PIPESIZE * k /\ PIPESIZE * k < PIPESIZE
      BY <1>2, <1>3
  <1> QED BY <1>2, <1>4

-----------------------------------------------------------------------------
\* The bytes in the ring.

Stored == Bytes \cup {None}
Buffers == [0 .. PIPESIZE - 1 -> Stored]
Ring(data, a, n) == [j \in 1 .. n |-> data[(a + j - 1) % PIPESIZE]]

LEMMA RingType ==
  ASSUME NEW data \in Buffers, NEW a \in Nat, NEW n \in Nat
  PROVE  /\ Ring(data, a, n) \in Seq(Stored) /\ Len(Ring(data, a, n)) = n
         /\ Ring(data, a, n) = <<>> <=> n = 0
  <1>1. ASSUME NEW j \in 1 .. n PROVE data[(a + j - 1) % PIPESIZE] \in Stored
      <2>1. a + j - 1 \in Nat
          OBVIOUS
      <2> QED BY <2>1, SlotIs DEF Buffers
  <1>2. Ring(data, a, n) \in Seq(Stored) /\ Len(Ring(data, a, n)) = n
      BY <1>1 DEF Ring
  <1> QED BY <1>2, EmptySeq

\* The slot of the next byte written is the one after those in use.
LEMMA NextSlot ==
  ASSUME NEW a \in Index, NEW b \in Index
  PROVE  b % PIPESIZE = (a + Dist(b, a)) % PIPESIZE
  <1>1. Dist(b, a) = IF a <= b THEN b - a ELSE b + WRAP - a
      BY DistIs
  <1>2. a \in Nat /\ b \in Nat
      BY PipeAssumption DEF Index
  <1>3. CASE a <= b
      <2>1. a + Dist(b, a) = b
          BY <1>1, <1>2, <1>3
      <2> QED BY <2>1
  <1>4. CASE ~(a <= b)
      <2>1. a + Dist(b, a) = b + WRAP
          BY <1>1, <1>2, <1>4, PipeAssumption
      <2> QED BY <1>2, <2>1, WrapSlot
  <1> QED BY <1>3, <1>4

\* A byte stored there extends the stream.
LEMMA RingAppend ==
  ASSUME NEW data \in Buffers, NEW a \in Index, NEW b \in Index, NEW c \in Stored,
         Dist(b, a) < PIPESIZE
  PROVE  Ring([data EXCEPT ![b % PIPESIZE] = c], a, Dist(b, a) + 1)
           = Append(Ring(data, a, Dist(b, a)), c)
  <1> DEFINE n == Dist(b, a)
             new == [data EXCEPT ![b % PIPESIZE] = c]
             s == Ring(data, a, n)
             t == Ring(new, a, n + 1)
  <1>1. n \in Nat /\ a \in Nat /\ b \in Nat /\ n < PIPESIZE /\ PIPESIZE \in Nat
      BY DistIs, PipeAssumption DEF Index
  <1>2. b % PIPESIZE = (a + n) % PIPESIZE /\ b % PIPESIZE \in 0 .. PIPESIZE - 1
      BY <1>1, NextSlot, SlotIs
  <1> HIDE DEF n
  <1>3. new \in Buffers
      BY <1>2 DEF Buffers
  <1>4. /\ s \in Seq(Stored) /\ Len(s) = n
        /\ t \in Seq(Stored) /\ Len(t) = n + 1
      BY <1>1, <1>3, RingType
  <1>5. /\ Append(s, c) \in Seq(Stored) /\ Len(Append(s, c)) = n + 1
        /\ \A j \in 1 .. n + 1 : Append(s, c)[j] = IF j <= n THEN s[j] ELSE c
      BY <1>1, <1>4, AppendProperties
  <1>6. ASSUME NEW j \in 1 .. n + 1 PROVE t[j] = Append(s, c)[j]
      <2>1. t[j] = new[(a + j - 1) % PIPESIZE]
          BY DEF Ring
      <2>2. CASE j = n + 1
          <3>1. a + j - 1 = a + n /\ ~(j <= n)
              BY <1>1, <2>2
          <3> QED BY <1>2, <1>5, <2>1, <3>1 DEF Buffers
      <2>3. CASE j # n + 1
          <3>1. j \in 1 .. n /\ j <= n
              BY <1>1, <2>3
          <3>2. s[j] = data[(a + j - 1) % PIPESIZE]
              BY <3>1 DEF Ring
          <3> DEFINE x == a + j - 1
                     y == a + n
          <3>3. x \in Nat /\ y \in Nat /\ x < y /\ y < x + PIPESIZE
              BY <1>1, <3>1
          <3> HIDE DEF x, y
          <3>4. x % PIPESIZE # y % PIPESIZE /\ x % PIPESIZE \in 0 .. PIPESIZE - 1
              BY <3>3, SlotsApart, SlotIs
          <3>5. new[x % PIPESIZE] = data[x % PIPESIZE]
              BY <1>2, <3>4 DEF y, Buffers
          <3> QED BY <1>5, <2>1, <3>1, <3>2, <3>5 DEF x
      <2> QED BY <2>2, <2>3
  <1>7. t = Append(s, c)
      BY <1>4, <1>5, <1>6, SeqEqual
  <1> QED BY <1>7 DEF n

\* Taking the first byte leaves the tail.
LEMMA RingTail ==
  ASSUME NEW data \in Buffers, NEW a \in Index, NEW n \in Nat \ {0}
  PROVE  /\ Ring(data, a, n) # <<>>
         /\ Head(Ring(data, a, n)) = data[a % PIPESIZE]
         /\ Tail(Ring(data, a, n)) = Ring(data, After(a), n - 1)
  <1> DEFINE s == Ring(data, a, n)
             t == Ring(data, After(a), n - 1)
  <1>1. /\ a \in Nat /\ n \in Nat /\ n - 1 \in Nat /\ After(a) \in Nat
        /\ WRAP \in Nat
      BY AfterIs, PipeAssumption DEF Index
  <1>2. /\ s \in Seq(Stored) /\ Len(s) = n /\ s # <<>>
        /\ t \in Seq(Stored) /\ Len(t) = n - 1
      BY <1>1, RingType
  <1>3. Head(s) = data[a % PIPESIZE]
      <2>1. Head(s) = s[1] /\ 1 \in 1 .. n /\ a + 1 - 1 = a
          BY <1>1, <1>2
      <2> QED BY <2>1 DEF Ring
  <1>4. /\ Tail(s) \in Seq(Stored) /\ Len(Tail(s)) = n - 1
        /\ \A j \in 1 .. n - 1 : Tail(s)[j] = s[j + 1]
      BY <1>2, HeadTailProperties
  <1>5. ASSUME NEW j \in 1 .. n - 1 PROVE Tail(s)[j] = t[j]
      <2>1. j + 1 \in 1 .. n /\ j \in Nat
          BY <1>1
      <2>2. /\ Tail(s)[j] = data[(a + (j + 1) - 1) % PIPESIZE]
            /\ t[j] = data[(After(a) + j - 1) % PIPESIZE]
          BY <1>4, <2>1 DEF Ring
      <2> DEFINE x == After(a) + j - 1
                 y == a + (j + 1) - 1
      <2>3. x \in Nat /\ y \in Nat /\ (y = x \/ y = x + WRAP)
          BY <1>1, <2>1, AfterIs, PipeAssumption DEF Index
      <2> HIDE DEF x, y
      <2>4. x % PIPESIZE = y % PIPESIZE
          BY <2>3, WrapSlot
      <2> QED BY <2>2, <2>4 DEF x, y
  <1>6. Tail(s) = t
      BY <1>2, <1>4, <1>5, SeqEqual
  <1> QED BY <1>2, <1>3, <1>6

-----------------------------------------------------------------------------
\* Counting references.

Cells(of, f) == {r \in Procs \X Fds : of[r[1]][r[2]] = f}
RfOf(ar, f) == {p \in Procs : ar[p].rf = f}
WfOf(ar, f) == {p \in Procs : ar[p].wf = f}
RefsOf(of, ar, f) ==
  Cardinality(Cells(of, f)) + Cardinality(RfOf(ar, f)) + Cardinality(WfOf(ar, f))

LEMMA Finite ==
  ASSUME NEW of, NEW ar, NEW f
  PROVE  /\ IsFiniteSet(Cells(of, f)) /\ Cardinality(Cells(of, f)) \in Nat
         /\ IsFiniteSet(RfOf(ar, f)) /\ Cardinality(RfOf(ar, f)) \in Nat
         /\ IsFiniteSet(WfOf(ar, f)) /\ Cardinality(WfOf(ar, f)) \in Nat
  <1>1. IsFiniteSet(Procs) /\ IsFiniteSet(Fds)
      BY PipeAssumption, FS_Interval DEF Fds
  <1>2. IsFiniteSet(Procs \X Fds)
      BY <1>1, FS_Product
  <1>3. Cells(of, f) \in SUBSET (Procs \X Fds)
      BY DEF Cells
  <1>4. RfOf(ar, f) \in SUBSET Procs /\ WfOf(ar, f) \in SUBSET Procs
      BY DEF RfOf, WfOf
  <1> QED BY <1>1, <1>2, <1>3, <1>4, FS_Subset, FS_CardinalityType

\* Two sets that differ at most in x.
LEMMA ChangeAt ==
  ASSUME NEW S, NEW T, NEW x, IsFiniteSet(S), IsFiniteSet(T),
         \A r : r # x => (r \in S <=> r \in T)
  PROVE  Cardinality(T) = Cardinality(S) - (IF x \in S THEN 1 ELSE 0)
                                         + (IF x \in T THEN 1 ELSE 0)
  <1>1. Cardinality(S \ {x}) = Cardinality(T \ {x})
      <2>1. S \ {x} = T \ {x}
          OBVIOUS
      <2> QED BY <2>1
  <1>2. /\ Cardinality(S \ {x}) = IF x \in S THEN Cardinality(S) - 1 ELSE Cardinality(S)
        /\ Cardinality(T \ {x}) = IF x \in T THEN Cardinality(T) - 1 ELSE Cardinality(T)
      BY FS_RemoveElement
  <1>3. Cardinality(S) \in Nat /\ Cardinality(T) \in Nat
      BY FS_CardinalityType
  <1> DEFINE m == Cardinality(S)
             n == Cardinality(T)
             l == Cardinality(T \ {x})
  <1>4. /\ l = IF x \in S THEN m - 1 ELSE m
        /\ l = IF x \in T THEN n - 1 ELSE n
        /\ m \in Nat /\ n \in Nat
      BY <1>1, <1>2, <1>3
  <1> HIDE DEF l, m, n
  <1>5. n = m - (IF x \in S THEN 1 ELSE 0) + (IF x \in T THEN 1 ELSE 0)
      BY <1>4
  <1> QED BY <1>5 DEF m, n

\* One descriptor changes.
LEMMA CellChange ==
  ASSUME NEW of, NEW of2, NEW p \in Procs, NEW d \in Fds, NEW f,
         \A r \in Procs, e \in Fds : ~(r = p /\ e = d) => of2[r][e] = of[r][e]
  PROVE  Cardinality(Cells(of2, f)) = Cardinality(Cells(of, f))
           - (IF of[p][d] = f THEN 1 ELSE 0) + (IF of2[p][d] = f THEN 1 ELSE 0)
  <1>1. <<p, d>> \in Cells(of, f) <=> of[p][d] = f
      BY DEF Cells
  <1>2. <<p, d>> \in Cells(of2, f) <=> of2[p][d] = f
      BY DEF Cells
  <1>3. ASSUME NEW r, r # <<p, d>>
        PROVE  r \in Cells(of, f) <=> r \in Cells(of2, f)
      <2>1. CASE r \in Procs \X Fds
          <3>1. r[1] \in Procs /\ r[2] \in Fds /\ r = <<r[1], r[2]>>
              BY <2>1
          <3>2. of2[r[1]][r[2]] = of[r[1]][r[2]]
              BY <1>3, <3>1
          <3> QED BY <3>2 DEF Cells
      <2>2. CASE r \notin Procs \X Fds
          BY <2>2 DEF Cells
      <2> QED BY <2>1, <2>2
  <1>4. IsFiniteSet(Cells(of, f)) /\ IsFiniteSet(Cells(of2, f))
      BY Finite
  <1>5. Cardinality(Cells(of2, f)) = Cardinality(Cells(of, f))
           - (IF <<p, d>> \in Cells(of, f) THEN 1 ELSE 0)
           + (IF <<p, d>> \in Cells(of2, f) THEN 1 ELSE 0)
      BY <1>3, <1>4, ChangeAt
  <1> QED BY <1>1, <1>2, <1>5

\* The local variables of one process change.
LEMMA LocalChange ==
  ASSUME NEW ar, NEW ar2, NEW p \in Procs, NEW f,
         \A r \in Procs : r # p => ar2[r].rf = ar[r].rf /\ ar2[r].wf = ar[r].wf
  PROVE  /\ Cardinality(RfOf(ar2, f)) = Cardinality(RfOf(ar, f))
              - (IF ar[p].rf = f THEN 1 ELSE 0) + (IF ar2[p].rf = f THEN 1 ELSE 0)
         /\ Cardinality(WfOf(ar2, f)) = Cardinality(WfOf(ar, f))
              - (IF ar[p].wf = f THEN 1 ELSE 0) + (IF ar2[p].wf = f THEN 1 ELSE 0)
  <1>1. /\ p \in RfOf(ar, f) <=> ar[p].rf = f
        /\ p \in RfOf(ar2, f) <=> ar2[p].rf = f
        /\ p \in WfOf(ar, f) <=> ar[p].wf = f
        /\ p \in WfOf(ar2, f) <=> ar2[p].wf = f
      BY DEF RfOf, WfOf
  <1>2. /\ \A r : r # p => (r \in RfOf(ar, f) <=> r \in RfOf(ar2, f))
        /\ \A r : r # p => (r \in WfOf(ar, f) <=> r \in WfOf(ar2, f))
      BY DEF RfOf, WfOf
  <1>3. /\ IsFiniteSet(RfOf(ar, f)) /\ IsFiniteSet(RfOf(ar2, f))
        /\ IsFiniteSet(WfOf(ar, f)) /\ IsFiniteSet(WfOf(ar2, f))
      BY Finite
  <1>4. Cardinality(RfOf(ar2, f)) = Cardinality(RfOf(ar, f))
           - (IF p \in RfOf(ar, f) THEN 1 ELSE 0) + (IF p \in RfOf(ar2, f) THEN 1 ELSE 0)
      BY <1>2, <1>3, ChangeAt
  <1>5. Cardinality(WfOf(ar2, f)) = Cardinality(WfOf(ar, f))
           - (IF p \in WfOf(ar, f) THEN 1 ELSE 0) + (IF p \in WfOf(ar2, f) THEN 1 ELSE 0)
      BY <1>2, <1>3, ChangeAt
  <1> QED BY <1>1, <1>4, <1>5

\* A file without references is in no descriptor and no local variable.
LEMMA NoReference ==
  ASSUME NEW of, NEW ar, NEW f, RefsOf(of, ar, f) = 0
  PROVE  /\ \A p \in Procs, d \in Fds : of[p][d] # f
         /\ \A p \in Procs : ar[p].rf # f /\ ar[p].wf # f
  <1>1. /\ Cardinality(Cells(of, f)) = 0 /\ Cardinality(RfOf(ar, f)) = 0
        /\ Cardinality(WfOf(ar, f)) = 0
      BY Finite DEF RefsOf
  <1>2. Cells(of, f) = {} /\ RfOf(ar, f) = {} /\ WfOf(ar, f) = {}
      BY <1>1, Finite, FS_EmptySet
  <1>3. ASSUME NEW p \in Procs, NEW d \in Fds PROVE of[p][d] # f
      <2>1. <<p, d>> \notin Cells(of, f)
          BY <1>2
      <2> QED BY <2>1 DEF Cells
  <1>4. ASSUME NEW p \in Procs PROVE ar[p].rf # f /\ ar[p].wf # f
      BY <1>2 DEF RfOf, WfOf
  <1> QED BY <1>3, <1>4

\* fork(): the child's descriptors are as many references more as the parent's.
Copied(of, of2, p, c, f) ==
  /\ \A e \in Fds : of[c][e] # f /\ of2[c][e] = of[p][e]
  /\ \A r \in Procs, e \in Fds : r # c => of2[r][e] = of[r][e]

LEMMA CopyCells ==
  ASSUME NEW of, NEW of2, NEW p \in Procs, NEW c \in Procs, NEW f,
         Copied(of, of2, p, c, f)
  PROVE  Cardinality(Cells(of2, f))
           = Cardinality(Cells(of, f)) + Cardinality({d \in Fds : of[p][d] = f})
  <1> DEFINE D == {d \in Fds : of[p][d] = f}
             E == {r \in {c} \X Fds : of2[c][r[2]] = f}
             g == [d \in D |-> <<c, d>>]
  <1> USE DEF Copied
  <1>1. IsFiniteSet(D)
      <2>1. IsFiniteSet(Fds) /\ D \in SUBSET Fds
          BY PipeAssumption, FS_Interval DEF Fds
      <2> QED BY <2>1, FS_Subset
  <1>2. IsFiniteSet(E) /\ Cardinality(E) = Cardinality(D)
      <2>1. g \in Bijection(D, E)
          <3>1. \A d \in D : <<c, d>> \in E
              OBVIOUS
          <3>2. \A r \in E : r[2] \in D /\ r = <<c, r[2]>>
              OBVIOUS
          <3>3. \A d, e \in D : <<c, d>> = <<c, e>> => d = e
              OBVIOUS
          <3> HIDE DEF D, E
          <3>4. g \in [D -> E] /\ \A d \in D : g[d] = <<c, d>>
              BY <3>1
          <3>5. g \in Injection(D, E)
              BY <3>3, <3>4 DEF Injection, IsInjective
          <3>6. g \in Surjection(D, E)
              BY <3>2, <3>4 DEF Surjection
          <3> QED BY <3>5, <3>6 DEF Bijection
      <2> HIDE DEF D, E, g
      <2> QED BY <1>1, <2>1, FS_Bijection DEF ExistsBijection
  <1>3. Cells(of2, f) = Cells(of, f) \cup E
      <2>1. ASSUME NEW r \in Procs \X Fds
            PROVE  r \in Cells(of2, f) <=> r \in Cells(of, f) \/ r \in E
          <3>1. r[1] \in Procs /\ r[2] \in Fds /\ r = <<r[1], r[2]>>
              OBVIOUS
          <3>2. CASE r[1] = c
              <4>1. r \notin Cells(of, f)
                  BY <3>1, <3>2 DEF Cells
              <4>2. r \in E <=> of2[c][r[2]] = f
                  BY <3>1, <3>2
              <4> QED BY <3>2, <4>1, <4>2 DEF Cells
          <3>3. CASE r[1] # c
              <4>1. r \notin E
                  BY <3>3
              <4>2. of2[r[1]][r[2]] = of[r[1]][r[2]]
                  BY <3>1, <3>3
              <4> QED BY <4>1, <4>2 DEF Cells
          <3> QED BY <3>2, <3>3
      <2>2. E \subseteq Procs \X Fds
          OBVIOUS
      <2> HIDE DEF E
      <2> QED BY <2>1, <2>2 DEF Cells
  <1>4. Cells(of, f) \cap E = {}
      <2>1. ASSUME NEW r \in E PROVE r \notin Cells(of, f)
          <3>1. r[1] = c /\ r[2] \in Fds
              BY <2>1
          <3> QED BY <3>1 DEF Cells
      <2> QED BY <2>1
  <1>5. IsFiniteSet(Cells(of, f)) /\ Cardinality(Cells(of, f)) \in Nat
      BY Finite
  <1> HIDE DEF E
  <1>6. Cardinality(Cells(of, f) \cup E) = Cardinality(Cells(of, f)) + Cardinality(E)
                                           - Cardinality(Cells(of, f) \cap E)
      BY <1>2, <1>5, FS_Union
  <1>7. Cardinality(Cells(of, f) \cap E) = 0
      BY <1>4, FS_EmptySet
  <1>8. Cardinality(D) \in Nat
      BY <1>1, FS_CardinalityType
  <1> HIDE DEF D
  <1>9. Cardinality(Cells(of2, f)) = Cardinality(Cells(of, f)) + Cardinality(D)
      BY <1>2, <1>3, <1>5, <1>6, <1>7, <1>8
  <1> QED BY <1>9 DEF D

\* The lowest of a set of numbers.
LEMMA LowestIs ==
  ASSUME NEW S \in SUBSET Nat, S # {}
  PROVE  (CHOOSE d \in S : \A e \in S : d <= e) \in S
  <1> DEFINE R == {ss \in Nat \X Nat : ss[1] < ss[2]}
  <1>1. IsWellFoundedOn(R, Nat)
      BY NatLessThanWellFounded DEF OpToRel
  <1>2. PICK x \in S : \A y \in S : ~(<<y, x>> \in R)
      BY <1>1, WFMin
  <1>3. ASSUME NEW y \in S PROVE x <= y
      <2>1. <<y, x>>[1] = y /\ <<y, x>>[2] = x /\ <<y, x>> \in Nat \X Nat
          OBVIOUS
      <2>2. y < x => <<y, x>> \in R
          BY <2>1
      <2> QED BY <1>2, <2>2
  <1> QED BY <1>3

-----------------------------------------------------------------------------
\* What the invariant says, in the forms the steps need.

LEMMA RefsAre == \A f : Refs(f) = RefsOf(ofile, arg, f)
  BY DEF Refs, RefsOf, Cells, RfOf, WfOf

\* What is referred to has a count, what has none is not referred to.
LEMMA Referenced ==
  ASSUME IInv, NEW f \in Files
  PROVE  /\ file[f].ref \in Nat /\ file[f].ref = RefsOf(ofile, arg, f)
         /\ file[f].ref = 0 => /\ \A p \in Procs, d \in Fds : ofile[p][d] # f
                               /\ \A p \in Procs : arg[p].rf # f /\ arg[p].wf # f
  <1>1. file[f].ref \in Nat
      BY DEF IInv, TypeOK
  <1>2. file[f].ref = RefsOf(ofile, arg, f)
      BY RefsAre DEF IInv, RefsExact
  <1> QED BY <1>1, <1>2, NoReference

\* Where a process and its local variables are.
LEMMA ArgIs ==
  ASSUME IInv, NEW p \in Procs
  PROVE  /\ arg[p].rf \in Files \cup {NoFile} /\ arg[p].wf \in Files \cup {NoFile}
         /\ arg[p].pipe \in Pages \cup {None} /\ arg[p].writable \in BOOLEAN
         /\ arg[p].i \in Nat /\ arg[p].n \in Nat /\ arg[p].i <= arg[p].n
         /\ pc[p] \in Points /\ killed[p] \in BOOLEAN
         /\ DOMAIN arg = Procs /\ DOMAIN pc = Procs
  BY DEF IInv, TypeOK, Typed, ArgType

LEMMA PageIs ==
  ASSUME IInv, NEW q \in Pages
  PROVE  /\ pi[q].used \in BOOLEAN /\ pi[q].lock \in Procs \cup {None}
         /\ pi[q].nread \in Index /\ pi[q].nwrite \in Index
         /\ pi[q].readopen \in BOOLEAN /\ pi[q].writeopen \in BOOLEAN
         /\ pi[q].data \in Buffers /\ Count(q) = Dist(pi[q].nwrite, pi[q].nread)
         /\ Count(q) <= PIPESIZE /\ DOMAIN pi = Pages /\ pi[q] \in PipeType
  BY DEF IInv, TypeOK, Typed, PipeType, Index, Buffers, Stored, Count, Dist

LEMMA FileIs ==
  ASSUME IInv, NEW f \in Files
  PROVE  /\ file[f].ref \in Nat /\ file[f].type \in {"FD_NONE", "FD_PIPE"}
         /\ file[f].writable \in BOOLEAN /\ file[f].pipe \in Pages \cup {None}
         /\ DOMAIN file = Files /\ file[f] \in FileType
  BY DEF IInv, TypeOK, FileType

LEMMA OpenIs ==
  ASSUME IInv, NEW p \in Procs, NEW d \in Fds
  PROVE  /\ ofile[p][d] \in Files \cup {NoFile}
         /\ ofile[p][d] # NoFile =>
              /\ ofile[p][d] \in Files /\ file[ofile[p][d]].type = "FD_PIPE"
              /\ file[ofile[p][d]].pipe \in Pages /\ file[ofile[p][d]].ref \in Nat \ {0}
         /\ DOMAIN ofile = Procs /\ DOMAIN ofile[p] = Fds
  <1>1. /\ ofile[p][d] \in Files \cup {NoFile}
        /\ DOMAIN ofile = Procs /\ DOMAIN ofile[p] = Fds
      BY DEF IInv, TypeOK
  <1>2. ASSUME ofile[p][d] # NoFile
        PROVE  /\ ofile[p][d] \in Files /\ file[ofile[p][d]].type = "FD_PIPE"
               /\ file[ofile[p][d]].pipe \in Pages /\ file[ofile[p][d]].ref \in Nat \ {0}
      <2>1. ofile[p][d] \in Files /\ file[ofile[p][d]].type = "FD_PIPE"
          BY <1>1, <1>2 DEF IInv, Opened
      <2>2. file[ofile[p][d]].pipe \in Pages
          BY <2>1 DEF IInv, Entries
      <2> QED BY <2>1, <2>2, Referenced
  <1> QED BY <1>1, <1>2

\* The pipe a process is reading or writing, and the end it has open.
LEMMA UserIs ==
  ASSUME IInv, NEW p \in Procs, InPipe(p)
  PROVE  /\ arg[p].pipe \in Pages /\ pi[arg[p].pipe].used
         /\ IF WriteSide(p) THEN pi[arg[p].pipe].writeopen ELSE pi[arg[p].pipe].readopen
         /\ arg[p].rf = NoFile /\ arg[p].wf = NoFile
         /\ \A r \in Procs : ~Closer(r, arg[p].pipe, WriteSide(p))
  <1>1. PICK d \in Fds : /\ ofile[p][d] # NoFile
                         /\ file[ofile[p][d]].pipe = arg[p].pipe
                         /\ file[ofile[p][d]].writable = WriteSide(p)
      BY DEF IInv, Users
  <1> DEFINE f == ofile[p][d]
             q == arg[p].pipe
             w == WriteSide(p)
  <1>2. /\ f \in Files /\ file[f].type = "FD_PIPE" /\ file[f].ref > 0
        /\ file[f].pipe = q /\ file[f].writable = w /\ q \in Pages /\ w \in BOOLEAN
      BY <1>1, OpenIs DEF WriteSide
  <1> HIDE DEF f
  <1>3. EndOpen(q, w)
      BY <1>2 DEF EndOpen
  <1>4. /\ pi[q].used
        /\ IF w THEN pi[q].writeopen ELSE pi[q].readopen
      BY <1>2, <1>3, PageIs DEF IInv, EndsMatch
  <1>5. \A r \in Procs : ~Closer(r, q, w)
      BY <1>2 DEF IInv, OneEnd, EndFile
  <1>6. arg[p].rf = NoFile /\ arg[p].wf = NoFile
      BY DEF IInv, Locals, InPipe
  <1> QED BY <1>2, <1>4, <1>5, <1>6

LEMMA InitIInv == Init => IInv
  <1> SUFFICES ASSUME Init PROVE IInv
      OBVIOUS
  <1>1. PIPESIZE \in Nat \ {0} /\ WRAP \in Nat /\ WRAP > PIPESIZE /\ WRAP % PIPESIZE = 0
      BY PipeAssumption
  <1>2. /\ NoArg \in ArgType /\ Junk \in PipeType /\ 0 \in Index
        /\ Junk.lock = None /\ ~Junk.used /\ ~Junk.readopen /\ ~Junk.writeopen
        /\ Junk.nread = 0 /\ Junk.nwrite = 0
        /\ NoArg.rf = NoFile /\ NoArg.wf = NoFile /\ NoArg.pipe = None /\ ~NoArg.writable
        /\ NoArg.i = 0 /\ NoArg.n = 0 /\ \A f \in Files : f # NoFile
      BY <1>1 DEF NoArg, ArgType, Junk, PipeType, NoFile, Files, Index
  <1>3. /\ \A p \in Procs : arg[p] = NoArg /\ pc[p] \in {"user", "unused"}
        /\ \A p \in Procs, d \in Fds : ofile[p][d] = NoFile
        /\ \A q \in Pages : pi[q] = Junk
        /\ \A f \in Files : file[f].ref = 0 /\ file[f].type = "FD_NONE"
        /\ owed = {}
      BY DEF Init
  <1>4. Typed
      BY <1>2 DEF Init, Typed, Points
  <1>5. TypeOK
      <2>1. \A q \in Pages : Count(q) = 0
          BY <1>1, <1>2, <1>3 DEF Count
      <2> QED BY <1>1, <1>2, <1>3, <2>1 DEF Init, TypeOK
  <1>6. Entries /\ Locals /\ Fresh /\ Opened
      BY <1>2, <1>3 DEF Entries, Locals, Fresh, Opened, IOPoints
  <1>7. OneEnd /\ EndsMatch
      <2>1. None \notin Pages
          BY PipeAssumption
      <2>2. ASSUME NEW q \in Pages, NEW w \in BOOLEAN
            PROVE  /\ \A f \in Files : ~EndFile(f, q, w)
                   /\ \A p \in Procs : ~Closer(p, q, w)
          BY <1>2, <1>3, <2>1 DEF EndFile, Closer
      <2>3. \A q \in Pages, w \in BOOLEAN : ~EndOpen(q, w)
          BY <2>2 DEF EndOpen, EndFile, Closer
      <2>4. \A q \in Pages : ~EndOpen(q, TRUE) /\ ~EndOpen(q, FALSE)
          BY <2>3
      <2>5. \A q \in Pages : ~pi[q].readopen /\ ~pi[q].writeopen /\ ~pi[q].used
          BY <1>2, <1>3
      <2>6. EndsMatch
          BY <2>4, <2>5 DEF EndsMatch
      <2> QED BY <2>2, <2>6 DEF OneEnd
  <1>8. RefsExact
      <2>1. ASSUME NEW f \in Files PROVE RefsOf(ofile, arg, f) = 0
          <3>1. Cells(ofile, f) = {}
              BY <1>2, <1>3 DEF Cells
          <3>2. RfOf(arg, f) = {} /\ WfOf(arg, f) = {}
              BY <1>2, <1>3 DEF RfOf, WfOf
          <3> QED BY <3>1, <3>2, FS_EmptySet DEF RefsOf
      <2> QED BY <1>3, <2>1, RefsAre DEF RefsExact
  <1>9. Users /\ Locked /\ Testing /\ Sleeping
      BY <1>2, <1>3 DEF Users, InPipe, Locked, LockPoints, Testing, Sleeping
  <1> QED BY <1>4, <1>5, <1>6, <1>7, <1>8, <1>9 DEF IInv

-----------------------------------------------------------------------------
\* Steps that touch one half of the state.

\* What a step of read() or write() does to a process: nothing; it returns,
\* goes on, or begins with a descriptor of its own.
IOMove(r) ==
  \/ pc'[r] = pc[r] /\ arg'[r] = arg[r]
  \/ pc[r] \in IOPoints /\ pc'[r] = "user" /\ arg'[r] = NoArg
  \/ /\ pc[r] \in IOPoints /\ pc'[r] \in IOPoints /\ WriteSide(r)' = WriteSide(r)
     /\ arg'[r].rf = arg[r].rf /\ arg'[r].wf = arg[r].wf
     /\ arg'[r].pipe = arg[r].pipe /\ arg'[r].writable = arg[r].writable
  \/ /\ pc[r] = "user" /\ pc'[r] \in IOPoints
     /\ arg'[r].rf = NoFile /\ arg'[r].wf = NoFile /\ ~arg'[r].writable
     /\ \E d \in Fds : /\ ofile[r][d] # NoFile
                       /\ arg'[r].pipe = file[ofile[r][d]].pipe
                       /\ file[ofile[r][d]].writable = WriteSide(r)'

\* Reading and writing leave the files alone.
LEMMA IOStep ==
  ASSUME IInv, UNCHANGED <<file, ofile>>,
         \A q \in Pages : /\ pi'[q].used = pi[q].used
                          /\ pi'[q].readopen = pi[q].readopen
                          /\ pi'[q].writeopen = pi[q].writeopen,
         \A r \in Procs : IOMove(r)
  PROVE  /\ Entries' /\ Locals' /\ Fresh' /\ Opened' /\ OneEnd' /\ EndsMatch'
         /\ RefsExact' /\ Users'
  <1>1. /\ \A r \in Procs : pc[r] \in {"user", "unused"} => arg[r] = NoArg
        /\ NoArg.rf = NoFile /\ NoArg.wf = NoFile /\ NoArg.pipe = None /\ ~NoArg.writable
        /\ NoArg.i = 0 /\ NoArg.n = 0 /\ None \notin Pages
      BY PipeAssumption DEF IInv, Locals, NoArg
  <1>2. \A r \in Procs : pc[r] \in IOPoints =>
                          arg[r].rf = NoFile /\ arg[r].wf = NoFile /\ arg[r].pipe \in Pages
      BY UserIs DEF InPipe, IOPoints
  <1>3. ASSUME NEW r \in Procs PROVE arg'[r].rf = arg[r].rf /\ arg'[r].wf = arg[r].wf
      BY <1>1, <1>2 DEF IOMove
  <1>4. ASSUME NEW r \in Procs, NEW q \in Pages, NEW w
        PROVE  Closer(r, q, w)' <=> Closer(r, q, w)
      BY <1>1, <1>2 DEF IOMove, Closer, InPipe, IOPoints
  <1>5. Entries' /\ Opened'
      BY DEF IInv, Entries, Opened
  <1>6. ASSUME NEW r \in Procs, pc'[r] \notin IOPoints \cup {"user"} \/ pc[r] \notin IOPoints \cup {"user"}
        PROVE  pc'[r] = pc[r] /\ arg'[r] = arg[r]
      BY <1>6 DEF IOMove
  <1>7. Fresh'
      <2>1. ASSUME NEW p \in Procs, pc'[p] \in {"pipe_wf", "pipe_page"}
            PROVE  pc[p] \in {"pipe_wf", "pipe_page"} /\ arg'[p] = arg[p]
          BY <1>6, <2>1 DEF IOPoints
      <2> QED BY <1>3, <2>1 DEF IInv, Fresh
  <1>8. OneEnd'
      BY <1>4 DEF IInv, OneEnd, EndFile
  <1>9. EndsMatch'
      <2>1. ASSUME NEW q \in Pages, NEW w PROVE EndOpen(q, w)' <=> EndOpen(q, w)
          <3>1. EndOpen(q, w) <=>
                  \/ \E f \in Files : file[f].ref > 0 /\ EndFile(f, q, w)
                  \/ \E p \in Procs : Closer(p, q, w)
              BY DEF EndOpen, EndFile, Closer
          <3>2. EndOpen(q, w)' <=>
                  \/ \E f \in Files : file[f].ref > 0 /\ EndFile(f, q, w)
                  \/ \E p \in Procs : Closer(p, q, w)'
              BY DEF EndOpen, EndFile, Closer
          <3> QED BY <1>4, <3>1, <3>2
      <2>2. \A q \in Pages : /\ EndOpen(q, TRUE)' <=> EndOpen(q, TRUE)
                             /\ EndOpen(q, FALSE)' <=> EndOpen(q, FALSE)
          BY <2>1
      <2>3. \A q \in Pages : /\ pi'[q].readopen <=> EndOpen(q, FALSE)
                             /\ pi'[q].writeopen <=> EndOpen(q, TRUE)
                             /\ pi'[q].used <=> pi'[q].readopen \/ pi'[q].writeopen
          BY DEF IInv, EndsMatch
      <2> QED BY <2>2, <2>3 DEF EndsMatch
  <1>10. RefsExact'
      <2>1. ASSUME NEW f PROVE Refs(f)' = Refs(f)
          <3>1. RfOf(arg', f) = RfOf(arg, f) /\ WfOf(arg', f) = WfOf(arg, f)
              BY <1>3 DEF RfOf, WfOf
          <3> QED BY <3>1, RefsAre DEF RefsOf, Refs, RfOf, WfOf
      <2> QED BY <2>1 DEF IInv, RefsExact
  <1>11. Users'
      <2>1. ASSUME NEW p \in Procs, InPipe(p)'
            PROVE  \E d \in Fds : /\ ofile[p][d] # NoFile
                                  /\ file[ofile[p][d]].pipe = arg'[p].pipe
                                  /\ file[ofile[p][d]].writable = WriteSide(p)'
          BY <2>1 DEF IInv, Users, IOMove, InPipe, IOPoints, WriteSide
      <2> QED BY <2>1 DEF Users
  <1>12. Locals'
      <2>1. ASSUME NEW r \in Procs, pc'[r] = pc[r] /\ arg'[r] = arg[r]
            PROVE  /\ pc'[r] \in {"unused", "user"} => arg'[r] = NoArg
                   /\ pc'[r] = "unused" => \A d \in Fds : ofile'[r][d] = NoFile
                   /\ pc'[r] = "pipe_wf" => arg'[r].rf # NoFile /\ arg'[r].wf = NoFile
                   /\ pc'[r] = "pipe_page" =>
                        arg'[r].rf # NoFile /\ arg'[r].wf # NoFile /\ arg'[r].rf # arg'[r].wf
                   /\ arg'[r].rf # NoFile \/ arg'[r].wf # NoFile =>
                        pc'[r] \in {"pipe_wf", "pipe_page", "close"}
                   /\ arg'[r].pipe # None => pc'[r] \in {"close", "exit"} \cup IOPoints
                   /\ pc'[r] \in IOPoints => arg'[r].pipe # None
                   /\ arg'[r].pipe = None => ~arg'[r].writable
                   /\ pc'[r] \notin IOPoints => arg'[r].i = 0 /\ arg'[r].n = 0
          BY <2>1 DEF IInv, Locals
      <2>2. ASSUME NEW r \in Procs, pc'[r] = "user" /\ arg'[r] = NoArg
            PROVE  /\ pc'[r] \in {"unused", "user"} /\ arg'[r] = NoArg
                   /\ arg'[r].rf = NoFile /\ arg'[r].wf = NoFile /\ arg'[r].pipe = None
                   /\ ~arg'[r].writable /\ arg'[r].i = 0 /\ arg'[r].n = 0
          BY <1>1, <2>2
      <2>3. ASSUME NEW r \in Procs, pc'[r] \in IOPoints, pc'[r] # pc[r] \/ arg'[r] # arg[r]
            PROVE  arg'[r].rf = NoFile /\ arg'[r].wf = NoFile /\ arg'[r].pipe \in Pages
          BY <1>1, <1>2, <2>3, OpenIs DEF IOMove, IOPoints
      <2>4. \A r \in Procs : \/ pc'[r] = pc[r] /\ arg'[r] = arg[r]
                             \/ pc'[r] = "user" /\ arg'[r] = NoArg
                             \/ pc'[r] \in IOPoints
          BY DEF IOMove
      <2> QED BY <1>1, <2>1, <2>2, <2>3, <2>4 DEF Locals, IOPoints
  <1> QED BY <1>5, <1>7, <1>8, <1>9, <1>10, <1>11, <1>12

\* A step that leaves the pipes alone, and those that hold their locks or sleep.
LEMMA QuietStep ==
  ASSUME IInv, UNCHANGED <<pi, owed>>,
         \A r \in Procs :
           pc[r] \in LockPoints \/ pc'[r] \in LockPoints \cup {"read_asleep", "write_asleep"}
             => pc'[r] = pc[r] /\ arg'[r] = arg[r]
  PROVE  /\ Locked' /\ Testing' /\ Sleeping'
         /\ \A q \in Pages : Count(q)' = Count(q)
  <1>1. \A r \in Procs :
          pc[r] \in LockPoints \/ pc'[r] \in LockPoints \cup {"read_asleep", "write_asleep"}
            => pc'[r] = pc[r] /\ arg'[r] = arg[r]
      OBVIOUS
  <1>2. \A q \in Pages : /\ pi[q].lock \in Procs \cup {None}
                         /\ pi[q].lock # None =>
                              /\ pc[pi[q].lock] \in LockPoints /\ pi[q].lock \in Procs
                              /\ pc'[pi[q].lock] = pc[pi[q].lock]
                              /\ arg'[pi[q].lock] = arg[pi[q].lock]
      BY <1>1, PageIs DEF IInv, Locked
  <1>3. Locked'
      BY <1>1, <1>2 DEF IInv, Locked
  <1>4. Testing'
      BY <1>1 DEF IInv, Testing, LockPoints, ReaderWaits, Empty
  <1>5. Sleeping'
      <2>1. ASSUME NEW r \in Procs, pc'[r] = "read_asleep" PROVE ReaderMaySleep(r)'
          <3>1. /\ pc[r] = "read_asleep" /\ arg'[r] = arg[r] /\ ReaderMaySleep(r)
                /\ arg[r].pipe \in Pages
              BY <1>1, <2>1, UserIs DEF IInv, Sleeping, IOPoints, InPipe
          <3> QED BY <1>2, <3>1 DEF ReaderMaySleep, ReaderWaits, Empty, WriteSide
      <2>2. ASSUME NEW r \in Procs, pc'[r] = "write_asleep" PROVE WriterMaySleep(r)'
          <3>1. /\ pc[r] = "write_asleep" /\ arg'[r] = arg[r] /\ WriterMaySleep(r)
                /\ arg[r].pipe \in Pages
              BY <1>1, <2>2, UserIs DEF IInv, Sleeping, IOPoints, InPipe
          <3> QED BY <1>2, <3>1 DEF WriterMaySleep, WriterWaits, Full
      <2> QED BY <2>1, <2>2 DEF Sleeping
  <1>6. \A q \in Pages : Count(q)' = Count(q)
      BY DEF Count
  <1> QED BY <1>3, <1>4, <1>5, <1>6

\* What a step of p at the pipe q does to the other processes and pipes.
OthersWake(p) ==
  \A r \in Procs \ {p} : /\ arg'[r] = arg[r]
                         /\ \/ pc'[r] = pc[r]
                            \/ pc[r] = "read_asleep" /\ pc'[r] = "read"
                            \/ pc[r] = "write_asleep" /\ pc'[r] = "write"
OtherPages(q) ==
  \A s \in Pages \ {q} : pi'[s] = pi[s] /\ (s \in owed' <=> s \in owed)

\* What has to be shown of p and of the others that sleep on q afterwards.
MaySleep(r, q) ==
  arg'[r].pipe = q => /\ pc'[r] = "read_asleep" => ReaderMaySleep(r)'
                      /\ pc'[r] = "write_asleep" => WriterMaySleep(r)'
SleepersMay(p, q) == \A r \in Procs \ {p} : MaySleep(r, q)

\* A step of p at the pipe q, which p has locked or finds unlocked: what is
\* to be shown of p and of those that sleep on q.
LEMMA PipeStep ==
  ASSUME IInv, NEW p \in Procs, NEW q \in Pages,
         OthersWake(p),
         OtherPages(q),
         pi[q].lock \in {None, p}, pi'[q].lock \in {None, p},
         InPipe(p) => arg[p].pipe = q,
         InPipe(p)' => arg'[p].pipe = q,
         pc'[p] \in LockPoints <=> pi'[q].lock = p,
         pc'[p] = "read_sleep" => ReaderWaits(p)',
         pc'[p] = "write_body" => arg'[p].i < arg'[p].n /\ pi'[q].readopen,
         MaySleep(p, q), SleepersMay(p, q)
  PROVE  Locked' /\ Testing' /\ Sleeping'
  <1>1. \A r \in Procs : pc[r] \in IOPoints => arg[r].pipe \in Pages
      BY UserIs DEF InPipe, IOPoints
  <1>2. /\ pc[p] \in IOPoints => arg[p].pipe = q
        /\ pc'[p] \in IOPoints => arg'[p].pipe = q
        /\ None \notin Procs
      BY PipeAssumption DEF InPipe, IOPoints
  <1>3. ASSUME NEW r \in Procs, r # p, pc'[r] \in LockPoints
        PROVE  /\ pc[r] = pc'[r] /\ arg'[r] = arg[r] /\ arg[r].pipe \in Pages \ {q}
               /\ pi[arg[r].pipe].lock = r /\ pi'[arg[r].pipe] = pi[arg[r].pipe]
      <2>1. pc[r] = pc'[r] /\ arg'[r] = arg[r]
          BY <1>3 DEF LockPoints, OthersWake
      <2>2. arg[r].pipe \in Pages /\ pi[arg[r].pipe].lock = r
          BY <1>1, <1>3, <2>1 DEF IInv, Locked, LockPoints, IOPoints
      <2>3. arg[r].pipe # q
          BY <1>2, <1>3, <2>2
      <2> QED BY <2>1, <2>2, <2>3 DEF OtherPages
  <1>4. ASSUME NEW s \in Pages, s # q, pi[s].lock # None
        PROVE  /\ pi[s].lock \in Procs \ {p} /\ pc[pi[s].lock] \in LockPoints
               /\ pc'[pi[s].lock] = pc[pi[s].lock] /\ arg'[pi[s].lock] = arg[pi[s].lock]
               /\ arg[pi[s].lock].pipe = s
      <2>1. /\ pi[s].lock \in Procs /\ pc[pi[s].lock] \in LockPoints
            /\ arg[pi[s].lock].pipe = s
          BY <1>4, PageIs DEF IInv, Locked
      <2>2. pi[s].lock # p
          BY <1>2, <1>4, <2>1 DEF LockPoints, IOPoints
      <2> QED BY <2>1, <2>2 DEF LockPoints, OthersWake
  <1>5. Locked'
      <2>1. ASSUME NEW r \in Procs, pc'[r] \in LockPoints
            PROVE  pi'[arg'[r].pipe].lock = r
          <3>1. CASE r = p
              BY <1>2, <2>1, <3>1 DEF LockPoints, IOPoints
          <3>2. CASE r # p
              BY <1>3, <2>1, <3>2
          <3> QED BY <3>1, <3>2
      <2>2. ASSUME NEW s \in Pages, pi'[s].lock # None
            PROVE  pc'[pi'[s].lock] \in LockPoints /\ arg'[pi'[s].lock].pipe = s
          <3>1. CASE s = q
              BY <1>2, <2>2, <3>1 DEF LockPoints, IOPoints
          <3>2. CASE s # q
              BY <1>4, <2>2, <3>2 DEF OtherPages
          <3> QED BY <3>1, <3>2
      <2> QED BY <2>1, <2>2 DEF Locked
  <1>6. Testing'
      <2>1. ASSUME NEW r \in Procs, r # p, pc'[r] \in {"read_sleep", "write_body"}
            PROVE  /\ pc[r] = pc'[r] /\ arg'[r] = arg[r]
                   /\ pi'[arg[r].pipe] = pi[arg[r].pipe]
          BY <1>3, <2>1 DEF LockPoints
      <2>2. ASSUME NEW r \in Procs, r # p
            PROVE  /\ pc'[r] = "read_sleep" => ReaderWaits(r)'
                   /\ pc'[r] = "write_body" => /\ arg'[r].i < arg'[r].n
                                               /\ pi'[arg'[r].pipe].readopen
          BY <2>1, <2>2 DEF IInv, Testing, ReaderWaits, Empty
      <2>3. pc'[p] = "write_body" => arg'[p].i < arg'[p].n /\ pi'[arg'[p].pipe].readopen
          BY <1>2 DEF IOPoints
      <2> QED BY <2>2, <2>3 DEF Testing
  <1>7. Sleeping'
      <2>1. ASSUME NEW r \in Procs, pc'[r] \in {"read_asleep", "write_asleep"}, arg'[r].pipe # q
            PROVE  /\ pc[r] = pc'[r] /\ arg'[r] = arg[r] /\ arg[r].pipe \in Pages
                   /\ pi'[arg[r].pipe] = pi[arg[r].pipe]
                   /\ arg[r].pipe \in owed' <=> arg[r].pipe \in owed
                   /\ pi[arg[r].pipe].lock # None =>
                        /\ pc'[pi[arg[r].pipe].lock] = pc[pi[arg[r].pipe].lock]
                        /\ arg'[pi[arg[r].pipe].lock] = arg[pi[arg[r].pipe].lock]
          <3>1. r # p
              BY <1>2, <2>1 DEF IOPoints
          <3>2. pc[r] = pc'[r] /\ arg'[r] = arg[r] /\ arg[r].pipe \in Pages \ {q}
              BY <1>1, <2>1, <3>1 DEF IOPoints, OthersWake
          <3> QED BY <1>4, <3>2 DEF OtherPages
      <2>2. ASSUME NEW r \in Procs, pc'[r] = "read_asleep" PROVE ReaderMaySleep(r)'
          <3>1. CASE arg'[r].pipe = q
              BY <2>2, <3>1 DEF MaySleep, SleepersMay
          <3>2. CASE arg'[r].pipe # q
              <4>1. ReaderMaySleep(r)
                  BY <2>1, <2>2, <3>2 DEF IInv, Sleeping
              <4> QED BY <2>1, <2>2, <3>2, <4>1
                      DEF ReaderMaySleep, ReaderWaits, Empty, WriteSide
          <3> QED BY <3>1, <3>2
      <2>3. ASSUME NEW r \in Procs, pc'[r] = "write_asleep" PROVE WriterMaySleep(r)'
          <3>1. CASE arg'[r].pipe = q
              BY <2>3, <3>1 DEF MaySleep, SleepersMay
          <3>2. CASE arg'[r].pipe # q
              <4>1. WriterMaySleep(r)
                  BY <2>1, <2>3, <3>2 DEF IInv, Sleeping
              <4> QED BY <2>1, <2>3, <3>2, <4>1 DEF WriterMaySleep, WriterWaits, Full
          <3> QED BY <3>1, <3>2
      <2> QED BY <2>2, <2>3 DEF Sleeping
  <1> QED BY <1>5, <1>6, <1>7

-----------------------------------------------------------------------------
\* The steps of read() and write().

\* The types again, when the files stay as they are.
LEMMA IOTypes ==
  ASSUME IInv, UNCHANGED <<file, ofile>>,
         arg' \in [Procs -> ArgType], \A r \in Procs : arg'[r].i <= arg'[r].n,
         pc' \in [Procs -> Points], pi' \in [Pages -> PipeType],
         \A q \in Pages : Count(q)' <= PIPESIZE,
         killed' \in [Procs -> BOOLEAN], got' \in [Pages -> Bytes \cup {None}],
         owed' \subseteq Pages
  PROVE  TypeOK' /\ Typed'
  <1>1. Typed'
      BY DEF Typed
  <1>2. \A r \in Procs : arg'[r].pipe \in Pages \cup {None}
      BY DEF ArgType
  <1> QED BY <1>1, <1>2 DEF IInv, TypeOK

LEMMA StartIOIInv ==
  ASSUME IInv, NEW p \in Procs, NEW d \in Fds, NEW n \in Sizes, StartIO(p, d, n)
  PROVE  IInv'
  <1> DEFINE f == ofile[p][d]
             w == file[f].writable
  <1>1. /\ f \in Files /\ f # NoFile /\ file[f].pipe \in Pages /\ w \in BOOLEAN
        /\ pc[p] = "user" /\ arg[p] = NoArg /\ n \in Nat
        /\ DOMAIN arg = Procs /\ DOMAIN pc = Procs
      BY OpenIs, FileIs, ArgIs, PipeAssumption DEF StartIO, Syscall, IInv, Locals
  <1>2. /\ arg'[p] = [NoArg EXCEPT !.pipe = file[f].pipe, !.n = n]
        /\ pc'[p] = IF w THEN "write" ELSE "read"
        /\ \A r \in Procs : r # p => arg'[r] = arg[r] /\ pc'[r] = pc[r]
        /\ UNCHANGED <<file, ofile, pi, killed, got, owed>>
      BY <1>1 DEF StartIO, Goto, observed
  <1>3. /\ arg'[p] \in ArgType /\ arg'[p].i = 0 /\ arg'[p].n = n
        /\ arg'[p].rf = NoFile /\ arg'[p].wf = NoFile /\ ~arg'[p].writable
        /\ arg'[p].pipe = file[f].pipe
      <2> HIDE DEF f, w
      <2>1. arg'[p] = [rf |-> NoFile, wf |-> NoFile, pipe |-> file[f].pipe,
                       writable |-> FALSE, i |-> 0, n |-> n]
          BY <1>2 DEF NoArg
      <2> QED BY <1>1, <2>1 DEF ArgType
  <1> HIDE DEF f, w
  <1>4. arg' \in [Procs -> ArgType] /\ pc' \in [Procs -> Points]
      <2>1. arg \in [Procs -> ArgType] /\ pc \in [Procs -> Points]
          BY DEF IInv, Typed
      <2>2. arg' \in [Procs -> ArgType]
          BY <1>1, <1>3, <2>1 DEF StartIO
      <2>3. pc' \in [Procs -> Points]
          BY <1>1, <2>1 DEF StartIO, Goto, Points, IOPoints
      <2> QED BY <2>2, <2>3
  <1>5. \A r \in Procs : arg'[r].i <= arg'[r].n
      <2>1. arg'[p].i <= arg'[p].n
          BY <1>1, <1>3
      <2> QED BY <1>2, <2>1, ArgIs
  <1>6. \A r \in Procs : IOMove(r)
      <2>1. WriteSide(p)' <=> w
          BY <1>2 DEF WriteSide
      <2>2. WriteSide(p)' = w
          BY <1>1, <2>1 DEF WriteSide
      <2>3. IOMove(p)
          BY <1>1, <1>2, <1>3, <2>2 DEF IOMove, f, w, IOPoints
      <2> QED BY <1>2, <2>3 DEF IOMove
  <1>7. /\ Entries' /\ Locals' /\ Fresh' /\ Opened' /\ OneEnd' /\ EndsMatch'
        /\ RefsExact' /\ Users'
      BY <1>2, <1>6, IOStep
  <1>8. /\ Locked' /\ Testing' /\ Sleeping'
        /\ \A q \in Pages : Count(q)' = Count(q)
      BY <1>1, <1>2, QuietStep DEF LockPoints
  <1>9. TypeOK' /\ Typed'
      <2>1. /\ pi' \in [Pages -> PipeType] /\ killed' \in [Procs -> BOOLEAN]
            /\ got' \in [Pages -> Bytes \cup {None}] /\ owed' \subseteq Pages
            /\ \A q \in Pages : Count(q)' <= PIPESIZE
          BY <1>2, <1>8, PageIs DEF IInv, Typed, TypeOK
      <2> QED BY <1>2, <1>4, <1>5, <2>1, IOTypes
  <1> QED BY <1>7, <1>8, <1>9 DEF IInv

LEMMA KillIInv ==
  ASSUME IInv, NEW p \in Procs, Kill(p)
  PROVE  IInv'
  <1>1. /\ \A r \in Procs : r # p => pc'[r] = pc[r]
        /\ pc'[p] = IF pc[p] = "read_asleep" THEN "read"
                    ELSE IF pc[p] = "write_asleep" THEN "write" ELSE pc[p]
        /\ UNCHANGED <<file, ofile, pi, arg, got, owed>>
        /\ DOMAIN pc = Procs
      BY ArgIs DEF Kill, observed
  <1>2. pc' \in [Procs -> Points]
      BY DEF Kill, IInv, Typed, Points, IOPoints
  <1>3. killed' \in [Procs -> BOOLEAN]
      BY DEF Kill, IInv, Typed
  <1>4. \A r \in Procs : IOMove(r)
      <2>1. IOMove(p)
          BY <1>1 DEF IOMove, IOPoints, WriteSide
      <2> QED BY <1>1, <2>1 DEF IOMove
  <1>5. /\ Entries' /\ Locals' /\ Fresh' /\ Opened' /\ OneEnd' /\ EndsMatch'
        /\ RefsExact' /\ Users'
      BY <1>1, <1>4, IOStep
  <1>6. /\ Locked' /\ Testing' /\ Sleeping'
        /\ \A q \in Pages : Count(q)' = Count(q)
      <2>1. \A r \in Procs :
              pc[r] \in LockPoints \/ pc'[r] \in LockPoints \cup {"read_asleep", "write_asleep"}
                => pc'[r] = pc[r] /\ arg'[r] = arg[r]
          BY <1>1 DEF LockPoints
      <2> QED BY <1>1, <2>1, QuietStep
  <1>7. TypeOK' /\ Typed'
      <2>1. /\ pi' \in [Pages -> PipeType] /\ arg' \in [Procs -> ArgType]
            /\ got' \in [Pages -> Bytes \cup {None}] /\ owed' \subseteq Pages
            /\ \A q \in Pages : Count(q)' <= PIPESIZE
            /\ \A r \in Procs : arg'[r].i <= arg'[r].n
          BY <1>1, <1>6, PageIs, ArgIs DEF IInv, Typed, TypeOK
      <2> QED BY <1>1, <1>2, <1>3, <2>1, IOTypes
  <1> QED BY <1>5, <1>6, <1>7 DEF IInv

\* A step of p inside piperead() or pipewrite().
LEMMA InsideStep ==
  ASSUME IInv, NEW p \in Procs, NEW q \in Pages, InPipe(p), arg[p].pipe = q,
         UNCHANGED <<file, ofile, killed>>,
         pc' \in [Procs -> Points], arg' \in [Procs -> ArgType],
         pi' \in [Pages -> PipeType], got' \in [Pages -> Bytes \cup {None}],
         owed' \subseteq Pages,
         OtherPages(q),
         pi'[q].used = pi[q].used, pi'[q].readopen = pi[q].readopen,
         pi'[q].writeopen = pi[q].writeopen,
         pi[q].lock \in {None, p}, pi'[q].lock \in {None, p}, Count(q)' <= PIPESIZE,
         OthersWake(p),
         \/ pc'[p] = "user" /\ arg'[p] = NoArg
         \/ /\ pc'[p] \in IOPoints /\ WriteSide(p)' = WriteSide(p)
            /\ arg'[p].rf = arg[p].rf /\ arg'[p].wf = arg[p].wf
            /\ arg'[p].pipe = arg[p].pipe /\ arg'[p].writable = arg[p].writable
            /\ arg'[p].i <= arg'[p].n,
         pc'[p] \in LockPoints <=> pi'[q].lock = p,
         pc'[p] = "read_sleep" => ReaderWaits(p)',
         pc'[p] = "write_body" => arg'[p].i < arg'[p].n /\ pi'[q].readopen,
         MaySleep(p, q), SleepersMay(p, q)
  PROVE  IInv'
  <1>1. pc[p] \in IOPoints /\ NoArg.i = 0 /\ NoArg.n = 0 /\ NoArg.pipe = None
      BY DEF InPipe, IOPoints, NoArg
  <1>2. \A r \in Procs : IOMove(r)
      <2>1. \A r \in Procs \ {p} : IOMove(r)
          BY DEF IOMove, IOPoints, WriteSide, OthersWake
      <2>2. IOMove(p)
          BY <1>1 DEF IOMove
      <2> QED BY <2>1, <2>2
  <1>3. /\ Entries' /\ Locals' /\ Fresh' /\ Opened' /\ OneEnd' /\ EndsMatch'
        /\ RefsExact' /\ Users'
      <2>1. \A s \in Pages : /\ pi'[s].used = pi[s].used
                             /\ pi'[s].readopen = pi[s].readopen
                             /\ pi'[s].writeopen = pi[s].writeopen
          BY DEF OtherPages
      <2> QED BY <1>2, <2>1, IOStep
  <1>4. Locked' /\ Testing' /\ Sleeping'
      <2>1. InPipe(p)' => arg'[p].pipe = q
          BY DEF InPipe
      <2> QED BY <2>1, PipeStep
  <1>5. TypeOK' /\ Typed'
      <2>1. \A r \in Procs : arg'[r].i <= arg'[r].n
          <3>1. arg'[p].i <= arg'[p].n
              BY <1>1
          <3> QED BY <3>1, ArgIs DEF OthersWake
      <2>2. \A s \in Pages : Count(s)' <= PIPESIZE
          <3>1. \A s \in Pages \ {q} : Count(s)' = Count(s)
              BY DEF Count, OtherPages
          <3> QED BY <3>1, PageIs
      <2>3. killed' \in [Procs -> BOOLEAN]
          BY DEF IInv, Typed
      <2> QED BY <2>1, <2>2, <2>3, IOTypes
  <1> QED BY <1>3, <1>4, <1>5 DEF IInv

\* What a process finds inside: its pipe, and the lock if it has it.
LEMMA InsideIs ==
  ASSUME IInv, NEW p \in Procs, InPipe(p)
  PROVE  /\ arg[p].pipe \in Pages
         /\ pc[p] \in LockPoints => pi[arg[p].pipe].lock = p
         /\ pi[arg[p].pipe].lock = p => pc[p] \in LockPoints
         /\ \A r \in Procs : arg[r].pipe = arg[p].pipe =>
              /\ pc[r] = "read_asleep" => ReaderMaySleep(r)
              /\ pc[r] = "write_asleep" => WriterMaySleep(r)
         /\ p # None
  <1>1. arg[p].pipe \in Pages /\ p # None
      BY UserIs, PipeAssumption
  <1> QED BY <1>1 DEF IInv, Locked, Sleeping

\* wakeup(): who sleeps on the pipe's address, and only those.
LEMMA WakeIs ==
  ASSUME pc \in [Procs -> Points], NEW q
  PROVE  /\ \A r \in Procs :
              WakeReaders(q, pc)[r] = IF pc[r] = "read_asleep" /\ arg[r].pipe = q
                                      THEN "read" ELSE pc[r]
         /\ \A r \in Procs :
              WakeWriters(q, pc)[r] = IF pc[r] = "write_asleep" /\ arg[r].pipe = q
                                      THEN "write" ELSE pc[r]
         /\ WakeReaders(q, pc) \in [Procs -> Points]
         /\ WakeWriters(q, pc) \in [Procs -> Points]
  BY DEF WakeReaders, WakeWriters, Wake, Points, IOPoints

\* Keeping the lock, and giving it back.
LEMMA HoldIs ==
  ASSUME IInv, NEW p \in Procs, NEW q \in Pages, arg[p].pipe = q,
         NEW point \in Points, Hold(p, point)
  PROVE  /\ pi' \in [Pages -> PipeType] /\ pc' \in [Procs -> Points] /\ arg' = arg
         /\ \A s \in Pages \ {q} : pi'[s] = pi[s]
         /\ pi'[q] = [pi[q] EXCEPT !.lock = p]
         /\ pc'[p] = point /\ \A r \in Procs \ {p} : pc'[r] = pc[r]
  <1>1. pi \in [Pages -> PipeType] /\ pc \in [Procs -> Points]
      BY DEF IInv, Typed
  <1>2. pi' = [pi EXCEPT ![q] = [@ EXCEPT !.lock = p]]
      BY DEF Hold
  <1>3. [pi[q] EXCEPT !.lock = p] \in PipeType
      BY <1>1 DEF PipeType
  <1>4. pi' \in [Pages -> PipeType] /\ pi'[q] = [pi[q] EXCEPT !.lock = p]
      BY <1>1, <1>2, <1>3
  <1> QED BY <1>1, <1>2, <1>4 DEF Hold, Goto

LEMMA ReturnIs ==
  ASSUME IInv, NEW p \in Procs, NEW q \in Pages, arg[p].pipe = q,
         NEW at \in [Procs -> Points], Return(p, pi[q], at)
  PROVE  /\ pi' \in [Pages -> PipeType] /\ pc' \in [Procs -> Points]
         /\ arg' \in [Procs -> ArgType]
         /\ \A s \in Pages \ {q} : pi'[s] = pi[s]
         /\ pi'[q] = [pi[q] EXCEPT !.lock = None]
         /\ pc'[p] = "user" /\ arg'[p] = NoArg
         /\ \A r \in Procs \ {p} : pc'[r] = at[r] /\ arg'[r] = arg[r]
  <1>1. pi \in [Pages -> PipeType] /\ arg \in [Procs -> ArgType]
      BY DEF IInv, Typed
  <1>2. [pi[q] EXCEPT !.lock = None] \in PipeType
      BY <1>1 DEF PipeType
  <1>3. NoArg \in ArgType
      BY DEF NoArg, ArgType
  <1>4. /\ pi' = [pi EXCEPT ![q] = [pi[q] EXCEPT !.lock = None]]
        /\ pc' = [at EXCEPT ![p] = "user"] /\ arg' = [arg EXCEPT ![p] = NoArg]
      BY DEF Return
  <1> QED BY <1>1, <1>2, <1>3, <1>4 DEF Points

\* The counters of a pipe decide how many bytes it holds.
LEMMA SameCount ==
  ASSUME NEW q \in Pages, pi'[q].nread = pi[q].nread, pi'[q].nwrite = pi[q].nwrite
  PROVE  Count(q)' = Count(q) /\ Empty(q)' = Empty(q) /\ Full(q)' = Full(q)
  BY DEF Count, Empty, Full

\* No byte moves and no end is closed.
SameBytes(q) ==
  /\ pi'[q].nread = pi[q].nread /\ pi'[q].nwrite = pi[q].nwrite
  /\ pi'[q].readopen = pi[q].readopen /\ pi'[q].writeopen = pi[q].writeopen

\* Nobody else is left asleep, or p's promise to wake them stands.
ReadersKept(p, q) ==
  \/ \A r \in Procs \ {p} : arg[r].pipe = q => pc'[r] # "read_asleep"
  \/ /\ q \in owed => q \in owed'
     /\ pi[q].lock = p /\ WriteSide(p) /\ arg[p].i > 0 =>
          q \in owed' \/ (pi'[q].lock = p /\ WriteSide(p)' /\ arg'[p].i > 0)
WritersKept(p, q) ==
  \/ \A r \in Procs \ {p} : arg[r].pipe = q => pc'[r] # "write_asleep"
  \/ pi[q].lock = p /\ pc[p] = "read_copy" => pi'[q].lock = p /\ pc'[p] = "read_copy"

\* Then those who sleep on have their reasons.
LEMMA SleepersStay ==
  ASSUME IInv, NEW p \in Procs, InPipe(p), NEW q \in Pages, arg[p].pipe = q,
         pi[q].lock \in {None, p}, SameBytes(q), OthersWake(p),
         ReadersKept(p, q), WritersKept(p, q)
  PROVE  SleepersMay(p, q)
  <1>1. /\ Empty(q)' = Empty(q) /\ Full(q)' = Full(q) /\ p # None
        /\ \A r \in Procs : arg[r].pipe = q =>
             /\ pc[r] = "read_asleep" => ReaderMaySleep(r)
             /\ pc[r] = "write_asleep" => WriterMaySleep(r)
      BY SameCount, InsideIs DEF SameBytes
  <1> SUFFICES ASSUME NEW r \in Procs, r # p, arg'[r].pipe = q
               PROVE  /\ pc'[r] = "read_asleep" => ReaderMaySleep(r)'
                      /\ pc'[r] = "write_asleep" => WriterMaySleep(r)'
      BY DEF SleepersMay, MaySleep
  <1>2. arg'[r] = arg[r] /\ arg[r].pipe = q
      BY DEF OthersWake
  <1>3. ASSUME pc'[r] = "read_asleep" PROVE ReaderMaySleep(r)'
      <2>1. pc[r] = "read_asleep" /\ ReaderMaySleep(r)
          BY <1>1, <1>2, <1>3 DEF OthersWake
      <2>2. \/ (Empty(q) /\ pi[q].writeopen) \/ q \in owed
            \/ pi[q].lock = p /\ WriteSide(p) /\ arg[p].i > 0
          BY <1>2, <2>1 DEF ReaderMaySleep, ReaderWaits
      <2>3. \/ (Empty(q)' /\ pi'[q].writeopen) \/ q \in owed'
            \/ pi'[q].lock = p /\ WriteSide(p)' /\ arg'[p].i > 0
          BY <1>1, <1>2, <1>3, <2>2 DEF SameBytes, ReadersKept
      <2> QED BY <1>1, <1>2, <2>3 DEF ReaderMaySleep, ReaderWaits, Empty, WriteSide
  <1>4. ASSUME pc'[r] = "write_asleep" PROVE WriterMaySleep(r)'
      <2>1. pc[r] = "write_asleep" /\ WriterMaySleep(r)
          BY <1>1, <1>2, <1>4 DEF OthersWake
      <2>2. \/ Full(q) /\ pi[q].readopen
            \/ pi[q].lock = p /\ pc[p] = "read_copy"
          BY <1>2, <2>1 DEF WriterMaySleep, WriterWaits
      <2>3. \/ Full(q)' /\ pi'[q].readopen
            \/ pi'[q].lock = p /\ pc'[p] = "read_copy"
          BY <1>1, <1>2, <1>4, <2>2 DEF SameBytes, WritersKept
      <2> QED BY <1>1, <1>2, <2>3 DEF WriterMaySleep, WriterWaits, Full
  <1> QED BY <1>3, <1>4

\* How p goes on: it returns, or stays inside with its locals as they are.
GoesOn(p) ==
  \/ pc'[p] = "user" /\ arg'[p] = NoArg
  \/ pc'[p] \in IOPoints /\ WriteSide(p)' = WriteSide(p) /\ arg'[p] = arg[p]

\* What p has found out before it goes on.
Found(p, q) ==
  /\ pc'[p] \in {"read_sleep", "read_asleep"} => ReaderWaits(p)
  /\ pc'[p] = "write_body" => arg[p].i < arg[p].n /\ pi[q].readopen
  /\ pc'[p] = "write_asleep" => WriterWaits(p)

\* A step of p that only takes, keeps or gives back the lock and wakes others.
LEMMA LockStep ==
  ASSUME IInv, NEW p \in Procs, InPipe(p), NEW q \in Pages, arg[p].pipe = q,
         UNCHANGED <<file, ofile, killed>>, got' \in [Pages -> Bytes \cup {None}],
         pi' \in [Pages -> PipeType], pc' \in [Procs -> Points],
         arg' \in [Procs -> ArgType], owed' \subseteq Pages, OtherPages(q),
         pi[q].lock \in {None, p}, NEW l \in {None, p},
         pi'[q] = [pi[q] EXCEPT !.lock = l], OthersWake(p), GoesOn(p),
         pc'[p] \in LockPoints <=> l = p, Found(p, q),
         ReadersKept(p, q), WritersKept(p, q)
  PROVE  IInv'
  <1>1. /\ pi[q] \in PipeType /\ Count(q) <= PIPESIZE /\ arg[p].i <= arg[p].n
        /\ NoArg.pipe = None /\ None \notin Pages
      BY PageIs, ArgIs, PipeAssumption DEF NoArg
  <1>2. /\ pi'[q].lock = l /\ pi'[q].used = pi[q].used
        /\ pi'[q].readopen = pi[q].readopen /\ pi'[q].writeopen = pi[q].writeopen
        /\ pi'[q].nread = pi[q].nread /\ pi'[q].nwrite = pi[q].nwrite
        /\ SameBytes(q)
      BY <1>1 DEF PipeType, SameBytes
  <1>3. Count(q)' = Count(q) /\ Empty(q)' = Empty(q) /\ Full(q)' = Full(q)
      BY <1>2, SameCount
  <1>4. SleepersMay(p, q)
      BY <1>2, SleepersStay
  <1>5. /\ pc'[p] \in {"read_sleep", "read_asleep"} => ReaderWaits(p)'
        /\ pc'[p] = "write_asleep" => WriterWaits(p)'
      <2>1. CASE pc'[p] = "user"
          BY <2>1
      <2>2. CASE pc'[p] # "user"
          <3>1. arg'[p] = arg[p]
              BY <2>2 DEF GoesOn
          <3>2. pc'[p] \in {"read_sleep", "read_asleep"} => ReaderWaits(p)'
              BY <1>2, <3>1 DEF ReaderWaits, Empty, Found
          <3>3. pc'[p] = "write_asleep" => WriterWaits(p)'
              <4>1. WriterWaits(p) <=> /\ pi[q].nwrite = (pi[q].nread + PIPESIZE) % WRAP
                                       /\ pi[q].readopen
                  BY DEF WriterWaits, Full
              <4>2. WriterWaits(p)' <=> /\ pi'[q].nwrite = (pi'[q].nread + PIPESIZE) % WRAP
                                        /\ pi'[q].readopen
                  BY <3>1 DEF WriterWaits, Full
              <4>3. WriterWaits(p)' <=> WriterWaits(p)
                  BY <1>2, <4>1, <4>2
              <4> QED BY <4>3 DEF Found
          <3> QED BY <3>2, <3>3
      <2> QED BY <2>1, <2>2
  <1>6. MaySleep(p, q)
      BY <1>5 DEF MaySleep, ReaderMaySleep, WriterMaySleep
  <1>7. pc'[p] = "write_body" => arg'[p].i < arg'[p].n /\ pi'[q].readopen
      BY <1>2 DEF GoesOn, Found
  <1>8. \/ pc'[p] = "user" /\ arg'[p] = NoArg
        \/ /\ pc'[p] \in IOPoints /\ WriteSide(p)' = WriteSide(p)
           /\ arg'[p].rf = arg[p].rf /\ arg'[p].wf = arg[p].wf
           /\ arg'[p].pipe = arg[p].pipe /\ arg'[p].writable = arg[p].writable
           /\ arg'[p].i <= arg'[p].n
      BY <1>1 DEF GoesOn
  <1> QED BY <1>1, <1>2, <1>3, <1>4, <1>5, <1>6, <1>7, <1>8, InsideStep

LEMMA WriteTestIInv ==
  ASSUME IInv, NEW p \in Procs, WriteTest(p)
  PROVE  IInv'
  <1> DEFINE q == arg[p].pipe
  <1>1. /\ InPipe(p) /\ WriteSide(p) /\ pc[p] \in {"write", "write_test"}
        /\ UNCHANGED <<file, ofile, killed, got>>
      BY DEF WriteTest, InPipe, WriteSide
  <1>2. /\ q \in Pages /\ pi[q].lock \in {None, p} /\ p # None
        /\ got \in [Pages -> Bytes \cup {None}] /\ owed \subseteq Pages
        /\ pc \in [Procs -> Points] /\ q = arg[p].pipe
        /\ arg \in [Procs -> ArgType]
      BY <1>1, InsideIs DEF WriteTest, LockPoints, IInv, Typed, TypeOK
  <1>3. /\ {"user", "write_body"} \subseteq Points /\ "write_body" \in IOPoints
      BY DEF Points, IOPoints
  <1> HIDE DEF q
  <1>4. CASE /\ arg[p].i < arg[p].n /\ (~pi[q].readopen \/ killed[p])
             /\ Return(p, pi[q], pc)
             /\ owed' = IF arg[p].i > 0 THEN owed \cup {q} ELSE owed
      \* giving up: the readers it owes a wakeup to are noted
      <2>1. /\ pi' \in [Pages -> PipeType] /\ pc' \in [Procs -> Points]
            /\ arg' \in [Procs -> ArgType]
            /\ \A s \in Pages \ {q} : pi'[s] = pi[s]
            /\ pi'[q] = [pi[q] EXCEPT !.lock = None]
            /\ pc'[p] = "user" /\ arg'[p] = NoArg
            /\ \A r \in Procs \ {p} : pc'[r] = pc[r] /\ arg'[r] = arg[r]
          BY <1>2, <1>4, ReturnIs
      <2>2. owed' \subseteq Pages /\ OtherPages(q) /\ OthersWake(p) /\ GoesOn(p) /\ Found(p, q)
          BY <1>2, <1>4, <2>1 DEF OtherPages, OthersWake, GoesOn, Found
      <2>3. ReadersKept(p, q) /\ WritersKept(p, q)
          BY <1>1, <1>4 DEF ReadersKept, WritersKept
      <2> QED BY <1>1, <1>2, <2>1, <2>2, <2>3, LockStep DEF LockPoints
  <1>5. CASE /\ arg[p].i < arg[p].n /\ ~(~pi[q].readopen \/ killed[p])
             /\ Hold(p, "write_body") /\ UNCHANGED owed
      <2>1. /\ pi' \in [Pages -> PipeType] /\ pc' \in [Procs -> Points] /\ arg' = arg
            /\ \A s \in Pages \ {q} : pi'[s] = pi[s]
            /\ pi'[q] = [pi[q] EXCEPT !.lock = p]
            /\ pc'[p] = "write_body" /\ \A r \in Procs \ {p} : pc'[r] = pc[r]
          BY <1>2, <1>3, <1>5, HoldIs
      <2>2. WriteSide(p)' = WriteSide(p)
          BY <1>1, <2>1 DEF WriteSide
      <2>3. OtherPages(q) /\ OthersWake(p) /\ GoesOn(p) /\ Found(p, q)
          BY <1>3, <1>5, <2>1, <2>2 DEF OtherPages, OthersWake, GoesOn, Found
      <2>4. pi[q] \in PipeType
          BY <1>2, PageIs
      <2>5. pi'[q].lock = p
          BY <2>1, <2>4 DEF PipeType
      <2>6. ReadersKept(p, q) /\ WritersKept(p, q)
          BY <1>1, <1>5, <2>1, <2>2, <2>5 DEF ReadersKept, WritersKept
      <2> QED BY <1>1, <1>2, <1>5, <2>1, <2>3, <2>6, LockStep DEF LockPoints
  <1>6. CASE Return(p, pi[q], WakeReaders(q, pc)) /\ owed' = owed \ {q}
      \* done: no reader is left asleep
      <2>1. /\ pi' \in [Pages -> PipeType] /\ pc' \in [Procs -> Points]
            /\ arg' \in [Procs -> ArgType]
            /\ \A s \in Pages \ {q} : pi'[s] = pi[s]
            /\ pi'[q] = [pi[q] EXCEPT !.lock = None]
            /\ pc'[p] = "user" /\ arg'[p] = NoArg
            /\ \A r \in Procs \ {p} : pc'[r] = WakeReaders(q, pc)[r] /\ arg'[r] = arg[r]
          BY <1>2, <1>6, WakeIs, ReturnIs
      <2>2. \A r \in Procs : WakeReaders(q, pc)[r] =
                IF pc[r] = "read_asleep" /\ arg[r].pipe = q THEN "read" ELSE pc[r]
          BY <1>2, WakeIs
      <2>3. owed' \subseteq Pages /\ OtherPages(q) /\ OthersWake(p) /\ GoesOn(p) /\ Found(p, q)
          BY <1>2, <1>6, <2>1, <2>2 DEF OtherPages, OthersWake, GoesOn, Found
      <2>4. ReadersKept(p, q) /\ WritersKept(p, q)
          BY <1>1, <2>1, <2>2 DEF ReadersKept, WritersKept
      <2> QED BY <1>1, <1>2, <2>1, <2>3, <2>4, LockStep DEF LockPoints
  <1> QED BY <1>4, <1>5, <1>6 DEF WriteTest, q

LEMMA WriteFaultIInv ==
  ASSUME IInv, NEW p \in Procs, WriteFault(p)
  PROVE  IInv'
  <1> DEFINE q == arg[p].pipe
  <1>1. /\ InPipe(p) /\ WriteSide(p) /\ pc[p] = "write_body"
        /\ UNCHANGED <<file, ofile, killed, got>>
        /\ Return(p, pi[q], WakeReaders(q, pc)) /\ owed' = owed \ {q}
      BY DEF WriteFault, InPipe, WriteSide
  <1>2. /\ q \in Pages /\ pi[q].lock \in {None, p} /\ p # None
        /\ got \in [Pages -> Bytes \cup {None}] /\ owed \subseteq Pages
        /\ pc \in [Procs -> Points] /\ q = arg[p].pipe
      BY <1>1, InsideIs DEF LockPoints, IInv, Typed, TypeOK
  <1> HIDE DEF q
  <1>3. /\ pi' \in [Pages -> PipeType] /\ pc' \in [Procs -> Points]
        /\ arg' \in [Procs -> ArgType]
        /\ \A s \in Pages \ {q} : pi'[s] = pi[s]
        /\ pi'[q] = [pi[q] EXCEPT !.lock = None]
        /\ pc'[p] = "user" /\ arg'[p] = NoArg
        /\ \A r \in Procs \ {p} : pc'[r] = WakeReaders(q, pc)[r] /\ arg'[r] = arg[r]
      BY <1>1, <1>2, WakeIs, ReturnIs
  <1>4. \A r \in Procs : WakeReaders(q, pc)[r] =
            IF pc[r] = "read_asleep" /\ arg[r].pipe = q THEN "read" ELSE pc[r]
      BY <1>2, WakeIs
  <1>5. owed' \subseteq Pages /\ OtherPages(q) /\ OthersWake(p) /\ GoesOn(p) /\ Found(p, q)
      BY <1>1, <1>2, <1>3, <1>4 DEF OtherPages, OthersWake, GoesOn, Found
  <1>6. ReadersKept(p, q) /\ WritersKept(p, q)
      BY <1>1, <1>3, <1>4 DEF ReadersKept, WritersKept
  <1> QED BY <1>1, <1>2, <1>3, <1>5, <1>6, LockStep DEF LockPoints

\* The pipe after a byte more.
Stores(q, b) == pi' = [pi EXCEPT ![q].data[pi[q].nwrite % PIPESIZE] = b,
                                 ![q].nwrite = (@ + 1) % WRAP]

LEMMA StoreIs ==
  ASSUME IInv, NEW q \in Pages, ~Full(q), NEW b \in Bytes, Stores(q, b)
  PROVE  /\ pi' \in [Pages -> PipeType] /\ \A s \in Pages \ {q} : pi'[s] = pi[s]
         /\ pi'[q].used = pi[q].used /\ pi'[q].lock = pi[q].lock
         /\ pi'[q].readopen = pi[q].readopen /\ pi'[q].writeopen = pi[q].writeopen
         /\ pi'[q].nread = pi[q].nread /\ pi'[q].nwrite = After(pi[q].nwrite)
         /\ pi'[q].data = [pi[q].data EXCEPT ![pi[q].nwrite % PIPESIZE] = b]
         /\ Count(q) < PIPESIZE /\ Count(q)' = Count(q) + 1
  <1> DEFINE new == [pi[q] EXCEPT !.data[pi[q].nwrite % PIPESIZE] = b,
                                  !.nwrite = (@ + 1) % WRAP]
  <1>1. /\ pi[q] \in PipeType /\ pi[q].nwrite \in Index /\ pi[q].nread \in Index
        /\ After(pi[q].nwrite) \in Index /\ pi[q].data \in Buffers
        /\ Count(q) = Dist(pi[q].nwrite, pi[q].nread) /\ Count(q) <= PIPESIZE
        /\ PIPESIZE \in Nat /\ Count(q) \in Nat
      BY PageIs, AfterIs, DistIs, PipeAssumption
  <1>2. pi' = [pi EXCEPT ![q] = new] /\ pi \in [Pages -> PipeType]
      BY DEF Stores, IInv, Typed
  <1>3. pi[q].nwrite % PIPESIZE \in 0 .. PIPESIZE - 1
      <2>1. pi[q].nwrite \in Nat
          BY <1>1, PipeAssumption DEF Index
      <2> QED BY <2>1, SlotIs
  <1>4. /\ new.used = pi[q].used /\ new.lock = pi[q].lock /\ new.nread = pi[q].nread
        /\ new.readopen = pi[q].readopen /\ new.writeopen = pi[q].writeopen
        /\ new.nwrite = After(pi[q].nwrite)
        /\ new.data = [pi[q].data EXCEPT ![pi[q].nwrite % PIPESIZE] = b]
        /\ DOMAIN new = DOMAIN pi[q]
      BY <1>1 DEF PipeType, After
  <1>5. new \in PipeType
      <2>1. [pi[q].data EXCEPT ![pi[q].nwrite % PIPESIZE] = b]
              \in [0 .. PIPESIZE - 1 -> Bytes \cup {None}]
          BY <1>1, <1>3 DEF Buffers, Stored
      <2> QED BY <1>1, <2>1 DEF PipeType, Index, After
  <1> HIDE DEF new
  <1>6. pi'[q] = new /\ pi' \in [Pages -> PipeType] /\ \A s \in Pages \ {q} : pi'[s] = pi[s]
      BY <1>2, <1>5
  <1>7. Count(q) # PIPESIZE
      BY <1>1, FullIs DEF Full
  <1>8. Count(q)' = Dist(After(pi[q].nwrite), pi[q].nread)
      BY <1>4, <1>6 DEF Count, Dist
  <1>9. Count(q)' = Count(q) + 1 /\ Count(q) < PIPESIZE
      BY <1>1, <1>7, <1>8, DistStep
  <1> QED BY <1>4, <1>6, <1>9

LEMMA WriteBodyIInv ==
  ASSUME IInv, NEW p \in Procs, NEW b \in Bytes, WriteBody(p, b)
  PROVE  IInv'
  <1>1. /\ InPipe(p) /\ WriteSide(p) /\ pc[p] = "write_body"
        /\ UNCHANGED <<file, ofile, killed, got>>
      BY DEF WriteBody, InPipe, WriteSide
  <1>0. PICK q \in Pages : q = arg[p].pipe
      BY <1>1, InsideIs
  <1>2. /\ q \in Pages /\ pi[q].lock = p /\ p # None
        /\ got \in [Pages -> Bytes \cup {None}] /\ owed \subseteq Pages
        /\ pc \in [Procs -> Points] /\ q = arg[p].pipe /\ arg \in [Procs -> ArgType]
        /\ pi \in [Pages -> PipeType] /\ arg[p].i < arg[p].n /\ pi[q].readopen
      BY <1>1, <1>0, InsideIs DEF LockPoints, IInv, Typed, TypeOK, Testing
  <1>3. /\ {"write_test", "write_asleep"} \subseteq Points
        /\ {"write_test", "write_asleep"} \subseteq IOPoints
      BY DEF Points, IOPoints
  <1>4. CASE /\ Full(q) /\ pi' = [pi EXCEPT ![q].lock = None]
             /\ pc' = [WakeReaders(q, pc) EXCEPT ![p] = "write_asleep"]
             /\ owed' = owed \ {q} /\ UNCHANGED arg
      <2>1. [pi[q] EXCEPT !.lock = None] \in PipeType
          BY <1>2 DEF PipeType
      <2>2. /\ pi' \in [Pages -> PipeType] /\ pi'[q] = [pi[q] EXCEPT !.lock = None]
            /\ \A s \in Pages \ {q} : pi'[s] = pi[s]
          BY <1>2, <1>4, <2>1
      <2>3. \A r \in Procs : WakeReaders(q, pc)[r] =
                IF pc[r] = "read_asleep" /\ arg[r].pipe = q THEN "read" ELSE pc[r]
          BY <1>2, WakeIs
      <2>4. WakeReaders(q, pc) \in [Procs -> Points]
          BY <1>2, WakeIs
      <2>5. /\ pc' \in [Procs -> Points] /\ pc'[p] = "write_asleep"
            /\ \A r \in Procs \ {p} : pc'[r] = WakeReaders(q, pc)[r]
          BY <1>3, <1>4, <2>4
      <2>6. WriteSide(p)' = WriteSide(p)
          BY <1>1, <2>5 DEF WriteSide
      <2>7. owed' \subseteq Pages /\ OtherPages(q) /\ OthersWake(p) /\ GoesOn(p)
          BY <1>2, <1>3, <1>4, <2>2, <2>3, <2>5, <2>6 DEF OtherPages, OthersWake, GoesOn
      <2>8. Found(p, q)
          BY <1>2, <1>4, <2>5 DEF Found, WriterWaits
      <2>9. ReadersKept(p, q) /\ WritersKept(p, q)
          BY <1>1, <2>3, <2>5 DEF ReadersKept, WritersKept
      <2> QED BY <1>1, <1>2, <1>4, <2>2, <2>5, <2>7, <2>8, <2>9, LockStep DEF LockPoints
  <1>5. CASE /\ ~Full(q) /\ Stores(q, b)
             /\ arg' = [arg EXCEPT ![p].i = @ + 1]
             /\ Goto(p, "write_test") /\ UNCHANGED owed
      <2>1. /\ pi' \in [Pages -> PipeType] /\ \A s \in Pages \ {q} : pi'[s] = pi[s]
            /\ pi'[q].used = pi[q].used /\ pi'[q].lock = pi[q].lock
            /\ pi'[q].readopen = pi[q].readopen /\ pi'[q].writeopen = pi[q].writeopen
            /\ Count(q)' <= PIPESIZE
          <3>1. /\ pi' \in [Pages -> PipeType] /\ \A s \in Pages \ {q} : pi'[s] = pi[s]
                /\ pi'[q].used = pi[q].used /\ pi'[q].lock = pi[q].lock
                /\ pi'[q].readopen = pi[q].readopen /\ pi'[q].writeopen = pi[q].writeopen
                /\ Count(q) < PIPESIZE /\ Count(q)' = Count(q) + 1
              BY <1>2, <1>5, StoreIs
          <3>2. Count(q) \in Nat /\ PIPESIZE \in Nat
              BY <1>2, PageIs, DistIs, PipeAssumption
          <3> QED BY <3>1, <3>2
      <2>2. /\ pc' \in [Procs -> Points] /\ pc'[p] = "write_test"
            /\ \A r \in Procs \ {p} : pc'[r] = pc[r]
          BY <1>2, <1>3, <1>5 DEF Goto
      <2>3. /\ arg' \in [Procs -> ArgType] /\ \A r \in Procs \ {p} : arg'[r] = arg[r]
            /\ arg'[p].i = arg[p].i + 1 /\ arg'[p].n = arg[p].n
            /\ arg'[p].rf = arg[p].rf /\ arg'[p].wf = arg[p].wf
            /\ arg'[p].pipe = arg[p].pipe /\ arg'[p].writable = arg[p].writable
            /\ arg[p].i \in Nat /\ arg[p].n \in Nat
          <3>1. arg[p] \in ArgType
              BY <1>2
          <3>2. [arg[p] EXCEPT !.i = @ + 1] \in ArgType
              BY <3>1 DEF ArgType
          <3>3. arg'[p] = [arg[p] EXCEPT !.i = @ + 1]
              BY <1>2, <1>5
          <3>4. arg' \in [Procs -> ArgType]
              BY <1>2, <1>5, <3>2
          <3>5. \A r \in Procs \ {p} : arg'[r] = arg[r]
              BY <1>2, <1>5
          <3> QED BY <3>1, <3>3, <3>4, <3>5 DEF ArgType
      <2>4. WriteSide(p)' = WriteSide(p)
          BY <1>1, <2>2 DEF WriteSide
      <2>5. OtherPages(q) /\ OthersWake(p)
          BY <1>5, <2>1, <2>2, <2>3 DEF OtherPages, OthersWake
      <2>6. arg'[p].i > 0 /\ arg'[p].i <= arg'[p].n
          BY <1>2, <2>3
      <2>7. SleepersMay(p, q)
          <3> SUFFICES ASSUME NEW r \in Procs, r # p, arg'[r].pipe = q
                       PROVE  /\ pc'[r] = "read_asleep" => ReaderMaySleep(r)'
                              /\ pc'[r] = "write_asleep" => WriterMaySleep(r)'
              BY DEF SleepersMay, MaySleep
          <3>1. arg'[r] = arg[r] /\ pc'[r] = pc[r] /\ arg[r].pipe = q
              BY <2>2, <2>3
          <3>2. pc[r] = "write_asleep" => WriterMaySleep(r)
              BY DEF IInv, Sleeping
          <3>3. pc[r] # "write_asleep"
              BY <1>1, <1>2, <1>5, <3>1, <3>2 DEF WriterMaySleep, WriterWaits
          <3>4. ReaderMaySleep(r)'
              <4>1. pi'[q].lock = p /\ WriteSide(p)' /\ arg'[r].pipe = q
                  BY <1>1, <1>2, <2>1, <2>4
              <4> QED BY <1>2, <2>6, <4>1 DEF ReaderMaySleep, WriteSide
          <3> QED BY <3>1, <3>3, <3>4
      <2>8. MaySleep(p, q)
          BY <2>2 DEF MaySleep
      <2>9. /\ pi[q].lock \in {None, p} /\ pi'[q].lock \in {None, p}
            /\ pc'[p] \in LockPoints <=> pi'[q].lock = p
            /\ pc'[p] \notin {"read_sleep", "write_body"} /\ pc'[p] \in IOPoints
            /\ got' \in [Pages -> Bytes \cup {None}] /\ owed' \subseteq Pages
          <3>1. got' = got /\ owed' = owed
              BY <1>1, <1>5
          <3> QED BY <1>2, <1>3, <2>1, <2>2, <3>1 DEF LockPoints
      <2> QED BY <1>1, <1>2, <2>1, <2>2, <2>3, <2>4, <2>5, <2>6, <2>7, <2>8, <2>9, InsideStep
  <1> QED BY <1>0, <1>4, <1>5 DEF WriteBody, Stores

LEMMA ReadTestIInv ==
  ASSUME IInv, NEW p \in Procs, ReadTest(p)
  PROVE  IInv'
  <1>1. /\ InPipe(p) /\ ~WriteSide(p) /\ pc[p] = "read"
        /\ UNCHANGED <<file, ofile, killed, got, owed>>
      BY DEF ReadTest, InPipe, WriteSide, observed
  <1>2. PICK q \in Pages : q = arg[p].pipe
      BY <1>1, InsideIs
  <1>3. /\ pi[q].lock = None /\ p # None
        /\ got \in [Pages -> Bytes \cup {None}] /\ owed \subseteq Pages
        /\ pc \in [Procs -> Points] /\ arg \in [Procs -> ArgType]
        /\ pi[q] \in PipeType
      BY <1>1, <1>2, InsideIs, PageIs DEF ReadTest, IInv, Typed, TypeOK
  <1>4. /\ {"read_copy", "read_sleep"} \subseteq Points
        /\ {"read_copy", "read_sleep"} \subseteq IOPoints
        /\ {"read_copy", "read_sleep"} \subseteq LockPoints
        /\ got' \in [Pages -> Bytes \cup {None}] /\ owed' \subseteq Pages
      BY <1>1, <1>3 DEF Points, IOPoints, LockPoints
  <1>5. ASSUME NEW point \in {"read_copy", "read_sleep"}, Hold(p, point),
               point = "read_sleep" => ReaderWaits(p)
        PROVE  IInv'
      <2>1. /\ pi' \in [Pages -> PipeType] /\ pc' \in [Procs -> Points] /\ arg' = arg
            /\ \A s \in Pages \ {q} : pi'[s] = pi[s]
            /\ pi'[q] = [pi[q] EXCEPT !.lock = p]
            /\ pc'[p] = point /\ \A r \in Procs \ {p} : pc'[r] = pc[r]
          BY <1>2, <1>4, <1>5, HoldIs
      <2>2. WriteSide(p)' = WriteSide(p)
          BY <1>1, <2>1, <1>5 DEF WriteSide
      <2>3. OtherPages(q) /\ OthersWake(p) /\ GoesOn(p) /\ Found(p, q)
          BY <1>1, <1>4, <1>5, <2>1, <2>2 DEF OtherPages, OthersWake, GoesOn, Found
      <2>4. ReadersKept(p, q) /\ WritersKept(p, q)
          BY <1>1, <1>3 DEF ReadersKept, WritersKept
      <2> QED BY <1>1, <1>2, <1>3, <1>4, <2>1, <2>3, <2>4, LockStep
  <1>6. CASE Return(p, pi[q], pc)
      <2>1. /\ pi' \in [Pages -> PipeType] /\ pc' \in [Procs -> Points]
            /\ arg' \in [Procs -> ArgType]
            /\ \A s \in Pages \ {q} : pi'[s] = pi[s]
            /\ pi'[q] = [pi[q] EXCEPT !.lock = None]
            /\ pc'[p] = "user" /\ arg'[p] = NoArg
            /\ \A r \in Procs \ {p} : pc'[r] = pc[r] /\ arg'[r] = arg[r]
          BY <1>2, <1>3, <1>6, ReturnIs
      <2>2. OtherPages(q) /\ OthersWake(p) /\ GoesOn(p) /\ Found(p, q)
          BY <1>1, <2>1 DEF OtherPages, OthersWake, GoesOn, Found
      <2>3. ReadersKept(p, q) /\ WritersKept(p, q)
          BY <1>1, <1>3 DEF ReadersKept, WritersKept
      <2> QED BY <1>1, <1>2, <1>3, <1>4, <2>1, <2>2, <2>3, LockStep DEF LockPoints
  <1>7. \/ Hold(p, "read_copy")
        \/ Return(p, pi[q], pc)
        \/ Hold(p, "read_sleep") /\ ReaderWaits(p)
      BY <1>2 DEF ReadTest, ReaderWaits
  <1> QED BY <1>5, <1>6, <1>7

LEMMA ReadSleepIInv ==
  ASSUME IInv, NEW p \in Procs, ReadSleep(p)
  PROVE  IInv'
  <1>1. /\ InPipe(p) /\ ~WriteSide(p) /\ pc[p] = "read_sleep" /\ ReaderWaits(p)
        /\ UNCHANGED <<file, ofile, arg, killed, got, owed>>
      BY DEF ReadSleep, InPipe, WriteSide, observed, IInv, Testing
  <1>2. PICK q \in Pages : q = arg[p].pipe
      BY <1>1, InsideIs
  <1>3. /\ pi[q].lock = p /\ p # None
        /\ got' \in [Pages -> Bytes \cup {None}] /\ owed' \subseteq Pages
        /\ pc \in [Procs -> Points] /\ arg' \in [Procs -> ArgType]
        /\ pi \in [Pages -> PipeType]
      BY <1>1, <1>2, InsideIs DEF LockPoints, IInv, Typed, TypeOK
  <1>4. /\ pi' \in [Pages -> PipeType] /\ pi'[q] = [pi[q] EXCEPT !.lock = None]
        /\ \A s \in Pages \ {q} : pi'[s] = pi[s]
      <2>1. [pi[q] EXCEPT !.lock = None] \in PipeType
          BY <1>3 DEF PipeType
      <2> QED BY <1>2, <1>3, <2>1 DEF ReadSleep
  <1>5. /\ pc' \in [Procs -> Points] /\ pc'[p] = "read_asleep"
        /\ \A r \in Procs \ {p} : pc'[r] = pc[r]
      BY <1>3 DEF ReadSleep, Goto, Points, IOPoints
  <1>6. WriteSide(p)' = WriteSide(p)
      BY <1>1, <1>5 DEF WriteSide
  <1>7. OtherPages(q) /\ OthersWake(p) /\ GoesOn(p) /\ Found(p, q)
      BY <1>1, <1>4, <1>5, <1>6 DEF OtherPages, OthersWake, GoesOn, Found, IOPoints
  <1>8. ReadersKept(p, q) /\ WritersKept(p, q)
      BY <1>1 DEF ReadersKept, WritersKept
  <1> QED BY <1>1, <1>2, <1>3, <1>4, <1>5, <1>7, <1>8, LockStep DEF LockPoints

\* The pipe after a byte less.
Takes(q) == pi' = [pi EXCEPT ![q].nread = (@ + 1) % WRAP]

LEMMA TakeIs ==
  ASSUME IInv, NEW q \in Pages, ~Empty(q), Takes(q)
  PROVE  /\ pi' \in [Pages -> PipeType] /\ \A s \in Pages \ {q} : pi'[s] = pi[s]
         /\ pi'[q].used = pi[q].used /\ pi'[q].lock = pi[q].lock
         /\ pi'[q].readopen = pi[q].readopen /\ pi'[q].writeopen = pi[q].writeopen
         /\ pi'[q].nread = After(pi[q].nread) /\ pi'[q].nwrite = pi[q].nwrite
         /\ pi'[q].data = pi[q].data
         /\ Count(q) \in Nat \ {0} /\ Count(q)' = Count(q) - 1
  <1> DEFINE new == [pi[q] EXCEPT !.nread = (@ + 1) % WRAP]
  <1>1. /\ pi[q] \in PipeType /\ pi[q].nwrite \in Index /\ pi[q].nread \in Index
        /\ After(pi[q].nread) \in Index
        /\ Count(q) = Dist(pi[q].nwrite, pi[q].nread) /\ Count(q) <= PIPESIZE
        /\ Count(q) \in Nat
      BY PageIs, AfterIs, DistIs
  <1>2. pi' = [pi EXCEPT ![q] = new] /\ pi \in [Pages -> PipeType]
      BY DEF Takes, IInv, Typed
  <1>3. /\ new.used = pi[q].used /\ new.lock = pi[q].lock /\ new.nwrite = pi[q].nwrite
        /\ new.readopen = pi[q].readopen /\ new.writeopen = pi[q].writeopen
        /\ new.nread = After(pi[q].nread) /\ new.data = pi[q].data
      BY <1>1 DEF PipeType, After
  <1>4. new \in PipeType
      BY <1>1 DEF PipeType, Index, After
  <1> HIDE DEF new
  <1>5. pi'[q] = new /\ pi' \in [Pages -> PipeType] /\ \A s \in Pages \ {q} : pi'[s] = pi[s]
      BY <1>2, <1>4
  <1>6. Count(q) # 0
      BY <1>1, FullIs DEF Empty
  <1>7. Count(q)' = Dist(pi[q].nwrite, After(pi[q].nread))
      BY <1>3, <1>5 DEF Count, Dist
  <1>8. Count(q)' = Count(q) - 1
      BY <1>1, <1>6, <1>7, DistStep
  <1> QED BY <1>1, <1>3, <1>5, <1>6, <1>8

\* Taking a byte, handed to the caller or lost on the way to it.
LEMMA TakeStep ==
  ASSUME IInv, NEW p \in Procs, NEW q \in Pages, q = arg[p].pipe, pc[p] = "read_copy",
         ~Empty(q), Takes(q), UNCHANGED <<file, ofile, pc, killed, owed>>,
         got' = [got EXCEPT ![q] = pi[q].data[pi[q].nread % PIPESIZE]],
         NEW i \in Nat, NEW n \in Nat, i <= n,
         arg' = [arg EXCEPT ![p] = [arg[p] EXCEPT !.i = i, !.n = n]]
  PROVE  IInv'
  <1>1. InPipe(p) /\ ~WriteSide(p)
      BY DEF InPipe, WriteSide
  <1>2. /\ pi[q].lock = p /\ p # None
        /\ got \in [Pages -> Bytes \cup {None}] /\ owed' \subseteq Pages
        /\ pc' \in [Procs -> Points] /\ arg \in [Procs -> ArgType]
      BY <1>1, InsideIs DEF LockPoints, IInv, Typed, TypeOK
  <1>3. /\ pi' \in [Pages -> PipeType] /\ \A s \in Pages \ {q} : pi'[s] = pi[s]
        /\ pi'[q].used = pi[q].used /\ pi'[q].lock = pi[q].lock
        /\ pi'[q].readopen = pi[q].readopen /\ pi'[q].writeopen = pi[q].writeopen
      BY TakeIs
  <1>4. Count(q)' <= PIPESIZE
      <2>1. Count(q) \in Nat \ {0} /\ Count(q)' = Count(q) - 1 /\ Count(q) <= PIPESIZE
            /\ PIPESIZE \in Nat
          BY TakeIs, PageIs, PipeAssumption
      <2> QED BY <2>1
  <1>5. got' \in [Pages -> Bytes \cup {None}]
      <2>1. pi[q].data \in Buffers /\ pi[q].nread \in Nat
          BY PageIs, PipeAssumption DEF Index
      <2>2. pi[q].data[pi[q].nread % PIPESIZE] \in Bytes \cup {None}
          BY <2>1, SlotIs DEF Buffers, Stored
      <2> QED BY <1>2, <2>2
  <1>6. /\ arg' \in [Procs -> ArgType] /\ \A r \in Procs \ {p} : arg'[r] = arg[r]
        /\ arg'[p].i = i /\ arg'[p].n = n
        /\ arg'[p].rf = arg[p].rf /\ arg'[p].wf = arg[p].wf
        /\ arg'[p].pipe = arg[p].pipe /\ arg'[p].writable = arg[p].writable
      <2>1. arg[p] \in ArgType
          BY <1>2
      <2>2. [arg[p] EXCEPT !.i = i, !.n = n] \in ArgType
          BY <2>1 DEF ArgType
      <2>3. arg'[p] = [arg[p] EXCEPT !.i = i, !.n = n]
          BY <1>2
      <2>4. arg' \in [Procs -> ArgType]
          BY <1>2, <2>2
      <2>5. \A r \in Procs \ {p} : arg'[r] = arg[r]
          BY <1>2
      <2> QED BY <2>1, <2>3, <2>4, <2>5 DEF ArgType
  <1>7. WriteSide(p)' = WriteSide(p) /\ OtherPages(q) /\ OthersWake(p)
      BY <1>3, <1>6 DEF WriteSide, OtherPages, OthersWake
  <1>8. SleepersMay(p, q)
      <2> SUFFICES ASSUME NEW r \in Procs, r # p, arg'[r].pipe = q
                   PROVE  /\ pc'[r] = "read_asleep" => ReaderMaySleep(r)'
                          /\ pc'[r] = "write_asleep" => WriterMaySleep(r)'
          BY DEF SleepersMay, MaySleep
      <2>1. arg'[r] = arg[r] /\ pc'[r] = pc[r] /\ arg[r].pipe = q
          BY <1>6
      <2>2. pc[r] = "read_asleep" => ReaderMaySleep(r)
          BY DEF IInv, Sleeping
      <2>3. pc[r] = "read_asleep" => q \in owed
          BY <1>1, <1>2, <2>1, <2>2 DEF ReaderMaySleep, ReaderWaits
      <2>4. pi'[q].lock = p /\ pc'[p] = "read_copy"
          BY <1>2, <1>3
      <2>5. WriterMaySleep(r)'
          BY <1>2, <2>1, <2>4 DEF WriterMaySleep
      <2>6. pc[r] = "read_asleep" => ReaderMaySleep(r)'
          BY <2>1, <2>3 DEF ReaderMaySleep
      <2> QED BY <2>1, <2>5, <2>6
  <1>9. MaySleep(p, q)
      BY DEF MaySleep
  <1>10. /\ pi[q].lock \in {None, p} /\ pi'[q].lock \in {None, p}
         /\ pc'[p] \in LockPoints <=> pi'[q].lock = p
         /\ pc'[p] \notin {"read_sleep", "write_body"} /\ pc'[p] \in IOPoints
      BY <1>2, <1>3 DEF LockPoints, IOPoints
  <1>11. arg'[p].i <= arg'[p].n
      BY <1>6
  <1> QED BY <1>1, <1>2, <1>3, <1>4, <1>5, <1>6, <1>7, <1>8, <1>9, <1>10, <1>11, InsideStep

LEMMA ReadCopyIInv ==
  ASSUME IInv, NEW p \in Procs, ReadCopy(p)
  PROVE  IInv'
  <1>1. /\ InPipe(p) /\ ~WriteSide(p) /\ pc[p] = "read_copy"
        /\ UNCHANGED <<file, ofile, killed, owed>>
      BY DEF ReadCopy, InPipe, WriteSide
  <1>2. PICK q \in Pages : q = arg[p].pipe
      BY <1>1, InsideIs
  <1>3. /\ pi[q].lock = p /\ p # None
        /\ got \in [Pages -> Bytes \cup {None}] /\ owed' \subseteq Pages
        /\ pc \in [Procs -> Points] /\ arg \in [Procs -> ArgType]
        /\ arg[p].i \in Nat /\ arg[p].n \in Nat /\ arg[p].i <= arg[p].n
      BY <1>1, <1>2, InsideIs, ArgIs DEF LockPoints, IInv, Typed, TypeOK
  <1>4. CASE Return(p, pi[q], WakeWriters(q, pc)) /\ got' = [got EXCEPT ![q] = None]
      <2>1. /\ pi' \in [Pages -> PipeType] /\ pc' \in [Procs -> Points]
            /\ arg' \in [Procs -> ArgType]
            /\ \A s \in Pages \ {q} : pi'[s] = pi[s]
            /\ pi'[q] = [pi[q] EXCEPT !.lock = None]
            /\ pc'[p] = "user" /\ arg'[p] = NoArg
            /\ \A r \in Procs \ {p} : pc'[r] = WakeWriters(q, pc)[r] /\ arg'[r] = arg[r]
          BY <1>2, <1>3, <1>4, WakeIs, ReturnIs
      <2>2. \A r \in Procs : WakeWriters(q, pc)[r] =
                IF pc[r] = "write_asleep" /\ arg[r].pipe = q THEN "write" ELSE pc[r]
          BY <1>3, WakeIs
      <2>3. OtherPages(q) /\ OthersWake(p) /\ GoesOn(p) /\ Found(p, q)
          BY <1>1, <2>1, <2>2 DEF OtherPages, OthersWake, GoesOn, Found
      <2>4. ReadersKept(p, q) /\ WritersKept(p, q)
          BY <1>1, <2>1, <2>2 DEF ReadersKept, WritersKept
      <2>5. got' \in [Pages -> Bytes \cup {None}]
          BY <1>3, <1>4
      <2> QED BY <1>1, <1>2, <1>3, <2>1, <2>3, <2>4, <2>5, LockStep DEF LockPoints
  <1>5. CASE /\ ~(arg[p].i = arg[p].n \/ Empty(q)) /\ Takes(q) /\ UNCHANGED pc
             /\ got' = [got EXCEPT ![q] = pi[q].data[pi[q].nread % PIPESIZE]]
             /\ arg' = [arg EXCEPT ![p].i = @ + 1]
      <2>1. arg[p].i + 1 \in Nat /\ arg[p].i + 1 <= arg[p].n
          BY <1>3, <1>5
      <2>2. arg' = [arg EXCEPT ![p] = [arg[p] EXCEPT !.i = arg[p].i + 1, !.n = arg[p].n]]
          <3>1. arg[p] \in ArgType
              BY <1>3
          <3>2. [arg[p] EXCEPT !.i = arg[p].i + 1, !.n = arg[p].n]
                  = [arg[p] EXCEPT !.i = arg[p].i + 1]
              BY <3>1 DEF ArgType
          <3> QED BY <1>3, <1>5, <3>2
      <2> QED BY <1>1, <1>2, <1>3, <1>5, <2>1, <2>2, TakeStep
  <1> QED BY <1>2, <1>4, <1>5 DEF ReadCopy, Takes

LEMMA ReadFaultIInv ==
  ASSUME IInv, NEW p \in Procs, ReadFault(p)
  PROVE  IInv'
  <1>1. /\ InPipe(p) /\ pc[p] = "read_copy" /\ arg[p].i < arg[p].n
        /\ UNCHANGED <<file, ofile, pc, killed, owed>>
      BY DEF ReadFault, InPipe
  <1>2. PICK q \in Pages : q = arg[p].pipe
      BY <1>1, InsideIs
  <1>3. arg[p].i \in Nat /\ arg \in [Procs -> ArgType]
      BY ArgIs DEF IInv, Typed
  <1>4. /\ ~Empty(q) /\ Takes(q)
        /\ got' = [got EXCEPT ![q] = pi[q].data[pi[q].nread % PIPESIZE]]
        /\ arg' = [arg EXCEPT ![p].n = arg[p].i]
      BY <1>2 DEF ReadFault, Takes
  <1>5. arg' = [arg EXCEPT ![p] = [arg[p] EXCEPT !.i = arg[p].i, !.n = arg[p].i]]
      <2>1. arg[p] \in ArgType
          BY <1>3
      <2>2. [arg[p] EXCEPT !.i = arg[p].i, !.n = arg[p].i] = [arg[p] EXCEPT !.n = arg[p].i]
          BY <2>1 DEF ArgType
      <2> QED BY <1>3, <1>4, <2>2
  <1>6. arg[p].i <= arg[p].i
      BY <1>3
  <1> QED BY <1>1, <1>2, <1>3, <1>4, <1>5, <1>6, TakeStep

-----------------------------------------------------------------------------
\* The steps of the descriptor system calls.

\* filealloc() and fdalloc() find a free entry when there is one.
LEMMA FirstFreeIs ==
  ASSUME IInv, FreeFiles # {}
  PROVE  /\ FirstFree \in Files /\ file[FirstFree].ref = 0 /\ FirstFree # NoFile
         /\ file[FirstFree].type = "FD_NONE"
         /\ \A p \in Procs, d \in Fds : ofile[p][d] # FirstFree
         /\ \A p \in Procs : arg[p].rf # FirstFree /\ arg[p].wf # FirstFree
  <1>1. FreeFiles \in SUBSET Nat
      BY DEF FreeFiles, Files
  <1>2. FirstFree \in FreeFiles
      BY <1>1, LowestIs DEF FirstFree
  <1>3. FirstFree \in Files /\ file[FirstFree].ref = 0
      BY <1>2 DEF FreeFiles
  <1>4. FirstFree # NoFile
      BY <1>3 DEF Files, NoFile
  <1> QED BY <1>3, <1>4, Referenced DEF IInv, Entries

LEMMA InstalledIs ==
  ASSUME NEW table, FreeFds(table) # {}, NEW f
  PROVE  \E e \in Fds : table[e] = NoFile /\ Installed(table, f) = [table EXCEPT ![e] = f]
  <1> DEFINE e == CHOOSE d \in FreeFds(table) : \A g \in FreeFds(table) : d <= g
  <1>1. FreeFds(table) \in SUBSET Nat
      BY PipeAssumption DEF FreeFds, Fds
  <1>2. e \in FreeFds(table)
      BY <1>1, LowestIs
  <1>3. Installed(table, f) = [table EXCEPT ![e] = f]
      BY DEF Installed
  <1> QED BY <1>2, <1>3 DEF FreeFds

\* The references after the locals of one process, and perhaps one of its
\* descriptors, have changed.
One(x, f) == IF x = f THEN 1 ELSE 0

OtherLocals(ar, ar2, p) ==
  \A r \in Procs : r # p => ar2[r].rf = ar[r].rf /\ ar2[r].wf = ar[r].wf
SameCells(of, of2) == \A r \in Procs, e \in Fds : of2[r][e] = of[r][e]
OtherCells(of, of2, p, d) ==
  \A r \in Procs, e \in Fds : ~(r = p /\ e = d) => of2[r][e] = of[r][e]

LEMMA LocalRefs ==
  ASSUME NEW of, NEW of2, NEW ar, NEW ar2, NEW p \in Procs, NEW f,
         SameCells(of, of2), OtherLocals(ar, ar2, p)
  PROVE  /\ RefsOf(of2, ar2, f) = RefsOf(of, ar, f)
              - One(ar[p].rf, f) + One(ar2[p].rf, f) - One(ar[p].wf, f) + One(ar2[p].wf, f)
         /\ RefsOf(of, ar, f) \in Nat
  <1>1. Cells(of2, f) = Cells(of, f)
      BY DEF Cells, SameCells
  <1>2. /\ Cardinality(RfOf(ar2, f)) = Cardinality(RfOf(ar, f)) - One(ar[p].rf, f)
                                         + One(ar2[p].rf, f)
        /\ Cardinality(WfOf(ar2, f)) = Cardinality(WfOf(ar, f)) - One(ar[p].wf, f)
                                         + One(ar2[p].wf, f)
      BY LocalChange DEF One, OtherLocals
  <1>3. /\ Cardinality(Cells(of, f)) \in Nat /\ Cardinality(RfOf(ar, f)) \in Nat
        /\ Cardinality(WfOf(ar, f)) \in Nat
      BY Finite
  <1>4. \A x : One(x, f) \in Nat
      BY DEF One
  <1>5. /\ One(ar[p].rf, f) \in Nat /\ One(ar2[p].rf, f) \in Nat
        /\ One(ar[p].wf, f) \in Nat /\ One(ar2[p].wf, f) \in Nat
      BY <1>4
  <1> QED BY <1>1, <1>2, <1>3, <1>5 DEF RefsOf

LEMMA CellRefs ==
  ASSUME NEW of, NEW of2, NEW ar, NEW ar2, NEW p \in Procs, NEW d \in Fds, NEW f,
         OtherCells(of, of2, p, d), OtherLocals(ar, ar2, p)
  PROVE  /\ RefsOf(of2, ar2, f) = RefsOf(of, ar, f) - One(of[p][d], f) + One(of2[p][d], f)
              - One(ar[p].rf, f) + One(ar2[p].rf, f) - One(ar[p].wf, f) + One(ar2[p].wf, f)
         /\ RefsOf(of, ar, f) \in Nat
  <1>1. Cardinality(Cells(of2, f)) = Cardinality(Cells(of, f)) - One(of[p][d], f)
                                       + One(of2[p][d], f)
      <2>1. \A r \in Procs, e \in Fds : ~(r = p /\ e = d) => of2[r][e] = of[r][e]
          BY DEF OtherCells
      <2>2. Cardinality(Cells(of2, f)) = Cardinality(Cells(of, f))
              - (IF of[p][d] = f THEN 1 ELSE 0) + (IF of2[p][d] = f THEN 1 ELSE 0)
          BY <2>1, CellChange
      <2> QED BY <2>2 DEF One
  <1>2. /\ Cardinality(RfOf(ar2, f)) = Cardinality(RfOf(ar, f)) - One(ar[p].rf, f)
                                         + One(ar2[p].rf, f)
        /\ Cardinality(WfOf(ar2, f)) = Cardinality(WfOf(ar, f)) - One(ar[p].wf, f)
                                         + One(ar2[p].wf, f)
      BY LocalChange DEF One, OtherLocals
  <1>3. /\ Cardinality(Cells(of, f)) \in Nat /\ Cardinality(RfOf(ar, f)) \in Nat
        /\ Cardinality(WfOf(ar, f)) \in Nat
      BY Finite
  <1>4. \A x : One(x, f) \in Nat
      BY DEF One
  <1>5. /\ One(ar[p].rf, f) \in Nat /\ One(ar2[p].rf, f) \in Nat
        /\ One(ar[p].wf, f) \in Nat /\ One(ar2[p].wf, f) \in Nat
        /\ One(of[p][d], f) \in Nat /\ One(of2[p][d], f) \in Nat
      BY <1>4
  <1> QED BY <1>1, <1>2, <1>3, <1>5 DEF RefsOf

\* The same for a step of p.
LEMMA LocalsMove ==
  ASSUME IInv, NEW p \in Procs, NEW f \in Files, UNCHANGED ofile, OtherLocals(arg, arg', p)
  PROVE  /\ RefsOf(ofile', arg', f) = file[f].ref - One(arg[p].rf, f) + One(arg'[p].rf, f)
              - One(arg[p].wf, f) + One(arg'[p].wf, f)
         /\ file[f].ref \in Nat
  <1>1. SameCells(ofile, ofile')
      BY DEF SameCells
  <1>2. RefsOf(ofile', arg', f) = RefsOf(ofile, arg, f)
              - One(arg[p].rf, f) + One(arg'[p].rf, f) - One(arg[p].wf, f) + One(arg'[p].wf, f)
      BY <1>1, LocalRefs
  <1>3. file[f].ref = RefsOf(ofile, arg, f) /\ file[f].ref \in Nat
      BY Referenced
  <1> QED BY <1>2, <1>3

LEMMA CellMove ==
  ASSUME IInv, NEW p \in Procs, NEW d \in Fds, NEW f \in Files,
         OtherCells(ofile, ofile', p, d), OtherLocals(arg, arg', p)
  PROVE  /\ RefsOf(ofile', arg', f) = file[f].ref
              - One(ofile[p][d], f) + One(ofile'[p][d], f)
              - One(arg[p].rf, f) + One(arg'[p].rf, f) - One(arg[p].wf, f) + One(arg'[p].wf, f)
         /\ file[f].ref \in Nat
  <1>1. RefsOf(ofile', arg', f) = RefsOf(ofile, arg, f)
              - One(ofile[p][d], f) + One(ofile'[p][d], f)
              - One(arg[p].rf, f) + One(arg'[p].rf, f) - One(arg[p].wf, f) + One(arg'[p].wf, f)
      BY CellRefs
  <1>2. file[f].ref = RefsOf(ofile, arg, f) /\ file[f].ref \in Nat
      BY Referenced
  <1> QED BY <1>1, <1>2

\* What most of these steps leave as it is.
SameFile(f) == /\ file'[f].type = file[f].type /\ file'[f].pipe = file[f].pipe
               /\ file'[f].writable = file[f].writable
               /\ file[f].type = "FD_PIPE" => file'[f].ref > 0
SameEnds(r) == /\ arg'[r].pipe = arg[r].pipe /\ arg'[r].writable = arg[r].writable
               /\ arg'[r].i = arg[r].i /\ arg'[r].n = arg[r].n
               /\ InPipe(r)' <=> InPipe(r)
               /\ InPipe(r) => pc'[r] = pc[r] /\ arg'[r] = arg[r] /\ ofile'[r] = ofile[r]

\* No end is opened or closed, and no process enters or leaves a pipe.
LEMMA DescStep ==
  ASSUME IInv, UNCHANGED <<pi, got, owed>>,
         file' \in [Files -> FileType], ofile' \in [Procs -> [Fds -> Files \cup {NoFile}]],
         arg' \in [Procs -> ArgType], pc' \in [Procs -> Points],
         killed' \in [Procs -> BOOLEAN],
         \A f \in Files : SameFile(f), \A r \in Procs : SameEnds(r)
  PROVE  /\ TypeOK' /\ Typed' /\ Entries' /\ OneEnd' /\ EndsMatch' /\ Users'
         /\ Locked' /\ Testing' /\ Sleeping'
  <1>1. \A r \in Procs :
          pc[r] \in LockPoints \/ pc'[r] \in LockPoints \cup {"read_asleep", "write_asleep"}
            => pc'[r] = pc[r] /\ arg'[r] = arg[r]
      BY DEF SameEnds, InPipe, LockPoints
  <1>2. Locked' /\ Testing' /\ Sleeping' /\ \A q \in Pages : Count(q)' = Count(q)
      BY <1>1, QuietStep
  <1>3. Typed'
      BY DEF IInv, Typed
  <1>4. TypeOK'
      <2>1. \A r \in Procs : arg'[r].pipe \in Pages \cup {None} /\ arg'[r].i <= arg'[r].n
          BY ArgIs DEF SameEnds
      <2>2. \A q \in Pages : Count(q)' <= PIPESIZE
          BY <1>2, PageIs
      <2> QED BY <2>1, <2>2 DEF IInv, TypeOK, FileType
  <1>5. Entries'
      <2>1. ASSUME NEW f \in Files
            PROVE  /\ file'[f].ref = 0 => file'[f].type = "FD_NONE"
                   /\ file'[f].type = "FD_PIPE" => file'[f].pipe \in Pages
          BY FileIs DEF SameFile, IInv, Entries
      <2> QED BY <2>1 DEF Entries
  <1>6. ASSUME NEW f \in Files, NEW q, NEW w
        PROVE  /\ EndFile(f, q, w)' <=> EndFile(f, q, w)
               /\ EndFile(f, q, w) => file[f].ref > 0 /\ file'[f].ref > 0
      BY Referenced DEF EndFile, SameFile, IInv, Entries
  <1>7. ASSUME NEW r \in Procs, NEW q, NEW w
        PROVE  Closer(r, q, w)' <=> Closer(r, q, w)
      BY DEF Closer, SameEnds
  <1>8. OneEnd'
      BY <1>6, <1>7 DEF IInv, OneEnd
  <1>9. EndsMatch'
      <2>1. ASSUME NEW q \in Pages, NEW w PROVE EndOpen(q, w)' <=> EndOpen(q, w)
          <3>1. EndOpen(q, w) <=>
                  \/ \E f \in Files : file[f].ref > 0 /\ EndFile(f, q, w)
                  \/ \E p \in Procs : Closer(p, q, w)
              BY DEF EndOpen, EndFile, Closer
          <3>2. EndOpen(q, w)' <=>
                  \/ \E f \in Files : file'[f].ref > 0 /\ EndFile(f, q, w)'
                  \/ \E p \in Procs : Closer(p, q, w)'
              BY DEF EndOpen, EndFile, Closer
          <3> QED BY <1>6, <1>7, <3>1, <3>2
      <2>2. \A q \in Pages : /\ EndOpen(q, TRUE)' <=> EndOpen(q, TRUE)
                             /\ EndOpen(q, FALSE)' <=> EndOpen(q, FALSE)
          BY <2>1
      <2>3. \A q \in Pages : /\ pi'[q].readopen <=> EndOpen(q, FALSE)
                             /\ pi'[q].writeopen <=> EndOpen(q, TRUE)
                             /\ pi'[q].used <=> pi'[q].readopen \/ pi'[q].writeopen
          BY DEF IInv, EndsMatch
      <2> QED BY <2>2, <2>3 DEF EndsMatch
  <1>10. Users'
      <2>1. ASSUME NEW p \in Procs, InPipe(p)'
            PROVE  \E d \in Fds : /\ ofile'[p][d] # NoFile
                                  /\ file'[ofile'[p][d]].pipe = arg'[p].pipe
                                  /\ file'[ofile'[p][d]].writable = WriteSide(p)'
          <3>1. InPipe(p) /\ pc'[p] = pc[p] /\ arg'[p] = arg[p] /\ ofile'[p] = ofile[p]
              BY <2>1 DEF SameEnds
          <3>2. PICK d \in Fds : /\ ofile[p][d] # NoFile
                                 /\ file[ofile[p][d]].pipe = arg[p].pipe
                                 /\ file[ofile[p][d]].writable = WriteSide(p)
              BY <3>1 DEF IInv, Users
          <3>3. SameFile(ofile[p][d])
              BY <3>2, OpenIs
          <3>4. WriteSide(p)' = WriteSide(p)
              BY <3>1 DEF WriteSide
          <3> QED BY <3>1, <3>2, <3>3, <3>4 DEF SameFile
      <2> QED BY <2>1 DEF Users
  <1> QED BY <1>2, <1>3, <1>4, <1>5, <1>8, <1>9, <1>10

\* What is left to be shown of such a step, file by file and process by process.
LEMMA DescIInv ==
  ASSUME IInv, UNCHANGED <<pi, got, owed>>,
         file' \in [Files -> FileType], ofile' \in [Procs -> [Fds -> Files \cup {NoFile}]],
         arg' \in [Procs -> ArgType], pc' \in [Procs -> Points],
         killed' \in [Procs -> BOOLEAN],
         \A f \in Files : SameFile(f), \A r \in Procs : SameEnds(r),
         \A f \in Files : file'[f].ref = RefsOf(ofile', arg', f),
         Locals', Fresh', Opened'
  PROVE  IInv'
  <1>1. RefsExact'
      BY DEF RefsExact, Refs, RefsOf, Cells, RfOf, WfOf
  <1>2. /\ TypeOK' /\ Typed' /\ Entries' /\ OneEnd' /\ EndsMatch' /\ Users'
        /\ Locked' /\ Testing' /\ Sleeping'
      BY DescStep
  <1> QED BY <1>1, <1>2 DEF IInv

\* The types the steps start from.
LEMMA TypesAre ==
  ASSUME IInv
  PROVE  /\ file \in [Files -> FileType] /\ ofile \in [Procs -> [Fds -> Files \cup {NoFile}]]
         /\ arg \in [Procs -> ArgType] /\ pc \in [Procs -> Points]
         /\ killed \in [Procs -> BOOLEAN] /\ \A f \in Files : f # NoFile
         /\ \A f \in Files : file[f].type = "FD_PIPE" => file[f].ref > 0
  <1>1. \A f \in Files : file[f].type = "FD_PIPE" => file[f].ref > 0
      BY FileIs DEF IInv, Entries
  <1> QED BY <1>1 DEF IInv, TypeOK, Typed, FileType, Files, NoFile

\* A process in user mode.
LEMMA UserModeIs ==
  ASSUME IInv, NEW p \in Procs, pc[p] = "user"
  PROVE  /\ arg[p] = NoArg /\ arg[p].rf = NoFile /\ arg[p].wf = NoFile
         /\ arg[p].pipe = None /\ arg[p].writable = FALSE /\ arg[p].i = 0 /\ arg[p].n = 0
         /\ ~InPipe(p)
  <1>1. arg[p] = NoArg /\ ~InPipe(p)
      BY DEF IInv, Locals, InPipe
  <1> QED BY <1>1 DEF NoArg

LEMMA SysPipeIInv ==
  ASSUME IInv, NEW p \in Procs, SysPipe(p)
  PROVE  IInv'
  <1>1. PICK g \in Files : g = FirstFree /\ FreeFiles # {}
      BY FirstFreeIs DEF SysPipe
  <1>2. /\ pc[p] = "user" /\ file' = [file EXCEPT ![g].ref = 1]
        /\ arg' = [arg EXCEPT ![p].rf = g] /\ pc' = [pc EXCEPT ![p] = "pipe_wf"]
        /\ UNCHANGED <<ofile, pi, killed, got, owed>>
      BY <1>1 DEF SysPipe, Syscall, Goto, observed
  <1>3. /\ file[g].ref = 0 /\ file[g].type = "FD_NONE" /\ g # NoFile
        /\ \A r \in Procs : arg[r].rf # g /\ arg[r].wf # g
      BY <1>1, FirstFreeIs
  <1>4. /\ file' \in [Files -> FileType] /\ file'[g].ref = 1
        /\ \A f \in Files : f # g => file'[f] = file[f]
        /\ file'[g].type = "FD_NONE" /\ file'[g].pipe = file[g].pipe
        /\ file'[g].writable = file[g].writable
      BY <1>2, <1>3, TypesAre DEF FileType
  <1>5. /\ arg' \in [Procs -> ArgType] /\ \A r \in Procs \ {p} : arg'[r] = arg[r]
        /\ arg'[p].rf = g /\ arg'[p].wf = NoFile
        /\ arg'[p].pipe = None /\ arg'[p].writable = FALSE
        /\ arg'[p].i = 0 /\ arg'[p].n = 0
      <2>1. arg[p] \in ArgType /\ arg \in [Procs -> ArgType]
          BY TypesAre
      <2>2. arg'[p] = [arg[p] EXCEPT !.rf = g]
          BY <1>2, <2>1
      <2>3. arg'[p] \in ArgType
          BY <2>1, <2>2 DEF ArgType
      <2>4. arg' \in [Procs -> ArgType] /\ \A r \in Procs \ {p} : arg'[r] = arg[r]
          BY <1>2, <2>1, <2>2, <2>3
      <2> QED BY <1>2, <2>1, <2>2, <2>4, UserModeIs DEF ArgType
  <1>6. /\ pc' \in [Procs -> Points] /\ pc'[p] = "pipe_wf"
        /\ \A r \in Procs \ {p} : pc'[r] = pc[r]
      BY <1>2, TypesAre DEF Points
  <1>7. \A f \in Files : SameFile(f)
      BY <1>3, <1>4, TypesAre DEF SameFile
  <1>8. \A r \in Procs : SameEnds(r)
      <2>1. SameEnds(p)
          BY <1>2, <1>5, <1>6, UserModeIs DEF SameEnds, InPipe
      <2> QED BY <1>2, <1>5, <1>6, <2>1 DEF SameEnds, InPipe
  <1>9. ASSUME NEW f \in Files PROVE file'[f].ref = RefsOf(ofile', arg', f)
      <2>1. OtherLocals(arg, arg', p)
          BY <1>5 DEF OtherLocals
      <2>2. /\ RefsOf(ofile', arg', f) = file[f].ref - One(arg[p].rf, f)
                  + One(arg'[p].rf, f) - One(arg[p].wf, f) + One(arg'[p].wf, f)
            /\ file[f].ref \in Nat
          BY <1>2, <2>1, LocalsMove
      <2>3. One(arg[p].rf, f) = 0 /\ One(arg[p].wf, f) = 0 /\ One(arg'[p].wf, f) = 0
          BY <1>2, <1>5, UserModeIs, TypesAre DEF One
      <2>4. One(arg'[p].rf, f) = IF f = g THEN 1 ELSE 0
          BY <1>5 DEF One
      <2> QED BY <1>3, <1>4, <2>2, <2>3, <2>4
  <1>10. Locals'
      BY <1>2, <1>3, <1>5, <1>6 DEF IInv, Locals, IOPoints
  <1>11. Fresh'
      <2>1. ASSUME NEW r \in Procs, pc'[r] \in {"pipe_wf", "pipe_page"},
                   NEW f \in {arg'[r].rf, arg'[r].wf} \ {NoFile}
            PROVE  /\ file'[f].type = "FD_NONE" /\ file'[f].ref = 1
                   /\ \A s \in Procs \ {r} : arg'[s].rf # f /\ arg'[s].wf # f
          <3>1. CASE r = p
              BY <1>3, <1>4, <1>5, <2>1, <3>1
          <3>2. CASE r # p
              <4>1. f \in Files /\ f # g /\ f \in {arg[r].rf, arg[r].wf} \ {NoFile}
                  BY <1>3, <1>5, <2>1, <3>2, ArgIs
              <4>2. /\ file[f].type = "FD_NONE" /\ file[f].ref = 1
                    /\ \A s \in Procs \ {r} : arg[s].rf # f /\ arg[s].wf # f
                  BY <1>6, <2>1, <3>2, <4>1 DEF IInv, Fresh
              <4> QED BY <1>4, <1>5, <4>1, <4>2
          <3> QED BY <3>1, <3>2
      <2> QED BY <2>1 DEF Fresh
  <1>12. Opened'
      BY <1>2, <1>7, OpenIs DEF Opened, SameFile
  <1> QED BY <1>2, <1>4, <1>5, <1>6, <1>7, <1>8, <1>9, <1>10, <1>11, <1>12, TypesAre, DescIInv

LEMMA PipeWriteEndIInv ==
  ASSUME IInv, NEW p \in Procs, PipeWriteEnd(p)
  PROVE  IInv'
  <1>1. /\ pc[p] = "pipe_wf" /\ UNCHANGED <<ofile, pi, killed, got, owed>>
        /\ arg[p].rf # NoFile /\ arg[p].rf \in Files /\ arg[p].wf = NoFile
        /\ arg[p].pipe = None /\ arg[p].writable = FALSE /\ arg[p].i = 0 /\ arg[p].n = 0
      BY ArgIs DEF PipeWriteEnd, observed, IInv, Locals, IOPoints
  <1>2. CASE pc' = [pc EXCEPT ![p] = "close"] /\ UNCHANGED <<file, arg>>
      \* no second entry: the first is taken back
      <2>1. /\ pc' \in [Procs -> Points] /\ pc'[p] = "close"
            /\ \A r \in Procs \ {p} : pc'[r] = pc[r]
          BY <1>2, TypesAre DEF Points
      <2>2. \A f \in Files : SameFile(f)
          BY <1>2, TypesAre DEF SameFile
      <2>3. \A r \in Procs : SameEnds(r)
          BY <1>1, <1>2, <2>1 DEF SameEnds, InPipe
      <2>4. \A f \in Files : file'[f].ref = RefsOf(ofile', arg', f)
          BY <1>1, <1>2, Referenced
      <2>5. Locals' /\ Fresh' /\ Opened'
          BY <1>1, <1>2, <2>1 DEF IInv, Locals, Fresh, Opened, IOPoints
      <2> QED BY <1>1, <1>2, <2>1, <2>2, <2>3, <2>4, <2>5, TypesAre, DescIInv
  <1>3. CASE /\ FreeFiles # {} /\ file' = [file EXCEPT ![FirstFree].ref = 1]
             /\ arg' = [arg EXCEPT ![p].wf = FirstFree]
             /\ pc' = [pc EXCEPT ![p] = "pipe_page"]
      <2>1. PICK g \in Files : g = FirstFree
          BY <1>3, FirstFreeIs
      <2>2. /\ file[g].ref = 0 /\ file[g].type = "FD_NONE" /\ g # NoFile
            /\ \A r \in Procs : arg[r].rf # g /\ arg[r].wf # g
          BY <1>3, <2>1, FirstFreeIs
      <2>3. /\ file' \in [Files -> FileType] /\ file'[g].ref = 1
            /\ \A f \in Files : f # g => file'[f] = file[f]
            /\ file'[g].type = "FD_NONE" /\ file'[g].pipe = file[g].pipe
            /\ file'[g].writable = file[g].writable
          BY <1>3, <2>1, <2>2, TypesAre DEF FileType
      <2>4. /\ arg' \in [Procs -> ArgType] /\ \A r \in Procs \ {p} : arg'[r] = arg[r]
            /\ arg'[p].rf = arg[p].rf /\ arg'[p].wf = g /\ arg'[p].pipe = None
            /\ arg'[p].writable = FALSE /\ arg'[p].i = 0 /\ arg'[p].n = 0
          <3>1. arg[p] \in ArgType /\ arg \in [Procs -> ArgType]
              BY TypesAre
          <3>2. arg'[p] = [arg[p] EXCEPT !.wf = g]
              BY <1>3, <2>1, <3>1
          <3>3. arg'[p] \in ArgType
              BY <3>1, <3>2 DEF ArgType
          <3>4. arg' \in [Procs -> ArgType] /\ \A r \in Procs \ {p} : arg'[r] = arg[r]
              BY <1>3, <3>1, <3>2, <3>3
          <3> QED BY <1>1, <3>1, <3>2, <3>4 DEF ArgType
      <2>5. /\ pc' \in [Procs -> Points] /\ pc'[p] = "pipe_page"
            /\ \A r \in Procs \ {p} : pc'[r] = pc[r]
          BY <1>3, TypesAre DEF Points
      <2>6. \A f \in Files : SameFile(f)
          BY <2>2, <2>3, TypesAre DEF SameFile
      <2>7. \A r \in Procs : SameEnds(r)
          <3>1. SameEnds(p)
              BY <1>1, <2>4, <2>5 DEF SameEnds, InPipe
          <3> QED BY <1>1, <2>4, <2>5, <3>1 DEF SameEnds, InPipe
      <2>8. ASSUME NEW f \in Files PROVE file'[f].ref = RefsOf(ofile', arg', f)
          <3>1. OtherLocals(arg, arg', p)
              BY <2>4 DEF OtherLocals
          <3>2. /\ RefsOf(ofile', arg', f) = file[f].ref - One(arg[p].rf, f)
                      + One(arg'[p].rf, f) - One(arg[p].wf, f) + One(arg'[p].wf, f)
                /\ file[f].ref \in Nat
              BY <1>1, <3>1, LocalsMove
          <3>3. One(arg[p].rf, f) = One(arg'[p].rf, f) /\ One(arg[p].wf, f) = 0
              BY <1>1, <2>4, TypesAre DEF One
          <3>4. /\ One(arg'[p].wf, f) = IF f = g THEN 1 ELSE 0
                /\ One(arg[p].rf, f) \in Nat
              BY <2>4 DEF One
          <3> QED BY <2>2, <2>3, <3>2, <3>3, <3>4
      <2>9. Locals'
          BY <1>1, <2>2, <2>4, <2>5 DEF IInv, Locals, IOPoints
      <2>10. Fresh'
          <3>1. ASSUME NEW r \in Procs, pc'[r] \in {"pipe_wf", "pipe_page"},
                       NEW f \in {arg'[r].rf, arg'[r].wf} \ {NoFile}
                PROVE  /\ file'[f].type = "FD_NONE" /\ file'[f].ref = 1
                       /\ \A s \in Procs \ {r} : arg'[s].rf # f /\ arg'[s].wf # f
              <4>1. CASE f = g
                  BY <2>2, <2>3, <2>4, <3>1, <4>1
              <4>2. CASE f # g
                  <5>1. f \in Files /\ f \in {arg[r].rf, arg[r].wf} \ {NoFile}
                      BY <1>1, <2>4, <3>1, <4>2, ArgIs
                  <5>2. /\ file[f].type = "FD_NONE" /\ file[f].ref = 1
                        /\ \A s \in Procs \ {r} : arg[s].rf # f /\ arg[s].wf # f
                      BY <1>1, <2>5, <3>1, <5>1 DEF IInv, Fresh
                  <5> QED BY <1>1, <2>3, <2>4, <4>2, <5>1, <5>2
              <4> QED BY <4>1, <4>2
          <3> QED BY <3>1 DEF Fresh
      <2>11. Opened'
          BY <1>1, <2>6, OpenIs DEF Opened, SameFile
      <2> QED BY <1>1, <2>3, <2>4, <2>5, <2>6, <2>7, <2>8, <2>9, <2>10, <2>11, TypesAre, DescIInv
  <1> QED BY <1>2, <1>3 DEF PipeWriteEnd, Goto

LEMMA NoPageIInv ==
  ASSUME IInv, NEW p \in Procs, NoPage(p)
  PROVE  IInv'
  <1>1. /\ pc[p] = "pipe_page" /\ pc' = [pc EXCEPT ![p] = "close"]
        /\ UNCHANGED <<file, ofile, pi, arg, killed, got, owed>>
      BY DEF NoPage, Goto, observed
  <1>2. /\ pc' \in [Procs -> Points] /\ pc'[p] = "close"
        /\ \A r \in Procs \ {p} : pc'[r] = pc[r]
      BY <1>1, TypesAre DEF Points
  <1>3. \A f \in Files : SameFile(f)
      BY <1>1, TypesAre DEF SameFile
  <1>4. \A r \in Procs : SameEnds(r)
      BY <1>1, <1>2 DEF SameEnds, InPipe
  <1>5. \A f \in Files : file'[f].ref = RefsOf(ofile', arg', f)
      BY <1>1, Referenced
  <1>6. Locals' /\ Fresh' /\ Opened'
      BY <1>1, <1>2 DEF IInv, Locals, Fresh, Opened, IOPoints
  <1> QED BY <1>1, <1>2, <1>3, <1>4, <1>5, <1>6, TypesAre, DescIInv

LEMMA ExitIInv ==
  ASSUME IInv, NEW p \in Procs, Exit(p)
  PROVE  IInv'
  <1>1. /\ pc[p] = "user" /\ pc' = [pc EXCEPT ![p] = "exit"]
        /\ UNCHANGED <<file, ofile, pi, arg, killed, got, owed>>
      BY DEF Exit, Goto, observed
  <1>2. /\ pc' \in [Procs -> Points] /\ pc'[p] = "exit"
        /\ \A r \in Procs \ {p} : pc'[r] = pc[r]
      BY <1>1, TypesAre DEF Points
  <1>3. \A f \in Files : SameFile(f)
      BY <1>1, TypesAre DEF SameFile
  <1>4. \A r \in Procs : SameEnds(r)
      BY <1>1, <1>2 DEF SameEnds, InPipe
  <1>5. \A f \in Files : file'[f].ref = RefsOf(ofile', arg', f)
      BY <1>1, Referenced
  <1>6. Locals' /\ Fresh' /\ Opened'
      BY <1>1, <1>2, UserModeIs DEF IInv, Locals, Fresh, Opened, IOPoints
  <1> QED BY <1>1, <1>2, <1>3, <1>4, <1>5, <1>6, TypesAre, DescIInv

LEMMA SysDupIInv ==
  ASSUME IInv, NEW p \in Procs, NEW d \in Fds, SysDup(p, d)
  PROVE  IInv'
  <1>1. PICK g \in Files : g = ofile[p][d]
      BY OpenIs DEF SysDup
  <1>2. file[g].type = "FD_PIPE" /\ file[g].ref \in Nat \ {0} /\ g # NoFile
      BY <1>1, OpenIs, TypesAre
  <1>3. PICK e \in Fds : ofile[p][e] = NoFile /\ Installed(ofile[p], g) = [ofile[p] EXCEPT ![e] = g]
      BY InstalledIs DEF SysDup
  <1>4. /\ pc[p] = "user" /\ file' = [file EXCEPT ![g].ref = @ + 1]
        /\ ofile' = [ofile EXCEPT ![p] = [ofile[p] EXCEPT ![e] = g]]
        /\ UNCHANGED <<pi, pc, arg, killed, got, owed>>
      BY <1>1, <1>3 DEF SysDup, Syscall, observed
  <1>5. /\ file' \in [Files -> FileType] /\ file'[g].ref = file[g].ref + 1
        /\ \A f \in Files : f # g => file'[f] = file[f]
        /\ file'[g].type = file[g].type /\ file'[g].pipe = file[g].pipe
        /\ file'[g].writable = file[g].writable
      <2>1. file \in [Files -> FileType] /\ file[g] \in FileType
          BY TypesAre
      <2>2. file' = [file EXCEPT ![g] = [file[g] EXCEPT !.ref = file[g].ref + 1]]
          BY <1>4, <2>1
      <2>3. [file[g] EXCEPT !.ref = file[g].ref + 1] \in FileType
          BY <2>1 DEF FileType
      <2>4. file'[g] = [file[g] EXCEPT !.ref = file[g].ref + 1]
          BY <2>1, <2>2
      <2>5. file' \in [Files -> FileType] /\ \A f \in Files : f # g => file'[f] = file[f]
          BY <2>1, <2>2, <2>3
      <2> QED BY <2>1, <2>4, <2>5 DEF FileType
  <1>6. /\ ofile' \in [Procs -> [Fds -> Files \cup {NoFile}]]
        /\ ofile'[p][e] = g
        /\ \A r \in Procs, x \in Fds : ~(r = p /\ x = e) => ofile'[r][x] = ofile[r][x]
        /\ \A r \in Procs \ {p} : ofile'[r] = ofile[r]
      BY <1>4, TypesAre
  <1>7. \A f \in Files : SameFile(f)
      BY <1>2, <1>5, TypesAre DEF SameFile
  <1>8. \A r \in Procs : SameEnds(r)
      BY <1>4, <1>6, UserModeIs DEF SameEnds, InPipe
  <1>9. ASSUME NEW f \in Files PROVE file'[f].ref = RefsOf(ofile', arg', f)
      <2>1. OtherCells(ofile, ofile', p, e) /\ OtherLocals(arg, arg', p)
          BY <1>4, <1>6 DEF OtherCells, OtherLocals
      <2>2. /\ RefsOf(ofile', arg', f) = file[f].ref
                  - One(ofile[p][e], f) + One(ofile'[p][e], f)
                  - One(arg[p].rf, f) + One(arg'[p].rf, f)
                  - One(arg[p].wf, f) + One(arg'[p].wf, f)
            /\ file[f].ref \in Nat
          BY <2>1, CellMove
      <2>3. /\ One(ofile[p][e], f) = 0 /\ One(ofile'[p][e], f) = IF f = g THEN 1 ELSE 0
            /\ One(arg[p].rf, f) = 0 /\ One(arg[p].wf, f) = 0
            /\ One(arg'[p].rf, f) = 0 /\ One(arg'[p].wf, f) = 0
          BY <1>3, <1>4, <1>6, UserModeIs, TypesAre DEF One
      <2> QED BY <1>2, <1>5, <2>2, <2>3
  <1>10. Locals'
      BY <1>4, <1>6 DEF IInv, Locals
  <1>11. Fresh'
      <2>1. ASSUME NEW r \in Procs, pc'[r] \in {"pipe_wf", "pipe_page"},
                   NEW f \in {arg'[r].rf, arg'[r].wf} \ {NoFile}
            PROVE  /\ file'[f].type = "FD_NONE" /\ file'[f].ref = 1
                   /\ \A s \in Procs \ {r} : arg'[s].rf # f /\ arg'[s].wf # f
          <3>1. f \in Files /\ f \in {arg[r].rf, arg[r].wf} \ {NoFile}
              BY <1>4, <2>1, ArgIs
          <3>2. /\ file[f].type = "FD_NONE" /\ file[f].ref = 1
                /\ \A s \in Procs \ {r} : arg[s].rf # f /\ arg[s].wf # f
              BY <1>4, <2>1, <3>1 DEF IInv, Fresh
          <3> QED BY <1>2, <1>4, <1>5, <3>1, <3>2
      <2> QED BY <2>1 DEF Fresh
  <1>12. Opened'
      <2>1. ASSUME NEW r \in Procs, NEW x \in Fds, ofile'[r][x] # NoFile
            PROVE  file'[ofile'[r][x]].type = "FD_PIPE"
          <3>1. CASE r = p /\ x = e
              BY <1>2, <1>5, <1>6, <3>1
          <3>2. CASE ~(r = p /\ x = e)
              <4>1. ofile'[r][x] = ofile[r][x]
                  BY <1>6, <3>2
              <4>2. ofile[r][x] \in Files /\ file[ofile[r][x]].type = "FD_PIPE"
                  BY <2>1, <4>1, OpenIs
              <4> QED BY <1>7, <4>1, <4>2 DEF SameFile
          <3> QED BY <3>1, <3>2
      <2> QED BY <2>1 DEF Opened
  <1> QED BY <1>4, <1>5, <1>6, <1>7, <1>8, <1>9, <1>10, <1>11, <1>12, TypesAre, DescIInv

LEMMA SysCloseIInv ==
  ASSUME IInv, NEW p \in Procs, NEW d \in Fds, SysClose(p, d)
  PROVE  IInv'
  <1>1. PICK g \in Files : g = ofile[p][d]
      BY OpenIs DEF SysClose
  <1>2. file[g].type = "FD_PIPE" /\ g # NoFile
      BY <1>1, OpenIs, TypesAre
  <1>3. /\ pc[p] = "user" /\ arg' = [arg EXCEPT ![p].rf = g]
        /\ ofile' = [ofile EXCEPT ![p] = [ofile[p] EXCEPT ![d] = NoFile]]
        /\ pc' = [pc EXCEPT ![p] = "close"]
        /\ UNCHANGED <<file, pi, killed, got, owed>>
      BY <1>1 DEF SysClose, Syscall, Goto, observed
  <1>4. /\ ofile' \in [Procs -> [Fds -> Files \cup {NoFile}]]
        /\ ofile'[p][d] = NoFile
        /\ \A r \in Procs, x \in Fds : ~(r = p /\ x = d) => ofile'[r][x] = ofile[r][x]
        /\ \A r \in Procs \ {p} : ofile'[r] = ofile[r]
      BY <1>3, TypesAre
  <1>5. /\ arg' \in [Procs -> ArgType] /\ \A r \in Procs \ {p} : arg'[r] = arg[r]
        /\ arg'[p].rf = g /\ arg'[p].wf = NoFile
        /\ arg'[p].pipe = None /\ arg'[p].writable = FALSE
        /\ arg'[p].i = 0 /\ arg'[p].n = 0
      <2>1. arg[p] \in ArgType /\ arg \in [Procs -> ArgType]
          BY TypesAre
      <2>2. arg'[p] = [arg[p] EXCEPT !.rf = g]
          BY <1>3, <2>1
      <2>3. arg'[p] \in ArgType
          BY <2>1, <2>2 DEF ArgType
      <2>4. arg' \in [Procs -> ArgType] /\ \A r \in Procs \ {p} : arg'[r] = arg[r]
          BY <1>3, <2>1, <2>2, <2>3
      <2> QED BY <1>3, <2>1, <2>2, <2>4, UserModeIs DEF ArgType
  <1>6. /\ pc' \in [Procs -> Points] /\ pc'[p] = "close"
        /\ \A r \in Procs \ {p} : pc'[r] = pc[r]
      BY <1>3, TypesAre DEF Points
  <1>7. \A f \in Files : SameFile(f)
      BY <1>3, TypesAre DEF SameFile
  <1>8. \A r \in Procs : SameEnds(r)
      <2>1. SameEnds(p)
          BY <1>3, <1>5, <1>6, UserModeIs DEF SameEnds, InPipe
      <2> QED BY <1>4, <1>5, <1>6, <2>1 DEF SameEnds, InPipe
  <1>9. ASSUME NEW f \in Files PROVE file'[f].ref = RefsOf(ofile', arg', f)
      <2>1. OtherCells(ofile, ofile', p, d) /\ OtherLocals(arg, arg', p)
          BY <1>4, <1>5 DEF OtherCells, OtherLocals
      <2>2. /\ RefsOf(ofile', arg', f) = file[f].ref
                  - One(ofile[p][d], f) + One(ofile'[p][d], f)
                  - One(arg[p].rf, f) + One(arg'[p].rf, f)
                  - One(arg[p].wf, f) + One(arg'[p].wf, f)
            /\ file[f].ref \in Nat
          BY <2>1, CellMove
      <2>3. /\ One(ofile'[p][d], f) = 0 /\ One(ofile[p][d], f) = One(arg'[p].rf, f)
            /\ One(arg[p].rf, f) = 0 /\ One(arg[p].wf, f) = 0 /\ One(arg'[p].wf, f) = 0
            /\ One(arg'[p].rf, f) \in Nat
          <3>1. /\ arg'[p].rf = ofile[p][d] /\ ofile'[p][d] = NoFile
                /\ arg[p].rf = NoFile /\ arg[p].wf = NoFile /\ arg'[p].wf = NoFile
                /\ f # NoFile
              BY <1>1, <1>3, <1>4, <1>5, UserModeIs, TypesAre
          <3> QED BY <3>1 DEF One
      <2> QED BY <1>3, <2>2, <2>3
  <1>10. Locals'
      BY <1>2, <1>3, <1>4, <1>5, <1>6 DEF IInv, Locals, IOPoints
  <1>11. Fresh'
      <2>1. ASSUME NEW r \in Procs, pc'[r] \in {"pipe_wf", "pipe_page"},
                   NEW f \in {arg'[r].rf, arg'[r].wf} \ {NoFile}
            PROVE  /\ file'[f].type = "FD_NONE" /\ file'[f].ref = 1
                   /\ \A s \in Procs \ {r} : arg'[s].rf # f /\ arg'[s].wf # f
          <3>1. r # p /\ pc[r] \in {"pipe_wf", "pipe_page"}
                /\ f \in {arg[r].rf, arg[r].wf} \ {NoFile}
              BY <1>5, <1>6, <2>1
          <3>2. /\ file[f].type = "FD_NONE" /\ file[f].ref = 1
                /\ \A s \in Procs \ {r} : arg[s].rf # f /\ arg[s].wf # f
              BY <3>1 DEF IInv, Fresh
          <3> QED BY <1>2, <1>3, <1>5, <3>1, <3>2
      <2> QED BY <2>1 DEF Fresh
  <1>12. Opened'
      <2>1. ASSUME NEW r \in Procs, NEW x \in Fds, ofile'[r][x] # NoFile
            PROVE  file'[ofile'[r][x]].type = "FD_PIPE"
          <3>1. ofile'[r][x] = ofile[r][x]
              BY <1>4, <2>1
          <3> QED BY <1>3, <2>1, <3>1, OpenIs
      <2> QED BY <2>1 DEF Opened
  <1> QED BY <1>3, <1>4, <1>5, <1>6, <1>7, <1>8, <1>9, <1>10, <1>11, <1>12, TypesAre, DescIInv

LEMMA ForkIInv ==
  ASSUME IInv, NEW p \in Procs, NEW c \in Procs, Fork(p, c)
  PROVE  IInv'
  <1> DEFINE Fdsof(f) == {d \in Fds : ofile[p][d] = f}
             k(f) == Cardinality(Fdsof(f))
  <1>1. /\ pc[p] = "user" /\ pc[c] = "unused" /\ p # c
        /\ ofile' = [ofile EXCEPT ![c] = ofile[p]] /\ pc' = [pc EXCEPT ![c] = "user"]
        /\ file' = [f \in Files |-> [file[f] EXCEPT !.ref = @ + k(f)]]
        /\ UNCHANGED <<pi, arg, killed, got, owed>>
      BY DEF Fork, Syscall, Goto, observed
  <1>2. ASSUME NEW f \in Files
        PROVE  /\ k(f) \in Nat
               /\ file[f].type = "FD_NONE" => k(f) = 0
      <2>1. IsFiniteSet(Fds) /\ Fdsof(f) \in SUBSET Fds
          BY PipeAssumption, FS_Interval DEF Fds
      <2>2. IsFiniteSet(Fdsof(f))
          BY <2>1, FS_Subset
      <2>3. file[f].type = "FD_NONE" => Fdsof(f) = {}
          BY OpenIs, TypesAre
      <2> HIDE DEF Fdsof
      <2> QED BY <2>2, <2>3, FS_CardinalityType, FS_EmptySet
  <1> HIDE DEF k
  <1>3. ASSUME NEW f \in Files
        PROVE  /\ file'[f] \in FileType /\ file'[f].ref = file[f].ref + k(f)
               /\ file'[f].type = file[f].type /\ file'[f].pipe = file[f].pipe
               /\ file'[f].writable = file[f].writable
      <2>1. file[f] \in FileType
          BY FileIs
      <2>2. file'[f] = [file[f] EXCEPT !.ref = file[f].ref + k(f)]
          BY <1>1, <2>1
      <2> QED BY <1>2, <2>1, <2>2 DEF FileType
  <1>4. file' \in [Files -> FileType]
      BY <1>1, <1>3
  <1>5. /\ ofile' \in [Procs -> [Fds -> Files \cup {NoFile}]]
        /\ ofile'[c] = ofile[p] /\ \A r \in Procs \ {c} : ofile'[r] = ofile[r]
      BY <1>1, TypesAre
  <1>6. /\ pc' \in [Procs -> Points] /\ pc'[c] = "user"
        /\ \A r \in Procs \ {c} : pc'[r] = pc[r]
      BY <1>1, TypesAre DEF Points
  <1>7. \A f \in Files : SameFile(f)
      <2>1. \A f \in Files : file[f].type = "FD_PIPE" => file'[f].ref > 0
          BY <1>2, <1>3, FileIs, TypesAre
      <2> QED BY <1>3, <2>1 DEF SameFile
  <1>8. \A r \in Procs : SameEnds(r)
      <2>1. SameEnds(c)
          BY <1>1, <1>6 DEF SameEnds, InPipe
      <2> QED BY <1>1, <1>5, <1>6, <2>1 DEF SameEnds, InPipe
  <1>9. ASSUME NEW f \in Files PROVE file'[f].ref = RefsOf(ofile', arg', f)
      <2>1. \A e \in Fds : ofile[c][e] # f /\ ofile'[c][e] = ofile[p][e]
          BY <1>1, <1>5, TypesAre DEF IInv, Locals
      <2>2. \A r \in Procs, e \in Fds : r # c => ofile'[r][e] = ofile[r][e]
          BY <1>5
      <2>3. Cardinality(Cells(ofile', f)) = Cardinality(Cells(ofile, f)) + k(f)
          <3>1. Copied(ofile, ofile', p, c, f)
              BY <2>1, <2>2 DEF Copied
          <3> QED BY <3>1, CopyCells DEF k
      <2>4. /\ Cardinality(Cells(ofile, f)) \in Nat /\ Cardinality(RfOf(arg, f)) \in Nat
            /\ Cardinality(WfOf(arg, f)) \in Nat
          BY Finite
      <2>5. file[f].ref = RefsOf(ofile, arg, f)
          BY Referenced
      <2> QED BY <1>1, <1>2, <1>3, <2>3, <2>4, <2>5 DEF RefsOf
  <1>10. Locals'
      BY <1>1, <1>5, <1>6 DEF IInv, Locals, IOPoints
  <1>11. Fresh'
      <2>1. ASSUME NEW r \in Procs, pc'[r] \in {"pipe_wf", "pipe_page"},
                   NEW f \in {arg'[r].rf, arg'[r].wf} \ {NoFile}
            PROVE  /\ file'[f].type = "FD_NONE" /\ file'[f].ref = 1
                   /\ \A s \in Procs \ {r} : arg'[s].rf # f /\ arg'[s].wf # f
          <3>1. f \in Files /\ f \in {arg[r].rf, arg[r].wf} \ {NoFile}
              BY <1>1, <2>1, ArgIs
          <3>2. /\ file[f].type = "FD_NONE" /\ file[f].ref = 1
                /\ \A s \in Procs \ {r} : arg[s].rf # f /\ arg[s].wf # f
              BY <1>6, <2>1, <3>1 DEF IInv, Fresh
          <3> QED BY <1>1, <1>2, <1>3, <3>1, <3>2
      <2> QED BY <2>1 DEF Fresh
  <1>12. Opened'
      <2>1. ASSUME NEW r \in Procs, NEW x \in Fds, ofile'[r][x] # NoFile
            PROVE  file'[ofile'[r][x]].type = "FD_PIPE"
          <3>1. PICK s \in Procs : ofile'[r] = ofile[s]
              BY <1>5
          <3> QED BY <1>3, <2>1, <3>1, OpenIs
      <2> QED BY <2>1 DEF Opened
  <1> QED BY <1>1, <1>4, <1>5, <1>6, <1>7, <1>8, <1>9, <1>10, <1>11, <1>12, TypesAre, DescIInv

\* What fileclose() is called with is a file with a reference, and there is
\* none only when nothing is left.
LEMMA ClosingIs ==
  ASSUME IInv, NEW p \in Procs, pc[p] \in {"close", "exit"}
  PROVE  /\ pc[p] = "exit" => /\ arg[p].rf = NoFile /\ arg[p].wf = NoFile
                              /\ OpenFds(p) # {} => FirstFd(p) \in Fds
         /\ Closing(p) \in Files \cup {NoFile}
         /\ Closing(p) = NoFile => /\ arg[p].rf = NoFile /\ arg[p].wf = NoFile
                                   /\ pc[p] = "exit" => \A d \in Fds : ofile[p][d] = NoFile
         /\ Closing(p) # NoFile =>
              /\ file[Closing(p)].ref \in Nat \ {0}
              /\ pc[p] = "exit" => OpenFds(p) # {} /\ Closing(p) = ofile[p][FirstFd(p)]
  <1>1. OpenFds(p) \in SUBSET Nat /\ OpenFds(p) \in SUBSET Fds
      BY PipeAssumption DEF OpenFds, Fds
  <1>2. OpenFds(p) # {} => FirstFd(p) \in Fds /\ ofile[p][FirstFd(p)] # NoFile
      BY <1>1, LowestIs DEF FirstFd, OpenFds
  <1>3. OpenFds(p) = {} => \A d \in Fds : ofile[p][d] = NoFile
      BY DEF OpenFds
  <1>4. CASE pc[p] = "exit"
      <2>1. arg[p].rf = NoFile /\ arg[p].wf = NoFile
          BY <1>4 DEF IInv, Locals
      <2>2. Closing(p) = IF OpenFds(p) = {} THEN NoFile ELSE ofile[p][FirstFd(p)]
          BY <1>4 DEF Closing
      <2>3. CASE OpenFds(p) = {}
          BY <1>3, <1>4, <2>1, <2>2, <2>3
      <2>4. CASE OpenFds(p) # {}
          <3>1. PICK d \in Fds : d = FirstFd(p) /\ ofile[p][d] # NoFile
              BY <1>2, <2>4
          <3>2. ofile[p][d] \in Files /\ file[ofile[p][d]].ref \in Nat \ {0}
              BY <3>1, OpenIs
          <3> QED BY <1>4, <2>1, <2>2, <2>4, <3>1, <3>2
      <2> QED BY <2>3, <2>4
  <1>5. CASE pc[p] = "close"
      <2>1. Closing(p) = IF arg[p].rf # NoFile THEN arg[p].rf ELSE arg[p].wf
          BY <1>5 DEF Closing
      <2>2. arg[p].rf \in Files \cup {NoFile} /\ arg[p].wf \in Files \cup {NoFile}
          BY ArgIs
      <2>3. Closing(p) # NoFile => file[Closing(p)].ref \in Nat \ {0}
          BY <2>1, <2>2, Referenced
      <2> QED BY <1>5, <2>1, <2>2, <2>3
  <1> QED BY <1>4, <1>5

LEMMA CloseDoneIInv ==
  ASSUME IInv, NEW p \in Procs, CloseDone(p)
  PROVE  IInv'
  <1>1. /\ pc[p] \in {"close", "exit"} /\ Closing(p) = NoFile /\ arg[p].pipe = None
        /\ UNCHANGED <<file, ofile, pi, arg, got, owed>>
      BY DEF CloseDone, observed
  <1>2. arg[p] = NoArg
      <2>1. arg[p].rf = NoFile /\ arg[p].wf = NoFile
          BY <1>1, ClosingIs
      <2>2. arg[p].writable = FALSE /\ arg[p].i = 0 /\ arg[p].n = 0
          BY <1>1, ArgIs DEF IInv, Locals, IOPoints
      <2>3. arg[p] \in ArgType
          BY TypesAre
      <2>4. arg[p] = [rf |-> arg[p].rf, wf |-> arg[p].wf, pipe |-> arg[p].pipe,
                      writable |-> arg[p].writable, i |-> arg[p].i, n |-> arg[p].n]
          BY <2>3 DEF ArgType
      <2> QED BY <1>1, <2>1, <2>2, <2>4 DEF NoArg
  <1>3. /\ pc' \in [Procs -> Points]
        /\ pc'[p] = IF pc[p] = "exit" THEN "unused" ELSE "user"
        /\ \A r \in Procs \ {p} : pc'[r] = pc[r]
        /\ killed' \in [Procs -> BOOLEAN]
      BY TypesAre DEF CloseDone, Goto, Points
  <1>4. \A f \in Files : SameFile(f)
      BY <1>1, TypesAre DEF SameFile
  <1>5. \A r \in Procs : SameEnds(r)
      BY <1>1, <1>3 DEF SameEnds, InPipe
  <1>6. \A f \in Files : file'[f].ref = RefsOf(ofile', arg', f)
      BY <1>1, Referenced
  <1>7. Locals'
      <2>1. pc[p] = "exit" => \A d \in Fds : ofile[p][d] = NoFile
          BY <1>1, ClosingIs
      <2>2. /\ NoArg.rf = NoFile /\ NoArg.wf = NoFile /\ NoArg.pipe = None
            /\ ~NoArg.writable /\ NoArg.i = 0 /\ NoArg.n = 0
          BY DEF NoArg
      <2>3. pc'[p] \in {"unused", "user"} /\ (pc'[p] = "unused" => pc[p] = "exit")
          BY <1>1, <1>3
      <2> QED BY <1>1, <1>2, <1>3, <2>1, <2>2, <2>3 DEF IInv, Locals, IOPoints
  <1>8. Fresh' /\ Opened'
      BY <1>1, <1>3 DEF IInv, Fresh, Opened
  <1> QED BY <1>1, <1>3, <1>4, <1>5, <1>6, <1>7, <1>8, TypesAre, DescIInv

\* fileclose(): the reference is dropped, and with the last one the end moves
\* from the file to the caller.
LastRef(f) == file[f].ref = 1 /\ file[f].type = "FD_PIPE"

LEMMA FileCloseIs ==
  ASSUME IInv, NEW p \in Procs, NEW f \in Files, f = Closing(p), FileClose(p)
  PROVE  /\ pc[p] \in {"close", "exit"} /\ file[f].ref \in Nat \ {0} /\ f # NoFile
         /\ arg[p].pipe = None /\ UNCHANGED <<pi, pc, killed, got, owed>>
         /\ file' \in [Files -> FileType]
         /\ \A g \in Files \ {f} : file'[g] = file[g]
         /\ file'[f].ref = file[f].ref - 1
         /\ file'[f].type = IF file[f].ref = 1 THEN "FD_NONE" ELSE file[f].type
         /\ file'[f].pipe = file[f].pipe /\ file'[f].writable = file[f].writable
         /\ arg' \in [Procs -> ArgType] /\ \A r \in Procs \ {p} : arg'[r] = arg[r]
         /\ arg'[p].i = 0 /\ arg'[p].n = 0
         /\ arg'[p].pipe = IF LastRef(f) THEN file[f].pipe ELSE None
         /\ arg'[p].writable = IF LastRef(f) THEN file[f].writable ELSE FALSE
         /\ arg'[p].rf \in {arg[p].rf, NoFile} /\ arg'[p].wf \in {arg[p].wf, NoFile}
         /\ ofile' \in [Procs -> [Fds -> Files \cup {NoFile}]]
         /\ \A r \in Procs \ {p} : ofile'[r] = ofile[r]
         /\ \A r \in Procs, d \in Fds : ofile'[r][d] \in {ofile[r][d], NoFile}
         /\ \A g \in Files : file'[g].ref = RefsOf(ofile', arg', g)
  <1>1. /\ f # NoFile /\ arg[p].pipe = None /\ UNCHANGED <<pi, pc, killed, got, owed>>
        /\ pc[p] \in {"close", "exit"}
      BY DEF FileClose, Closing, observed
  <1>2. /\ file[f].ref \in Nat \ {0}
        /\ pc[p] = "exit" => /\ FirstFd(p) \in Fds /\ ofile[p][FirstFd(p)] = f
                             /\ arg[p].rf = NoFile /\ arg[p].wf = NoFile
      BY <1>1, ClosingIs
  <1>3. /\ arg[p].writable = FALSE /\ arg[p].i = 0 /\ arg[p].n = 0
        /\ arg \in [Procs -> ArgType] /\ arg[p] \in ArgType
      BY <1>1, ArgIs, TypesAre DEF IInv, Locals, IOPoints
  <1>4. /\ file' \in [Files -> FileType] /\ \A g \in Files \ {f} : file'[g] = file[g]
        /\ file'[f].ref = file[f].ref - 1
        /\ file'[f].type = IF file[f].ref = 1 THEN "FD_NONE" ELSE file[f].type
        /\ file'[f].pipe = file[f].pipe /\ file'[f].writable = file[f].writable
      <2> DEFINE c == Closing(p)
                 t == IF file[c].ref = 1 THEN "FD_NONE" ELSE file[c].type
                 new == [file[c] EXCEPT !.ref = file[c].ref - 1, !.type = t]
      <2>1. file' = [file EXCEPT ![c].ref = @ - 1,
                                 ![c].type = IF file[c].ref = 1 THEN "FD_NONE" ELSE @]
          BY DEF FileClose
      <2>2. c = f
          OBVIOUS
      <2> HIDE DEF c
      <2>3. file \in [Files -> FileType] /\ file[c] \in FileType
          BY <2>2, TypesAre
      <2>4. file' = [file EXCEPT ![c] = new]
          BY <2>1, <2>3
      <2>5. t \in {"FD_NONE", "FD_PIPE"} /\ file[c].ref - 1 \in Nat
          BY <1>2, <2>2, FileIs
      <2>6. t = IF file[f].ref = 1 THEN "FD_NONE" ELSE file[f].type
          BY <2>2
      <2> HIDE DEF t
      <2>7. /\ new \in FileType /\ new.ref = file[c].ref - 1 /\ new.type = t
            /\ new.pipe = file[c].pipe /\ new.writable = file[c].writable
          BY <2>3, <2>5 DEF FileType
      <2> HIDE DEF new
      <2>8. file'[c] = new /\ file' \in [Files -> FileType]
            /\ \A g \in Files \ {c} : file'[g] = file[g]
          BY <2>2, <2>3, <2>4, <2>7
      <2> QED BY <2>2, <2>6, <2>7, <2>8
  <1> DEFINE last == LastOf(p, f)
  <1>5. /\ last \in ArgType /\ last.rf = arg[p].rf /\ last.wf = arg[p].wf
        /\ last.i = 0 /\ last.n = 0
        /\ last.pipe = IF LastRef(f) THEN file[f].pipe ELSE None
        /\ last.writable = IF LastRef(f) THEN file[f].writable ELSE FALSE
      <2>1. file[f].pipe \in Pages \cup {None} /\ file[f].writable \in BOOLEAN
          BY FileIs
      <2>2. CASE LastRef(f)
          <3>1. last = [arg[p] EXCEPT !.pipe = file[f].pipe, !.writable = file[f].writable]
              BY <2>2 DEF LastOf, LastRef
          <3> HIDE DEF last
          <3> QED BY <1>3, <2>1, <2>2, <3>1 DEF ArgType
      <2>3. CASE ~LastRef(f)
          <3>1. last = arg[p]
              BY <2>3 DEF LastOf, LastRef
          <3> HIDE DEF last
          <3> QED BY <1>1, <1>3, <2>3, <3>1
      <2> QED BY <2>2, <2>3
  <1>6. Forget(p, last)
      BY DEF FileClose
  <1> HIDE DEF last
  <1>7. CASE pc[p] = "exit"
      <2>1. PICK d \in Fds : d = FirstFd(p)
          BY <1>2, <1>7
      <2>2. /\ ofile' = [ofile EXCEPT ![p] = [ofile[p] EXCEPT ![d] = NoFile]]
            /\ arg' = [arg EXCEPT ![p] = last]
          BY <1>6, <1>7, <2>1 DEF Forget
      <2>3. arg' \in [Procs -> ArgType] /\ arg'[p] = last /\ \A r \in Procs \ {p} : arg'[r] = arg[r]
          BY <1>3, <1>5, <2>2
      <2>4. /\ ofile' \in [Procs -> [Fds -> Files \cup {NoFile}]] /\ ofile'[p][d] = NoFile
            /\ \A r \in Procs, x \in Fds : ~(r = p /\ x = d) => ofile'[r][x] = ofile[r][x]
            /\ \A r \in Procs \ {p} : ofile'[r] = ofile[r]
          BY <2>2, TypesAre
      <2>5. \A r \in Procs, x \in Fds : ofile'[r][x] \in {ofile[r][x], NoFile}
          BY <2>4
      <2>6. ASSUME NEW g \in Files PROVE file'[g].ref = RefsOf(ofile', arg', g)
          <3>1. OtherCells(ofile, ofile', p, d) /\ OtherLocals(arg, arg', p)
              BY <2>3, <2>4 DEF OtherCells, OtherLocals
          <3>2. /\ RefsOf(ofile', arg', g) = file[g].ref
                      - One(ofile[p][d], g) + One(ofile'[p][d], g)
                      - One(arg[p].rf, g) + One(arg'[p].rf, g)
                      - One(arg[p].wf, g) + One(arg'[p].wf, g)
                /\ file[g].ref \in Nat
              BY <3>1, CellMove
          <3>3. /\ ofile[p][d] = f /\ ofile'[p][d] = NoFile /\ arg[p].rf = NoFile
                /\ arg'[p].rf = NoFile /\ arg[p].wf = NoFile /\ arg'[p].wf = NoFile
                /\ g # NoFile
              BY <1>2, <1>5, <1>7, <2>1, <2>3, <2>4, TypesAre
          <3>4. /\ One(ofile[p][d], g) = (IF g = f THEN 1 ELSE 0)
                /\ One(ofile'[p][d], g) = 0 /\ One(arg[p].rf, g) = 0 /\ One(arg'[p].rf, g) = 0
                /\ One(arg[p].wf, g) = 0 /\ One(arg'[p].wf, g) = 0
              BY <3>3 DEF One
          <3>5. file'[g].ref = IF g = f THEN file[g].ref - 1 ELSE file[g].ref
              BY <1>4
          <3> QED BY <3>2, <3>4, <3>5
      <2> QED BY <1>1, <1>2, <1>4, <1>5, <2>3, <2>4, <2>5, <2>6
  <1>8. CASE pc[p] = "close"
      <2> DEFINE new == IF arg[p].rf # NoFile THEN [last EXCEPT !.rf = NoFile]
                                             ELSE [last EXCEPT !.wf = NoFile]
      <2>1. arg' = [arg EXCEPT ![p] = new] /\ ofile' = ofile
          BY <1>6, <1>8 DEF Forget
      <2>2. /\ new \in ArgType /\ new.i = 0 /\ new.n = 0
            /\ new.pipe = last.pipe /\ new.writable = last.writable
            /\ new.rf = NoFile
            /\ new.wf = IF arg[p].rf # NoFile THEN arg[p].wf ELSE NoFile
          BY <1>5 DEF ArgType
      <2> HIDE DEF new
      <2>3. arg' \in [Procs -> ArgType] /\ arg'[p] = new /\ \A r \in Procs \ {p} : arg'[r] = arg[r]
          BY <1>3, <2>1, <2>2
      <2>4. ASSUME NEW g \in Files PROVE file'[g].ref = RefsOf(ofile', arg', g)
          <3>1. OtherLocals(arg, arg', p)
              BY <2>3 DEF OtherLocals
          <3>2. /\ RefsOf(ofile', arg', g) = file[g].ref - One(arg[p].rf, g)
                      + One(arg'[p].rf, g) - One(arg[p].wf, g) + One(arg'[p].wf, g)
                /\ file[g].ref \in Nat
              BY <2>1, <3>1, LocalsMove
          <3>3. g # NoFile /\ f = IF arg[p].rf # NoFile THEN arg[p].rf ELSE arg[p].wf
              BY <1>8, TypesAre DEF Closing
          <3>4. /\ arg'[p].rf = NoFile
                /\ arg'[p].wf = IF arg[p].rf # NoFile THEN arg[p].wf ELSE NoFile
              BY <2>2, <2>3
          <3>5. - One(arg[p].rf, g) + One(arg'[p].rf, g) - One(arg[p].wf, g) + One(arg'[p].wf, g)
                  = IF g = f THEN -1 ELSE 0
              BY <3>3, <3>4 DEF One
          <3>6. file'[g].ref = IF g = f THEN file[g].ref - 1 ELSE file[g].ref
              BY <1>4
          <3>7. /\ One(arg[p].rf, g) \in Nat /\ One(arg'[p].rf, g) \in Nat
                /\ One(arg[p].wf, g) \in Nat /\ One(arg'[p].wf, g) \in Nat
              BY DEF One
          <3> QED BY <3>2, <3>5, <3>6, <3>7
      <2>5. /\ ofile' \in [Procs -> [Fds -> Files \cup {NoFile}]]
            /\ \A r \in Procs \ {p} : ofile'[r] = ofile[r]
            /\ \A r \in Procs, x \in Fds : ofile'[r][x] \in {ofile[r][x], NoFile}
          BY <2>1, TypesAre
      <2> QED BY <1>1, <1>2, <1>4, <1>5, <2>2, <2>3, <2>4, <2>5
  <1> QED BY <1>1, <1>7, <1>8

LEMMA FileCloseIInv ==
  ASSUME IInv, NEW p \in Procs, FileClose(p)
  PROVE  IInv'
  <1>1. PICK f \in Files : f = Closing(p)
      <2>1. pc[p] \in {"close", "exit"} /\ Closing(p) # NoFile
          BY DEF FileClose, Closing
      <2> QED BY <2>1, ClosingIs
  <1>2. /\ pc[p] \in {"close", "exit"} /\ file[f].ref \in Nat \ {0} /\ f # NoFile
        /\ arg[p].pipe = None /\ UNCHANGED <<pi, pc, killed, got, owed>>
        /\ file' \in [Files -> FileType]
        /\ \A g \in Files \ {f} : file'[g] = file[g]
        /\ file'[f].ref = file[f].ref - 1
        /\ file'[f].type = IF file[f].ref = 1 THEN "FD_NONE" ELSE file[f].type
        /\ file'[f].pipe = file[f].pipe /\ file'[f].writable = file[f].writable
      BY <1>1, FileCloseIs
  <1>3. /\ arg' \in [Procs -> ArgType] /\ \A r \in Procs \ {p} : arg'[r] = arg[r]
        /\ arg'[p].i = 0 /\ arg'[p].n = 0
        /\ arg'[p].pipe = IF LastRef(f) THEN file[f].pipe ELSE None
        /\ arg'[p].writable = IF LastRef(f) THEN file[f].writable ELSE FALSE
        /\ arg'[p].rf \in {arg[p].rf, NoFile} /\ arg'[p].wf \in {arg[p].wf, NoFile}
      BY <1>1, FileCloseIs
  <1>4. /\ ofile' \in [Procs -> [Fds -> Files \cup {NoFile}]]
        /\ \A r \in Procs \ {p} : ofile'[r] = ofile[r]
        /\ \A r \in Procs, d \in Fds : ofile'[r][d] \in {ofile[r][d], NoFile}
        /\ \A g \in Files : file'[g].ref = RefsOf(ofile', arg', g)
      BY <1>1, FileCloseIs
  <1>5. ~InPipe(p) /\ (\A r \in Procs : InPipe(r)' <=> InPipe(r)) /\ None \notin Pages
      BY <1>2, PipeAssumption DEF InPipe
  <1>6. RefsExact'
      BY <1>4 DEF RefsExact, Refs, RefsOf, Cells, RfOf, WfOf
  <1>7. /\ Locked' /\ Testing' /\ Sleeping' /\ \A q \in Pages : Count(q)' = Count(q)
      <2>1. \A r \in Procs :
              pc[r] \in LockPoints \/ pc'[r] \in LockPoints \cup {"read_asleep", "write_asleep"}
                => pc'[r] = pc[r] /\ arg'[r] = arg[r]
          BY <1>2, <1>3 DEF LockPoints
      <2> QED BY <1>2, <2>1, QuietStep
  <1>8. TypeOK' /\ Typed'
      <2>1. \A r \in Procs : arg'[r].pipe \in Pages \cup {None} /\ arg'[r].i <= arg'[r].n
          <3>1. arg'[p].i <= arg'[p].n
              BY <1>3
          <3> QED BY <1>3, <3>1, ArgIs DEF ArgType
      <2>2. \A q \in Pages : Count(q)' <= PIPESIZE
          BY <1>7, PageIs
      <2>3. TypeOK'
          BY <1>2, <1>4, <2>1, <2>2 DEF IInv, TypeOK, FileType
      <2> QED BY <1>2, <1>3, <2>3 DEF IInv, Typed
  <1>9. Entries'
      <2>1. ASSUME NEW g \in Files
            PROVE  /\ file'[g].ref = 0 => file'[g].type = "FD_NONE"
                   /\ file'[g].type = "FD_PIPE" => file'[g].pipe \in Pages
          BY <1>2, FileIs DEF IInv, Entries
      <2> QED BY <2>1 DEF Entries
  <1>10. Locals'
      <2>1. LastRef(f) => file[f].pipe \in Pages
          BY DEF LastRef, IInv, Entries
      <2>2. arg[p].rf # NoFile \/ arg[p].wf # NoFile => pc[p] = "close"
          BY <1>2 DEF IInv, Locals
      <2>3. arg'[p].pipe = None => ~LastRef(f)
          BY <1>3, <1>5, <2>1
      <2>4. arg'[p].pipe = None => ~arg'[p].writable
          BY <1>3, <2>3
      <2>5. arg'[p].rf # NoFile \/ arg'[p].wf # NoFile => pc[p] = "close"
          BY <1>3, <2>2
      <2>6. pc' = pc /\ pc[p] \in {"close", "exit"} /\ arg'[p].i = 0 /\ arg'[p].n = 0
          BY <1>2, <1>3
      <2>7. \A r \in Procs \ {p} : arg'[r] = arg[r] /\ ofile'[r] = ofile[r]
          BY <1>3, <1>4
      <2> QED BY <2>4, <2>5, <2>6, <2>7 DEF IInv, Locals, IOPoints
  <1>11. Fresh'
      <2>1. ASSUME NEW r \in Procs, pc'[r] \in {"pipe_wf", "pipe_page"},
                   NEW g \in {arg'[r].rf, arg'[r].wf} \ {NoFile}
            PROVE  /\ file'[g].type = "FD_NONE" /\ file'[g].ref = 1
                   /\ \A s \in Procs \ {r} : arg'[s].rf # g /\ arg'[s].wf # g
          <3>1. /\ r # p /\ pc[r] \in {"pipe_wf", "pipe_page"}
                /\ g \in {arg[r].rf, arg[r].wf} \ {NoFile} /\ g \in Files
              BY <1>2, <1>3, <2>1, ArgIs
          <3>2. /\ file[g].type = "FD_NONE" /\ file[g].ref = 1
                /\ \A s \in Procs \ {r} : arg[s].rf # g /\ arg[s].wf # g
              BY <3>1 DEF IInv, Fresh
          <3>3. g # f
              <4>1. CASE pc[p] = "close"
                  BY <1>1, <3>1, <3>2, <4>1 DEF Closing
              <4>2. CASE pc[p] = "exit"
                  <5>1. FirstFd(p) \in Fds /\ f = ofile[p][FirstFd(p)]
                      BY <1>1, <1>2, <4>2, ClosingIs
                  <5>2. file[f].type = "FD_PIPE"
                      BY <1>2, <5>1, OpenIs
                  <5> QED BY <3>2, <5>2
              <4> QED BY <1>2, <4>1, <4>2
          <3>4. file'[g] = file[g]
              BY <1>2, <3>1, <3>3
          <3>5. arg'[p].rf # g /\ arg'[p].wf # g
              BY <1>3, <3>1, <3>2
          <3> QED BY <1>3, <3>1, <3>2, <3>4, <3>5
      <2> QED BY <2>1 DEF Fresh
  <1>12. Opened'
      <2>1. ASSUME NEW r \in Procs, NEW x \in Fds, ofile'[r][x] # NoFile
            PROVE  file'[ofile'[r][x]].type = "FD_PIPE"
          <3>1. ofile'[r][x] = ofile[r][x]
              BY <1>4, <2>1
          <3>2. PICK g \in Files : g = ofile[r][x] /\ file[g].type = "FD_PIPE"
              BY <2>1, <3>1, OpenIs
          <3>3. ~(g = f /\ file[f].ref = 1)
              <4>1. SUFFICES ASSUME g = f, file[f].ref = 1 PROVE FALSE
                  OBVIOUS
              <4>2. RefsOf(ofile', arg', g) = 0
                  BY <1>2, <1>4, <4>1
              <4>3. ofile'[r][x] # g
                  BY <4>2, NoReference
              <4> QED BY <3>1, <3>2, <4>3
          <3>4. file'[g].type = "FD_PIPE"
              BY <1>2, <3>2, <3>3
          <3> QED BY <3>1, <3>2, <3>4
      <2> QED BY <2>1 DEF Opened
  <1>13. Users'
      <2>1. ASSUME NEW r \in Procs, InPipe(r)'
            PROVE  \E d \in Fds : /\ ofile'[r][d] # NoFile
                                  /\ file'[ofile'[r][d]].pipe = arg'[r].pipe
                                  /\ file'[ofile'[r][d]].writable = WriteSide(r)'
          <3>1. InPipe(r) /\ r # p /\ arg'[r] = arg[r] /\ ofile'[r] = ofile[r]
              BY <1>3, <1>4, <1>5, <2>1
          <3>2. PICK d \in Fds : /\ ofile[r][d] # NoFile
                                 /\ file[ofile[r][d]].pipe = arg[r].pipe
                                 /\ file[ofile[r][d]].writable = WriteSide(r)
              BY <3>1 DEF IInv, Users
          <3>3. PICK g \in Files : g = ofile[r][d]
              BY <3>2, OpenIs
          <3>4. file'[g].pipe = file[g].pipe /\ file'[g].writable = file[g].writable
              BY <1>2
          <3>5. WriteSide(r)' = WriteSide(r)
              BY <1>2 DEF WriteSide
          <3> QED BY <3>1, <3>2, <3>3, <3>4, <3>5
      <2> QED BY <2>1 DEF Users
  <1>14. ASSUME NEW g \in Files, NEW q, NEW w
         PROVE  /\ EndFile(g, q, w)' <=> EndFile(g, q, w) /\ ~(LastRef(f) /\ g = f)
                /\ EndFile(g, q, w) => file[g].ref > 0
                /\ EndFile(g, q, w)' => file'[g].ref > 0
      <2>1. EndFile(g, q, w) => file[g].ref > 0
          BY TypesAre DEF EndFile
      <2>2. CASE g # f
          <3>1. file'[g] = file[g]
              BY <1>2, <2>2
          <3> QED BY <2>1, <2>2, <3>1 DEF EndFile
      <2>3. CASE g = f
          <3>1. file[f].type = "FD_NONE" \/ file[f].type = "FD_PIPE"
              BY FileIs
          <3>2. EndFile(g, q, w)' <=> EndFile(g, q, w) /\ ~(LastRef(f) /\ g = f)
              BY <1>2, <2>3, <3>1 DEF EndFile, LastRef
          <3>3. EndFile(g, q, w)' => file[f].ref # 1
              BY <1>2, <2>3 DEF EndFile
          <3> QED BY <1>2, <2>1, <2>3, <3>2, <3>3
      <2> QED BY <2>2, <2>3
  <1>15. ASSUME NEW r \in Procs, NEW q \in Pages, NEW w
         PROVE  Closer(r, q, w)' <=> \/ Closer(r, q, w)
                                     \/ r = p /\ LastRef(f) /\ EndFile(f, q, w)
      <2>1. CASE r # p
          <3>1. arg'[r] = arg[r]
              BY <1>3, <2>1
          <3> QED BY <1>5, <2>1, <3>1 DEF Closer
      <2>2. CASE r = p
          <3>1. ~Closer(p, q, w)
              BY <1>2, <1>5 DEF Closer
          <3>2. ~InPipe(p)'
              BY <1>5
          <3>3. LastRef(f) => file[f].type = "FD_PIPE"
              BY DEF LastRef
          <3> QED BY <1>3, <1>5, <2>2, <3>1, <3>2, <3>3 DEF Closer, EndFile
      <2> QED BY <2>1, <2>2
  <1>16. OneEnd'
      <2>1. ASSUME NEW q \in Pages, NEW w \in BOOLEAN
            PROVE  /\ \A g, h \in Files : EndFile(g, q, w) /\ EndFile(h, q, w) => g = h
                   /\ \A r, s \in Procs : Closer(r, q, w) /\ Closer(s, q, w) => r = s
                   /\ \A g \in Files, r \in Procs : ~(EndFile(g, q, w) /\ Closer(r, q, w))
          BY DEF IInv, OneEnd
      <2>2. ASSUME NEW q \in Pages, NEW w \in BOOLEAN
            PROVE  /\ \A g, h \in Files : EndFile(g, q, w)' /\ EndFile(h, q, w)' => g = h
                   /\ \A r, s \in Procs : Closer(r, q, w)' /\ Closer(s, q, w)' => r = s
                   /\ \A g \in Files, r \in Procs : ~(EndFile(g, q, w)' /\ Closer(r, q, w)')
          BY <1>14, <1>15, <2>1
      <2> QED BY <2>2 DEF OneEnd
  <1>17. EndsMatch'
      <2>1. ASSUME NEW q \in Pages, NEW w PROVE EndOpen(q, w)' <=> EndOpen(q, w)
          <3>1. EndOpen(q, w) <=>
                  \/ \E g \in Files : file[g].ref > 0 /\ EndFile(g, q, w)
                  \/ \E r \in Procs : Closer(r, q, w)
              BY DEF EndOpen, EndFile, Closer
          <3>2. EndOpen(q, w)' <=>
                  \/ \E g \in Files : file'[g].ref > 0 /\ EndFile(g, q, w)'
                  \/ \E r \in Procs : Closer(r, q, w)'
              BY DEF EndOpen, EndFile, Closer
          <3> QED BY <1>14, <1>15, <3>1, <3>2
      <2>2. \A q \in Pages : /\ EndOpen(q, TRUE)' <=> EndOpen(q, TRUE)
                             /\ EndOpen(q, FALSE)' <=> EndOpen(q, FALSE)
          BY <2>1
      <2>3. \A q \in Pages : /\ pi'[q].readopen <=> EndOpen(q, FALSE)
                             /\ pi'[q].writeopen <=> EndOpen(q, TRUE)
                             /\ pi'[q].used <=> pi'[q].readopen \/ pi'[q].writeopen
          BY <1>2 DEF IInv, EndsMatch
      <2> QED BY <2>2, <2>3 DEF EndsMatch
  <1> QED BY <1>6, <1>7, <1>8, <1>9, <1>10, <1>11, <1>12, <1>13, <1>16, <1>17 DEF IInv

-----------------------------------------------------------------------------
\* The steps that make a pipe and take it down.

LEMMA JunkIs ==
  /\ Junk \in PipeType /\ Junk.lock = None /\ Junk.nread = 0 /\ Junk.nwrite = 0
  /\ Junk.used = FALSE /\ Junk.readopen = FALSE /\ Junk.writeopen = FALSE
  <1>1. 0 \in 0 .. WRAP - 1
      BY PipeAssumption
  <1> QED BY <1>1 DEF Junk, PipeType

\* A page that is not a pipe has no files, no users and no lock.
LEMMA UnusedIs ==
  ASSUME IInv, NEW q \in Pages, ~pi[q].used
  PROVE  /\ pi[q].lock = None
         /\ \A w \in BOOLEAN : /\ \A f \in Files : ~EndFile(f, q, w)
                               /\ \A r \in Procs : ~Closer(r, q, w)
         /\ \A r \in Procs : InPipe(r) => arg[r].pipe # q
  <1>1. \A r \in Procs : InPipe(r) => arg[r].pipe # q
      BY UserIs
  <1>2. pi[q].lock = None
      <2>1. SUFFICES ASSUME pi[q].lock # None PROVE FALSE
          OBVIOUS
      <2>2. PICK r \in Procs : r = pi[q].lock
          BY <2>1, PageIs
      <2>3. pc[r] \in LockPoints /\ arg[r].pipe = q
          BY <2>1, <2>2 DEF IInv, Locked
      <2> QED BY <1>1, <2>3 DEF LockPoints, InPipe
  <1>3. ~EndOpen(q, TRUE) /\ ~EndOpen(q, FALSE)
      BY DEF IInv, EndsMatch
  <1>4. ASSUME NEW w \in BOOLEAN
        PROVE  /\ \A f \in Files : ~EndFile(f, q, w)
               /\ \A r \in Procs : ~Closer(r, q, w)
      <2>1. ~EndOpen(q, w)
          BY <1>3
      <2> QED BY <2>1, TypesAre DEF EndOpen, EndFile, Closer
  <1> QED BY <1>1, <1>2, <1>4

\* The two descriptors of sys_pipe().
NewFds(p, a, b, d, e) ==
  /\ d # e /\ ofile[p][d] = NoFile /\ ofile[p][e] = NoFile
  /\ Installed(Installed(ofile[p], a), b)
       = [[ofile[p] EXCEPT ![d] = a] EXCEPT ![e] = b]
GetsFds(p, a, b) ==
  ofile' = [ofile EXCEPT ![p] = Installed(Installed(ofile[p], a), b)]

LEMMA TwoInstalled ==
  ASSUME IInv, NEW p \in Procs, Cardinality(FreeFds(ofile[p])) >= 2,
         NEW a \in Files, NEW b \in Files
  PROVE  \E d, e \in Fds : NewFds(p, a, b, d, e)
  <1> DEFINE S == FreeFds(ofile[p])
  <1>1. IsFiniteSet(S)
      <2>1. IsFiniteSet(Fds) /\ S \in SUBSET Fds
          BY PipeAssumption, FS_Interval DEF Fds, FreeFds
      <2> QED BY <2>1, FS_Subset
  <1>2. S # {}
      <2> HIDE DEF S
      <2>1. S = {} => Cardinality(S) = 0
          BY <1>1, FS_EmptySet
      <2> QED BY <2>1 DEF S
  <1>3. PICK d \in Fds : /\ ofile[p][d] = NoFile
                         /\ Installed(ofile[p], a) = [ofile[p] EXCEPT ![d] = a]
      BY <1>2, InstalledIs
  <1>4. S \ {d} # {}
      <2>1. d \in S
          BY <1>3 DEF FreeFds
      <2>2. Cardinality(S) \in Nat
          BY <1>1, FS_CardinalityType
      <2>3. Cardinality(S \ {d}) = Cardinality(S) - 1
          BY <1>1, <2>1, FS_RemoveElement
      <2> HIDE DEF S
      <2>4. S \ {d} = {} => Cardinality(S \ {d}) = 0
          BY FS_EmptySet
      <2> QED BY <2>2, <2>3, <2>4 DEF S
  <1> DEFINE t == [ofile[p] EXCEPT ![d] = a]
  <1>5. t[d] = a /\ (\A x \in Fds : x # d => t[x] = ofile[p][x]) /\ a # NoFile
      BY OpenIs, TypesAre
  <1>6. FreeFds(t) # {}
      BY <1>4, <1>5 DEF FreeFds
  <1> HIDE DEF t
  <1>7. PICK e \in Fds : t[e] = NoFile /\ Installed(t, b) = [t EXCEPT ![e] = b]
      BY <1>6, InstalledIs
  <1>8. e # d /\ ofile[p][e] = NoFile
      BY <1>5, <1>7
  <1>9. Installed(Installed(ofile[p], a), b)
          = [[ofile[p] EXCEPT ![d] = a] EXCEPT ![e] = b]
      BY <1>3, <1>7 DEF t
  <1>10. NewFds(p, a, b, d, e)
      BY <1>3, <1>8, <1>9 DEF NewFds
  <1> QED BY <1>10

\* sys_pipe(): the two references move from its locals to the descriptors.
LEMMA TwoRefs ==
  ASSUME IInv, NEW p \in Procs, NEW d \in Fds, NEW e \in Fds,
         NEW a \in Files, NEW b \in Files, a = arg[p].rf, b = arg[p].wf,
         NewFds(p, a, b, d, e), GetsFds(p, a, b),
         \A r \in Procs \ {p} : arg'[r] = arg[r],
         arg'[p].rf = NoFile, arg'[p].wf = NoFile,
         NEW f \in Files
  PROVE  RefsOf(ofile', arg', f) = file[f].ref
  <1>0. /\ d # e /\ ofile[p][d] = NoFile /\ ofile[p][e] = NoFile
        /\ ofile' = [ofile EXCEPT ![p] = [[ofile[p] EXCEPT ![d] = a] EXCEPT ![e] = b]]
      BY DEF NewFds, GetsFds
  <1> DEFINE t == [ofile[p] EXCEPT ![d] = a]
             of == [ofile EXCEPT ![p] = t]
  <1>1. /\ t \in [Fds -> Files \cup {NoFile}] /\ t[d] = a
        /\ \A x \in Fds : x # d => t[x] = ofile[p][x]
      BY TypesAre
  <1>2. /\ of[p] = t /\ \A r \in Procs : r # p => of[r] = ofile[r]
      BY TypesAre
  <1> DEFINE u == [t EXCEPT ![e] = b]
  <1>3. ofile'[p] = u /\ \A r \in Procs : r # p => ofile'[r] = ofile[r]
      BY <1>0, TypesAre
  <1> HIDE DEF t, of
  <1>4. u[e] = b /\ \A x \in Fds : x # e => u[x] = t[x]
      BY <1>1
  <1> HIDE DEF u
  <1>5. OtherCells(ofile, of, p, d) /\ OtherCells(of, ofile', p, e)
      BY <1>1, <1>2, <1>3, <1>4 DEF OtherCells
  <1>6. OtherLocals(arg, arg, p) /\ OtherLocals(arg, arg', p)
      BY DEF OtherLocals
  <1>7. /\ RefsOf(of, arg, f) = RefsOf(ofile, arg, f) - One(ofile[p][d], f) + One(of[p][d], f)
             - One(arg[p].rf, f) + One(arg[p].rf, f) - One(arg[p].wf, f) + One(arg[p].wf, f)
        /\ RefsOf(ofile, arg, f) \in Nat
      <2>1. OtherCells(ofile, of, p, d) /\ OtherLocals(arg, arg, p)
          BY <1>5, <1>6
      <2> QED BY ONLY p \in Procs, d \in Fds, <2>1, CellRefs
  <1>8. RefsOf(ofile', arg', f) = RefsOf(of, arg, f) - One(of[p][e], f) + One(ofile'[p][e], f)
             - One(arg[p].rf, f) + One(arg'[p].rf, f) - One(arg[p].wf, f) + One(arg'[p].wf, f)
      <2>1. OtherCells(of, ofile', p, e) /\ OtherLocals(arg, arg', p)
          BY <1>5, <1>6
      <2>2. PICK of2, ar2 : of2 = ofile' /\ ar2 = arg'
          OBVIOUS
      <2>3. OtherCells(of, of2, p, e) /\ OtherLocals(arg, ar2, p)
          BY <2>1, <2>2
      <2>4. RefsOf(of2, ar2, f) = RefsOf(of, arg, f) - One(of[p][e], f) + One(of2[p][e], f)
             - One(arg[p].rf, f) + One(ar2[p].rf, f) - One(arg[p].wf, f) + One(ar2[p].wf, f)
          BY <2>3, CellRefs, SMTT(60)
      <2> QED BY <2>2, <2>4
  <1>9. /\ ofile[p][d] = NoFile /\ of[p][d] = a /\ of[p][e] = NoFile
        /\ ofile'[p][e] = b
      BY <1>0, <1>1, <1>2, <1>3, <1>4
  <1>10. One(NoFile, f) = 0
      BY TypesAre DEF One
  <1>11. One(arg[p].rf, f) \in Nat /\ One(arg[p].wf, f) \in Nat
      BY DEF One
  <1>12. file[f].ref = RefsOf(ofile, arg, f)
      BY Referenced
  <1> QED BY <1>7, <1>8, <1>9, <1>10, <1>11, <1>12

\* What PipePage does, whether or not the descriptors and copyout() succeed.
PipeMade(p, q, a, b) ==
  /\ pc[p] = "pipe_page" /\ ~pi[q].used /\ a # b /\ UNCHANGED <<killed, got, owed>>
  /\ file[a].type = "FD_NONE" /\ file[a].ref = 1
  /\ file[b].type = "FD_NONE" /\ file[b].ref = 1
  /\ \A r \in Procs \ {p} : /\ arg[r].rf \notin {a, b} /\ arg[r].wf \notin {a, b}
                            /\ pc'[r] = pc[r] /\ arg'[r] = arg[r]
                            /\ ofile'[r] = ofile[r]
  /\ file' \in [Files -> FileType] /\ \A f \in Files \ {a, b} : file'[f] = file[f]
  /\ file'[a].type = "FD_PIPE" /\ file'[a].pipe = q /\ file'[a].writable = FALSE
  /\ file'[b].type = "FD_PIPE" /\ file'[b].pipe = q /\ file'[b].writable = TRUE
  /\ \A f \in Files : file'[f].ref = file[f].ref
  /\ pi' \in [Pages -> PipeType] /\ \A s \in Pages \ {q} : pi'[s] = pi[s]
  /\ pi'[q].used /\ pi'[q].readopen /\ pi'[q].writeopen /\ pi'[q].lock = None
  /\ pi'[q].nread = 0 /\ pi'[q].nwrite = 0

LEMMA PipePageIs ==
  ASSUME IInv, NEW p \in Procs, NEW q \in Pages, NEW a \in Files, NEW b \in Files,
         a = arg[p].rf, b = arg[p].wf, PipePage(p, q)
  PROVE  PipeMade(p, q, a, b)
  <1>1. /\ pc[p] = "pipe_page" /\ ~pi[q].used /\ UNCHANGED <<killed, got, owed>>
        /\ a # b /\ a # NoFile /\ b # NoFile
      BY TypesAre DEF PipePage, observed, IInv, Locals
  <1>2. /\ file[a].type = "FD_NONE" /\ file[a].ref = 1
        /\ file[b].type = "FD_NONE" /\ file[b].ref = 1
        /\ \A r \in Procs \ {p} : /\ arg[r].rf # a /\ arg[r].wf # a
                                  /\ arg[r].rf # b /\ arg[r].wf # b
      <2>1. a \in {arg[p].rf, arg[p].wf} \ {NoFile} /\ b \in {arg[p].rf, arg[p].wf} \ {NoFile}
          BY <1>1
      <2> QED BY <1>1, <2>1 DEF IInv, Fresh
  <1>3. \A r \in Procs \ {p} : pc'[r] = pc[r] /\ arg'[r] = arg[r] /\ ofile'[r] = ofile[r]
      BY TypesAre DEF PipePage, Goto
  <1>4. /\ file' \in [Files -> FileType] /\ \A f \in Files \ {a, b} : file'[f] = file[f]
        /\ file'[a].type = "FD_PIPE" /\ file'[a].pipe = q /\ file'[a].writable = FALSE
        /\ file'[b].type = "FD_PIPE" /\ file'[b].pipe = q /\ file'[b].writable = TRUE
        /\ \A f \in Files : file'[f].ref = file[f].ref
      <2> DEFINE A == [file[a] EXCEPT !.type = "FD_PIPE", !.writable = FALSE, !.pipe = q]
                 B == [file[b] EXCEPT !.type = "FD_PIPE", !.writable = TRUE, !.pipe = q]
      <2>1. file \in [Files -> FileType] /\ file[a] \in FileType /\ file[b] \in FileType
          BY TypesAre
      <2>2. file' = [file EXCEPT ![a] = A, ![b] = B]
          BY <1>1, <2>1 DEF PipePage
      <2>3. /\ A \in FileType /\ A.type = "FD_PIPE" /\ A.pipe = q /\ A.writable = FALSE
            /\ A.ref = file[a].ref
            /\ B \in FileType /\ B.type = "FD_PIPE" /\ B.pipe = q /\ B.writable = TRUE
            /\ B.ref = file[b].ref
          BY <2>1 DEF FileType
      <2> HIDE DEF A, B
      <2>4. /\ file' \in [Files -> FileType] /\ file'[a] = A /\ file'[b] = B
            /\ \A f \in Files \ {a, b} : file'[f] = file[f]
          BY <1>1, <2>1, <2>2, <2>3
      <2> QED BY <2>3, <2>4
  <1>5. /\ pi' \in [Pages -> PipeType] /\ \A s \in Pages \ {q} : pi'[s] = pi[s]
        /\ pi'[q].used /\ pi'[q].readopen /\ pi'[q].writeopen /\ pi'[q].lock = None
        /\ pi'[q].nread = 0 /\ pi'[q].nwrite = 0
      <2> DEFINE new == [Junk EXCEPT !.used = TRUE, !.readopen = TRUE, !.writeopen = TRUE]
      <2>1. pi' = [pi EXCEPT ![q] = new] /\ pi \in [Pages -> PipeType]
          BY DEF PipePage, IInv, Typed
      <2>2. Junk \in PipeType /\ Junk.lock = None /\ Junk.nread = 0 /\ Junk.nwrite = 0
          BY JunkIs
      <2>3. /\ new \in PipeType /\ new.used /\ new.readopen /\ new.writeopen
            /\ new.lock = None /\ new.nread = 0 /\ new.nwrite = 0
          BY <2>2 DEF PipeType
      <2> HIDE DEF new
      <2>4. new \in PipeType
          BY <2>3
      <2>5. pi'[q] = new
          BY <2>1
      <2> QED BY <2>1, <2>3, <2>4, <2>5
  <1> QED BY <1>1, <1>2, <1>3, <1>4, <1>5 DEF PipeMade

LEMMA PipePageIInv ==
  ASSUME IInv, NEW p \in Procs, NEW q \in Pages, PipePage(p, q)
  PROVE  IInv'
  <1>1. PICK a \in Files, b \in Files : a = arg[p].rf /\ b = arg[p].wf
      BY ArgIs DEF PipePage, IInv, Locals
  <1>0. PipeMade(p, q, a, b)
      BY <1>1, PipePageIs
  <1>2. /\ pc[p] = "pipe_page" /\ ~pi[q].used /\ a # b /\ UNCHANGED <<killed, got, owed>>
        /\ file[a].type = "FD_NONE" /\ file[a].ref = 1
        /\ file[b].type = "FD_NONE" /\ file[b].ref = 1
        /\ \A r \in Procs \ {p} : /\ arg[r].rf \notin {a, b} /\ arg[r].wf \notin {a, b}
                                  /\ pc'[r] = pc[r] /\ arg'[r] = arg[r]
                                  /\ ofile'[r] = ofile[r]
      BY <1>0 DEF PipeMade
  <1>3. /\ file' \in [Files -> FileType] /\ \A f \in Files \ {a, b} : file'[f] = file[f]
        /\ file'[a].type = "FD_PIPE" /\ file'[a].pipe = q /\ file'[a].writable = FALSE
        /\ file'[b].type = "FD_PIPE" /\ file'[b].pipe = q /\ file'[b].writable = TRUE
        /\ \A f \in Files : file'[f].ref = file[f].ref
      BY <1>0 DEF PipeMade
  <1>4. /\ pi' \in [Pages -> PipeType] /\ \A s \in Pages \ {q} : pi'[s] = pi[s]
        /\ pi'[q].used /\ pi'[q].readopen /\ pi'[q].writeopen /\ pi'[q].lock = None
        /\ pi'[q].nread = 0 /\ pi'[q].nwrite = 0
      BY <1>0 DEF PipeMade
  <1>5. /\ arg[p].pipe = None /\ ~arg[p].writable /\ arg[p].i = 0 /\ arg[p].n = 0
        /\ ~InPipe(p) /\ p # None /\ None \notin Pages
      BY <1>2, PipeAssumption DEF IInv, Locals, IOPoints, InPipe
  <1>6. /\ pi[q].lock = None
        /\ \A w \in BOOLEAN : /\ \A f \in Files : ~EndFile(f, q, w)
                              /\ \A r \in Procs : ~Closer(r, q, w)
        /\ \A r \in Procs : InPipe(r) => arg[r].pipe # q
      BY <1>2, UnusedIs
  \* The descriptors, or none.
  <1>7. /\ ofile' \in [Procs -> [Fds -> Files \cup {NoFile}]]
        /\ arg' \in [Procs -> ArgType] /\ pc' \in [Procs -> Points]
        /\ \/ pc'[p] = "user" /\ arg'[p] = NoArg
           \/ pc'[p] = "close" /\ arg'[p] = arg[p]
        /\ \A x \in Fds : ofile'[p][x] \in {ofile[p][x], a, b}
        /\ \A f \in Files : RefsOf(ofile', arg', f) = file[f].ref
      <2>1. CASE UNCHANGED <<ofile, arg>> /\ pc' = [pc EXCEPT ![p] = "close"]
          <3>1. pc' \in [Procs -> Points] /\ pc'[p] = "close"
              BY <2>1, TypesAre DEF Points
          <3>2. \A f \in Files : RefsOf(ofile', arg', f) = file[f].ref
              BY <2>1, Referenced
          <3> QED BY <2>1, <3>1, <3>2, TypesAre
      <2>2. CASE /\ Cardinality(FreeFds(ofile[p])) >= 2
                 /\ ofile' = [ofile EXCEPT ![p] = Installed(Installed(ofile[p], a), b)]
                 /\ arg' = [arg EXCEPT ![p] = NoArg] /\ pc' = [pc EXCEPT ![p] = "user"]
          <3>1. PICK d \in Fds, e \in Fds : NewFds(p, a, b, d, e)
              BY <2>2, TwoInstalled
          <3>2. /\ GetsFds(p, a, b)
                /\ ofile' = [ofile EXCEPT ![p] = [[ofile[p] EXCEPT ![d] = a] EXCEPT ![e] = b]]
              BY <2>2, <3>1 DEF GetsFds, NewFds
          <3>3. NoArg \in ArgType /\ NoArg.rf = NoFile /\ NoArg.wf = NoFile
              BY DEF NoArg, ArgType
          <3>4. /\ arg' \in [Procs -> ArgType] /\ arg'[p] = NoArg
                /\ pc' \in [Procs -> Points] /\ pc'[p] = "user"
              BY <2>2, <3>3, TypesAre DEF Points
          <3>5. \A f \in Files : RefsOf(ofile', arg', f) = file[f].ref
              BY <1>1, <1>2, <3>1, <3>2, <3>3, <3>4, TwoRefs
          <3>6. /\ ofile' \in [Procs -> [Fds -> Files \cup {NoFile}]]
                /\ \A x \in Fds : ofile'[p][x] \in {ofile[p][x], a, b}
              BY <3>2, TypesAre
          <3> QED BY <3>4, <3>5, <3>6
      <2> QED BY <1>1, <2>1, <2>2 DEF PipePage, Goto
  <1>8. /\ NoArg.rf = NoFile /\ NoArg.wf = NoFile /\ NoArg.pipe = None /\ ~NoArg.writable
        /\ NoArg.i = 0 /\ NoArg.n = 0
      BY DEF NoArg
  <1>9. /\ arg'[p].pipe = None /\ ~arg'[p].writable /\ arg'[p].i = 0 /\ arg'[p].n = 0
        /\ pc'[p] \in {"user", "close"} /\ arg'[p].rf \in {arg[p].rf, NoFile}
        /\ arg'[p].wf \in {arg[p].wf, NoFile}
      BY <1>5, <1>7, <1>8
  <1>10. \A r \in Procs : InPipe(r)' <=> InPipe(r)
      BY <1>2, <1>9 DEF InPipe
  <1>11. RefsExact'
      BY <1>3, <1>7 DEF RefsExact, Refs, RefsOf, Cells, RfOf, WfOf
  <1>12. Locked' /\ Testing' /\ Sleeping'
      <2>1. OthersWake(p) /\ OtherPages(q)
          BY <1>2, <1>4 DEF OthersWake, OtherPages
      <2>2. MaySleep(p, q)
          BY <1>9 DEF MaySleep
      <2>3. SleepersMay(p, q)
          <3>1. ASSUME NEW r \in Procs \ {p}, arg'[r].pipe = q
                PROVE  pc'[r] \notin {"read_asleep", "write_asleep"}
              BY <1>2, <1>6, <3>1 DEF InPipe
          <3> QED BY <3>1 DEF SleepersMay, MaySleep
      <2>4. /\ ~InPipe(p)' /\ pc'[p] \notin LockPoints
            /\ pc'[p] \notin {"read_sleep", "write_body"}
          BY <1>5, <1>9, <1>10 DEF LockPoints
      <2> QED BY <1>4, <1>5, <1>6, <2>1, <2>2, <2>3, <2>4, PipeStep
  <1>13. TypeOK' /\ Typed'
      <2>1. \A r \in Procs : arg'[r].pipe \in Pages \cup {None} /\ arg'[r].i <= arg'[r].n
          <3>1. arg'[p].i <= arg'[p].n
              BY <1>9
          <3> QED BY <1>2, <1>7, <3>1, ArgIs DEF ArgType
      <2>2. \A s \in Pages : Count(s)' <= PIPESIZE
          <3>1. Count(q)' <= PIPESIZE
              BY <1>4, PipeAssumption DEF Count
          <3>2. \A s \in Pages \ {q} : Count(s)' = Count(s)
              BY <1>4 DEF Count
          <3> QED BY <3>1, <3>2, PageIs
      <2>3. TypeOK'
          BY <1>2, <1>3, <1>7, <2>1, <2>2 DEF IInv, TypeOK, FileType
      <2> QED BY <1>2, <1>4, <1>7, <2>3 DEF IInv, Typed
  <1>14. Entries'
      <2>1. ASSUME NEW f \in Files
            PROVE  /\ file'[f].ref = 0 => file'[f].type = "FD_NONE"
                   /\ file'[f].type = "FD_PIPE" => file'[f].pipe \in Pages
          BY <1>2, <1>3 DEF IInv, Entries
      <2> QED BY <2>1 DEF Entries
  <1>15. Locals'
      <2>1. arg[p].rf # NoFile
          BY <1>2 DEF IInv, Locals
      <2> QED BY <1>2, <1>5, <1>7, <1>8, <1>9, <2>1 DEF IInv, Locals, IOPoints
  <1>16. Fresh'
      <2>1. ASSUME NEW r \in Procs, pc'[r] \in {"pipe_wf", "pipe_page"},
                   NEW g \in {arg'[r].rf, arg'[r].wf} \ {NoFile}
            PROVE  /\ file'[g].type = "FD_NONE" /\ file'[g].ref = 1
                   /\ \A s \in Procs \ {r} : arg'[s].rf # g /\ arg'[s].wf # g
          <3>1. /\ r # p /\ pc[r] \in {"pipe_wf", "pipe_page"}
                /\ g \in {arg[r].rf, arg[r].wf} \ {NoFile} /\ g \in Files
              BY <1>2, <1>9, <2>1, ArgIs
          <3>2. /\ file[g].type = "FD_NONE" /\ file[g].ref = 1
                /\ \A s \in Procs \ {r} : arg[s].rf # g /\ arg[s].wf # g
              BY <3>1 DEF IInv, Fresh
          <3>3. g \notin {a, b}
              BY <1>2, <3>1
          <3>4. file'[g] = file[g]
              BY <1>3, <3>1, <3>3
          <3>5. arg'[p].rf # g /\ arg'[p].wf # g
              BY <1>9, <3>1, <3>2
          <3> QED BY <1>2, <3>1, <3>2, <3>4, <3>5
      <2> QED BY <2>1 DEF Fresh
  <1>17. Opened'
      <2>1. ASSUME NEW r \in Procs, NEW x \in Fds, ofile'[r][x] # NoFile
            PROVE  file'[ofile'[r][x]].type = "FD_PIPE"
          <3>1. CASE ofile'[r][x] \in {a, b}
              BY <1>3, <3>1
          <3>2. CASE ofile'[r][x] \notin {a, b}
              <4>1. ofile'[r][x] = ofile[r][x]
                  BY <1>2, <1>7, <3>2
              <4>2. PICK g \in Files : g = ofile[r][x] /\ file[g].type = "FD_PIPE"
                  BY <2>1, <4>1, OpenIs
              <4>3. file'[g] = file[g]
                  BY <1>3, <3>2, <4>1, <4>2
              <4> QED BY <4>1, <4>2, <4>3
          <3> QED BY <3>1, <3>2
      <2> QED BY <2>1 DEF Opened
  <1>18. Users'
      <2>1. ASSUME NEW r \in Procs, InPipe(r)'
            PROVE  \E d \in Fds : /\ ofile'[r][d] # NoFile
                                  /\ file'[ofile'[r][d]].pipe = arg'[r].pipe
                                  /\ file'[ofile'[r][d]].writable = WriteSide(r)'
          <3>1. /\ InPipe(r) /\ r # p /\ arg'[r] = arg[r] /\ ofile'[r] = ofile[r]
                /\ pc'[r] = pc[r]
              BY <1>2, <1>5, <1>10, <2>1
          <3>2. PICK d \in Fds : /\ ofile[r][d] # NoFile
                                 /\ file[ofile[r][d]].pipe = arg[r].pipe
                                 /\ file[ofile[r][d]].writable = WriteSide(r)
              BY <3>1 DEF IInv, Users
          <3>3. PICK g \in Files : g = ofile[r][d] /\ file[g].type = "FD_PIPE"
              BY <3>2, OpenIs
          <3>4. file'[g] = file[g]
              BY <1>2, <1>3, <3>3
          <3>5. WriteSide(r)' = WriteSide(r)
              BY <3>1 DEF WriteSide
          <3> QED BY <3>1, <3>2, <3>3, <3>4, <3>5
      <2> QED BY <2>1 DEF Users
  <1>19. ASSUME NEW g \in Files, NEW s, NEW w \in BOOLEAN
         PROVE  /\ EndFile(g, s, w)' <=> \/ EndFile(g, s, w)
                                         \/ s = q /\ g = IF w THEN b ELSE a
                /\ EndFile(g, s, w) => file[g].ref > 0 /\ g \notin {a, b}
                /\ EndFile(g, s, w)' => file[g].ref > 0
      <2>1. EndFile(g, s, w) => file[g].ref > 0 /\ g \notin {a, b}
          BY <1>2, TypesAre DEF EndFile
      <2>2. CASE g \notin {a, b}
          <3>1. file'[g] = file[g]
              BY <1>3, <2>2
          <3> QED BY <2>1, <2>2, <3>1 DEF EndFile
      <2>3. CASE g = a
          <3>1. EndFile(g, s, w)' <=> s = q /\ w = FALSE
              BY <1>3, <2>3 DEF EndFile
          <3>2. w = FALSE <=> g = IF w THEN b ELSE a
              BY <1>2, <2>3
          <3> QED BY <1>2, <2>1, <2>3, <3>1, <3>2
      <2>4. CASE g = b
          <3>1. EndFile(g, s, w)' <=> s = q /\ w = TRUE
              BY <1>3, <2>4 DEF EndFile
          <3>2. w = TRUE <=> g = IF w THEN b ELSE a
              BY <1>2, <2>4
          <3> QED BY <1>2, <2>1, <2>4, <3>1, <3>2
      <2> QED BY <2>2, <2>3, <2>4
  <1>20. ASSUME NEW r \in Procs, NEW s \in Pages, NEW w
         PROVE  Closer(r, s, w)' <=> Closer(r, s, w)
      BY <1>2, <1>5, <1>9, <1>10 DEF Closer
  <1>21. OneEnd'
      <2>1. ASSUME NEW s \in Pages, NEW w \in BOOLEAN
            PROVE  /\ \A g, h \in Files : EndFile(g, s, w) /\ EndFile(h, s, w) => g = h
                   /\ \A r, t \in Procs : Closer(r, s, w) /\ Closer(t, s, w) => r = t
                   /\ \A g \in Files, r \in Procs : ~(EndFile(g, s, w) /\ Closer(r, s, w))
          BY DEF IInv, OneEnd
      <2>2. ASSUME NEW s \in Pages, NEW w \in BOOLEAN
            PROVE  /\ \A g, h \in Files : EndFile(g, s, w)' /\ EndFile(h, s, w)' => g = h
                   /\ \A r, t \in Procs : Closer(r, s, w)' /\ Closer(t, s, w)' => r = t
                   /\ \A g \in Files, r \in Procs : ~(EndFile(g, s, w)' /\ Closer(r, s, w)')
          <3>1. CASE s = q
              BY <1>6, <1>19, <1>20, <3>1
          <3>2. CASE s # q
              BY <1>19, <1>20, <2>1, <3>2
          <3> QED BY <3>1, <3>2
      <2> QED BY <2>2 DEF OneEnd
  <1>22. EndsMatch'
      <2>1. ASSUME NEW s \in Pages, NEW w \in BOOLEAN
            PROVE  EndOpen(s, w)' <=> s = q \/ EndOpen(s, w)
          <3>1. EndOpen(s, w) <=>
                  \/ \E g \in Files : file[g].ref > 0 /\ EndFile(g, s, w)
                  \/ \E r \in Procs : Closer(r, s, w)
              BY DEF EndOpen, EndFile, Closer
          <3>2. EndOpen(s, w)' <=>
                  \/ \E g \in Files : file'[g].ref > 0 /\ EndFile(g, s, w)'
                  \/ \E r \in Procs : Closer(r, s, w)'
              BY DEF EndOpen, EndFile, Closer
          <3>3. \A g \in Files : file'[g].ref = file[g].ref
              BY <1>3
          <3>4. s = q => \E g \in Files : file'[g].ref > 0 /\ EndFile(g, s, w)'
              <4>1. s = q => EndFile(IF w THEN b ELSE a, s, w)'
                  BY <1>19
              <4> QED BY <1>2, <3>3, <4>1
          <3> QED BY <1>19, <1>20, <3>1, <3>2, <3>3, <3>4
      <2>2. ASSUME NEW s \in Pages
            PROVE  /\ pi'[s].readopen <=> EndOpen(s, FALSE)'
                   /\ pi'[s].writeopen <=> EndOpen(s, TRUE)'
                   /\ pi'[s].used <=> pi'[s].readopen \/ pi'[s].writeopen
          <3>1. /\ EndOpen(s, FALSE)' <=> s = q \/ EndOpen(s, FALSE)
                /\ EndOpen(s, TRUE)' <=> s = q \/ EndOpen(s, TRUE)
              BY <2>1
          <3>2. CASE s = q
              BY <1>4, <3>1, <3>2
          <3>3. CASE s # q
              <4>1. pi'[s] = pi[s]
                  BY <1>4, <3>3
              <4> QED BY <3>1, <3>3, <4>1 DEF IInv, EndsMatch
          <3> QED BY <3>2, <3>3
      <2> QED BY <2>2 DEF EndsMatch
  <1> QED BY <1>11, <1>12, <1>13, <1>14, <1>15, <1>16, <1>17, <1>18, <1>21, <1>22 DEF IInv

\* pipeclose(): what becomes of the page.
CloseLast(q, w) == IF w THEN ~pi[q].readopen ELSE ~pi[q].writeopen

LEMMA ClosedIs ==
  ASSUME IInv, NEW p \in Procs, NEW q \in Pages, NEW w \in BOOLEAN,
         q = arg[p].pipe, w = arg[p].writable, PipeClose(p)
  PROVE  /\ pi' \in [Pages -> PipeType] /\ \A s \in Pages \ {q} : pi'[s] = pi[s]
         /\ pi'[q].lock = None /\ Count(q)' <= PIPESIZE
         /\ pi'[q].used = IF CloseLast(q, w) THEN FALSE ELSE pi[q].used
         /\ pi'[q].readopen = IF CloseLast(q, w) THEN FALSE ELSE pi[q].readopen /\ w
         /\ pi'[q].writeopen = IF CloseLast(q, w) THEN FALSE ELSE pi[q].writeopen /\ ~w
         /\ ~CloseLast(q, w) => /\ pi'[q].nread = pi[q].nread
                                /\ pi'[q].nwrite = pi[q].nwrite
                                /\ pi'[q].data = pi[q].data
  <1> DEFINE new == [pi[q] EXCEPT !.writeopen = @ /\ ~w, !.readopen = @ /\ w]
  <1>1. /\ pi' = [pi EXCEPT ![q] = IF CloseLast(q, w) THEN Junk ELSE new]
        /\ pi[q].lock = None /\ pi \in [Pages -> PipeType] /\ pi[q] \in PipeType
      BY PageIs DEF PipeClose, CloseLast, IInv, Typed
  <1>2. /\ new \in PipeType /\ new.lock = None /\ new.used = pi[q].used
        /\ new.nread = pi[q].nread /\ new.nwrite = pi[q].nwrite /\ new.data = pi[q].data
        /\ new.readopen = (pi[q].readopen /\ w)
        /\ new.writeopen = (pi[q].writeopen /\ ~w)
      <2>1. CASE w = TRUE
          <3>1. new = [pi[q] EXCEPT !.writeopen = FALSE]
              BY <1>1, <2>1 DEF PipeType
          <3> QED BY <1>1, <2>1, <3>1 DEF PipeType
      <2>2. CASE w = FALSE
          <3>1. new = [pi[q] EXCEPT !.readopen = FALSE]
              BY <1>1, <2>2 DEF PipeType
          <3> QED BY <1>1, <2>2, <3>1 DEF PipeType
      <2> QED BY <2>1, <2>2
  <1> HIDE DEF new
  <1>3. CASE CloseLast(q, w)
      <2>1. /\ pi' \in [Pages -> PipeType] /\ pi'[q] = Junk
            /\ \A s \in Pages \ {q} : pi'[s] = pi[s]
          BY <1>1, <1>3, JunkIs
      <2>2. Count(q)' <= PIPESIZE
          BY <2>1, JunkIs, PipeAssumption DEF Count
      <2> QED BY <1>3, <2>1, <2>2, JunkIs
  <1>4. CASE ~CloseLast(q, w)
      <2>1. /\ pi' \in [Pages -> PipeType] /\ pi'[q] = new
            /\ \A s \in Pages \ {q} : pi'[s] = pi[s]
          BY <1>1, <1>2, <1>4
      <2>2. Count(q)' <= PIPESIZE
          <3>1. Count(q)' = Count(q)
              BY <1>2, <2>1 DEF Count
          <3> QED BY <3>1, PageIs
      <2> QED BY <1>2, <1>4, <2>1, <2>2
  <1> QED BY <1>3, <1>4

LEMMA PipeCloseIInv ==
  ASSUME IInv, NEW p \in Procs, PipeClose(p)
  PROVE  IInv'
  <1>1. PICK q \in Pages, w \in BOOLEAN : q = arg[p].pipe /\ w = arg[p].writable
      BY ArgIs DEF PipeClose
  <1>2. /\ pc[p] \in {"close", "exit"} /\ pi[q].lock = None
        /\ UNCHANGED <<file, ofile, killed, got>>
        /\ pc' = IF w THEN WakeReaders(q, pc) ELSE WakeWriters(q, pc)
        /\ owed' = IF w THEN owed \ {q} ELSE owed
        /\ arg' = [arg EXCEPT ![p].pipe = None, ![p].writable = FALSE]
      BY <1>1 DEF PipeClose
  <1>3. /\ pi' \in [Pages -> PipeType] /\ \A s \in Pages \ {q} : pi'[s] = pi[s]
        /\ pi'[q].lock = None /\ Count(q)' <= PIPESIZE
        /\ pi'[q].used = IF CloseLast(q, w) THEN FALSE ELSE pi[q].used
        /\ pi'[q].readopen = IF CloseLast(q, w) THEN FALSE ELSE pi[q].readopen /\ w
        /\ pi'[q].writeopen = IF CloseLast(q, w) THEN FALSE ELSE pi[q].writeopen /\ ~w
      BY <1>1, ClosedIs
  <1>4. /\ p # None /\ None \notin Pages /\ ~InPipe(p)
        /\ arg[p].i = 0 /\ arg[p].n = 0
      BY <1>2, PipeAssumption DEF InPipe, IInv, Locals, IOPoints
  <1>5. /\ arg' \in [Procs -> ArgType] /\ \A r \in Procs \ {p} : arg'[r] = arg[r]
        /\ arg'[p].pipe = None /\ arg'[p].writable = FALSE /\ arg'[p].i = 0 /\ arg'[p].n = 0
        /\ arg'[p].rf = arg[p].rf /\ arg'[p].wf = arg[p].wf
      <2> DEFINE new == [arg[p] EXCEPT !.pipe = None, !.writable = FALSE]
      <2>1. arg[p] \in ArgType /\ arg \in [Procs -> ArgType]
          BY TypesAre
      <2>2. arg' = [arg EXCEPT ![p] = new]
          BY <1>2, <2>1
      <2>3. /\ new \in ArgType /\ new.pipe = None /\ new.writable = FALSE
            /\ new.i = arg[p].i /\ new.n = arg[p].n /\ new.rf = arg[p].rf /\ new.wf = arg[p].wf
          BY <2>1 DEF ArgType
      <2> HIDE DEF new
      <2>4. arg' \in [Procs -> ArgType] /\ arg'[p] = new /\ \A r \in Procs \ {p} : arg'[r] = arg[r]
          BY <2>1, <2>2, <2>3
      <2> QED BY <1>4, <2>3, <2>4
  <1>6. /\ pc' \in [Procs -> Points] /\ pc'[p] = pc[p]
        /\ \A r \in Procs :
             \/ pc'[r] = pc[r]
                /\ (arg[r].pipe = q => pc[r] # IF w THEN "read_asleep" ELSE "write_asleep")
             \/ w /\ pc[r] = "read_asleep" /\ pc'[r] = "read"
             \/ ~w /\ pc[r] = "write_asleep" /\ pc'[r] = "write"
      BY <1>2, TypesAre, WakeIs
  <1>7. \A r \in Procs : /\ InPipe(r)' <=> InPipe(r)
                         /\ WriteSide(r)' = WriteSide(r)
      BY <1>6 DEF InPipe, WriteSide
  \* The end that is closed: nobody uses it and nobody else closes it.
  <1>8. /\ Closer(p, q, w)
        /\ \A f \in Files : ~EndFile(f, q, w)
        /\ \A r \in Procs : Closer(r, q, w) => r = p
        /\ \A r \in Procs : InPipe(r) /\ arg[r].pipe = q => WriteSide(r) # w
      <2>1. Closer(p, q, w)
          BY <1>1, <1>4 DEF Closer
      <2>2. /\ \A f \in Files : ~EndFile(f, q, w)
            /\ \A r \in Procs : Closer(r, q, w) => r = p
          BY <2>1 DEF IInv, OneEnd
      <2>3. ASSUME NEW r \in Procs, InPipe(r), arg[r].pipe = q PROVE WriteSide(r) # w
          BY <2>1, <2>3, UserIs
      <2> QED BY <2>1, <2>2, <2>3
  <1>9. RefsExact'
      <2>1. ASSUME NEW f PROVE Refs(f)' = Refs(f)
          <3>1. \A r \in Procs : arg'[r].rf = arg[r].rf /\ arg'[r].wf = arg[r].wf
              BY <1>5
          <3>2. RfOf(arg', f) = RfOf(arg, f) /\ WfOf(arg', f) = WfOf(arg, f)
              BY <3>1 DEF RfOf, WfOf
          <3> QED BY <1>2, <3>2 DEF Refs, RfOf, WfOf
      <2> QED BY <1>2, <2>1 DEF IInv, RefsExact
  <1>10. Locked' /\ Testing' /\ Sleeping'
      <2>1. OthersWake(p) /\ OtherPages(q)
          BY <1>2, <1>3, <1>5, <1>6 DEF OthersWake, OtherPages
      <2>2. MaySleep(p, q)
          BY <1>2, <1>6 DEF MaySleep
      <2>3. SleepersMay(p, q)
          <3>1. ASSUME NEW r \in Procs \ {p}, arg'[r].pipe = q,
                       pc'[r] \in {"read_asleep", "write_asleep"}
                PROVE  FALSE
              <4>1. arg[r].pipe = q /\ pc'[r] = pc[r]
                    /\ pc[r] # IF w THEN "read_asleep" ELSE "write_asleep"
                  BY <1>5, <1>6, <3>1
              <4>2. InPipe(r) /\ (WriteSide(r) <=> pc[r] = "write_asleep")
                  BY <3>1, <4>1 DEF InPipe, WriteSide
              <4>3. WriteSide(r) # w
                  BY <1>8, <4>1, <4>2
              <4> QED BY <3>1, <4>1, <4>2, <4>3 DEF WriteSide
          <3> QED BY <3>1 DEF SleepersMay, MaySleep
      <2>4. /\ ~InPipe(p)' /\ pc'[p] \notin LockPoints
            /\ pc'[p] \notin {"read_sleep", "write_body"}
          BY <1>2, <1>4, <1>6, <1>7 DEF LockPoints
      <2> QED BY <1>2, <1>3, <1>4, <2>1, <2>2, <2>3, <2>4, PipeStep
  <1>11. TypeOK' /\ Typed'
      <2>1. \A r \in Procs : arg'[r].pipe \in Pages \cup {None} /\ arg'[r].i <= arg'[r].n
          <3>1. arg'[p].i <= arg'[p].n
              BY <1>5
          <3> QED BY <1>5, <3>1, ArgIs DEF ArgType
      <2>2. \A s \in Pages : Count(s)' <= PIPESIZE
          <3>1. \A s \in Pages \ {q} : Count(s)' = Count(s)
              BY <1>3 DEF Count
          <3> QED BY <1>3, <3>1, PageIs
      <2>3. killed' \in [Procs -> BOOLEAN] /\ got' \in [Pages -> Bytes \cup {None}]
            /\ owed' \subseteq Pages
          BY <1>2 DEF IInv, Typed, TypeOK
      <2> QED BY <1>2, <1>3, <1>5, <1>6, <2>1, <2>2, <2>3, IOTypes
  <1>12. Entries' /\ Opened'
      BY <1>2 DEF IInv, Entries, Opened
  <1>13. Locals'
      <2>1. ASSUME NEW r \in Procs, pc'[r] # pc[r]
            PROVE  pc[r] \in IOPoints /\ pc'[r] \in IOPoints /\ r # p
          BY <1>6, <2>1 DEF IOPoints
      <2> QED BY <1>2, <1>5, <1>6, <2>1 DEF IInv, Locals, IOPoints
  <1>14. Fresh'
      <2>1. ASSUME NEW r \in Procs, pc'[r] \in {"pipe_wf", "pipe_page"}
            PROVE  pc[r] = pc'[r]
          BY <1>6, <2>1
      <2>2. \A r \in Procs : arg'[r].rf = arg[r].rf /\ arg'[r].wf = arg[r].wf
          BY <1>5
      <2>3. ASSUME NEW r \in Procs, pc'[r] \in {"pipe_wf", "pipe_page"},
                   NEW f \in {arg'[r].rf, arg'[r].wf} \ {NoFile}
            PROVE  /\ file'[f].type = "FD_NONE" /\ file'[f].ref = 1
                   /\ \A v \in Procs \ {r} : arg'[v].rf # f /\ arg'[v].wf # f
          <3>1. pc[r] \in {"pipe_wf", "pipe_page"} /\ f \in {arg[r].rf, arg[r].wf} \ {NoFile}
              BY <2>1, <2>2, <2>3
          <3>2. /\ file[f].type = "FD_NONE" /\ file[f].ref = 1
                /\ \A v \in Procs \ {r} : arg[v].rf # f /\ arg[v].wf # f
              BY <3>1 DEF IInv, Fresh
          <3> QED BY <1>2, <2>2, <3>2
      <2> QED BY <2>3 DEF Fresh
  <1>15. Users'
      <2>1. ASSUME NEW r \in Procs, InPipe(r)'
            PROVE  \E d \in Fds : /\ ofile'[r][d] # NoFile
                                  /\ file'[ofile'[r][d]].pipe = arg'[r].pipe
                                  /\ file'[ofile'[r][d]].writable = WriteSide(r)'
          <3>1. InPipe(r) /\ arg'[r] = arg[r] /\ WriteSide(r)' = WriteSide(r)
              BY <1>4, <1>5, <1>7, <2>1
          <3> QED BY <1>2, <3>1 DEF IInv, Users
      <2> QED BY <2>1 DEF Users
  <1>16. ASSUME NEW r \in Procs, NEW s \in Pages, NEW v
         PROVE  Closer(r, s, v)' <=> Closer(r, s, v) /\ r # p
      BY <1>4, <1>5, <1>7 DEF Closer
  <1>17. ASSUME NEW f \in Files, NEW s, NEW v
         PROVE  EndFile(f, s, v)' <=> EndFile(f, s, v)
      BY <1>2 DEF EndFile
  <1>18. OneEnd'
      BY <1>16, <1>17 DEF IInv, OneEnd
  <1>19. EndsMatch'
      <2>1. ASSUME NEW s \in Pages, NEW v \in BOOLEAN
            PROVE  EndOpen(s, v)' <=> EndOpen(s, v) /\ ~(s = q /\ v = w)
          <3>1. EndOpen(s, v) <=>
                  \/ \E g \in Files : file[g].ref > 0 /\ EndFile(g, s, v)
                  \/ \E r \in Procs : Closer(r, s, v)
              BY DEF EndOpen, EndFile, Closer
          <3>2. EndOpen(s, v)' <=>
                  \/ \E g \in Files : file'[g].ref > 0 /\ EndFile(g, s, v)'
                  \/ \E r \in Procs : Closer(r, s, v)'
              BY DEF EndOpen, EndFile, Closer
          <3>3. ~(s = q /\ v = w) => ~Closer(p, s, v)
              BY <1>1 DEF Closer
          <3> QED BY <1>2, <1>8, <1>16, <1>17, <3>1, <3>2, <3>3
      <2>2. EndOpen(q, w)
          BY <1>8 DEF EndOpen, Closer
      <2>3. ASSUME NEW s \in Pages
            PROVE  /\ pi'[s].readopen <=> EndOpen(s, FALSE)'
                   /\ pi'[s].writeopen <=> EndOpen(s, TRUE)'
                   /\ pi'[s].used <=> pi'[s].readopen \/ pi'[s].writeopen
          <3>1. /\ EndOpen(s, FALSE)' <=> EndOpen(s, FALSE) /\ ~(s = q /\ FALSE = w)
                /\ EndOpen(s, TRUE)' <=> EndOpen(s, TRUE) /\ ~(s = q /\ TRUE = w)
              BY <2>1
          <3>2. /\ pi[s].readopen <=> EndOpen(s, FALSE)
                /\ pi[s].writeopen <=> EndOpen(s, TRUE)
                /\ pi[s].used <=> pi[s].readopen \/ pi[s].writeopen
              BY DEF IInv, EndsMatch
          <3>3. CASE s = q /\ w = TRUE
              BY <1>3, <3>1, <3>2, <3>3 DEF CloseLast
          <3>4. CASE s = q /\ w = FALSE
              BY <1>3, <3>1, <3>2, <3>4 DEF CloseLast
          <3>5. CASE s # q
              <4>1. pi'[s] = pi[s]
                  BY <1>3, <3>5
              <4> QED BY <3>1, <3>2, <3>5, <4>1
          <3> QED BY <3>3, <3>4, <3>5
      <2> QED BY <2>3 DEF EndsMatch
  <1> QED BY <1>9, <1>10, <1>11, <1>12, <1>13, <1>14, <1>15, <1>18, <1>19 DEF IInv

-----------------------------------------------------------------------------
\* The invariant, and the properties that follow from it.

\* Each action in turn.
LEMMA NextIInv ==
  ASSUME IInv, Next
  PROVE  IInv'
  <1>1. PICK p \in Procs :
          \/ SysPipe(p) \/ PipeWriteEnd(p) \/ NoPage(p)
          \/ \E q \in Pages : PipePage(p, q)
          \/ \E d \in Fds : SysDup(p, d)
          \/ \E d \in Fds : SysClose(p, d)
          \/ \E d \in Fds, n \in Sizes : StartIO(p, d, n)
          \/ \E c \in Procs : Fork(p, c)
          \/ Exit(p) \/ FileClose(p) \/ CloseDone(p) \/ PipeClose(p)
          \/ WriteTest(p) \/ WriteFault(p)
          \/ \E b \in Bytes : WriteBody(p, b)
          \/ ReadTest(p) \/ ReadSleep(p) \/ ReadCopy(p) \/ ReadFault(p)
          \/ Kill(p)
      BY DEF Next
  <1>2. CASE SysPipe(p)
      BY <1>2, SysPipeIInv
  <1>3. CASE PipeWriteEnd(p)
      BY <1>3, PipeWriteEndIInv
  <1>4. CASE NoPage(p)
      BY <1>4, NoPageIInv
  <1>5. CASE \E q \in Pages : PipePage(p, q)
      BY <1>5, PipePageIInv
  <1>6. CASE \E d \in Fds : SysDup(p, d)
      BY <1>6, SysDupIInv
  <1>7. CASE \E d \in Fds : SysClose(p, d)
      BY <1>7, SysCloseIInv
  <1>8. CASE \E d \in Fds, n \in Sizes : StartIO(p, d, n)
      BY <1>8, StartIOIInv
  <1>9. CASE \E c \in Procs : Fork(p, c)
      BY <1>9, ForkIInv
  <1>10. CASE Exit(p)
      BY <1>10, ExitIInv
  <1>11. CASE FileClose(p)
      BY <1>11, FileCloseIInv
  <1>12. CASE CloseDone(p)
      BY <1>12, CloseDoneIInv
  <1>13. CASE PipeClose(p)
      BY <1>13, PipeCloseIInv
  <1>14. CASE WriteTest(p)
      BY <1>14, WriteTestIInv
  <1>15. CASE WriteFault(p)
      BY <1>15, WriteFaultIInv
  <1>16. CASE \E b \in Bytes : WriteBody(p, b)
      BY <1>16, WriteBodyIInv
  <1>17. CASE ReadTest(p)
      BY <1>17, ReadTestIInv
  <1>18. CASE ReadSleep(p)
      BY <1>18, ReadSleepIInv
  <1>19. CASE ReadCopy(p)
      BY <1>19, ReadCopyIInv
  <1>20. CASE ReadFault(p)
      BY <1>20, ReadFaultIInv
  <1>21. CASE Kill(p)
      BY <1>21, KillIInv
  <1> QED BY <1>1, <1>2, <1>3, <1>4, <1>5, <1>6, <1>7, <1>8, <1>9, <1>10, <1>11,
             <1>12, <1>13, <1>14, <1>15, <1>16, <1>17, <1>18, <1>19, <1>20, <1>21

LEMMA StutterIInv ==
  ASSUME IInv, UNCHANGED vars
  PROVE  IInv'
  <1>1. UNCHANGED <<file, ofile, pi, pc, arg, killed, got, owed>>
      BY DEF vars
  <1>2. (TypeOK /\ Typed /\ Entries /\ Opened)'
      <2>1. (TypeOK /\ Typed)'
          BY <1>1 DEF IInv, TypeOK, Typed, Count
      <2> QED BY <1>1, <2>1 DEF IInv, Entries, Opened
  <1>3. (Locals /\ Fresh)'
      BY <1>1 DEF IInv, Locals, Fresh
  <1>4. (OneEnd /\ EndsMatch)'
      BY <1>1 DEF IInv, OneEnd, EndsMatch, EndOpen, EndFile, Closer, InPipe
  <1>5. RefsExact'
      BY <1>1 DEF IInv, RefsExact, Refs
  <1>6. (Users /\ Locked)'
      BY <1>1 DEF IInv, Users, Locked, InPipe, WriteSide
  <1>7. (Testing /\ Sleeping)'
      BY <1>1 DEF IInv, Testing, Sleeping, ReaderMaySleep, WriterMaySleep, ReaderWaits,
                  WriterWaits, WriteSide, Empty, Full
  <1> QED BY <1>2, <1>3, <1>4, <1>5, <1>6, <1>7 DEF IInv

\* The inductive invariant holds in every state.
THEOREM Invariance == Spec => []IInv
  <1>1. Init => IInv
      BY InitIInv
  <1>2. IInv /\ [Next]_vars => IInv'
      BY NextIInv, StutterIInv
  <1> QED BY <1>1, <1>2, PTL DEF Spec

\* Every f->ref is the number of references there are, and every open end of a
\* pipe has its file or its process on the way into pipeclose(): filealloc(),
\* filedup(), fileclose(), fork(), exit() and the error paths of sys_pipe() leak
\* no entry and no page.
THEOREM FilesAlwaysExact == Spec => []FilesExact
  <1>1. IInv => FilesExact
      BY DEF IInv, FilesExact, PipesExact
  <1> QED BY <1>1, Invariance, PTL

\* pipeclose() never frees the page, and the lock in it, under a process that is
\* inside piperead() or pipewrite(), asleep included.
THEOREM NeverUsedAfterFree == Spec => []NoUseAfterFree
  <1>1. ASSUME IInv PROVE NoUseAfterFree
      <2>1. ASSUME NEW p \in Procs, InPipe(p)
            PROVE  \E d \in Fds : LET f == file[ofile[p][d]] IN
                     /\ ofile[p][d] # NoFile
                     /\ f.type = "FD_PIPE" /\ f.pipe = arg[p].pipe
                     /\ pi[f.pipe].used
                     /\ IF f.writable THEN pi[f.pipe].writeopen ELSE pi[f.pipe].readopen
          <3>1. PICK d \in Fds : /\ ofile[p][d] # NoFile
                                 /\ file[ofile[p][d]].pipe = arg[p].pipe
                                 /\ file[ofile[p][d]].writable = WriteSide(p)
              BY <1>1, <2>1 DEF IInv, Users
          <3>2. /\ pi[arg[p].pipe].used
                /\ IF WriteSide(p) THEN pi[arg[p].pipe].writeopen
                                   ELSE pi[arg[p].pipe].readopen
              BY <1>1, <2>1, UserIs
          <3>3. file[ofile[p][d]].type = "FD_PIPE"
              BY <1>1, <3>1, OpenIs
          <3> QED BY <3>1, <3>2, <3>3
      <2> QED BY <2>1 DEF NoUseAfterFree
  <1> QED BY <1>1, Invariance, PTL

\* With pi->lock free, a process asleep in piperead() waits for a byte that is not
\* there and may still come, or for one a killed writer kept to itself; one asleep
\* in pipewrite() waits for a place that is not there.
THEOREM SleepersAlwaysWait == Spec => []NoLostWakeup
  <1>1. ASSUME IInv PROVE NoLostWakeup
      <2>1. ASSUME NEW p \in Procs, pi[arg[p].pipe].lock = None
            PROVE  /\ pc[p] = "read_asleep" => ReaderWaits(p) \/ arg[p].pipe \in owed
                   /\ pc[p] = "write_asleep" => WriterWaits(p)
          <3>1. /\ pc[p] = "read_asleep" => ReaderMaySleep(p)
                /\ pc[p] = "write_asleep" => WriterMaySleep(p)
              BY <1>1 DEF IInv, Sleeping
          <3> QED BY <2>1, <3>1 DEF ReaderMaySleep, WriterMaySleep
      <2> QED BY <2>1 DEF NoLostWakeup
  <1> QED BY <1>1, Invariance, PTL

-----------------------------------------------------------------------------
\* The refinement of ByteStream: what the mapping makes of a pipe.
Flow == [q \in Pages |-> Stream(q)]
Length(q) == IF pi[q].used THEN Count(q) ELSE 0

LEMMA StreamIs ==
  ASSUME NEW q \in Pages
  PROVE  /\ Stream(q) = Ring(pi[q].data, pi[q].nread, Length(q))
         /\ Stream(q)' = Ring(pi'[q].data, pi'[q].nread, Length(q)')
         /\ Flow[q] = Stream(q) /\ Flow'[q] = Stream(q)'
  BY DEF Stream, Ring, Length, Flow

LEMMA NoBytes == \A data, a : Ring(data, a, 0) = <<>>
  BY DEF Ring

\* The pages that a step does not touch, or touches in the lock only.
KeepsStream(q) ==
  /\ pi'[q].used = pi[q].used /\ pi'[q].data = pi[q].data
  /\ pi'[q].nread = pi[q].nread /\ pi'[q].nwrite = pi[q].nwrite

LEMMA SameStream ==
  ASSUME NEW q \in Pages, KeepsStream(q)
  PROVE  Stream(q)' = Stream(q)
  <1>1. Count(q)' = Count(q)
      BY DEF KeepsStream, Count
  <1>2. Length(q)' = Length(q)
      BY <1>1 DEF KeepsStream, Length
  <1> QED BY <1>2, StreamIs DEF KeepsStream

LEMMA SameFlow ==
  ASSUME \A q \in Pages : KeepsStream(q)
  PROVE  Flow' = Flow
  BY SameStream DEF Flow

\* One stream changes.
LEMMA OneFlow ==
  ASSUME NEW q \in Pages, \A s \in Pages \ {q} : pi'[s] = pi[s], NEW t, Stream(q)' = t
  PROVE  Flow' = [Flow EXCEPT ![q] = t]
  <1>1. ASSUME NEW s \in Pages PROVE Stream(s)' = IF s = q THEN t ELSE Stream(s)
      <2>1. CASE s = q
          BY <2>1
      <2>2. CASE s # q
          <3>1. KeepsStream(s)
              BY <2>2 DEF KeepsStream
          <3> QED BY <2>2, <3>1, SameStream
      <2> QED BY <2>1, <2>2
  <1> QED BY <1>1 DEF Flow

LEMMA LockOnly ==
  ASSUME IInv, NEW q \in Pages, NEW v, pi' = [pi EXCEPT ![q].lock = v]
  PROVE  Flow' = Flow
  <1>1. pi \in [Pages -> PipeType] /\ pi[q] \in PipeType
      BY PageIs DEF IInv, Typed
  <1>2. [pi[q] EXCEPT !.lock = v].used = pi[q].used
        /\ [pi[q] EXCEPT !.lock = v].data = pi[q].data
        /\ [pi[q] EXCEPT !.lock = v].nread = pi[q].nread
        /\ [pi[q] EXCEPT !.lock = v].nwrite = pi[q].nwrite
      BY <1>1 DEF PipeType
  <1>3. ASSUME NEW s \in Pages PROVE KeepsStream(s)
      <2>1. pi'[s] = IF s = q THEN [pi[q] EXCEPT !.lock = v] ELSE pi[s]
          BY <1>1
      <2>2. CASE s = q
          BY <1>2, <2>1, <2>2 DEF KeepsStream
      <2>3. CASE s # q
          BY <2>1, <2>3 DEF KeepsStream
      <2> QED BY <2>2, <2>3
  <1> QED BY <1>3, SameFlow

\* Leaving piperead() or pipewrite() moves no byte.
LEMMA ReturnFlow ==
  ASSUME IInv, NEW p \in Procs, NEW q \in Pages, q = arg[p].pipe, NEW at,
         Return(p, pi[q], at)
  PROVE  Flow' = Flow
  <1>1. pi' = [pi EXCEPT ![q].lock = None]
      BY DEF Return
  <1> QED BY <1>1, LockOnly

LEMMA HoldFlow ==
  ASSUME IInv, NEW p \in Procs, NEW q \in Pages, q = arg[p].pipe, NEW point,
         Hold(p, point)
  PROVE  Flow' = Flow
  <1>1. pi' = [pi EXCEPT ![q].lock = p]
      BY DEF Hold
  <1> QED BY <1>1, LockOnly

\* A byte stored, a byte taken.
LEMMA StoreFlow ==
  ASSUME IInv, NEW q \in Pages, pi[q].used, ~Full(q), NEW b \in Bytes, Stores(q, b)
  PROVE  /\ Len(Flow[q]) < PIPESIZE
         /\ Flow' = [Flow EXCEPT ![q] = Append(Flow[q], b)]
  <1>1. /\ \A s \in Pages \ {q} : pi'[s] = pi[s]
        /\ pi'[q].used = pi[q].used /\ pi'[q].nread = pi[q].nread
        /\ pi'[q].data = [pi[q].data EXCEPT ![pi[q].nwrite % PIPESIZE] = b]
        /\ Count(q) < PIPESIZE /\ Count(q)' = Count(q) + 1
      BY StoreIs
  <1>2. /\ pi[q].nread \in Index /\ pi[q].nwrite \in Index /\ pi[q].data \in Buffers
        /\ Count(q) = Dist(pi[q].nwrite, pi[q].nread) /\ b \in Stored
        /\ Count(q) \in Nat /\ pi[q].nread \in Nat
      <2>1. /\ pi[q].nread \in Index /\ pi[q].nwrite \in Index /\ pi[q].data \in Buffers
            /\ Count(q) = Dist(pi[q].nwrite, pi[q].nread)
          BY PageIs
      <2>2. b \in Stored /\ pi[q].nread \in Nat
          BY <2>1, PipeAssumption DEF Stored, Index
      <2> QED BY <2>1, <2>2, DistIs
  <1>3. Length(q) = Count(q) /\ Length(q)' = Count(q) + 1
      BY <1>1 DEF Length
  <1>4. Flow[q] = Ring(pi[q].data, pi[q].nread, Count(q))
      BY <1>3, StreamIs
  <1>5. Len(Flow[q]) = Count(q)
      BY <1>2, <1>4, RingType
  <1>6. Stream(q)' = Ring([pi[q].data EXCEPT ![pi[q].nwrite % PIPESIZE] = b],
                          pi[q].nread, Count(q) + 1)
      BY <1>1, <1>3, StreamIs
  <1>7. Dist(pi[q].nwrite, pi[q].nread) < PIPESIZE
      BY <1>1, <1>2
  <1>8. Ring([pi[q].data EXCEPT ![pi[q].nwrite % PIPESIZE] = b],
             pi[q].nread, Count(q) + 1) = Append(Ring(pi[q].data, pi[q].nread, Count(q)), b)
      <2>1. Ring([pi[q].data EXCEPT ![pi[q].nwrite % PIPESIZE] = b],
                 pi[q].nread, Dist(pi[q].nwrite, pi[q].nread) + 1)
              = Append(Ring(pi[q].data, pi[q].nread, Dist(pi[q].nwrite, pi[q].nread)), b)
          BY <1>2, <1>7, RingAppend
      <2>2. PICK k \in Nat : k = Count(q) /\ k = Dist(pi[q].nwrite, pi[q].nread)
          BY <1>2
      <2> QED BY <2>1, <2>2
  <1>9. Stream(q)' = Append(Flow[q], b)
      BY <1>4, <1>6, <1>8
  <1> QED BY <1>1, <1>5, <1>9, OneFlow

LEMMA TakeFlow ==
  ASSUME IInv, NEW q \in Pages, pi[q].used, ~Empty(q), Takes(q)
  PROVE  /\ Flow[q] # <<>> /\ Head(Flow[q]) = pi[q].data[pi[q].nread % PIPESIZE]
         /\ Flow' = [Flow EXCEPT ![q] = Tail(Flow[q])]
  <1>1. /\ \A s \in Pages \ {q} : pi'[s] = pi[s]
        /\ pi'[q].used = pi[q].used /\ pi'[q].nread = After(pi[q].nread)
        /\ pi'[q].data = pi[q].data
        /\ Count(q) \in Nat \ {0} /\ Count(q)' = Count(q) - 1
      BY TakeIs
  <1>2. pi[q].nread \in Index /\ pi[q].data \in Buffers
      BY PageIs
  <1>3. Length(q) = Count(q) /\ Length(q)' = Count(q) - 1
      BY <1>1 DEF Length
  <1>4. Flow[q] = Ring(pi[q].data, pi[q].nread, Count(q))
      BY <1>3, StreamIs
  <1>5. Stream(q)' = Ring(pi[q].data, After(pi[q].nread), Count(q) - 1)
      BY <1>1, <1>3, StreamIs
  <1>6. /\ Flow[q] # <<>> /\ Head(Flow[q]) = pi[q].data[pi[q].nread % PIPESIZE]
        /\ Stream(q)' = Tail(Flow[q])
      BY <1>1, <1>2, <1>4, <1>5, RingTail
  <1> QED BY <1>1, <1>6, OneFlow

\* A new pipe holds no byte; closing the second end throws away what is left.
LEMMA MadeFlow ==
  ASSUME IInv, NEW p \in Procs, NEW q \in Pages, PipePage(p, q)
  PROVE  Flow' = Flow
  <1>1. PICK a \in Files, b \in Files : a = arg[p].rf /\ b = arg[p].wf
      BY ArgIs DEF PipePage, IInv, Locals
  <1>2. PipeMade(p, q, a, b)
      BY <1>1, PipePageIs
  <1>3. /\ ~pi[q].used /\ \A s \in Pages \ {q} : pi'[s] = pi[s]
        /\ pi'[q].nread = 0 /\ pi'[q].nwrite = 0
      BY <1>2 DEF PipeMade
  <1>4. Length(q) = 0 /\ Length(q)' = 0
      <2>1. Count(q)' = (0 + WRAP - 0) % WRAP
          BY <1>3 DEF Count
      <2>2. (0 + WRAP - 0) % WRAP = 0
          BY PipeAssumption
      <2> QED BY <1>3, <2>1, <2>2 DEF Length
  <1>5. Stream(q) = <<>> /\ Stream(q)' = <<>>
      BY <1>4, StreamIs, NoBytes
  <1>6. Flow' = [Flow EXCEPT ![q] = <<>>]
      BY <1>3, <1>5, OneFlow
  <1> QED BY <1>5, <1>6 DEF Flow

LEMMA ClosedFlow ==
  ASSUME IInv, NEW p \in Procs, NEW q \in Pages, q = arg[p].pipe, PipeClose(p)
  PROVE  Flow' = Flow \/ Flow' = [Flow EXCEPT ![q] = <<>>]
  <1>1. PICK w \in BOOLEAN : w = arg[p].writable
      BY ArgIs
  <1>2. /\ \A s \in Pages \ {q} : pi'[s] = pi[s]
        /\ pi'[q].used = IF CloseLast(q, w) THEN FALSE ELSE pi[q].used
        /\ ~CloseLast(q, w) => /\ pi'[q].nread = pi[q].nread
                               /\ pi'[q].nwrite = pi[q].nwrite
                               /\ pi'[q].data = pi[q].data
      BY <1>1, ClosedIs
  <1>3. CASE CloseLast(q, w)
      <2>1. Length(q)' = 0
          BY <1>2, <1>3 DEF Length
      <2>2. Stream(q)' = <<>>
          BY <2>1, StreamIs, NoBytes
      <2> QED BY <1>2, <2>2, OneFlow
  <1>4. CASE ~CloseLast(q, w)
      <2>1. \A s \in Pages : KeepsStream(s)
          BY <1>2, <1>4 DEF KeepsStream
      <2> QED BY <2>1, SameFlow
  <1> QED BY <1>3, <1>4

\* What the abstract streams do in a step of the pipes.
Written(q, b) == /\ Len(Flow[q]) < PIPESIZE /\ got' = got
                 /\ Flow' = [Flow EXCEPT ![q] = Append(Flow[q], b)]
Taken(q) == /\ Flow[q] # <<>> /\ got' = [got EXCEPT ![q] = Head(Flow[q])]
            /\ Flow' = [Flow EXCEPT ![q] = Tail(Flow[q])]
Ended(q) == got' = [got EXCEPT ![q] = None] /\ Flow' = Flow
Emptied(q) == Flow' = [Flow EXCEPT ![q] = <<>>] /\ got' = got
Stutters == Flow' = Flow /\ got' = got

LEMMA WriteBodyFlow ==
  ASSUME IInv, NEW p \in Procs, NEW b \in Bytes, WriteBody(p, b)
  PROVE  Stutters \/ \E q \in Pages : Written(q, b)
  <1>1. InPipe(p) /\ WriteSide(p) /\ got' = got
      BY DEF WriteBody, InPipe, WriteSide
  <1>2. PICK q \in Pages : q = arg[p].pipe
      BY <1>1, InsideIs
  <1>3. pi[q].used
      BY <1>1, <1>2, UserIs
  <1>4. CASE pi' = [pi EXCEPT ![q].lock = None]
      BY <1>1, <1>4, LockOnly DEF Stutters
  <1>5. CASE ~Full(q) /\ Stores(q, b)
      BY <1>1, <1>3, <1>5, StoreFlow DEF Written
  <1> QED BY <1>2, <1>4, <1>5 DEF WriteBody, Stores

LEMMA ReadFlow ==
  ASSUME IInv, NEW p \in Procs, ReadCopy(p) \/ ReadFault(p)
  PROVE  \E q \in Pages : Taken(q) \/ Ended(q)
  <1>1. InPipe(p)
      BY DEF ReadCopy, ReadFault, InPipe
  <1>2. PICK q \in Pages : q = arg[p].pipe
      BY <1>1, InsideIs
  <1>3. pi[q].used
      BY <1>1, <1>2, UserIs
  <1>4. CASE Return(p, pi[q], WakeWriters(q, pc)) /\ got' = [got EXCEPT ![q] = None]
      BY <1>2, <1>4, ReturnFlow DEF Ended
  <1>5. CASE /\ ~Empty(q) /\ Takes(q)
             /\ got' = [got EXCEPT ![q] = pi[q].data[pi[q].nread % PIPESIZE]]
      BY <1>3, <1>5, TakeFlow DEF Taken
  <1> QED BY <1>2, <1>4, <1>5 DEF ReadCopy, ReadFault, Takes

\* The steps that take or give back the lock, and no more.
LEMMA LockFlow ==
  ASSUME IInv, NEW p \in Procs,
         WriteTest(p) \/ WriteFault(p) \/ ReadTest(p) \/ ReadSleep(p)
  PROVE  Stutters
  <1>1. InPipe(p) /\ got' = got
      BY DEF WriteTest, WriteFault, ReadTest, ReadSleep, InPipe, observed
  <1>2. PICK q \in Pages : q = arg[p].pipe
      BY <1>1, InsideIs
  <1>3. \/ \E at : Return(p, pi[q], at)
        \/ \E point : Hold(p, point)
        \/ pi' = [pi EXCEPT ![q].lock = None]
      BY <1>2 DEF WriteTest, WriteFault, ReadTest, ReadSleep
  <1> QED BY <1>1, <1>2, <1>3, ReturnFlow, HoldFlow, LockOnly DEF Stutters

\* The steps that touch no pipe.
LEMMA OtherFlow ==
  ASSUME UNCHANGED <<pi, got>>
  PROVE  Stutters
  BY SameFlow DEF Stutters, KeepsStream

LEMMA NextFlow ==
  ASSUME IInv, Next
  PROVE  \/ Stutters
         \/ \E q \in Pages : \/ \E b \in Bytes : Written(q, b)
                             \/ Taken(q) \/ Ended(q) \/ Emptied(q)
  <1>1. PICK p \in Procs :
          \/ SysPipe(p) \/ PipeWriteEnd(p) \/ NoPage(p)
          \/ \E q \in Pages : PipePage(p, q)
          \/ \E d \in Fds : SysDup(p, d)
          \/ \E d \in Fds : SysClose(p, d)
          \/ \E d \in Fds, n \in Sizes : StartIO(p, d, n)
          \/ \E c \in Procs : Fork(p, c)
          \/ Exit(p) \/ FileClose(p) \/ CloseDone(p) \/ PipeClose(p)
          \/ WriteTest(p) \/ WriteFault(p)
          \/ \E b \in Bytes : WriteBody(p, b)
          \/ ReadTest(p) \/ ReadSleep(p) \/ ReadCopy(p) \/ ReadFault(p)
          \/ Kill(p)
      BY DEF Next
  <1>2. CASE \/ SysPipe(p) \/ PipeWriteEnd(p) \/ NoPage(p)
             \/ \E d \in Fds : SysDup(p, d)
             \/ \E d \in Fds : SysClose(p, d)
             \/ \E d \in Fds, n \in Sizes : StartIO(p, d, n)
             \/ \E c \in Procs : Fork(p, c)
             \/ Exit(p) \/ FileClose(p) \/ Kill(p)
      <2>1. UNCHANGED <<pi, got>>
          BY <1>2 DEF SysPipe, PipeWriteEnd, NoPage, SysDup, SysClose, StartIO, Fork, Exit,
                      FileClose, Kill, observed
      <2> QED BY <2>1, OtherFlow
  <1>3. CASE CloseDone(p)
      <2>1. UNCHANGED <<pi, got>>
          BY <1>3 DEF CloseDone, observed
      <2> QED BY <2>1, OtherFlow
  <1>4. CASE \E q \in Pages : PipePage(p, q)
      <2>1. PICK q \in Pages : PipePage(p, q)
          BY <1>4
      <2>2. got' = got
          BY <2>1 DEF PipePage, observed
      <2>3. Flow' = Flow
          BY <2>1, MadeFlow
      <2> QED BY <2>2, <2>3 DEF Stutters
  <1>5. CASE PipeClose(p)
      <2>1. PICK q \in Pages : q = arg[p].pipe
          BY <1>5, ArgIs DEF PipeClose
      <2>2. got' = got
          BY <1>5 DEF PipeClose
      <2> QED BY <1>5, <2>1, <2>2, ClosedFlow DEF Stutters, Emptied
  <1>6. CASE \/ WriteTest(p) \/ WriteFault(p) \/ ReadTest(p) \/ ReadSleep(p)
      BY <1>6, LockFlow
  <1>7. CASE \E b \in Bytes : WriteBody(p, b)
      BY <1>7, WriteBodyFlow
  <1>8. CASE ReadCopy(p) \/ ReadFault(p)
      BY <1>8, ReadFlow
  <1> QED BY <1>1, <1>2, <1>3, <1>4, <1>5, <1>6, <1>7, <1>8

LEMMA InitFlow == Init => Fifo!Init
  <1> SUFFICES ASSUME Init PROVE Fifo!Init
      OBVIOUS
  <1>1. ASSUME NEW q \in Pages PROVE Stream(q) = <<>>
      <2>1. ~pi[q].used
          BY DEF Init, Junk
      <2>2. Length(q) = 0
          BY <2>1 DEF Length
      <2> QED BY <2>2, StreamIs, NoBytes
  <1>2. [q \in Pages |-> Stream(q)] = [q \in Pages |-> <<>>]
      BY <1>1
  <1>3. got = [q \in Pages |-> None]
      BY DEF Init
  <1> QED BY <1>2, <1>3 DEF Fifo!Init

LEMMA StepFlow ==
  ASSUME IInv, [Next]_vars
  PROVE  [Fifo!Next]_<<[q \in Pages |-> Stream(q)], got>>
  <1>1. CASE Stutters
      BY <1>1 DEF Stutters, Flow
  <1>2. ASSUME NEW q \in Pages, NEW b \in Bytes, Written(q, b) PROVE Fifo!Next
      <2>1. Fifo!Write(q, b)
          BY <1>2 DEF Written, Flow, Fifo!Write
      <2> QED BY <2>1 DEF Fifo!Next
  <1>3. ASSUME NEW q \in Pages, Taken(q) PROVE Fifo!Next
      <2>1. Fifo!Read(q)
          BY <1>3 DEF Taken, Flow, Fifo!Read
      <2> QED BY <2>1 DEF Fifo!Next
  <1>4. ASSUME NEW q \in Pages, Ended(q) PROVE Fifo!Next
      <2>1. Fifo!Return(q)
          BY <1>4 DEF Ended, Flow, Fifo!Return
      <2> QED BY <2>1 DEF Fifo!Next
  <1>5. ASSUME NEW q \in Pages, Emptied(q) PROVE Fifo!Next
      <2>1. Fifo!Reset(q)
          BY <1>5 DEF Emptied, Flow, Fifo!Reset
      <2> QED BY <2>1 DEF Fifo!Next
  <1>6. CASE UNCHANGED vars
      <2>1. UNCHANGED <<pi, got>>
          BY <1>6 DEF vars
      <2> QED BY <1>1, <2>1, OtherFlow
  <1> QED BY <1>1, <1>2, <1>3, <1>4, <1>5, <1>6, NextFlow

\* The rings, their counters wrapping as uints do, filled byte by byte by several
\* writers and emptied by several readers with faults and kills in between, are
\* the first-in first-out byte streams of ByteStream: pipewrite() stores one byte
\* at the end, piperead() takes one from the front, the second pipeclose() empties
\* the stream, and every other step leaves all of them alone.
THEOREM PipesAreStreams == Spec => FifoOrder
  <1>1. Init => Fifo!Init
      BY InitFlow
  <1>2. IInv /\ [Next]_vars => [Fifo!Next]_<<[q \in Pages |-> Stream(q)], got>>
      BY StepFlow
  <1> QED BY <1>1, <1>2, Invariance, PTL DEF Spec, FifoOrder, Fifo!Spec
=============================================================================
