------------------------------- MODULE Umalloc -------------------------------
(***************************************************************************)
(* The memory allocator of user programs (user/umalloc.c): a circular list *)
(* of free blocks in the order of their addresses.                         *)
(*                                                                         *)
(* An address is a number of header-sized units; base lies below the heap. *)
(* Every unit has the two fields a header there would have; the fields the *)
(* code never reads again, of a unit inside a block and the ptr of a block *)
(* in use, are forgotten.  malloc() and free() run in one thread, so a     *)
(* call is one step.  A program only frees a block it has, once, and asks  *)
(* for less than 2^31 bytes.                                               *)
(***************************************************************************)
EXTENDS Naturals, FiniteSets

CONSTANTS
  SIZEOF,     \* sizeof(Header)
  MINUNITS,   \* the least morecore() asks for, 4096
  TOP,        \* addresses end here
  Requests,   \* byte counts asked of malloc()
  Gaps        \* how often the program itself calls sbrk()

Null == 0
base == 1
Heap == 2 .. TOP

VARIABLES
  h,      \* the headers [ptr, size], freep and the program break
  used,   \* blocks the program has: <<header, bytes asked for>>
  core,   \* units morecore() has got
  gaps

heapVars == <<h, used, core, gaps>>

-----------------------------------------------------------------------------

\* The block after which bp belongs: the loop of free().
RECURSIVE Spot(_, _, _)
Spot(s, bp, p) ==
  LET next == s.ptr[p]
  IN  IF \/ bp > p /\ bp < next
         \/ p >= next /\ (bp > p \/ bp < next)
      THEN p ELSE Spot(s, bp, next)

Forget(s, a) == [s EXCEPT !.ptr[a] = Null, !.size[a] = 0]

\* MUTANT: a block is not joined with the one below it.
FreeNoJoin(s, bp) ==
  LET p == Spot(s, bp, s.freep)
      next == s.ptr[p]
      up == bp + s.size[bp] = next
  IN  [s EXCEPT !.size[bp] = IF up THEN @ + s.size[next] ELSE @,
                !.ptr[bp] = IF up THEN s.ptr[next] ELSE next,
                !.ptr[p] = bp, !.freep = p]

Free(s, bp) ==
  LET p == Spot(s, bp, s.freep)
      next == s.ptr[p]
      up == bp + s.size[bp] = next
      s1 == IF up
            THEN [Forget(s, next) EXCEPT !.size[bp] = @ + s.size[next], !.ptr[bp] = s.ptr[next]]
            ELSE [s EXCEPT !.ptr[bp] = next]
  IN  IF p + s.size[p] = bp
      THEN [Forget(s1, bp) EXCEPT !.size[p] = @ + s1.size[bp], !.ptr[p] = s1.ptr[bp],
                                  !.freep = p]
      ELSE [s1 EXCEPT !.ptr[p] = bp, !.freep = p]

Asked(nu) == IF nu < MINUNITS THEN MINUNITS ELSE nu
Fits(s, n) == s.brk + n <= TOP + 1

\* sbrk() has moved the break; the new units are freed as one block.
Morecore(s, nu) ==
  Free([s EXCEPT !.size[s.brk] = Asked(nu), !.brk = @ + Asked(nu)], s.brk)

Nunits(nbytes) == (nbytes + SIZEOF - 1) \div SIZEOF + 1

\* p is large enough: all of it is taken, or its tail.
Take(s, prevp, p, nunits) ==
  LET rest == s.size[p] - nunits
      bp == p + rest
  IN  IF rest = 0
      THEN [h |-> [s EXCEPT !.ptr[prevp] = s.ptr[p], !.ptr[p] = Null, !.freep = prevp],
            bp |-> p]
      ELSE [h |-> [s EXCEPT !.size[p] = rest, !.size[bp] = nunits, !.freep = prevp],
            bp |-> bp]

\* MUTANT: the search ends one block early.
RECURSIVE SearchShort(_, _, _, _, _)
SearchShort(s, prevp, p, nunits, sbrk) ==
  IF p # s.freep
  THEN IF s.size[p] >= nunits THEN Take(s, prevp, p, nunits)
       ELSE SearchShort(s, p, s.ptr[p], nunits, sbrk)
  ELSE IF sbrk
       THEN LET s1 == Morecore(s, nunits)
            IN  SearchShort(s1, s1.freep, s1.ptr[s1.freep], nunits, FALSE)
       ELSE [h |-> s, bp |-> Null]

\* The loop of malloc(); sbrk says whether the kernel gives more memory.
RECURSIVE Search(_, _, _, _, _)
Search(s, prevp, p, nunits, sbrk) ==
  IF s.size[p] >= nunits THEN Take(s, prevp, p, nunits)
  ELSE IF p # s.freep THEN Search(s, p, s.ptr[p], nunits, sbrk)
  ELSE IF sbrk
       THEN LET s1 == Morecore(s, nunits)
            IN  Search(s1, s1.freep, s1.ptr[s1.freep], nunits, FALSE)
       ELSE [h |-> s, bp |-> Null]

\* The first call makes the empty list.
Started(s) ==
  IF s.freep # Null THEN s
  ELSE [s EXCEPT !.ptr[base] = base, !.freep = base, !.size[base] = 0]

Malloc(nbytes, sbrk) ==
  LET s == Started(h)
      nunits == Nunits(nbytes)
      r == Search(s, s.freep, s.ptr[s.freep], nunits, sbrk)
  IN  /\ sbrk => Fits(h, Asked(nunits))
      /\ h' = r.h
      /\ used' = IF r.bp = Null THEN used ELSE used \cup {<<r.bp, nbytes>>}
      /\ core' = core \cup (h.brk .. r.h.brk - 1)
      /\ UNCHANGED gaps

\* free(ap) of a block the program has.
FreeUsed(u) ==
  /\ u \in used
  /\ h' = Free(h, u[1])
  /\ used' = used \ {u}
  /\ UNCHANGED <<core, gaps>>

\* The program, or the kernel's ps(), moves the break: the heap has a hole.
Sbrk ==
  /\ gaps < Gaps /\ Fits(h, 1)
  /\ h' = [h EXCEPT !.brk = @ + 1]
  /\ gaps' = gaps + 1
  /\ UNCHANGED <<used, core>>

HeapInit ==
  /\ h = [ptr |-> [a \in 1 .. TOP |-> Null], size |-> [a \in 1 .. TOP |-> 0],
          freep |-> Null, brk |-> 2]
  /\ used = {} /\ core = {} /\ gaps = 0

HeapNext ==
  \/ \E n \in Requests, sbrk \in BOOLEAN : Malloc(n, sbrk)
  \/ \E u \in used : FreeUsed(u)
  \/ Sbrk

HeapSpec == HeapInit /\ [][HeapNext]_heapVars

-----------------------------------------------------------------------------
\* Properties.

\* The free blocks, base among them: what the list leads to from base.
FreeBlocks ==
  LET RECURSIVE From(_, _)
      From(a, seen) == IF a \in seen THEN seen ELSE From(h.ptr[a], seen \cup {a})
  IN  IF h.freep = Null THEN {} ELSE From(base, {})

Units(a) == a .. a + h.size[a] - 1

\* Free and used blocks together are exactly what morecore() has got, and no
\* unit is in two of them; the list is in the order of the addresses, closes at
\* base, holds freep and has no two blocks that touch; every used block has the
\* room that was asked for.
HeapExact ==
  LET free == FreeBlocks \ {base}
      mine == {u[1] : u \in used}
  IN  /\ Cardinality(mine) = Cardinality(used) /\ mine \cap FreeBlocks = {}
      /\ \A a, b \in free \cup mine : a # b => Units(a) \cap Units(b) = {}
      /\ UNION {Units(a) : a \in free \cup mine} = core
      /\ \A a \in FreeBlocks :
           /\ h.ptr[a] > a \/ h.ptr[a] = base
           /\ a + h.size[a] # h.ptr[a] \/ a = base
      /\ h.freep # Null => h.freep \in FreeBlocks
      /\ \A u \in used : (h.size[u[1]] - 1) * SIZEOF >= u[2]

\* malloc() moves the break, or gives up, only when no free block is large
\* enough, and neither call writes into a block the program has.
KeepsFaith ==
  [][/\ \A n \in Requests :
          (\E sbrk \in BOOLEAN : Malloc(n, sbrk)) /\ (used' = used \/ h'.brk # h.brk)
          => \A a \in FreeBlocks : h.size[a] < Nunits(n)
     /\ \A u \in used \cap used' : \A a \in Units(u[1]) :
          h'.size[a] = h.size[a] /\ h'.ptr[a] = h.ptr[a]]_heapVars
=============================================================================
