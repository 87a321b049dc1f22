----------------------------- MODULE PrivateMem -----------------------------
(***************************************************************************)
(* What fork() promises of user memory: every process has an address space *)
(* of its own.  fork() gives the child the contents of the parent's memory *)
(* at one instant ("copy its memory into a child's page table", vm.c:299), *)
(* and after that a process's memory changes only by its own steps.        *)
(***************************************************************************)
EXTENDS Naturals

CONSTANTS Procs, NV, Vals, Zero, Image, Dead

VARIABLE view   \* view[h]: page contents 0..size-1, or Dead

Size(h) == IF view[h] = Dead THEN 0
           ELSE CHOOSE n \in 0 .. NV : DOMAIN view[h] = 0 .. n - 1

\* The first process starts from an image; no other process exists.
Init ==
  \E h \in Procs, n \in 1 .. NV :
     view = [g \in Procs |-> IF g = h THEN [v \in 0 .. n - 1 |-> Image]
                             ELSE Dead]

\* A process, or the kernel on its behalf, writes one of its own pages.
Write(h) ==
  /\ view[h] # Dead
  /\ \E v \in DOMAIN view[h], x \in Vals : view' = [view EXCEPT ![h][v] = x]

\* fork(): an exact copy, made at one instant.
Fork(p, c) ==
  /\ view[p] # Dead /\ view[c] = Dead
  /\ view' = [view EXCEPT ![c] = view[p]]

\* sbrk() with a positive or a negative argument.
Resize(h) ==
  /\ view[h] # Dead
  /\ \E n \in 0 .. NV :
       view' = [view EXCEPT ![h] =
                  [v \in 0 .. n - 1 |-> IF v \in DOMAIN view[h]
                                        THEN view[h][v] ELSE Zero]]

\* exec(): a fresh image.
Exec(h) ==
  /\ view[h] # Dead
  /\ \E n \in 1 .. NV :
       view' = [view EXCEPT ![h] = [v \in 0 .. n - 1 |-> Image]]

\* exit(), or death by a fault.
Exit(h) == view[h] # Dead /\ view' = [view EXCEPT ![h] = Dead]

Next ==
  \E h \in Procs : \/ Write(h) \/ Resize(h) \/ Exec(h) \/ Exit(h)
                   \/ \E c \in Procs : Fork(h, c)

Spec == Init /\ [][Next]_view
=============================================================================
