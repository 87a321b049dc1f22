-------------------------------- MODULE Pipe --------------------------------
(***************************************************************************)
(* Pipes (kernel/pipe.c), the system-wide file table (kernel/file.c) and   *)
(* the per-process descriptors (kernel/sysfile.c), as sys_pipe(), dup(),   *)
(* read(), write(), close(), fork(), exit() and kill() use them.           *)
(*                                                                         *)
(* A section under ftable.lock is one step.  pi->lock is a field of the    *)
(* pipe: a reader or a writer holds it for several steps, one per byte,    *)
(* because kill() takes no pipe lock and may strike between two bytes.     *)
(***************************************************************************)
EXTENDS Naturals, Sequences, FiniteSets

CONSTANTS
  Procs, First,  \* processes, and the one that exists at the start
  NFILE, NOFILE, \* file table and descriptor table sizes (param.h)
  Pages, None,   \* memory kalloc() can hand out for pipes
  PIPESIZE,
  WRAP,          \* the counters are uints: nread, nwrite are taken modulo WRAP
  Bytes,
  Sizes          \* byte counts asked of read() and write()

ASSUME PipeAssumption ==
  /\ IsFiniteSet(Procs)  \* NPROC
  /\ First \in Procs /\ None \notin Pages \cup Procs \cup Bytes
  /\ NFILE \in Nat /\ NOFILE \in Nat /\ PIPESIZE \in Nat \ {0}
  /\ Sizes \subseteq Nat
  /\ WRAP \in Nat /\ WRAP > PIPESIZE /\ WRAP % PIPESIZE = 0

Files == 1 .. NFILE
Fds == 0 .. NOFILE - 1
NoFile == 0

VARIABLES
  file,    \* ftable: ref, type, writable, pipe of each struct file
  ofile,   \* p->ofile
  pi,      \* struct pipe of each page; used says whether kalloc() gave it out
  pc,      \* where a process is
  arg,     \* its locals: the files it has just allocated or has to close, and
           \* pipe, i, n of read and write
  killed,
  got,     \* last byte the reader at work took out of a pipe (an observation)
  owed     \* pipes a killed writer left without waking readers (history)

vars == <<file, ofile, pi, pc, arg, killed, got, owed>>

NoArg == [rf |-> NoFile, wf |-> NoFile, pipe |-> None, writable |-> FALSE,
          i |-> 0, n |-> 0]

\* A page that is not a pipe: kfree() and kalloc() fill it with junk.
Junk == [used |-> FALSE, lock |-> None, nread |-> 0, nwrite |-> 0,
         readopen |-> FALSE, writeopen |-> FALSE,
         data |-> [j \in 0 .. PIPESIZE - 1 |-> None]]

Init ==
  /\ file = [f \in Files |-> [ref |-> 0, type |-> "FD_NONE",
                              writable |-> FALSE, pipe |-> None]]
  /\ ofile = [p \in Procs |-> [d \in Fds |-> NoFile]]
  /\ pi = [q \in Pages |-> Junk]
  /\ pc = [p \in Procs |-> IF p = First THEN "user" ELSE "unused"]
  /\ arg = [p \in Procs |-> NoArg]
  /\ killed = [p \in Procs |-> FALSE]
  /\ got = [q \in Pages |-> None]
  /\ owed = {}

Goto(p, point) == pc' = [pc EXCEPT ![p] = point]
Syscall(p) == pc[p] = "user" /\ ~killed[p]
observed == <<got, owed>>

-----------------------------------------------------------------------------
\* The file table.

\* filealloc(): the first entry without references, or none.
FreeFiles == {f \in Files : file[f].ref = 0}
FirstFree == CHOOSE f \in FreeFiles : \A g \in FreeFiles : f <= g

\* fdalloc(): the lowest free descriptor of a descriptor table, or none.
FreeFds(table) == {d \in Fds : table[d] = NoFile}
Installed(table, f) ==
  [table EXCEPT ![CHOOSE d \in FreeFds(table) :
                    \A e \in FreeFds(table) : d <= e] = f]

\* sys_pipe(), pipealloc(): the read end ...
SysPipe(p) ==
  /\ Syscall(p) /\ FreeFiles # {}
  /\ file' = [file EXCEPT ![FirstFree].ref = 1]
  /\ arg' = [arg EXCEPT ![p].rf = FirstFree]
  /\ Goto(p, "pipe_wf")
  /\ UNCHANGED <<ofile, pi, killed, observed>>

\* ... the write end, or back out ...
PipeWriteEnd(p) ==
  /\ pc[p] = "pipe_wf"
  /\ IF FreeFiles = {}
     THEN Goto(p, "close") /\ UNCHANGED <<file, arg>>
     ELSE /\ file' = [file EXCEPT ![FirstFree].ref = 1]
          /\ arg' = [arg EXCEPT ![p].wf = FirstFree]
          /\ Goto(p, "pipe_page")
  /\ UNCHANGED <<ofile, pi, killed, observed>>

\* ... then the page, the two descriptors and copyout() of their numbers.
\* Nothing here can be seen by another process before it is over.
NoPage(p) ==
  /\ pc[p] = "pipe_page"
  /\ Goto(p, "close")
  /\ UNCHANGED <<file, ofile, pi, arg, killed, observed>>

PipePage(p, q) ==
  /\ pc[p] = "pipe_page" /\ ~pi[q].used
  /\ pi' = [pi EXCEPT ![q] = [Junk EXCEPT !.used = TRUE, !.readopen = TRUE,
                                         !.writeopen = TRUE]]
  /\ LET rf == arg[p].rf
         wf == arg[p].wf
     IN /\ file' = [file EXCEPT
            ![rf] = [@ EXCEPT !.type = "FD_PIPE", !.writable = FALSE, !.pipe = q],
            ![wf] = [@ EXCEPT !.type = "FD_PIPE", !.writable = TRUE, !.pipe = q]]
        /\ \/ /\ Cardinality(FreeFds(ofile[p])) >= 2
              /\ ofile' = [ofile EXCEPT ![p] = Installed(Installed(@, rf), wf)]
              /\ arg' = [arg EXCEPT ![p] = NoArg]
              /\ Goto(p, "user")
           \/ \* fdalloc() or copyout() failed: the descriptors are taken back
              /\ Goto(p, "close")
              /\ UNCHANGED <<ofile, arg>>
  /\ UNCHANGED <<killed, observed>>

\* MUTANT: sys_dup() installs the descriptor without filedup().
SysDupNoRef(p, d) ==
  /\ Syscall(p) /\ ofile[p][d] # NoFile /\ FreeFds(ofile[p]) # {}
  /\ ofile' = [ofile EXCEPT ![p] = Installed(@, ofile[p][d])]
  /\ UNCHANGED <<file, pi, pc, arg, killed, observed>>

\* sys_dup(): fdalloc(), filedup().
SysDup(p, d) ==
  /\ Syscall(p) /\ ofile[p][d] # NoFile /\ FreeFds(ofile[p]) # {}
  /\ ofile' = [ofile EXCEPT ![p] = Installed(@, ofile[p][d])]
  /\ file' = [file EXCEPT ![ofile[p][d]].ref = @ + 1]
  /\ UNCHANGED <<pi, pc, arg, killed, observed>>

\* sys_close(): the descriptor is cleared before fileclose().
SysClose(p, d) ==
  /\ Syscall(p) /\ ofile[p][d] # NoFile
  /\ arg' = [arg EXCEPT ![p].rf = ofile[p][d]]
  /\ ofile' = [ofile EXCEPT ![p][d] = NoFile]
  /\ Goto(p, "close")
  /\ UNCHANGED <<file, pi, killed, observed>>

\* fork(): the child gets every descriptor, each with its filedup().  The
\* filedup()s are one step: the parent's own references keep each file alive.
Fork(p, c) ==
  /\ Syscall(p) /\ pc[c] = "unused"
  /\ ofile' = [ofile EXCEPT ![c] = ofile[p]]
  /\ file' = [f \in Files |-> [file[f] EXCEPT
                 !.ref = @ + Cardinality({d \in Fds : ofile[p][d] = f})]]
  /\ Goto(c, "user")
  /\ UNCHANGED <<pi, arg, killed, observed>>

\* exit(), of its own will or killed: it will close every descriptor.
Exit(p) ==
  /\ pc[p] = "user"
  /\ Goto(p, "exit")
  /\ UNCHANGED <<file, ofile, pi, arg, killed, observed>>

\* The file that is next to be closed: the read end before the write end in
\* sys_pipe(), the lowest descriptor first in exit().
OpenFds(p) == {d \in Fds : ofile[p][d] # NoFile}
FirstFd(p) == CHOOSE d \in OpenFds(p) : \A e \in OpenFds(p) : d <= e
Closing(p) ==
  CASE pc[p] = "exit" -> IF OpenFds(p) = {} THEN NoFile ELSE ofile[p][FirstFd(p)]
    [] pc[p] = "close" -> IF arg[p].rf # NoFile THEN arg[p].rf ELSE arg[p].wf
    [] OTHER -> NoFile

\* What pipeclose() is called with when the last reference to f is gone.
LastOf(p, f) ==
  IF file[f].ref = 1 /\ file[f].type = "FD_PIPE"
  THEN [arg[p] EXCEPT !.pipe = file[f].pipe, !.writable = file[f].writable]
  ELSE arg[p]
Forget(p, last) ==
  IF pc[p] = "exit"
  THEN /\ ofile' = [ofile EXCEPT ![p][FirstFd(p)] = NoFile]
       /\ arg' = [arg EXCEPT ![p] = last]
  ELSE /\ arg' = [arg EXCEPT ![p] = IF arg[p].rf # NoFile THEN [last EXCEPT !.rf = NoFile]
                                   ELSE [last EXCEPT !.wf = NoFile]]
       /\ UNCHANGED ofile

\* MUTANT: fileclose() leaves f->type behind.
FileCloseKeepsType(p) ==
  LET f == Closing(p)
  IN /\ f # NoFile /\ arg[p].pipe = None
     /\ file' = [file EXCEPT ![f].ref = @ - 1]
     /\ Forget(p, LastOf(p, f))
     /\ UNCHANGED <<pi, pc, killed, observed>>

\* fileclose(): drop a reference; the last one frees the entry and goes on to
\* pipeclose() with a copy of it.
FileClose(p) ==
  LET f == Closing(p)
  IN /\ f # NoFile /\ arg[p].pipe = None
     /\ file' = [file EXCEPT ![f].ref = @ - 1,
                             ![f].type = IF file[f].ref = 1 THEN "FD_NONE" ELSE @]
     /\ Forget(p, LastOf(p, f))
     /\ UNCHANGED <<pi, pc, killed, observed>>

\* Nothing left to close: return to user mode, or become a ZOMBIE whose slot
\* wait() frees.
CloseDone(p) ==
  /\ pc[p] \in {"close", "exit"} /\ Closing(p) = NoFile /\ arg[p].pipe = None
  /\ IF pc[p] = "exit"
     THEN Goto(p, "unused") /\ killed' = [killed EXCEPT ![p] = FALSE]
     ELSE Goto(p, "user") /\ UNCHANGED killed
  /\ UNCHANGED <<file, ofile, pi, arg, observed>>

-----------------------------------------------------------------------------
\* The pipe.

Count(q) == (pi[q].nwrite + WRAP - pi[q].nread) % WRAP
Empty(q) == pi[q].nread = pi[q].nwrite
Full(q)  == pi[q].nwrite = (pi[q].nread + PIPESIZE) % WRAP

\* wakeup(&pi->nread) and wakeup(&pi->nwrite); each holder of the lock sleeps
\* on its own pipe's address.
Wake(q, at, asleep, awake) ==
  [p \in Procs |-> IF at[p] = asleep /\ arg[p].pipe = q THEN awake ELSE at[p]]
WakeReaders(q, at) == Wake(q, at, "read_asleep", "read")
WakeWriters(q, at) == Wake(q, at, "write_asleep", "write")

\* MUTANT: closing the write end does not wake the readers.
PipeCloseSilent(p) ==
  LET q == arg[p].pipe
      w == arg[p].writable
  IN /\ pc[p] \in {"close", "exit"} /\ q # None /\ pi[q].lock = None
     /\ pi' = [pi EXCEPT ![q] =
          IF IF w THEN ~pi[q].readopen ELSE ~pi[q].writeopen THEN Junk
          ELSE [pi[q] EXCEPT !.writeopen = @ /\ ~w, !.readopen = @ /\ w]]
     /\ pc' = IF w THEN pc ELSE WakeWriters(q, pc)
     /\ arg' = [arg EXCEPT ![p].pipe = None, ![p].writable = FALSE]
     /\ UNCHANGED <<file, ofile, killed, observed>>

\* MUTANT: the first end to be closed frees the page.
PipeCloseEither(p) ==
  LET q == arg[p].pipe
      w == arg[p].writable
  IN /\ pc[p] \in {"close", "exit"} /\ q # None /\ pi[q].lock = None
     /\ pi' = [pi EXCEPT ![q] = Junk]
     /\ pc' = IF w THEN WakeReaders(q, pc) ELSE WakeWriters(q, pc)
     /\ arg' = [arg EXCEPT ![p].pipe = None, ![p].writable = FALSE]
     /\ UNCHANGED <<file, ofile, killed, observed>>

\* pipeclose(): close one end, wake the other; the second frees the page.
PipeClose(p) ==
  LET q == arg[p].pipe
      w == arg[p].writable
  IN /\ pc[p] \in {"close", "exit"} /\ q # None /\ pi[q].lock = None
     /\ pi' = [pi EXCEPT ![q] =
          IF IF w THEN ~pi[q].readopen ELSE ~pi[q].writeopen THEN Junk
          ELSE [pi[q] EXCEPT !.writeopen = @ /\ ~w, !.readopen = @ /\ w]]
     /\ pc' = IF w THEN WakeReaders(q, pc) ELSE WakeWriters(q, pc)
     /\ owed' = IF w THEN owed \ {q} ELSE owed
     /\ arg' = [arg EXCEPT ![p].pipe = None, ![p].writable = FALSE]
     /\ UNCHANGED <<file, ofile, killed, got>>

\* sys_read() and sys_write() up to the pipe: argfd(), the readable/writable
\* test of fileread() and filewrite().
StartIO(p, d, n) ==
  LET f == ofile[p][d]
  IN /\ Syscall(p) /\ f # NoFile
     /\ arg' = [arg EXCEPT ![p].pipe = file[f].pipe, ![p].n = n]
     /\ Goto(p, IF file[f].writable THEN "write" ELSE "read")
     /\ UNCHANGED <<file, ofile, pi, killed, observed>>

\* Keep pi->lock, or take it: at the start of the call or in sleep() after a
\* wakeup.
Hold(p, point) ==
  /\ pi' = [pi EXCEPT ![arg[p].pipe].lock = p]
  /\ Goto(p, point)
  /\ UNCHANGED arg

\* Leave piperead() or pipewrite() with pi[q] = s.
Return(p, s, at) ==
  /\ pi' = [pi EXCEPT ![arg[p].pipe] = [s EXCEPT !.lock = None]]
  /\ pc' = [at EXCEPT ![p] = "user"]
  /\ arg' = [arg EXCEPT ![p] = NoArg]

\* pipewrite(), the tests at the top of the loop.  Giving up wakes nobody,
\* even when bytes have been stored.
WriteTest(p) ==
  LET q == arg[p].pipe
  IN /\ \/ pc[p] = "write" /\ pi[q].lock = None
        \/ pc[p] = "write_test"
     /\ IF arg[p].i < arg[p].n /\ (~pi[q].readopen \/ killed[p])
        THEN /\ Return(p, pi[q], pc)
             /\ owed' = IF arg[p].i > 0 THEN owed \cup {q} ELSE owed
        ELSE IF arg[p].i < arg[p].n
        THEN Hold(p, "write_body") /\ UNCHANGED owed
        ELSE \* done: wakeup(&pi->nread)
             Return(p, pi[q], WakeReaders(q, pc)) /\ owed' = owed \ {q}
     /\ UNCHANGED <<file, ofile, killed, got>>

\* MUTANT: the full test is off by one.
WriteBodyOverrun(p, b) ==
  LET q == arg[p].pipe
  IN /\ pc[p] = "write_body"
     /\ IF Count(q) = PIPESIZE + 1
        THEN /\ pi' = [pi EXCEPT ![q].lock = None]
             /\ pc' = [WakeReaders(q, pc) EXCEPT ![p] = "write_asleep"]
             /\ UNCHANGED arg
        ELSE /\ pi' = [pi EXCEPT ![q].data[pi[q].nwrite % PIPESIZE] = b,
                                 ![q].nwrite = (@ + 1) % WRAP]
             /\ arg' = [arg EXCEPT ![p].i = @ + 1]
             /\ Goto(p, "write_test")
     /\ UNCHANGED <<file, ofile, killed, observed>>

\* The body: wake the readers and sleep when full, else store a byte.
WriteBody(p, b) ==
  LET q == arg[p].pipe
  IN /\ pc[p] = "write_body"
     /\ IF Full(q)
        THEN /\ pi' = [pi EXCEPT ![q].lock = None]
             /\ pc' = [WakeReaders(q, pc) EXCEPT ![p] = "write_asleep"]
             /\ owed' = owed \ {q}
             /\ UNCHANGED arg
        ELSE /\ pi' = [pi EXCEPT ![q].data[pi[q].nwrite % PIPESIZE] = b,
                                 ![q].nwrite = (@ + 1) % WRAP]
             /\ arg' = [arg EXCEPT ![p].i = @ + 1]
             /\ Goto(p, "write_test")
             /\ UNCHANGED owed
     /\ UNCHANGED <<file, ofile, killed, got>>

\* copyin() of the next byte fails: return what was written so far.
WriteFault(p) ==
  LET q == arg[p].pipe
  IN /\ pc[p] = "write_body" /\ ~Full(q)
     /\ Return(p, pi[q], WakeReaders(q, pc))
     /\ owed' = owed \ {q}
     /\ UNCHANGED <<file, ofile, killed, got>>

\* piperead(), the waiting loop: leave it, give up when killed, or sleep.
ReadTest(p) ==
  LET q == arg[p].pipe
  IN /\ pc[p] = "read" /\ pi[q].lock = None
     /\ IF ~(Empty(q) /\ pi[q].writeopen)
        THEN Hold(p, "read_copy")
        ELSE IF killed[p] THEN Return(p, pi[q], pc)
        ELSE Hold(p, "read_sleep")
     /\ UNCHANGED <<file, ofile, killed, observed>>

ReadSleep(p) ==
  /\ pc[p] = "read_sleep"
  /\ pi' = [pi EXCEPT ![arg[p].pipe].lock = None]
  /\ Goto(p, "read_asleep")
  /\ UNCHANGED <<file, ofile, arg, killed, observed>>

\* The copying loop: one byte, or the end of the call with its wakeup.
ReadCopy(p) ==
  LET q == arg[p].pipe
      s == pi[q]
  IN /\ pc[p] = "read_copy"
     /\ IF arg[p].i = arg[p].n \/ Empty(q)
        THEN Return(p, s, WakeWriters(q, pc)) /\ got' = [got EXCEPT ![q] = None]
        ELSE /\ got' = [got EXCEPT ![q] = s.data[s.nread % PIPESIZE]]
             /\ pi' = [pi EXCEPT ![q].nread = (@ + 1) % WRAP]
             /\ arg' = [arg EXCEPT ![p].i = @ + 1]
             /\ UNCHANGED pc
     /\ UNCHANGED <<file, ofile, killed, owed>>

\* copyout() of the byte fails: the byte is gone all the same.
ReadFault(p) ==
  LET q == arg[p].pipe
      s == pi[q]
  IN /\ pc[p] = "read_copy" /\ arg[p].i < arg[p].n /\ ~Empty(q)
     /\ got' = [got EXCEPT ![q] = s.data[s.nread % PIPESIZE]]
     /\ pi' = [pi EXCEPT ![q].nread = (@ + 1) % WRAP]
     /\ arg' = [arg EXCEPT ![p].n = arg[p].i]   \* break: the loop is over
     /\ UNCHANGED <<file, ofile, pc, killed, owed>>

\* kill(): at any moment; wakes a process that sleeps.
Kill(p) ==
  /\ pc[p] # "unused" /\ ~killed[p]
  /\ killed' = [killed EXCEPT ![p] = TRUE]
  /\ pc' = [pc EXCEPT ![p] = IF @ = "read_asleep" THEN "read"
                             ELSE IF @ = "write_asleep" THEN "write" ELSE @]
  /\ UNCHANGED <<file, ofile, pi, arg, observed>>

-----------------------------------------------------------------------------
Next ==
  \E p \in Procs :
    \/ SysPipe(p) \/ PipeWriteEnd(p) \/ NoPage(p)
    \/ \E q \in Pages : PipePage(p, q)
    \/ \E d \in Fds : \/ SysDup(p, d) \/ SysClose(p, d)
                      \/ \E n \in Sizes : StartIO(p, d, n)
    \/ \E c \in Procs : Fork(p, c)
    \/ Exit(p) \/ FileClose(p) \/ CloseDone(p) \/ PipeClose(p)
    \/ WriteTest(p) \/ WriteFault(p)
    \/ \E b \in Bytes : WriteBody(p, b)
    \/ ReadTest(p) \/ ReadSleep(p) \/ ReadCopy(p) \/ ReadFault(p)
    \/ Kill(p)

Spec == Init /\ [][Next]_vars

-----------------------------------------------------------------------------
\* Properties.

\* Every variable has its type; the counters stay below WRAP and no more than
\* PIPESIZE apart.
TypeOK ==
  /\ file \in [Files -> [ref : Nat, type : {"FD_NONE", "FD_PIPE"},
                         writable : BOOLEAN, pipe : Pages \cup {None}]]
  /\ ofile \in [Procs -> [Fds -> Files \cup {NoFile}]]
  /\ \A q \in Pages : Count(q) <= PIPESIZE
  /\ \A p \in Procs : arg[p].pipe \in Pages \cup {None} /\ arg[p].i <= arg[p].n
  /\ owed \subseteq Pages

\* Who refers to a file: descriptors, and the locals of sys_pipe(), sys_close()
\* and exit().
Refs(f) ==
  Cardinality({r \in Procs \X Fds : ofile[r[1]][r[2]] = f})
  + Cardinality({p \in Procs : arg[p].rf = f})
  + Cardinality({p \in Procs : arg[p].wf = f})

\* f->ref counts exactly the references there are, through dup, fork, exit and
\* every error path of sys_pipe(): no entry leaks, none is freed in use.
RefsExact == \A f \in Files : file[f].ref = Refs(f)

InPipe(p) == pc[p] \in {"read", "read_sleep", "read_asleep",
                        "read_copy", "write", "write_test", "write_body",
                        "write_asleep"}

\* A process inside piperead() or pipewrite(), asleep included, has its end
\* open and the page still belongs to that pipe: nobody frees the page, and
\* the lock in it, under a process that uses it.
NoUseAfterFree ==
  \A p \in Procs : InPipe(p) =>
    \E d \in Fds : LET f == file[ofile[p][d]] IN
      /\ ofile[p][d] # NoFile
      /\ f.type = "FD_PIPE" /\ f.pipe = arg[p].pipe
      /\ pi[f.pipe].used
      /\ IF f.writable THEN pi[f.pipe].writeopen ELSE pi[f.pipe].readopen

\* readopen and writeopen say exactly whether a file for that end exists (or is
\* on its way into pipeclose()), and a page is freed when both are gone:
\* pipeclose() runs once for each end, and no page leaks.
EndOpen(q, w) ==
  \/ \E f \in Files : /\ file[f].ref > 0 /\ file[f].type = "FD_PIPE"
                      /\ file[f].pipe = q /\ file[f].writable = w
  \/ \E p \in Procs : ~InPipe(p) /\ arg[p].pipe = q /\ arg[p].writable = w
EndsMatch ==
  \A q \in Pages :
    /\ pi[q].readopen <=> EndOpen(q, FALSE)
    /\ pi[q].writeopen <=> EndOpen(q, TRUE)
    /\ pi[q].used <=> pi[q].readopen \/ pi[q].writeopen

\* Two ends and a page for each pipe, and the types of everything.
PipesExact == TypeOK /\ EndsMatch

\* The file table and the pipes agree: every reference is counted, every end
\* that is open has its entry, whatever failed on the way.
FilesExact == PipesExact /\ RefsExact

ReaderWaits(p) == Empty(arg[p].pipe) /\ pi[arg[p].pipe].writeopen
WriterWaits(p) == Full(arg[p].pipe) /\ pi[arg[p].pipe].readopen

\* Nobody sleeps on a pipe whose lock is free without a reason to: a reader
\* only while the pipe is empty and someone can write, a writer only while it
\* is full and someone can read.  The one exception is a pipe that a writer
\* killed between two bytes has left.
NoLostWakeup ==
  \A p \in Procs :
    /\ pc[p] = "read_asleep" /\ pi[arg[p].pipe].lock = None =>
         ReaderWaits(p) \/ arg[p].pipe \in owed
    /\ pc[p] = "write_asleep" /\ pi[arg[p].pipe].lock = None => WriterWaits(p)

\* The ring buffer with its wrapping counters, read and written by several
\* processes, is a first-in first-out byte stream.
Stream(q) == [j \in 1 .. IF pi[q].used THEN Count(q) ELSE 0 |->
                pi[q].data[(pi[q].nread + j - 1) % PIPESIZE]]
Fifo == INSTANCE ByteStream WITH
          Pipes <- Pages, stream <- [q \in Pages |-> Stream(q)], SIZE <- PIPESIZE
FifoOrder == Fifo!Spec
=============================================================================
