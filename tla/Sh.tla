--------------------------------- MODULE Sh ---------------------------------
(***************************************************************************)
(* The shell at work (runcmd(), parse_buffer(), main() and fork1() of      *)
(* user/sh.c) and the init process that starts it again (user/init.c).     *)
(*                                                                         *)
(* What a process still has to do is the sequence of system calls its code *)
(* makes, todo; the head is the call it is at.  runcmd() replaces itself   *)
(* by the calls of the tree's node.  Every call is one step, interleaved   *)
(* with the steps of all other processes.  The kernel's side of fork(),    *)
(* wait(), exit(), pipe(), dup(), close() and open() is modelled in Proc   *)
(* and Pipe; here it is what the shell sees of it: the lowest free         *)
(* descriptor, shared pipe ends, children that pass to init.               *)
(*                                                                         *)
(* A program run by the shell is one of three: it reads its standard input *)
(* to the end (Filters), it writes more than a pipe holds (Floods), or it  *)
(* does neither.                                                           *)
(***************************************************************************)
EXTENDS ShParse, FiniteSets

CONSTANTS
  NPROC, NOFILE,
  Lines,              \* the lines a user may type first, second and so on;
                      \* <<>> is the end of the input
  Script,             \* the blocks a script is read in: [line, full]
  Filters, Floods,    \* command words of programs, see above
  MaxFails            \* how many kinds of system call fail, each one once

VARIABLES
  proc,     \* the process table
  typed,    \* how many lines have been typed
  jobs,     \* what each command line was, and the shell it was given to
  failed,   \* which calls have failed
  halted    \* init has exited: the kernel panics

runVars == <<proc, typed, jobs, failed, halted>>
shVars == <<runVars, lineVars>>

Pids == 0 .. NPROC - 1
INIT == 0
Unused == [st |-> "unused"]
Live == {q \in Pids : proc[q].st = "run"}
Children(q) == {c \in Pids : proc[c].st # "unused" /\ proc[c].parent = q}

-----------------------------------------------------------------------------
\* Open files.  A pipe is named by the job and the node that made it.

NoFile == <<>>
Console == <<"console">>
Closed == [x \in 0 .. NOFILE - 1 |-> NoFile]
Lowest(fd) == CHOOSE x \in DOMAIN fd :
                fd[x] = NoFile /\ \A y \in 0 .. x - 1 : fd[y] # NoFile
Holders(f) == {q \in Pids : proc[q].st = "run" /\ f \in {proc[q].fd[x] : x \in DOMAIN proc[q].fd}}

-----------------------------------------------------------------------------
\* The calls a piece of code makes.

Call(name) == [op |-> name]
Close(x) == [op |-> "close", x |-> x]
Dup(x) == [op |-> "dup", x |-> x]
Open(f) == [op |-> "open", file |-> f]
Fork(calls) == [op |-> "fork", calls |-> calls]
Exec(argv) == [op |-> "exec", argv |-> argv]
PipeTo(l, r) == [op |-> "pipe", left |-> l, right |-> r]
Run(c, path) == [op |-> "run", cmd |-> c, path |-> path]
Parse(line) == [op |-> "parse", line |-> line]
Initwait(sh) == [op |-> "initwait", pid |-> sh]
ReadScript(k) == [op |-> "script", block |-> k]
Exit == Call("exit")
Wait == Call("wait")

\* MUTANT: the parent of a pipeline keeps its ends until both have exited.
PipelineHeld(p, l, r) ==
  << Fork(<<Close(1), Dup(p[2]), Close(p[1]), Close(p[2]), l>>),
     Fork(<<Close(0), Dup(p[1]), Close(p[1]), Close(p[2]), r>>),
     Wait, Wait, Close(p[1]), Close(p[2]), Exit >>

\* MUTANT: the right side does not close its copy of the write end.
PipelineOpen(p, l, r) ==
  << Fork(<<Close(1), Dup(p[2]), Close(p[1]), Close(p[2]), l>>),
     Fork(<<Close(0), Dup(p[1]), Close(p[1]), r>>),
     Close(p[1]), Close(p[2]), Wait, Wait, Exit >>

\* The rest of case PIPE, once pipe() has returned p.
Pipeline(p, l, r) ==
  << Fork(<<Close(1), Dup(p[2]), Close(p[1]), Close(p[2]), l>>),
     Fork(<<Close(0), Dup(p[1]), Close(p[1]), Close(p[2]), r>>),
     Close(p[1]), Close(p[2]), Wait, Wait, Exit >>

\* MUTANT: the right side of a list does not wait for the left.
RuncmdNoWait(c, path) ==
  CASE c.type = "EXEC" ->
         IF c.argv = <<>> THEN <<Exit>> ELSE <<Exec(c.argv), Exit>>
    [] c.type = "REDIR" ->
         <<Close(c.fd), Open(<<"file", c.file, c.mode>>),
           Run(c.cmd, Append(path, "c"))>>
    [] c.type = "LIST" ->
         <<Fork(<<Run(c.left, Append(path, "l"))>>), Run(c.right, Append(path, "r"))>>
    [] c.type = "PIPE" ->
         <<PipeTo(Run(c.left, Append(path, "l")), Run(c.right, Append(path, "r")))>>
    [] c.type = "BACK" -> <<Fork(<<Run(c.cmd, Append(path, "c"))>>), Exit>>

Runcmd(c, path) ==
  CASE c.type = "EXEC" ->
         IF c.argv = <<>> THEN <<Exit>> ELSE <<Exec(c.argv), Exit>>
    [] c.type = "REDIR" ->
         <<Close(c.fd), Open(<<"file", c.file, c.mode>>),
           Run(c.cmd, Append(path, "c"))>>
    [] c.type = "LIST" ->
         <<Fork(<<Run(c.left, Append(path, "l"))>>), Wait,
           Run(c.right, Append(path, "r"))>>
    [] c.type = "PIPE" ->
         <<PipeTo(Run(c.left, Append(path, "l")), Run(c.right, Append(path, "r")))>>
    [] c.type = "BACK" -> <<Fork(<<Run(c.cmd, Append(path, "c"))>>), Exit>>

\* parse_buffer() for a line that is no builtin.
ParseBuffer(line) == <<Fork(<<Parse(line)>>), Wait>>

\* main() of the shell and of init.
ShMain(argv) ==
  IF Len(argv) = 2 THEN <<Call("ensure"), Open(<<"script">>), ReadScript(1)>>
  ELSE <<Call("ensure"), Call("getcmd")>>
InitMain == <<Open(Console), Dup(0), Dup(0), Call("initfork")>>

-----------------------------------------------------------------------------
\* Steps.  Each one is the call at the head of q's todo.

At1(q, name) == proc[q].st = "run" /\ Head(proc[q].todo).op = name
Rest(q) == Tail(proc[q].todo)
Continue(q, calls) == proc' = [proc EXCEPT ![q].todo = calls]
SetFd(q, fd, calls) == proc' = [proc EXCEPT ![q].todo = calls, ![q].fd = fd]
MayFail(name) == name \notin failed /\ Cardinality(failed) < MaxFails
Fails(q, name) ==
  MayFail(name) /\ failed' = failed \cup {name} /\ Continue(q, <<Exit>>)

ShClose(q) ==
  /\ At1(q, "close")
  /\ SetFd(q, [proc[q].fd EXCEPT ![Head(proc[q].todo).x] = NoFile], Rest(q))
  /\ UNCHANGED <<typed, jobs, failed, halted, lineVars>>

ShDup(q) ==
  /\ At1(q, "dup")
  /\ LET fd == proc[q].fd
     IN  SetFd(q, [fd EXCEPT ![Lowest(fd)] = fd[Head(proc[q].todo).x]], Rest(q))
  /\ UNCHANGED <<typed, jobs, failed, halted, lineVars>>

\* open() of a redirection, of a script, or of init's console; only the last
\* cannot fail, init makes the device first.
ShOpen(q) ==
  /\ At1(q, "open")
  /\ LET fd == proc[q].fd
         f == Head(proc[q].todo).file
     IN  \/ /\ SetFd(q, [fd EXCEPT ![Lowest(fd)] = f], Rest(q))
            /\ UNCHANGED failed
         \/ q # INIT /\ Fails(q, "open")
  /\ UNCHANGED <<typed, jobs, halted, lineVars>>

\* main() opens the console until it gets a descriptor above 2.
Ensure(q) ==
  /\ At1(q, "ensure")
  /\ LET fd == proc[q].fd
         x == Lowest(fd)
     IN  IF x >= 3 THEN Continue(q, Rest(q))
         ELSE SetFd(q, [fd EXCEPT ![x] = Console], proc[q].todo)
  /\ UNCHANGED <<typed, jobs, failed, halted, lineVars>>

ShPipe(q) ==
  /\ At1(q, "pipe")
  /\ LET fd == proc[q].fd
         r == Lowest(fd)
         fd1 == [fd EXCEPT ![r] = <<"r", proc[q].job, proc[q].path>>]
         w == Lowest(fd1)
         c == Head(proc[q].todo)
     IN  \/ /\ SetFd(q, [fd1 EXCEPT ![w] = <<"w", proc[q].job, proc[q].path>>],
                     Pipeline(<<r, w>>, c.left, c.right))
            /\ UNCHANGED failed
         \/ Fails(q, "pipe")
  /\ UNCHANGED <<typed, jobs, halted, lineVars>>

\* fork1(): the child has copies of everything; failure is a panic.
ShFork(q) ==
  /\ At1(q, "fork")
  /\ \/ \E c \in Pids :
          /\ proc[c].st = "unused" /\ \A d \in 0 .. c - 1 : proc[d].st # "unused"
          /\ proc' = [proc EXCEPT
               ![q].todo = Rest(q),
               ![c] = [proc[q] EXCEPT !.parent = q, !.todo = Head(proc[q].todo).calls]]
          /\ UNCHANGED failed
     \/ Fails(q, "fork")
     \/ /\ \A c \in Pids : proc[c].st # "unused"
        /\ failed' = failed \cup {"fork"}
        /\ Continue(q, <<Exit>>)
  /\ UNCHANGED <<typed, jobs, halted, lineVars>>

\* wait(0): any child that has exited, whichever it is; none is no reason to
\* stay.
ShWait(q) ==
  /\ At1(q, "wait")
  /\ \/ Children(q) = {} /\ Continue(q, Rest(q))
     \/ \E c \in Children(q) :
          /\ proc[c].st = "zombie"
          /\ proc' = [proc EXCEPT ![q].todo = Rest(q), ![c] = Unused]
  /\ UNCHANGED <<typed, jobs, failed, halted, lineVars>>

\* exit(): the descriptors are closed, the children pass to init, the parent
\* can collect the process.  Init itself must not exit.
ShExit(q) ==
  /\ At1(q, "exit")
  /\ IF q = INIT THEN halted' = TRUE /\ UNCHANGED proc
     ELSE /\ proc' = [c \in Pids |->
               IF c = q THEN [proc[c] EXCEPT !.st = "zombie", !.fd = Closed, !.todo = <<>>]
               ELSE IF c \in Children(q) THEN [proc[c] EXCEPT !.parent = INIT]
               ELSE proc[c]]
          /\ UNCHANGED halted
  /\ UNCHANGED <<typed, jobs, failed, lineVars>>

\* What parsecmd() makes of each line: the tree runcmd() sees.
Trees ==
  [line \in UNION {Lines[k] : k \in DOMAIN Lines} \cup
             {Script[k].line : k \in DOMAIN Script} |->
     LET r == Parsecmd(line)
     IN  [ok |-> r.ok, cmd |-> IF r.ok THEN Strings(r.cmd, r.cut) ELSE execcmd(<<>>)]]

\* The child of parse_buffer() parses its copy of the line, or panics.
ShParse(q) ==
  /\ At1(q, "parse")
  /\ LET r == Trees[Head(proc[q].todo).line]
     IN  Continue(q, IF r.ok THEN <<Run(r.cmd, <<>>)>> ELSE <<Exit>>)
  /\ UNCHANGED <<typed, jobs, failed, halted, lineVars>>

ShRun(q) ==
  /\ At1(q, "run")
  /\ LET c == Head(proc[q].todo)
     IN  proc' = [proc EXCEPT ![q].todo = Runcmd(c.cmd, c.path), ![q].path = c.path]
  /\ UNCHANGED <<typed, jobs, failed, halted, lineVars>>

\* exec(): the shell again, with or without a script, or another program.
ShExec(q) ==
  /\ At1(q, "exec")
  /\ LET argv == Head(proc[q].todo).argv
     IN  \/ /\ Continue(q, IF argv[1] = <<"sh">> THEN ShMain(argv)
                       ELSE <<[op |-> "program", word |-> argv[1]]>>)
            /\ UNCHANGED failed
         \/ Fails(q, "exec")
  /\ UNCHANGED <<typed, jobs, halted, lineVars>>

\* A program runs to its end: a filter when its input ends, a flood when its
\* output is read or cannot be delivered.
Program(q) ==
  /\ At1(q, "program")
  /\ LET word == Head(proc[q].todo).word
         in == proc[q].fd[0]
         out == proc[q].fd[1]
         reads(p) == At1(p, "program") /\ Head(proc[p].todo).word \in Filters
     IN  /\ word \in Filters /\ in # NoFile /\ in[1] = "r" =>
              Holders([in EXCEPT ![1] = "w"]) = {}
         /\ word \in Floods /\ out # NoFile /\ out[1] = "w" =>
              LET ends == Holders([out EXCEPT ![1] = "r"])
              IN  ends = {} \/ \E p \in ends : reads(p)
  /\ Continue(q, <<Exit>>)
  /\ UNCHANGED <<typed, jobs, failed, halted, lineVars>>

\* parse_buffer(): cd is done by the shell itself, exit ends it, and any other
\* line is the work of a child the shell waits for.
Builtin(line, name) == line # <<>> /\ line[1] = name
Perform(q, line, next) ==
  \/ /\ Builtin(line, "cd") /\ At(line, 2) = " "
     /\ \E dir \in {proc[q].cwd, SubSeq(line, 3, Len(line) - 1)} :
          proc' = [proc EXCEPT ![q].todo = next, ![q].cwd = dir]
     /\ UNCHANGED jobs
  \/ /\ Builtin(line, "exit")
     /\ Continue(q, <<Exit>>)
     /\ UNCHANGED jobs
  \/ /\ ~(Builtin(line, "cd") /\ At(line, 2) = " ") /\ ~Builtin(line, "exit")
     /\ jobs' = Append(jobs, [line |-> line, sh |-> q, fd |-> proc[q].fd, cwd |-> proc[q].cwd])
     /\ proc' = [proc EXCEPT ![q].todo = ParseBuffer(line) \o next,
                             ![q].job = Len(jobs'), ![q].path = <<>>]

\* getcmd() and a turn of main()'s loop: a line of nothing is the end.
Getcmd(q) ==
  /\ At1(q, "getcmd") /\ typed < Len(Lines)
  /\ typed' = typed + 1
  /\ \E line \in Lines[typed'] :
       IF line = <<>> THEN Continue(q, <<Exit>>) /\ UNCHANGED jobs
       ELSE Perform(q, line, proc[q].todo)
  /\ UNCHANGED <<failed, halted, lineVars>>

\* The script is read in blocks of the size of the buffer; only the first may
\* be short, a later one is dropped.
ShScript(q) ==
  /\ At1(q, "script")
  /\ LET k == Head(proc[q].todo).block
     IN  IF k <= Len(Script) /\ (k = 1 \/ Script[k].full)
         THEN Perform(q, Script[k].line, <<ReadScript(k + 1)>>)
         ELSE Continue(q, <<Exit>>) /\ UNCHANGED jobs
  /\ UNCHANGED <<typed, failed, halted, lineVars>>

\* init starts a shell, then waits until that shell has exited.
InitFork(q) ==
  /\ At1(q, "initfork")
  /\ \/ \E c \in Pids :
          /\ proc[c].st = "unused" /\ \A d \in 0 .. c - 1 : proc[d].st # "unused"
          /\ proc' = [proc EXCEPT
               ![q].todo = <<Initwait(c)>>,
               ![c] = [proc[q] EXCEPT !.parent = q, !.todo = <<Exec(<< <<"sh">> >>), Exit>>]]
          /\ UNCHANGED failed
     \/ Fails(q, "fork")
  /\ UNCHANGED <<typed, jobs, halted, lineVars>>

InitWait(q) ==
  /\ At1(q, "initwait")
  /\ \E c \in Children(q) :
       /\ proc[c].st = "zombie"
       /\ proc' = [proc EXCEPT
            ![c] = Unused,
            ![q].todo = IF c = Head(proc[q].todo).pid THEN <<Call("initfork")>> ELSE @]
  /\ UNCHANGED <<typed, jobs, failed, halted, lineVars>>

-----------------------------------------------------------------------------

\* A machine that has just booted; or one that never does.
ShInit(stopped) ==
  /\ proc = [q \in Pids |->
       IF q # INIT THEN Unused
       ELSE [st |-> "run", parent |-> INIT, todo |-> InitMain, fd |-> Closed,
             cwd |-> <<"/">>, job |-> 0, path |-> <<>>]]
  /\ typed = 0 /\ jobs = <<>> /\ failed = {} /\ halted = stopped
  /\ buf = <<>> /\ reading = FALSE

\* Every step but the user's.
ShStep(q) ==
  /\ ~halted
  /\ \/ ShClose(q) \/ ShDup(q) \/ ShOpen(q) \/ Ensure(q) \/ ShPipe(q)
     \/ ShFork(q) \/ ShWait(q) \/ ShExit(q) \/ ShParse(q) \/ ShRun(q)
     \/ ShExec(q) \/ Program(q) \/ ShScript(q) \/ InitFork(q) \/ InitWait(q)

ShNext == \E q \in Pids : ShStep(q) \/ (~halted /\ Getcmd(q))

\* The machine does not stop while some process can run; a user need not type.
ShFairness == WF_shVars(\E q \in Pids : ShStep(q))
ShSpec == ShInit(FALSE) /\ [][ShNext]_shVars /\ ShFairness

-----------------------------------------------------------------------------
\* Properties.

TreeOf(j) == Trees[jobs[j].line].cmd
Child(c, step) ==
  CASE step = "l" -> c.left [] step = "r" -> c.right [] step = "c" -> c.cmd

\* The standard input and output the tree gives the command at path: those of
\* the innermost redirection, else of the innermost pipeline, else the shell's.
RECURSIVE Wiring(_, _, _, _, _)
Wiring(c, j, path, k, fd) ==
  IF k > Len(path) THEN fd
  ELSE LET here == SubSeq(path, 1, k - 1)
           next == CASE c.type = "REDIR" ->
                          [fd EXCEPT ![c.fd] = <<"file", c.file, c.mode>>]
                     [] c.type = "PIPE" /\ path[k] = "l" ->
                          [fd EXCEPT ![1] = <<"w", j, here>>]
                     [] c.type = "PIPE" /\ path[k] = "r" ->
                          [fd EXCEPT ![0] = <<"r", j, here>>]
                     [] OTHER -> fd
       IN  Wiring(Child(c, path[k]), j, path, k + 1, next)

\* When a program starts, descriptors 0 and 1 are what its place in the tree
\* says and every other descriptor is the shell's: no end of a pipe is left
\* open anywhere else, whatever order the processes run in.  A shell has its
\* first three descriptors open when it starts a command.
WiringExact ==
  /\ \A q \in Live : At1(q, "program") =>
       LET j == proc[q].job
       IN  /\ proc[q].fd = Wiring(TreeOf(j), j, proc[q].path, 1, jobs[j].fd)
           /\ proc[q].cwd = jobs[j].cwd
  /\ \A j \in DOMAIN jobs : \A x \in 0 .. 2 : jobs[j].fd[x] # NoFile

RECURSIVE NodeAt(_, _)
NodeAt(c, path) == IF path = <<>> THEN c ELSE NodeAt(Child(c, path[1]), Tail(path))

\* The command at path is not under a '&' that lies under (or at) from.
Foreground(j, from, path) ==
  \A k \in Len(from) .. Len(path) - 1 :
    NodeAt(TreeOf(j), SubSeq(path, 1, k)).type # "BACK"

\* Unless a fork() has failed: while a command of the foreground runs, its
\* shell waits for it and neither prompts nor reads on, and nothing to the
\* right of a ';' has begun before everything to its left has exited.
InOrder == "fork" \notin failed =>
  \A q \in Live : At1(q, "program") =>
    LET j == proc[q].job
        path == proc[q].path
    IN  /\ Foreground(j, <<>>, path) =>
             /\ At1(jobs[j].sh, "wait")
             /\ \A i \in j + 1 .. Len(jobs) : jobs[i].sh # jobs[j].sh
        /\ \A k \in 1 .. Len(path) :
             LET list == SubSeq(path, 1, k - 1)
             IN  /\ path[k] = "l"
                 /\ NodeAt(TreeOf(j), list).type = "LIST"
                 /\ Foreground(j, Append(list, "l"), path)
                 => \A p \in Live : proc[p].job = j =>
                      ~IsPrefix(Append(list, "r"), proc[p].path)

\* Commands run where and when the line says.
JobsExact == WiringExact /\ InOrder

Prompting == \E q \in Live : At1(q, "getcmd")

\* Whatever was typed, a shell prompts again: no pipeline waits for the end of
\* an input that never ends, and init replaces a shell that has exited.  Only
\* an init that cannot fork stops the machine.
PromptReturns == []<>(Prompting \/ halted)
=============================================================================
