------------------------------- MODULE MCDisk -------------------------------
(* Log and Fs for TLC: a behaviour is one of the log or one of system calls  *)
(* on names, so that the state spaces add up.  The calls are those on one    *)
(* directory and a file in it ("files"), on a directory in a directory       *)
(* ("trees") or such as fail: a link to a directory or into one that is not  *)
(* there, a path through a file, chdir() to a file ("wrong").                *)
EXTENDS Log, MCFs

VARIABLE part

Calls == [
  files |-> {<<"open", Beside>>, <<"creat", Deep>>, <<"mkdir", Top>>,
             <<"unlink", Top>>, <<"unlink", Deep>>, <<"chdir", Top>>, <<"link", Deep>>},
  trees |-> {<<"open", Up>>, <<"mkdir", Top>>, <<"mkdir", Below>>,
             <<"unlink", Top>>, <<"unlink", Below>>, <<"chdir", Below>>},
  wrong |-> {<<"open", Through>>, <<"creat", Beside>>, <<"unlink", Beside>>,
             <<"chdir", Beside>>, <<"link", Beside>>, <<"link", Up>>}]

\* A call that begins is one of the part's.
OfPart ==
  \A p \in Callers : pos[p] = "user" /\ pos'[p] = "walk" =>
    \E call \in Calls[part] : call[1] = reg'[p].op /\ Rest(call[2]) = reg'[p].path

DiskInit == part \in {"log", "files", "trees", "wrong"} /\ Init /\ FsInit

DiskNext ==
  \/ part = "log" /\ Next /\ UNCHANGED <<fsVars, part>>
  \/ part # "log" /\ FsNext /\ OfPart /\ UNCHANGED <<vars, part>>
  \/ panic /\ UNCHANGED <<vars, fsVars, part>>   \* the machine has stopped

DiskSpec == DiskInit /\ [][DiskNext]_<<vars, fsVars, part>>

Symmetry == Permutations(Procs) \cup Permutations(Callers)
=============================================================================
