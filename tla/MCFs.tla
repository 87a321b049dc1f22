-------------------------------- MODULE MCFs --------------------------------
(* Fs for TLC: the paths the processes use.  "a" names directories, "b" files. *)
EXTENDS Fs, TLC

Top == <<"/", "a">>         \* a directory in the root
Below == <<"/", "a", "a">>  \* a directory in that directory
Deep == <<"/", "a", "b">>   \* a file there
Beside == <<"/", "b">>
Up == <<"..">>
Through == <<"/", "b", "b">>  \* through something that is not a directory

MCOpen == {Up, Beside, Through}
MCCreate == {Deep, Beside}
MCMkdir == {Top, Below}
MCUnlink == {Top, Below, Deep, Beside}
MCChdir == {Top, Below, Beside}
MCLink == {<<Deep, Beside>>, <<Beside, Deep>>, <<Up, Beside>>}
OneFile == {Beside}

\* Behaviours in which no dirlink() fails: the root directory has room.
RoomySpec == FsInit /\ [][FsNext /\ \A p \in Callers : pos'[p] # "failed"]_fsVars
=============================================================================
