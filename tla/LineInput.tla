----------------------------- MODULE LineInput -----------------------------
(***************************************************************************)
(* What the console promises a reader: the user edits one line at a time,  *)
(* entered lines are never changed, and every read() gets the next         *)
(* characters in the order they were typed, stops after a newline, and     *)
(* sees an end-of-file mark only as a read of no characters.               *)
(***************************************************************************)
EXTENDS Naturals, Sequences, SequencesExt

CONSTANTS Readers, Chars, NL, EOF, SIZE

VARIABLES
  entered,  \* characters that readers may take
  editing,  \* the line being typed
  line      \* what each reader's current read() has received

Init == entered = <<>> /\ editing = <<>> /\ line = [p \in Readers |-> <<>>]

\* A character joins the line; a newline, an end of file or a full buffer
\* enters it.
Type(c) ==
  LET full == Len(entered) + Len(editing) + 1 = SIZE
  IN /\ Len(entered) + Len(editing) < SIZE
     /\ IF c \in {NL, EOF} \/ full
        THEN entered' = entered \o Append(editing, c) /\ editing' = <<>>
        ELSE editing' = Append(editing, c) /\ UNCHANGED entered
     /\ UNCHANGED line

\* The user can only take back what has not been entered.
Erase ==
  /\ editing # <<>>
  /\ editing' = Front(editing)
  /\ UNCHANGED <<entered, line>>

KillLine == editing' = <<>> /\ UNCHANGED <<entered, line>>

Take(p) ==
  /\ entered # <<>> /\ Head(entered) # EOF
  /\ line[p] = <<>> \/ Last(line[p]) # NL
  /\ line' = [line EXCEPT ![p] = Append(@, Head(entered))]
  /\ entered' = Tail(entered)
  /\ UNCHANGED editing

\* The mark goes to a reader that has nothing to return.
TakeEof(p) ==
  /\ entered # <<>> /\ Head(entered) = EOF /\ line[p] = <<>>
  /\ entered' = Tail(entered)
  /\ UNCHANGED <<editing, line>>

\* The reader's memory cannot be written: the character is lost.
Drop(p) ==
  /\ entered # <<>> /\ Head(entered) # EOF
  /\ entered' = Tail(entered)
  /\ line' = [line EXCEPT ![p] = <<>>]
  /\ UNCHANGED editing

Return(p) ==
  /\ line' = [line EXCEPT ![p] = <<>>]
  /\ UNCHANGED <<entered, editing>>

Next ==
  \/ \E c \in Chars \cup {NL, EOF} : Type(c)
  \/ Erase \/ KillLine
  \/ \E p \in Readers : Take(p) \/ TakeEof(p) \/ Drop(p) \/ Return(p)

Spec == Init /\ [][Next]_<<entered, editing, line>>
=============================================================================
