------------------------------- MODULE ShParse -------------------------------
(***************************************************************************)
(* How the shell reads a line and turns it into a tree of commands         *)
(* (user/sh.c from getcmd() and gettoken() to nulterminate(), gets() of    *)
(* user/ulib.c).                                                           *)
(*                                                                         *)
(* A line is a sequence of cells: a symbol, a blank or a piece of a word   *)
(* (pieces that touch are one word).  A pointer into the buffer is a       *)
(* position; the position after the last cell holds the NUL.  A parsing    *)
(* function returns the tree and the position it stopped at, or Failure    *)
(* when the program panics.  Trees name their words by the positions q and *)
(* eq, as the code does, until nulterminate() cuts the buffer.             *)
(***************************************************************************)
EXTENDS Naturals, Sequences, SequencesExt

CONSTANTS
  MAXARGS,
  NBUF,      \* sizeof(buf)
  Cells      \* what may be typed, the newline apart

VARIABLES
  buf,       \* the line read so far
  reading    \* gets() has not returned yet

lineVars == <<buf, reading>>

NUL == "\\0"
NL == "\\n"
whitespace == {" ", NL}
symbols == {"<", "|", ">", "&", ";", "(", ")"}
At(s, i) == IF i > Len(s) THEN NUL ELSE s[i]
IsWord(c) == c \notin whitespace \cup symbols \cup {NUL}

-----------------------------------------------------------------------------
\* Reading a line.

GetcmdStart == buf = <<>> /\ reading = TRUE

\* One turn of the loop of gets(): a character is read and stored; a newline,
\* or no room for another character, ends the line.
Gets(c) ==
  /\ reading = TRUE
  /\ buf' = Append(buf, c)
  /\ reading' = (c # NL /\ Len(buf') + 1 < NBUF)

\* read() returns no character: the end of the input.
GetsEof == reading = TRUE /\ reading' = FALSE /\ UNCHANGED buf

LineNext == (\E c \in Cells \cup {NL} : Gets(c)) \/ GetsEof

-----------------------------------------------------------------------------
\* Tokens.

\* The first position from i on that is no blank.
SkipBlanks(s, i) ==
  CHOOSE j \in i .. Len(s) + 1 :
    /\ At(s, j) \notin whitespace
    /\ \A k \in i .. j - 1 : s[k] \in whitespace

WordEnd(s, i) ==
  CHOOSE j \in i .. Len(s) + 1 :
    /\ ~IsWord(At(s, j))
    /\ \A k \in i .. j - 1 : IsWord(s[k])

Gettoken(s, i) ==
  LET q == SkipBlanks(s, i)
      c == At(s, q)
      append == c = ">" /\ At(s, q + 1) = ">"
      eq == CASE c = NUL -> q
              [] append -> q + 2
              [] c \in symbols /\ ~append -> q + 1
              [] OTHER -> WordEnd(s, q)
  IN  [tok |-> CASE append -> "+" [] IsWord(c) -> "a" [] OTHER -> c,
       q |-> q, eq |-> eq, at |-> SkipBlanks(s, eq)]

Peek(s, i, toks) == At(s, SkipBlanks(s, i)) \in toks

-----------------------------------------------------------------------------
\* Constructors.

execcmd(argv) == [type |-> "EXEC", argv |-> argv]
redircmd(sub, file, mode, fd) ==
  [type |-> "REDIR", cmd |-> sub, file |-> file, mode |-> mode, fd |-> fd]
pipecmd(l, r) == [type |-> "PIPE", left |-> l, right |-> r]
listcmd(l, r) == [type |-> "LIST", left |-> l, right |-> r]
backcmd(sub) == [type |-> "BACK", cmd |-> sub]

-----------------------------------------------------------------------------
\* The parser.

Failure == [ok |-> FALSE]
Parsed(c, i) == [ok |-> TRUE, cmd |-> c, at |-> i]

RedirOf(tok) ==
  CASE tok = "<" -> [mode |-> "read", fd |-> 0]
    [] tok = ">" -> [mode |-> "truncate", fd |-> 1]
    [] tok = "+" -> [mode |-> "keep", fd |-> 1]

RECURSIVE Parseredirs(_, _, _)
Redirected(sub, s, t, f) ==
  IF f.tok # "a" THEN Failure
  ELSE Parseredirs(redircmd(sub, <<f.q, f.eq>>, RedirOf(t.tok).mode, RedirOf(t.tok).fd),
                   s, f.at)

Parseredirs(sub, s, i) ==
  IF ~Peek(s, i, {"<", ">"})
  THEN Parsed(sub, SkipBlanks(s, i))
  ELSE Redirected(sub, s, Gettoken(s, i), Gettoken(s, Gettoken(s, i).at))

\* The words an execcmd holds, wherever its redirections have put it; the code
\* keeps a pointer to it and adds words below the redirections around it.
RECURSIVE WithWord(_, _)
WithWord(c, w) ==
  IF c.type = "EXEC" THEN [c EXCEPT !.argv = Append(@, w)]
  ELSE [c EXCEPT !.cmd = WithWord(@, w)]

\* The loop of parseexec(): p is the command so far, argc its words, t the
\* next token.
RECURSIVE Parseargs(_, _, _)
Argument(p, argc, s, t) ==
  CASE t.tok = NUL -> Parsed(p.cmd, t.at)
    [] t.tok = "a" /\ argc + 1 < MAXARGS ->
         Parseargs(Parseredirs(WithWord(p.cmd, <<t.q, t.eq>>), s, t.at), argc + 1, s)
    [] OTHER -> Failure

Parseargs(p, argc, s) ==
  IF ~p.ok \/ Peek(s, p.at, {"|", ")", "&", ";"}) THEN p
  ELSE Argument(p, argc, s, Gettoken(s, p.at))

Joined(op(_, _), l, r) == IF r.ok THEN Parsed(op(l.cmd, r.cmd), r.at) ELSE Failure

RECURSIVE Parseline(_, _)
RECURSIVE Parsepipe(_, _)
RECURSIVE Parsebacks(_, _)

BlockEnd(sub, s) ==
  IF ~sub.ok \/ ~Peek(s, sub.at, {")"}) THEN Failure
  ELSE Parseredirs(sub.cmd, s, Gettoken(s, sub.at).at)

Parseblock(s, i) == BlockEnd(Parseline(s, Gettoken(s, i).at), s)

Parseexec(s, i) ==
  IF Peek(s, i, {"("}) THEN Parseblock(s, i)
  ELSE Parseargs(Parseredirs(execcmd(<<>>), s, i), 0, s)

PipeTail(l, s) ==
  IF ~l.ok \/ ~Peek(s, l.at, {"|"}) THEN l
  ELSE Joined(pipecmd, l, Parsepipe(s, Gettoken(s, l.at).at))

Parsepipe(s, i) == PipeTail(Parseexec(s, i), s)

Parsebacks(p, s) ==
  IF ~p.ok \/ ~Peek(s, p.at, {"&"}) THEN p
  ELSE Parsebacks(Parsed(backcmd(p.cmd), Gettoken(s, p.at).at), s)

ListTail(b, s) ==
  IF ~b.ok \/ ~Peek(s, b.at, {";"}) THEN b
  ELSE Joined(listcmd, b, Parseline(s, Gettoken(s, b.at).at))

Parseline(s, i) == ListTail(Parsebacks(Parsepipe(s, i), s), s)

\* MUTANT: the right side of a list keeps its words uncut.
RECURSIVE NulterminateLeft(_)
NulterminateLeft(c) ==
  CASE c.type = "EXEC" -> {c.argv[k][2] : k \in DOMAIN c.argv}
    [] c.type = "REDIR" -> NulterminateLeft(c.cmd) \cup {c.file[2]}
    [] c.type = "PIPE" -> NulterminateLeft(c.left) \cup NulterminateLeft(c.right)
    [] c.type = "LIST" -> NulterminateLeft(c.left)
    [] c.type = "BACK" -> NulterminateLeft(c.cmd)

\* Where nulterminate() writes a NUL.
RECURSIVE Nulterminate(_)
Nulterminate(c) ==
  CASE c.type = "EXEC" -> {c.argv[k][2] : k \in DOMAIN c.argv}
    [] c.type = "REDIR" -> Nulterminate(c.cmd) \cup {c.file[2]}
    [] c.type \in {"PIPE", "LIST"} ->
         Nulterminate(c.left) \cup Nulterminate(c.right)
    [] c.type = "BACK" -> Nulterminate(c.cmd)

\* All of the line must have been used.
LineEnd(r, s) ==
  IF ~r.ok \/ SkipBlanks(s, r.at) # Len(s) + 1 THEN Failure
  ELSE [ok |-> TRUE, cmd |-> r.cmd,
        cut |-> [i \in 1 .. Len(s) + 1 |->
                   IF i \in Nulterminate(r.cmd) THEN NUL ELSE At(s, i)]]

Parsecmd(s) == LineEnd(Parseline(s, 1), s)

\* The string a pointer into the cut buffer denotes.
StringAt(cut, q) ==
  LET e == CHOOSE j \in q .. Len(cut) :
             cut[j] = NUL /\ \A k \in q .. j - 1 : cut[k] # NUL
  IN  SubSeq(cut, q, e - 1)

\* The tree as runcmd() sees it: words are the strings the pointers denote.
RECURSIVE Strings(_, _)
Strings(c, cut) ==
  CASE c.type = "EXEC" ->
         execcmd([k \in DOMAIN c.argv |-> StringAt(cut, c.argv[k][1])])
    [] c.type = "REDIR" ->
         redircmd(Strings(c.cmd, cut), StringAt(cut, c.file[1]), c.mode, c.fd)
    [] c.type = "PIPE" -> pipecmd(Strings(c.left, cut), Strings(c.right, cut))
    [] c.type = "LIST" -> listcmd(Strings(c.left, cut), Strings(c.right, cut))
    [] c.type = "BACK" -> backcmd(Strings(c.cmd, cut))

-----------------------------------------------------------------------------
(***************************************************************************)
(* The reference: the shell's grammar, over the sequence of tokens.        *)
(*   line ::= job | job ";" line          job  ::= pipe | job "&"          *)
(*   pipe ::= cmd | cmd "|" pipe                                           *)
(*   cmd  ::= words and redirections | "(" line ")" redirections           *)
(* Each operator is the set of trees its phrase may denote.                *)
(***************************************************************************)

Starts(s, q) ==
  \/ IsWord(s[q]) /\ (q = 1 \/ ~IsWord(s[q - 1]))
  \/ s[q] \in symbols \ {">"}
  \/ /\ s[q] = ">"
     /\ \E k \in 0 .. q - 1 : /\ k % 2 = 0
                              /\ \A i \in q - k .. q - 1 : s[i] = ">"
                              /\ q - k = 1 \/ s[q - k - 1] # ">"

TokenAt(s, q) ==
  CASE IsWord(s[q]) -> SubSeq(s, q, WordEnd(s, q) - 1)
    [] s[q] = ">" /\ At(s, q + 1) = ">" -> <<">", ">">>
    [] OTHER -> <<s[q]>>

Tokens(s) ==
  LET starts == SetToSortSeq({q \in 1 .. Len(s) : Starts(s, q)}, <)
  IN  [k \in DOMAIN starts |-> TokenAt(s, starts[k])]

IsRedir(t) == t \in {<<"<">>, <<">">>, <<">", ">">>}
RefRedir(t) == RedirOf(IF Len(t) = 2 THEN "+" ELSE t[1])

\* Words and redirections in any order: at most most words, redirections
\* nested around sub, the first one innermost.
RefSimple(ts, most, Sub(_)) ==
  LET ops == {k \in DOMAIN ts : IsRedir(ts[k])}
      files == {k + 1 : k \in ops}
      args == DOMAIN ts \ (ops \cup files)
      words == SetToSortSeq(args, <)
      wrap(c, k) == redircmd(c, ts[k + 1], RefRedir(ts[k]).mode, RefRedir(ts[k]).fd)
  IN  IF /\ files \subseteq DOMAIN ts
         /\ \A k \in files \cup args : IsWord(ts[k][1])
         /\ Len(words) <= most
      THEN {FoldLeft(wrap, Sub([k \in DOMAIN words |-> ts[words[k]]]),
                     SetToSortSeq(ops, <))}
      ELSE {}

Before(ts, k) == SubSeq(ts, 1, k - 1)
After(ts, k) == SubSeq(ts, k + 1, Len(ts))
Where(ts, c) == {k \in DOMAIN ts : ts[k] = <<c>>}

RECURSIVE RefLine(_)
RefCmd(ts) ==
  RefSimple(ts, MAXARGS - 1, execcmd) \cup
  UNION {UNION {RefSimple(After(ts, k), 0, LAMBDA w : sub) :
                  sub \in RefLine(SubSeq(ts, 2, k - 1))} :
           k \in IF ts # <<>> /\ ts[1] = <<"(">> THEN Where(ts, ")") ELSE {}}

RECURSIVE RefPipe(_)
RefPipe(ts) ==
  RefCmd(ts) \cup
  UNION {{pipecmd(l, r) : l \in RefCmd(Before(ts, k)), r \in RefPipe(After(ts, k))} :
           k \in Where(ts, "|")}

RECURSIVE RefJob(_)
RefJob(ts) ==
  RefPipe(ts) \cup
  IF ts # <<>> /\ Last(ts) = <<"&">> THEN {backcmd(c) : c \in RefJob(Front(ts))}
  ELSE {}

RefLine(ts) ==
  RefJob(ts) \cup
  UNION {{listcmd(l, r) : l \in RefJob(Before(ts, k)), r \in RefLine(After(ts, k))} :
           k \in Where(ts, ";")}

\* parsecmd() accepts exactly the lines of the grammar, the grammar is not
\* ambiguous, and the tree, with the strings nulterminate() leaves in the
\* buffer, is the one the grammar gives; no command has so many words that
\* argv[argc] = 0 would lie outside the array.
ParsesGrammar ==
  LET r == Parsecmd(buf)
      ref == RefLine(Tokens(buf))
  IN  IF r.ok THEN ref = {Strings(r.cmd, r.cut)} ELSE ref = {}
=============================================================================
