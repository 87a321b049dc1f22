----------------------------- MODULE MCTerminal -----------------------------
(* Uart and Sh for TLC: a behaviour is one of output to the terminal or one *)
(* of the shell at work, so that the state spaces add up.                   *)
EXTENDS Uart, Sh

VARIABLE part

MCFirst == {
  <<>>, <<NL>>, <<"ls", " ", ")", NL>>, <<"cd", " ", "d", NL>>, <<"exit", NL>>,
  <<"ls", "&", NL>>,
  <<"cat", "|", "yes", "|", "cat", NL>>,
  <<"(", "yes", "|", "cat", ")", ";", "ls", NL>>,
  <<"(", "yes", "|", "cat", "&", ")", ";", "cat", "<", "f", ">", "g", NL>>,
  <<"sh", " ", "s", ">", ">", "f", NL>> }
MCLines == <<MCFirst, {<<"ls", NL>>}>>
MCScript == <<
  [line |-> <<"yes", "|", "cat", NL>>, full |-> TRUE],
  [line |-> <<"ls", NL>>, full |-> TRUE],
  [line |-> <<"cat", NL>>, full |-> FALSE] >>
MCFilters == {<<"cat">>}
MCFloods == {<<"yes">>}

all == <<vars, shVars, part>>

TerminalInit ==
  /\ part \in {"output", "shell"}
  /\ Init
  /\ ShInit(part = "output")

TerminalNext ==
  \/ part = "output" /\ Next /\ UNCHANGED <<shVars, part>>
  \/ part = "shell" /\ ShNext /\ UNCHANGED <<vars, part>>
  \/ part = "shell" /\ UNCHANGED all   \* nobody types

\* Where nothing is written no action of Fairness is enabled, where no machine
\* has booted none of ShFairness.
TerminalSpec == TerminalInit /\ [][TerminalNext]_all /\ Fairness /\ ShFairness
=============================================================================
