------------------------------ MODULE Terminal ------------------------------
(***************************************************************************)
(* What the programs expect of the serial line: a terminal that shows      *)
(* every character written to it, once and in order, until the simulation  *)
(* ends; with few of them on their way at any time.                        *)
(***************************************************************************)
EXTENDS Naturals, Sequences

CONSTANTS Character, CAPACITY
VARIABLES pending, shown, times, open      \* times: parity of the characters shown
terminalVars == <<pending, shown, times, open>>

TerminalInit == pending = <<>> /\ shown \in Character /\ times = 0 /\ open = TRUE

(* One step can show a character, take another one and end it all.         *)
Step(show, put, end) ==
  /\ open /\ open' = ~end
  /\ IF show THEN pending # <<>> /\ shown' = Head(pending) /\ times' = 1 - times
     ELSE UNCHANGED <<shown, times>>
  /\ LET rest == IF show THEN Tail(pending) ELSE pending IN
       IF put THEN Len(rest) < CAPACITY /\ \E c \in Character : pending' = Append(rest, c)
       ELSE pending' = rest
Show == \E put, end \in BOOLEAN : Step(TRUE, put, end)

TerminalNext == \E show, put, end \in BOOLEAN : Step(show, put, end)
TerminalSpec == /\ TerminalInit /\ [][TerminalNext]_terminalVars
                /\ WF_terminalVars(Show)
=============================================================================
