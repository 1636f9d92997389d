------------------------------- MODULE MCTurn -------------------------------
(* Two turns of one session.                                               *)
EXTENDS Turn

CONSTANTS t1, t2

TwoTurns    == {t1, t2}
SameSession == [t \in TwoTurns |-> "s1"]
=============================================================================
