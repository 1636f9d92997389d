-------------------------- MODULE MCApprovalMarkers -------------------------
(* Three calls: two of one tool in one session, and one of another tool.   *)
EXTENDS ApprovalMarkers

CONSTANTS c1, c2, c3

ThreeCalls == {c1, c2, c3}
TwoKeys    == [c \in ThreeCalls |-> IF c = c3 THEN "other" ELSE "same"]
OneKey     == [c \in ThreeCalls |-> "same"]
=============================================================================
