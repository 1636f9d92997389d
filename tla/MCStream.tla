------------------------------ MODULE MCStream ------------------------------
(* Stream with the faults that each of its runs enables.                   *)
EXTENDS Stream

ServerFaults == {"joinError", "mute"}
=============================================================================
