---------------------------- MODULE MCApprovalGate --------------------------
(* ApprovalGate as it is: its calls are given values by the .cfg files.    *)
EXTENDS ApprovalGate
=============================================================================
