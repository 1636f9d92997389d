----------------------------- MODULE MCApprovals -----------------------------
(* Approvals as its run checks it: the calls are alike.                    *)
EXTENDS Approvals, TLC

Symmetry == Permutations(Calls)
=============================================================================
