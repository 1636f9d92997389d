----------------------------- MODULE MCOutbound -----------------------------
(* Outbound as its run checks it: keys and calls are alike.                *)
EXTENDS Outbound, TLC

Symmetry == Permutations(Keys) \cup Permutations(Sends)
=============================================================================
