---------------------------- MODULE MCWrapperApi ----------------------------
(* WrapperApi as its run checks it: requests, processes and agents are     *)
(* alike, and a configure sends one part of the account anew: an agent, a  *)
(* token or null for it, or the rest.                                      *)
EXTENDS WrapperApi, TLC

OneChange ==
    {b \in AnyBody : b.kind = "configure" =>
        /\ b.agent # None
        /\ b.agent # "kept" => b.sent = "kept" /\ b.conf = "kept"
        /\ b.sent # "kept"  => b.conf = "kept"
        /\ b.agent # "kept" \/ b.sent # "kept" \/ b.conf = "new"}

Symmetry ==
    Permutations(Reqs) \cup Permutations(Procs) \cup Permutations(Agents)
=============================================================================
