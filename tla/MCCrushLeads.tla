---------------------------- MODULE MCCrushLeads ----------------------------
(* Instances of CrushLeads for TLC. *)
EXTENDS CrushLeads, TLC

CONSTANTS k1, k2

OneMember == <<"ann", "ann">>
TwoMembers == <<"ann", "bea">>
Symmetry == Permutations(Requests) \cup Permutations({k1, k2})
=============================================================================
