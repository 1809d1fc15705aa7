--------------------------- MODULE MCCrushConnect ---------------------------
(* Instances of CrushConnect for TLC. *)
EXTENDS CrushConnect, TLC

CONSTANTS a, b, c, d, q1, q2

Symmetry == Permutations(Requests) \cup Permutations({b, d})
\* Every member begins with both questions, answered yes.
Yes == [u \in Members |-> Questions \X {TRUE}]
\* Readers take them for a yes and a yes, or for a yes and a no.
FirstYes == {{<<q1, TRUE>>, <<q2, says>>} : says \in BOOLEAN}
=============================================================================
