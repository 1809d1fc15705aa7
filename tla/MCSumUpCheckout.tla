--------------------------- MODULE MCSumUpCheckout ---------------------------
(* Instances of SumUpCheckout for TLC. *)
EXTENDS SumUpCheckout, TLC

\* Jobs that may do the same things are interchangeable, and so are the
\* identifiers SumUp gives out.
Symmetry == Permutations(Checkouts) \cup Permutations(Jobs)
=============================================================================
