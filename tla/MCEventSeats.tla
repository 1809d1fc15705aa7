---------------------------- MODULE MCEventSeats ----------------------------
(* Instances of EventSeats for TLC. *)
EXTENDS EventSeats, TLC

CONSTANTS a, b, c, d   \* members

\* One pool without limits; two pools, of one seat each.
OnePool == [m \in Members |-> "f"]
TwoPools == [m \in Members |-> IF m \in {a, b} THEN "f" ELSE "m"]
NoCaps == [p \in {"f"} |-> 0]
OneEach == [p \in {"f", "m"} |-> 1]

Requests == Permutations(Jobs)
=============================================================================
