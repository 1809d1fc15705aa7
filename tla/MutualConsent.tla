---------------------------- MODULE MutualConsent ----------------------------
(***************************************************************************)
(* What an anonymous "yes" promises: a member says it about another on     *)
(* some occasion, at most Limit times per occasion and never twice about   *)
(* the same person; the pair becomes known exactly when the second of the  *)
(* two says it, and stays known.                                           *)
(***************************************************************************)
EXTENDS Naturals, FiniteSets

CONSTANTS Occasions, People, Limit

VARIABLES said,    \* <<o, a, b>>: on occasion o, a said yes about b
          known    \* <<o, {a, b}>>: the pair has been told of each other

Init == said = {} /\ known = {}

SaidBy(o, a) == {x \in said : x[1] = o /\ x[2] = a}

Say(o, a, b) ==
    /\ a # b
    /\ <<o, a, b>> \notin said
    /\ Cardinality(SaidBy(o, a)) < Limit
    /\ said' = said \cup {<<o, a, b>>}
    /\ known' = IF <<o, b, a>> \in said THEN known \cup {<<o, {a, b}>>} ELSE known

Next == \E o \in Occasions, a, b \in People : Say(o, a, b)

Spec == Init /\ [][Next]_<<said, known>>
=============================================================================
