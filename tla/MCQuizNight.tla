----------------------------- MODULE MCQuizNight -----------------------------
(* Instances of QuizNight for TLC. *)
EXTENDS QuizNight, TLC

Requests == Permutations(Clerks)
=============================================================================
