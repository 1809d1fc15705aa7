---------------------------- MODULE MCEventLobby ----------------------------
(* An instance of EventLobby for TLC. *)
EXTENDS EventLobby, TLC

CONSTANT e1   \* an event

TwoInside == {<<e1, 1>>, <<e1, 2>>}
OldFriends == {<<1, 2>>}
Taps == {<<1, 2>>, <<2, 1>>, <<1, 3>>}

Requests == Permutations(Workers)
=============================================================================
