------------------------- MODULE MCWebsocketClient --------------------------
(* Two calls and one subscription, listened to twice.                      *)
EXTENDS WebsocketClient, TLC

CONSTANTS c1, c2, sub

MCCalls == {c1, c2}

(* The calls differ in nothing but their id.                               *)
MCSymmetry == Permutations(MCCalls)

=============================================================================
