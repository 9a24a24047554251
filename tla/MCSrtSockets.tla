---------------------------- MODULE MCSrtSockets ----------------------------
(* SrtSockets with two clients, or one that asks again and again: three      *)
(* socket IDs are enough for a restart, or for a client and a second request *)
(* of the same client after the first connection broke.                      *)
EXTENDS SrtSockets

CONSTANTS p1, p2

OneClient  == {p1}
TwoClients == {p1, p2}

=============================================================================
