----------------------------- MODULE MCVpnTunnel -----------------------------
(* A server that is restarted beside two clients that run on.               *)
EXTENDS VpnTunnel, TLC

CONSTANTS a, b

TwoClients == {a, b}
ClientSymmetry == Permutations(Clients)
ServerRestarts == [n \in Nodes |-> IF n = Server THEN 2 ELSE 1]
TwoAtServer == [n \in Nodes |-> IF n = Server THEN 2 ELSE 1]
=============================================================================
