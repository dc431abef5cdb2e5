--------------------------- MODULE MCPeerHandshake ---------------------------
(* Small instances of PeerHandshake: the bytes of a key come from a small   *)
(* set, and the solution is their exclusive or, as in client.cpp.           *)
EXTENDS PeerHandshake, Bitwise, TLC

CONSTANTS a, b

TwoPeers == {a, b}

ZERO == <<0, 0>>

(* <<0, 1>> and <<1, 0>> are different keys with the same answer.           *)
MCKeys == {<<0, 0>>, <<0, 1>>, <<1, 0>>}
MCAnswers == 0..1
MCSolve == [k \in MCKeys |-> k[1] ^^ k[2]]

PeerSymmetry == Permutations(Peers)

TwoBoots == [p \in Peers |-> 2]
=============================================================================
