--------------------------- MODULE MCPeerDelivery ---------------------------
(* Two peers and a network that loses fewer datagrams than there are keys.  *)
EXTENDS PeerDelivery, Bitwise, TLC

CONSTANTS a, b

TwoPeers == {a, b}
ZERO == <<0, 0>>
MCKeys == {<<0, 0>>, <<1, 0>>}
MCAnswers == 0..1
MCSolve == [k \in MCKeys |-> k[1] ^^ k[2]]

OneBoot == [p \in Peers |-> 1]
=============================================================================
