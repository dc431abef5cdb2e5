--------------------------- MODULE MCDhcpDiscover ---------------------------
(* One hardware address, and frames of which three are replies.            *)
EXTENDS DhcpDiscover

MCMacs == {<<64, 141, 92, 225, 210, 216>>}
MCStack == {Zeros(10), <<253, 252, 251, 250, 249, 248, 247, 246, 245, 244>>}

Frame(e, p, s, o, y, t) ==
    [etherType |-> e, protocol |-> p, sport |-> s, opcode |-> o, yiaddr |-> y,
     message |-> t]

(* An OFFER, an ACK and a NAK, a client's request, a relayed request, TCP   *)
(* from port 67, ARP, and an OFFER behind the IP option Router Alert        *)
MCFrames ==
    {Frame("IP", "UDP", 67, 2, 1, "OFFER"), Frame("IP", "UDP", 67, 2, 1, "ACK"),
     Frame("IP", "UDP", 67, 2, 0, "NAK"), Frame("IP", "UDP", 68, 1, 0, "REQUEST"),
     Frame("IP", "UDP", 67, 1, 0, "REQUEST"), Frame("IP", "TCP", 67, 2, 1, "none"),
     Frame("ARP", "UDP", 67, 2, 1, "none"), Frame("IP", "UDP", 37892, 0, 1, "OFFER")}
=============================================================================
