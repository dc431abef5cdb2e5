------------------------------ MODULE VpnTunnel ------------------------------
(***************************************************************************)
(* The packet path of a VPN: the main loop of src/vpnServer.cpp, which     *)
(* src/vpnDev.cpp shares, as a server (built without AS_CLIENT) and as its *)
(* clients (built with it).  Each copies packets between its tun0 and one  *)
(* UDP socket.                                                             *)
(*                                                                         *)
(* client_addr, here addr, is where a process sends to.  A client starts   *)
(* with the server's address, the server with its own BIND_HOST 0.0.0.0,   *)
(* which is itself.  recvfrom() overwrites it with the sender of every     *)
(* datagram.                                                               *)
(*                                                                         *)
(* The server is bound to PORT.  A client gets a port of its own each time *)
(* it is started: an address is a process and one of its lives, and those  *)
(* of the server all have the same address.  A packet is known by the      *)
(* machine whose tun0 it came from, which is that of the datagram's sender. *)
(***************************************************************************)
EXTENDS Naturals, Sequences

CONSTANTS
    Server,
    Clients,
    MaxWaiting,     \* bound: how many packets wait in a tun0
    MaxLives,       \* bound: how often each process is started, a function
    MaxQueue        \* how many datagrams each socket holds, a function

Nodes == Clients \cup {Server}

ASSUME ServerAssumption == Server \notin Clients
ASSUME QueueAssumption == MaxQueue \in [Nodes -> Nat]

VARIABLES
    pc,         \* where the loop is: what it still reads in this iteration
    addr,       \* client_addr
    life,       \* how often the process has been started
    tun,        \* how many packets wait in tun0
    inbox,      \* the datagrams waiting in the socket
    net,        \* the datagrams sent to other machines
    written     \* history: whose packets were written to which tun0

vars == <<pc, addr, life, tun, inbox, net, written>>

-----------------------------------------------------------------------------
Address(n) == [node |-> n, life |-> IF n = Server THEN 0 ELSE life[n]]
ServerAddress == [node |-> Server, life |-> 0]

AddressSet == {ServerAddress} \cup [node : Clients, life : Nat]
DatagramSet == [from : AddressSet, to : AddressSet]

(* passed counts the packets the receiver has sent while the datagram      *)
(* waited.                                                                 *)
Waiting == [from : AddressSet, passed : Nat]

Running(n) == pc[n] # "off"
EchoQueued == \E i \in DOMAIN inbox[Server] : inbox[Server][i].from = ServerAddress

TypeOK ==
    /\ pc \in [Nodes -> {"off", "select", "tun", "both", "udp"}]
    /\ addr \in [Nodes -> AddressSet]
    /\ life \in [Nodes -> Nat]
    /\ tun \in [Nodes -> Nat]
    /\ inbox \in [Nodes -> Seq(Waiting)]
    /\ net \subseteq DatagramSet
    /\ written \subseteq [at : Nodes, from : Nodes]
    /\ \A n \in Nodes : pc[n] \in {"tun", "both"} => tun[n] # 0
    /\ \A n \in Nodes : pc[n] \in {"both", "udp"} => inbox[n] # <<>>

Init ==
    /\ pc = [n \in Nodes |-> "off"]
    /\ addr = [n \in Nodes |-> ServerAddress]
    /\ life = [n \in Nodes |-> 0]
    /\ tun = [n \in Nodes |-> 0]
    /\ inbox = [n \in Nodes |-> <<>>]
    /\ net = {}
    /\ written = {}

-----------------------------------------------------------------------------
(* Mutant: a client takes BIND_HOST for SERVER_HOST.                       *)
StartUnconfigured(n) ==
    /\ pc[n] = "off"
    /\ life[n] < MaxLives[n]
    /\ life' = [life EXCEPT ![n] = @ + 1]
    /\ addr' = [addr EXCEPT ![n] = Address(n)']
    /\ pc' = [pc EXCEPT ![n] = "select"]
    /\ UNCHANGED <<tun, inbox, net, written>>

(* main() up to the loop, when nothing fails.  udp_bind() gives both kinds *)
(* the server's address to send to, which addr is of those that are off.   *)
Start(n) ==
    /\ pc[n] = "off"
    /\ life[n] < MaxLives[n]
    /\ life' = [life EXCEPT ![n] = @ + 1]
    /\ pc' = [pc EXCEPT ![n] = "select"]
    /\ UNCHANGED <<addr, tun, inbox, net, written>>

(* The machine sends a packet into tun0.                                   *)
Arrive(n) ==
    /\ Running(n)
    /\ tun[n] < MaxWaiting
    /\ tun' = [tun EXCEPT ![n] = @ + 1]
    /\ UNCHANGED <<pc, addr, life, inbox, net, written>>

(* Mutant: FD_ISSET(udp_fd, &readset) is not tested.                       *)
SelectBoth(n) ==
    /\ pc[n] = "select"
    /\ tun[n] # 0 \/ inbox[n] # <<>>
    /\ pc' = [pc EXCEPT ![n] = IF tun[n] = 0 THEN "udp" ELSE "both"]
    /\ UNCHANGED <<addr, life, tun, inbox, net, written>>

(* Mutant: client_addr is initialised in the loop.                         *)
SelectForgets(n) ==
    /\ pc[n] = "select"
    /\ tun[n] # 0 \/ inbox[n] # <<>>
    /\ pc' = [pc EXCEPT ![n] = IF tun[n] = 0 THEN "udp"
                               ELSE IF inbox[n] = <<>> THEN "tun" ELSE "both"]
    /\ addr' = [addr EXCEPT ![n] = ServerAddress]
    /\ UNCHANGED <<life, tun, inbox, net, written>>

Select(n) ==
    /\ pc[n] = "select"
    /\ tun[n] # 0 \/ inbox[n] # <<>>
    /\ pc' = [pc EXCEPT ![n] = IF tun[n] = 0 THEN "udp"
                               ELSE IF inbox[n] = <<>> THEN "tun" ELSE "both"]
    /\ UNCHANGED <<addr, life, tun, inbox, net, written>>

(* n sends a packet to client_addr: what waits in its inbox is passed over *)
(* once more, and what it sends to itself is queued there at once.         *)
Passed(n) ==
    [i \in DOMAIN inbox[n] |-> [inbox[n][i] EXCEPT !.passed = @ + 1]]

HasRoom(n) == Len(inbox[n]) < MaxQueue[n]
Queued(address) == [from |-> address, passed |-> 0]

SendTo(n) ==
    \/ /\ addr[n].node # n
       /\ net' = net \cup {[from |-> Address(n), to |-> addr[n]]}
       /\ inbox' = [inbox EXCEPT ![n] = Passed(n)]
    \/ /\ addr[n].node = n
       /\ inbox' = [inbox EXCEPT ![n] =
            IF HasRoom(n) THEN Append(Passed(n), Queued(Address(n))) ELSE Passed(n)]
       /\ UNCHANGED net

(* Mutant: the loop continues after a packet from tun0.                    *)
ReadTunContinues(n) ==
    /\ pc[n] \in {"tun", "both"}
    /\ tun' = [tun EXCEPT ![n] = @ - 1]
    /\ SendTo(n)
    /\ pc' = [pc EXCEPT ![n] = "select"]
    /\ UNCHANGED <<addr, life, written>>

ReadTun(n) ==
    /\ pc[n] \in {"tun", "both"}
    /\ tun' = [tun EXCEPT ![n] = @ - 1]
    /\ SendTo(n)
    /\ pc' = [pc EXCEPT ![n] = IF pc[n] = "both" THEN "udp" ELSE "select"]
    /\ UNCHANGED <<addr, life, written>>

ReadUdp(n) ==
    /\ pc[n] = "udp"
    /\ addr' = [addr EXCEPT ![n] = Head(inbox[n]).from]
    /\ written' = written \cup {[at |-> n, from |-> Head(inbox[n]).from.node]}
    /\ inbox' = [inbox EXCEPT ![n] = Tail(@)]
    /\ pc' = [pc EXCEPT ![n] = "select"]
    /\ UNCHANGED <<life, tun, net>>

(* An error in select(), read(), sendto(), recvfrom() or write(), or a     *)
(* signal: the process ends, its tun0 and its socket with it.              *)
End(n) ==
    /\ Running(n)
    /\ pc' = [pc EXCEPT ![n] = "off"]
    /\ addr' = [addr EXCEPT ![n] = ServerAddress]
    /\ tun' = [tun EXCEPT ![n] = 0]
    /\ inbox' = [inbox EXCEPT ![n] = <<>>]
    /\ UNCHANGED <<life, net, written>>

(* The network delivers a datagram late, repeatedly, out of order, or      *)
(* never; not to a port that nobody has bound or no longer has.            *)
Deliver(d) ==
    LET n == d.to.node
    IN  /\ Running(n)
        /\ d.to = Address(n)
        /\ HasRoom(n)
        /\ inbox' = [inbox EXCEPT ![n] = Append(@, Queued(d.from))]
        /\ UNCHANGED <<pc, addr, life, tun, net, written>>

Loop(n) == Select(n) \/ ReadTun(n) \/ ReadUdp(n)

Next ==
    \/ \E n \in Nodes : Start(n) \/ Arrive(n) \/ Loop(n) \/ End(n)
    \/ \E d \in net : Deliver(d)

Spec == Init /\ [][Next]_vars

-----------------------------------------------------------------------------
(* A packet of a client comes out at the server and nowhere else, however  *)
(* often client_addr changes; one of the server comes out at a client only *)
(* after a packet of that client has come out at the server.               *)
RightEnds ==
    \A w \in written :
        /\ w.from # Server => w.at = Server
        /\ w.from = Server /\ w.at # Server
             => [at |-> Server, from |-> w.at] \in written

(* When the server sends to a client and none of its own packets is in its *)
(* queue, it will not send to itself again before it is restarted.  (With  *)
(* one in the queue it will: the echo takes the client's place.)           *)
Learned == addr[Server] # ServerAddress /\ ~EchoQueued
StaysLearned == [][Learned => Learned' \/ ~Running(Server)']_vars

(* Neither direction starves the other, and client_addr is not stale for   *)
(* long: between two packets that a process sends it reads a datagram if   *)
(* one waits, so that none is passed over more often than its socket holds *)
(* datagrams, and once more.                                               *)
BoundedBypass ==
    \A n \in Nodes : \A i \in DOMAIN inbox[n] :
        inbox[n][i].passed + i <= MaxQueue[n] + (IF pc[n] = "udp" THEN 2 ELSE 1)
=============================================================================
