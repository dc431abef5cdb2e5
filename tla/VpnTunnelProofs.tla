---------------------------- MODULE VpnTunnelProofs ----------------------------
(***************************************************************************)
(* Proofs about VpnTunnel, for any number of clients, restarts, waiting    *)
(* packets and datagrams, and sockets of any size.  Origins says where     *)
(* every datagram comes from and goes to; Bounded makes BoundedBypass      *)
(* inductive.                                                              *)
(***************************************************************************)
EXTENDS VpnTunnel, SequenceTheorems, TLAPS

(* A packet of c has come out at the server.                               *)
Known(c) == [at |-> Server, from |-> c] \in written

Between(d) ==
    \/ d.from.node \in Clients /\ d.to = ServerAddress
    \/ d.from = ServerAddress /\ d.to.node \in Clients /\ Known(d.to.node)

Origins ==
    /\ \A c \in Clients : addr[c] = ServerAddress
    /\ addr[Server] # ServerAddress => Known(addr[Server].node)
    /\ \A d \in net : Between(d)
    /\ \A c \in Clients : \A i \in DOMAIN inbox[c] :
            inbox[c][i].from = ServerAddress /\ Known(c)

Bounded ==
    \A n \in Nodes :
        /\ Len(inbox[n]) <= MaxQueue[n]
        /\ pc[n] = "tun" => \A i \in DOMAIN inbox[n] : inbox[n][i].passed = 0

-----------------------------------------------------------------------------
(* What the steps that change an inbox do to it *)

LEMMA AddressTypes ==
  /\ ServerAddress \in AddressSet /\ ServerAddress.node = Server
  /\ \A x \in AddressSet : x.node \in Nodes /\ (x.node = Server <=> x = ServerAddress)
  BY ServerAssumption DEF AddressSet, ServerAddress, Nodes

LEMMA QueuedFields ==
  ASSUME NEW x
  PROVE  Queued(x).from = x /\ Queued(x).passed = 0
  BY DEF Queued

LEMMA OwnAddress ==
  ASSUME TypeOK, NEW n \in Nodes
  PROVE  Address(n) \in AddressSet /\ Address(n).node = n
  BY DEF TypeOK, Address, AddressSet, ServerAddress, Nodes

LEMMA PassedProperties ==
  ASSUME TypeOK, NEW n \in Nodes
  PROVE  /\ Passed(n) \in Seq(Waiting)
         /\ Len(Passed(n)) = Len(inbox[n])
         /\ \A i \in DOMAIN inbox[n] :
                /\ Passed(n)[i].from = inbox[n][i].from
                /\ Passed(n)[i].passed = inbox[n][i].passed + 1
<1>1. inbox[n] \in Seq(Waiting)
  BY DEF TypeOK
<1>2. DOMAIN inbox[n] = 1..Len(inbox[n]) /\ Len(inbox[n]) \in Nat
  BY <1>1
<1>3. \A i \in DOMAIN inbox[n] : inbox[n][i] \in Waiting
  BY <1>1
<1>4. \A w \in Waiting :
        /\ [w EXCEPT !.passed = @ + 1] \in Waiting
        /\ [w EXCEPT !.passed = @ + 1].from = w.from
        /\ [w EXCEPT !.passed = @ + 1].passed = w.passed + 1
  BY DEF Waiting
<1>5. /\ DOMAIN Passed(n) = 1..Len(inbox[n])
      /\ \A i \in DOMAIN inbox[n] : Passed(n)[i] = [inbox[n][i] EXCEPT !.passed = @ + 1]
  BY <1>2 DEF Passed
<1>6. \A i \in 1..Len(inbox[n]) : Passed(n)[i] \in Waiting
  BY <1>2, <1>3, <1>4, <1>5
<1>7. Passed(n) = [i \in 1..Len(inbox[n]) |-> Passed(n)[i]]
  BY <1>2 DEF Passed
<1>8. Passed(n) \in Seq(Waiting) /\ Len(Passed(n)) = Len(inbox[n])
  BY <1>2, <1>6, <1>7, IsASeq
<1>9. QED
  BY <1>3, <1>4, <1>5, <1>8

(* After a packet was sent, the inbox holds what it held, passed over once *)
(* more, and perhaps the packet itself at its end.                         *)
LEMMA AfterSend ==
  ASSUME TypeOK, NEW n \in Nodes, SendTo(n)
  PROVE  /\ inbox' \in [Nodes -> Seq(Waiting)]
         /\ \A m \in Nodes \ {n} : inbox'[m] = inbox[m]
         /\ Len(inbox'[n]) >= Len(inbox[n])
         /\ Len(inbox'[n]) > Len(inbox[n]) =>
                addr[n].node = n /\ Len(inbox'[n]) <= MaxQueue[n]
         /\ \A i \in DOMAIN inbox'[n] :
                \/ /\ i \in DOMAIN inbox[n]
                   /\ inbox'[n][i].from = inbox[n][i].from
                   /\ inbox'[n][i].passed = inbox[n][i].passed + 1
                \/ /\ i = Len(inbox[n]) + 1
                   /\ inbox'[n][i] = Queued(Address(n))
                   /\ addr[n].node = n
<1> DEFINE longer == Append(Passed(n), Queued(Address(n)))
<1>1. inbox \in [Nodes -> Seq(Waiting)] /\ Len(inbox[n]) \in Nat
  BY DEF TypeOK
<1>2. Queued(Address(n)) \in Waiting
  BY OwnAddress DEF Queued, Waiting
<1>3. /\ Passed(n) \in Seq(Waiting)
      /\ Len(Passed(n)) = Len(inbox[n])
      /\ DOMAIN Passed(n) = DOMAIN inbox[n]
      /\ \A i \in DOMAIN inbox[n] :
             /\ Passed(n)[i].from = inbox[n][i].from
             /\ Passed(n)[i].passed = inbox[n][i].passed + 1
  BY <1>1, PassedProperties
<1>4. /\ longer \in Seq(Waiting)
      /\ Len(longer) = Len(inbox[n]) + 1
      /\ longer[Len(inbox[n]) + 1] = Queued(Address(n))
      /\ \A i \in DOMAIN inbox[n] : longer[i] = Passed(n)[i]
  BY <1>1, <1>2, <1>3, AppendProperties
<1>5. DOMAIN longer = DOMAIN inbox[n] \cup {Len(inbox[n]) + 1}
  BY <1>1, <1>4
<1>6. CASE inbox' = [inbox EXCEPT ![n] = Passed(n)]
  BY <1>1, <1>3, <1>6
<1>7. CASE /\ addr[n].node = n
           /\ HasRoom(n)
           /\ inbox' = [inbox EXCEPT ![n] = longer]
  <2>1. inbox'[n] = longer /\ inbox' \in [Nodes -> Seq(Waiting)]
    BY <1>1, <1>4, <1>7
  <2>2. Len(inbox[n]) + 1 <= MaxQueue[n]
    <3>1. Len(inbox[n]) < MaxQueue[n]
      BY <1>7 DEF HasRoom
    <3>2. MaxQueue[n] \in Nat
      BY QueueAssumption
    <3> HIDE DEF longer
    <3>3. QED
      BY <1>1, <3>1, <3>2
  <2>3. QED
    BY <1>1, <1>3, <1>4, <1>5, <1>7, <2>1, <2>2
<1>8. QED
  BY <1>6, <1>7 DEF SendTo

LEMMA AfterReadUdp ==
  ASSUME TypeOK, NEW n \in Nodes, ReadUdp(n)
  PROVE  /\ inbox[n] # <<>> /\ 1 \in DOMAIN inbox[n]
         /\ Head(inbox[n]) = inbox[n][1] /\ Head(inbox[n]) \in Waiting
         /\ inbox' \in [Nodes -> Seq(Waiting)]
         /\ \A m \in Nodes \ {n} : inbox'[m] = inbox[m]
         /\ Len(inbox'[n]) = Len(inbox[n]) - 1
         /\ \A i \in DOMAIN inbox'[n] :
                i + 1 \in DOMAIN inbox[n] /\ inbox'[n][i] = inbox[n][i + 1]
<1>1. inbox \in [Nodes -> Seq(Waiting)] /\ inbox[n] \in Seq(Waiting) /\ inbox[n] # <<>>
  BY DEF TypeOK, ReadUdp
<1>2. /\ Head(inbox[n]) = inbox[n][1] /\ Head(inbox[n]) \in Waiting
      /\ Tail(inbox[n]) \in Seq(Waiting)
      /\ Len(Tail(inbox[n])) = Len(inbox[n]) - 1
      /\ \A i \in 1..Len(Tail(inbox[n])) : Tail(inbox[n])[i] = inbox[n][i + 1]
  BY <1>1, HeadTailProperties
<1>3. inbox' = [inbox EXCEPT ![n] = Tail(inbox[n])]
  BY DEF ReadUdp
<1>4. inbox'[n] = Tail(inbox[n])
  BY <1>1, <1>3
<1>5. /\ DOMAIN inbox[n] = 1..Len(inbox[n]) /\ Len(inbox[n]) \in Nat \ {0}
      /\ DOMAIN Tail(inbox[n]) = 1..(Len(inbox[n]) - 1)
  BY <1>1, <1>2
<1>6. QED
  BY <1>1, <1>2, <1>3, <1>4, <1>5

LEMMA AfterDelivery ==
  ASSUME TypeOK, NEW d \in net, Deliver(d)
  PROVE  /\ d \in DatagramSet /\ d.to.node \in Nodes
         /\ inbox' \in [Nodes -> Seq(Waiting)]
         /\ \A m \in Nodes \ {d.to.node} : inbox'[m] = inbox[m]
         /\ Len(inbox'[d.to.node]) = Len(inbox[d.to.node]) + 1
         /\ Len(inbox'[d.to.node]) <= MaxQueue[d.to.node]
         /\ \A i \in DOMAIN inbox'[d.to.node] :
                \/ /\ i \in DOMAIN inbox[d.to.node]
                   /\ inbox'[d.to.node][i] = inbox[d.to.node][i]
                \/ /\ i = Len(inbox[d.to.node]) + 1
                   /\ inbox'[d.to.node][i] = Queued(d.from)
<1> DEFINE n == d.to.node
           longer == Append(inbox[n], Queued(d.from))
<1>1. d \in DatagramSet /\ d.from \in AddressSet /\ n \in Nodes
  BY AddressTypes DEF TypeOK, DatagramSet
<1>2. inbox \in [Nodes -> Seq(Waiting)] /\ inbox[n] \in Seq(Waiting)
  BY <1>1 DEF TypeOK
<1>3. Queued(d.from) \in Waiting
  BY <1>1 DEF Queued, Waiting
<1>4. /\ longer \in Seq(Waiting)
      /\ Len(longer) = Len(inbox[n]) + 1
      /\ longer[Len(inbox[n]) + 1] = Queued(d.from)
      /\ \A i \in 1..Len(inbox[n]) : longer[i] = inbox[n][i]
  BY <1>2, <1>3, AppendProperties
<1>5. inbox' = [inbox EXCEPT ![n] = longer] /\ HasRoom(n)
  BY DEF Deliver
<1>6. inbox'[n] = longer /\ inbox' \in [Nodes -> Seq(Waiting)]
  BY <1>1, <1>2, <1>4, <1>5
<1>7. /\ Len(inbox[n]) \in Nat /\ DOMAIN inbox[n] = 1..Len(inbox[n])
      /\ DOMAIN longer = 1..(Len(inbox[n]) + 1)
  BY <1>2, <1>4
<1>8. Len(inbox[n]) + 1 <= MaxQueue[n]
  BY <1>1, <1>5, <1>7, QueueAssumption DEF HasRoom
<1>9. \A m \in Nodes \ {n} : inbox'[m] = inbox[m]
  BY <1>2, <1>5
<1> HIDE DEF longer
<1>10. QED
  BY <1>1, <1>4, <1>6, <1>7, <1>8, <1>9

-----------------------------------------------------------------------------
(* Type correctness *)

LEMMA TypeInit == Init => TypeOK
<1> SUFFICES ASSUME Init PROVE TypeOK
  OBVIOUS
<1>1. [n \in Nodes |-> ServerAddress] \in [Nodes -> AddressSet]
  BY AddressTypes
<1>2. [n \in Nodes |-> <<>>] \in [Nodes -> Seq(Waiting)]
  OBVIOUS
<1>3. QED
  BY <1>1, <1>2 DEF Init, TypeOK

LEMMA TypeStep == TypeOK /\ [Next]_vars => TypeOK'
<1> SUFFICES ASSUME TypeOK, [Next]_vars PROVE TypeOK'
  OBVIOUS
<1>u. CASE UNCHANGED vars
  BY <1>u DEF TypeOK, vars
<1>1. ASSUME NEW n \in Nodes, Start(n) PROVE TypeOK'
  BY <1>1 DEF TypeOK, Start
<1>2. ASSUME NEW n \in Nodes, Arrive(n) PROVE TypeOK'
  BY <1>2 DEF TypeOK, Arrive
<1>3. ASSUME NEW n \in Nodes, Select(n) PROVE TypeOK'
  BY <1>3 DEF TypeOK, Select
<1>4. ASSUME NEW n \in Nodes, ReadTun(n) PROVE TypeOK'
  <2>1. SendTo(n) /\ UNCHANGED <<addr, life, written>>
    BY <1>4 DEF ReadTun
  <2>2. inbox' \in [Nodes -> Seq(Waiting)]
    BY <2>1, AfterSend
  <2>3. net' \subseteq DatagramSet
    BY <2>1, OwnAddress DEF SendTo, TypeOK, DatagramSet
  <2>4. tun' \in [Nodes -> Nat] /\ pc' \in [Nodes -> {"off", "select", "tun", "both", "udp"}]
    BY <1>4 DEF ReadTun, TypeOK
  <2>5. ASSUME NEW m \in Nodes PROVE pc'[m] \in {"tun", "both"} => tun'[m] # 0
    BY <1>4 DEF ReadTun, TypeOK
  <2>6. ASSUME NEW m \in Nodes, pc'[m] \in {"both", "udp"} PROVE inbox'[m] # <<>>
    <3>1. pc[m] \in {"both", "udp"} /\ inbox[m] # <<>>
      BY <1>4, <2>6 DEF ReadTun, TypeOK
    <3>2. Len(inbox'[m]) >= Len(inbox[m])
      <4>1. CASE m = n
        BY <2>1, <4>1, AfterSend
      <4>2. CASE m # n
        <5>1. inbox'[m] = inbox[m] /\ inbox[m] \in Seq(Waiting)
          BY <2>1, <4>2, AfterSend DEF TypeOK
        <5>2. QED
          BY <5>1
      <4>3. QED
        BY <4>1, <4>2
    <3>3. inbox[m] \in Seq(Waiting)
      BY DEF TypeOK
    <3>4. QED
      BY <3>1, <3>2, <3>3, EmptySeq
  <2>7. QED
    BY <2>1, <2>2, <2>3, <2>4, <2>5, <2>6 DEF TypeOK
<1>5. ASSUME NEW n \in Nodes, ReadUdp(n) PROVE TypeOK'
  <2>1. Head(inbox[n]).from \in AddressSet
    BY <1>5, AfterReadUdp DEF Waiting
  <2>2. addr' \in [Nodes -> AddressSet] /\ written' \subseteq [at : Nodes, from : Nodes]
    BY <1>5, <2>1, AddressTypes DEF ReadUdp, TypeOK
  <2>3. inbox' \in [Nodes -> Seq(Waiting)] /\ \A m \in Nodes \ {n} : inbox'[m] = inbox[m]
    BY <1>5, AfterReadUdp
  <2>4. pc' \in [Nodes -> {"off", "select", "tun", "both", "udp"}]
    BY <1>5 DEF ReadUdp, TypeOK
  <2>5. ASSUME NEW m \in Nodes PROVE /\ pc'[m] \in {"tun", "both"} => tun'[m] # 0
                                     /\ pc'[m] \in {"both", "udp"} => inbox'[m] # <<>>
    BY <1>5, <2>3 DEF ReadUdp, TypeOK
  <2>6. UNCHANGED <<life, tun, net>>
    BY <1>5 DEF ReadUdp
  <2>7. QED
    BY <2>2, <2>3, <2>4, <2>5, <2>6 DEF TypeOK
<1>6. ASSUME NEW n \in Nodes, End(n) PROVE TypeOK'
  <2>1. addr' \in [Nodes -> AddressSet]
    BY <1>6, AddressTypes DEF End, TypeOK
  <2>2. inbox' \in [Nodes -> Seq(Waiting)]
    BY <1>6 DEF End, TypeOK
  <2>3. QED
    BY <1>6, <2>1, <2>2 DEF End, TypeOK
<1>7. ASSUME NEW d \in net, Deliver(d) PROVE TypeOK'
  <2>1. inbox' \in [Nodes -> Seq(Waiting)] /\ UNCHANGED <<pc, addr, life, tun, net, written>>
    BY <1>7, AfterDelivery DEF Deliver
  <2>2. ASSUME NEW m \in Nodes, inbox[m] # <<>> PROVE inbox'[m] # <<>>
    <3>1. /\ \A k \in Nodes \ {d.to.node} : inbox'[k] = inbox[k]
          /\ Len(inbox'[d.to.node]) = Len(inbox[d.to.node]) + 1
      BY <1>7, AfterDelivery
    <3>2. CASE m = d.to.node
      <4>1. Len(inbox[m]) \in Nat
        BY DEF TypeOK
      <4>2. Len(inbox'[m]) # 0
        BY <3>1, <3>2, <4>1
      <4>3. QED
        BY <4>2
    <3>3. QED
      BY <2>2, <3>1, <3>2
  <2>3. QED
    BY <2>1, <2>2 DEF TypeOK
<1>8. QED
  BY <1>u, <1>1, <1>2, <1>3, <1>4, <1>5, <1>6, <1>7 DEF Next, Loop

(* Every variable keeps its type, and the loop never reads a descriptor    *)
(* that select() did not report.                                           *)
THEOREM TypeCorrect == Spec => []TypeOK
  BY TypeInit, TypeStep, PTL DEF Spec

-----------------------------------------------------------------------------
(* Where packets come out *)

LEMMA OriginsInit == Init => Origins
  BY DEF Init, Origins, Nodes

LEMMA OriginsStep == TypeOK /\ Origins /\ [Next]_vars => Origins'
<1> SUFFICES ASSUME TypeOK, Origins, [Next]_vars PROVE Origins'
  OBVIOUS
<1>a. Server \in Nodes /\ (\A c \in Clients : c \in Nodes /\ c # Server)
  BY ServerAssumption DEF Nodes
<1>u. CASE UNCHANGED vars
  BY <1>u DEF Origins, Between, Known, vars
<1>1. ASSUME NEW n \in Nodes, Start(n) PROVE Origins'
  BY <1>1 DEF Origins, Between, Known, Start
<1>2. ASSUME NEW n \in Nodes, Arrive(n) PROVE Origins'
  BY <1>2 DEF Origins, Between, Known, Arrive
<1>3. ASSUME NEW n \in Nodes, Select(n) PROVE Origins'
  BY <1>3 DEF Origins, Between, Known, Select
<1>4. ASSUME NEW n \in Nodes, ReadTun(n) PROVE Origins'
  <2>1. SendTo(n) /\ UNCHANGED <<addr, written>>
    BY <1>4 DEF ReadTun
  <2>2. ASSUME NEW d \in net', d \notin net PROVE Between(d)
    <3>1. d = [from |-> Address(n), to |-> addr[n]] /\ addr[n].node # n
      BY <2>1, <2>2 DEF SendTo
    <3>2. CASE n \in Clients
      BY <3>1, <3>2, OwnAddress DEF Origins, Between
    <3>3. CASE n = Server
      <4>1. addr[n] \in AddressSet /\ addr[n] # ServerAddress
        BY <3>1, <3>3, AddressTypes DEF TypeOK
      <4>2. addr[n].node \in Clients
        BY <4>1 DEF AddressSet
      <4>3. d.from = ServerAddress
        BY <3>1, <3>3 DEF Address, ServerAddress
      <4>4. QED
        BY <3>1, <3>3, <4>1, <4>2, <4>3 DEF Origins, Between
    <3>4. QED
      BY <3>2, <3>3 DEF Nodes
  <2>3. \A d \in net' : Between(d)'
    BY <2>1, <2>2 DEF Origins, Between, Known
  <2>4. ASSUME NEW c \in Clients, NEW i \in DOMAIN inbox'[c]
        PROVE  i \in DOMAIN inbox[c] /\ inbox'[c][i].from = inbox[c][i].from
    <3>1. CASE c = n
      <4>1. addr[n].node # n
        BY <1>a, <3>1, AddressTypes DEF Origins
      <4>2. QED
        BY <2>1, <3>1, <4>1, AfterSend
    <3>2. CASE c # n
      BY <1>a, <2>1, <3>2, AfterSend
    <3>3. QED
      BY <3>1, <3>2
  <2>5. \A c \in Clients : \A i \in DOMAIN inbox'[c] :
            inbox'[c][i].from = ServerAddress /\ Known(c)'
    BY <2>1, <2>4 DEF Origins, Known
  <2>6. QED
    BY <2>1, <2>3, <2>5 DEF Origins, Known
<1>5. ASSUME NEW n \in Nodes, ReadUdp(n) PROVE Origins'
  <2> DEFINE from == Head(inbox[n]).from
  <2>1. /\ addr' = [addr EXCEPT ![n] = from] /\ net' = net
        /\ written' = written \cup {[at |-> n, from |-> from.node]}
    BY <1>5 DEF ReadUdp
  <2>2. addr'[n] = from /\ \A m \in Nodes \ {n} : addr'[m] = addr[m]
    BY <2>1 DEF TypeOK
  <2>3. \A c : Known(c) => Known(c)'
    BY <2>1 DEF Known
  <2>4. n \in Clients => from = ServerAddress
    BY <1>5, AfterReadUdp DEF Origins
  <2>5. n = Server => [at |-> Server, from |-> from.node] \in written'
    BY <2>1
  <2> HIDE DEF from
  <2>6. \A c \in Clients : addr'[c] = ServerAddress
    BY <1>a, <2>2, <2>4 DEF Origins
  <2>7. addr'[Server] # ServerAddress
          => [at |-> Server, from |-> addr'[Server].node] \in written'
    <3>1. CASE n = Server
      BY <2>2, <2>5, <3>1
    <3>2. CASE n # Server
      BY <1>a, <2>2, <2>3, <3>2 DEF Origins, Known
    <3>3. QED
      BY <3>1, <3>2
  <2>8. \A d \in net' : Between(d)'
    BY <2>1, <2>3 DEF Origins, Between
  <2>9. ASSUME NEW c \in Clients, NEW i \in DOMAIN inbox'[c]
        PROVE  inbox'[c][i].from = ServerAddress /\ Known(c)'
    <3>1. CASE c = n
      BY <1>5, <2>3, <3>1, AfterReadUdp DEF Origins
    <3>2. CASE c # n
      BY <1>5, <1>a, <2>3, <3>2, AfterReadUdp DEF Origins
    <3>3. QED
      BY <3>1, <3>2
  <2>10. QED
    BY <2>6, <2>7, <2>8, <2>9 DEF Origins, Known
<1>6. ASSUME NEW n \in Nodes, End(n) PROVE Origins'
  <2>1. \A m \in Nodes : addr'[m] = addr[m] \/ addr'[m] = ServerAddress
    BY <1>6 DEF End, TypeOK
  <2>2. \A m \in Nodes : inbox'[m] = inbox[m] \/ inbox'[m] = <<>>
    BY <1>6 DEF End, TypeOK
  <2>3. net' = net /\ written' = written
    BY <1>6 DEF End
  <2>4. QED
    BY <1>a, <2>1, <2>2, <2>3 DEF Origins, Between, Known
<1>7. ASSUME NEW d \in net, Deliver(d) PROVE Origins'
  <2>1. UNCHANGED <<addr, net, written>>
    BY <1>7 DEF Deliver
  <2>2. d.to.node \in Clients => d.from = ServerAddress /\ Known(d.to.node)
    BY <1>a, AddressTypes DEF Origins, Between
  <2>3. ASSUME NEW c \in Clients, NEW i \in DOMAIN inbox'[c]
        PROVE  inbox'[c][i].from = ServerAddress /\ Known(c)
    <3>1. CASE c = d.to.node
      <4>1. \/ i \in DOMAIN inbox[c] /\ inbox'[c][i] = inbox[c][i]
            \/ inbox'[c][i] = Queued(d.from)
        BY <1>7, <3>1, AfterDelivery
      <4>2. QED
        BY <2>2, <3>1, <4>1 DEF Origins, Queued
    <3>2. CASE c # d.to.node
      BY <1>7, <1>a, <3>2, AfterDelivery DEF Origins
    <3>3. QED
      BY <3>1, <3>2
  <2>4. QED
    BY <2>1, <2>3 DEF Origins, Between, Known
<1>8. QED
  BY <1>u, <1>1, <1>2, <1>3, <1>4, <1>5, <1>6, <1>7 DEF Next, Loop

LEMMA RightEndsStep == TypeOK /\ Origins /\ RightEnds /\ [Next]_vars => RightEnds'
<1> SUFFICES ASSUME TypeOK, Origins, RightEnds, [Next]_vars PROVE RightEnds'
  OBVIOUS
<1>1. CASE written' = written
  BY <1>1 DEF RightEnds
<1>2. ASSUME NEW n \in Nodes, ReadUdp(n) PROVE RightEnds'
  <2> DEFINE w == [at |-> n, from |-> Head(inbox[n]).from.node]
  <2>1. written' = written \cup {w}
    BY <1>2 DEF ReadUdp
  <2>2. CASE n = Server
    BY <2>1, <2>2 DEF RightEnds
  <2>3. CASE n \in Clients
    <3>1. Head(inbox[n]).from = ServerAddress /\ Known(n)
      BY <1>2, <2>3, AfterReadUdp DEF Origins
    <3>2. w.from = Server /\ w.at = n /\ [at |-> Server, from |-> n] \in written
      BY <3>1, AddressTypes DEF Known
    <3> HIDE DEF w
    <3>3. QED
      BY <2>1, <3>2 DEF RightEnds
  <2>4. QED
    BY <2>2, <2>3 DEF Nodes
<1>3. QED
  BY <1>1, <1>2 DEF Next, Loop, Start, Arrive, Select, ReadTun, End, Deliver, vars

(* Packets only come out at the other side of a tunnel, and at a client    *)
(* only after the server had one of its own, whatever the others do.       *)
THEOREM RightEndsCorrect == Spec => []RightEnds
<1>1. Init => RightEnds
  BY DEF Init, RightEnds
<1>2. QED
  BY <1>1, TypeInit, TypeStep, OriginsInit, OriginsStep, RightEndsStep, PTL DEF Spec

-----------------------------------------------------------------------------
(* The server remembers a client *)

LEMMA LearnedStep ==
  TypeOK /\ Origins /\ Learned /\ [Next]_vars => Learned' \/ ~Running(Server)'
<1> SUFFICES ASSUME TypeOK, Origins, Learned, [Next]_vars, Running(Server)'
             PROVE  Learned'
  OBVIOUS
<1>a. Server \in Nodes
  BY DEF Nodes
<1>b. /\ addr[Server] # ServerAddress
      /\ \A i \in DOMAIN inbox[Server] : inbox[Server][i].from # ServerAddress
  BY DEF Learned, EchoQueued
<1>c. ASSUME addr'[Server] # ServerAddress,
             \A i \in DOMAIN inbox'[Server] : inbox'[Server][i].from # ServerAddress
      PROVE  Learned'
  BY <1>c DEF Learned, EchoQueued
<1>u. CASE UNCHANGED <<addr, inbox>>
  BY <1>b, <1>c, <1>u
<1>1. ASSUME NEW n \in Nodes, ReadTun(n) PROVE Learned'
  <2>1. SendTo(n) /\ addr' = addr
    BY <1>1 DEF ReadTun
  <2>2. addr[Server].node # Server
    BY <1>a, <1>b, AddressTypes DEF TypeOK
  <2>3. \A i \in DOMAIN inbox'[Server] : inbox'[Server][i].from # ServerAddress
    <3>1. CASE n = Server
      BY <1>b, <2>1, <2>2, <3>1, AfterSend
    <3>2. CASE n # Server
      BY <1>a, <1>b, <2>1, <3>2, AfterSend
    <3>3. QED
      BY <3>1, <3>2
  <2>4. QED
    BY <1>b, <1>c, <2>1, <2>3
<1>2. ASSUME NEW n \in Nodes, ReadUdp(n) PROVE Learned'
  <2>1. addr' = [addr EXCEPT ![n] = Head(inbox[n]).from]
    BY <1>2 DEF ReadUdp
  <2>2. CASE n = Server
    <3>1. Head(inbox[Server]).from # ServerAddress
      BY <1>2, <1>b, <2>2, AfterReadUdp
    <3>2. addr'[Server] # ServerAddress
      BY <2>1, <2>2, <3>1 DEF TypeOK
    <3>3. \A i \in DOMAIN inbox'[Server] : inbox'[Server][i].from # ServerAddress
      BY <1>2, <1>b, <2>2, AfterReadUdp
    <3>4. QED
      BY <1>c, <3>2, <3>3
  <2>3. CASE n # Server
    <3>1. addr'[Server] = addr[Server]
      BY <1>a, <2>1, <2>3 DEF TypeOK
    <3>2. inbox'[Server] = inbox[Server]
      BY <1>2, <1>a, <2>3, AfterReadUdp
    <3>3. QED
      BY <1>b, <1>c, <3>1, <3>2
  <2>4. QED
    BY <2>2, <2>3
<1>3. ASSUME NEW n \in Nodes, End(n) PROVE Learned'
  <2>1. n # Server
    BY <1>3, <1>a DEF End, Running, TypeOK
  <2>2. addr'[Server] = addr[Server] /\ inbox'[Server] = inbox[Server]
    BY <1>3, <1>a, <2>1 DEF End, TypeOK
  <2>3. QED
    BY <1>b, <1>c, <2>2
<1>4. ASSUME NEW d \in net, Deliver(d) PROVE Learned'
  <2>1. addr' = addr
    BY <1>4 DEF Deliver
  <2>2. CASE d.to.node = Server
    <3>1. d.from # ServerAddress
      BY <2>2, AddressTypes, ServerAssumption DEF Origins, Between
    <3>2. \A i \in DOMAIN inbox'[Server] :
            \/ i \in DOMAIN inbox[Server] /\ inbox'[Server][i] = inbox[Server][i]
            \/ inbox'[Server][i] = Queued(d.from)
      BY <1>4, <2>2, AfterDelivery
    <3>3. QED
      BY <1>b, <1>c, <2>1, <3>1, <3>2 DEF Queued
  <2>3. CASE d.to.node # Server
    <3>1. inbox'[Server] = inbox[Server]
      BY <1>4, <1>a, <2>3, AfterDelivery
    <3>2. QED
      BY <1>b, <1>c, <2>1, <3>1
  <2>4. QED
    BY <2>2, <2>3
<1>5. QED
  BY <1>u, <1>1, <1>2, <1>3, <1>4 DEF Next, Loop, Start, Arrive, Select, vars

(* A server that sends to a client, and has no packet of its own in its    *)
(* queue, never again sends to itself while it runs.                       *)
THEOREM StaysLearnedCorrect == Spec => StaysLearned
<1>1. TypeOK /\ Origins /\ [Next]_vars
        => [Learned => Learned' \/ ~Running(Server)']_vars
  BY LearnedStep
<1>2. QED
  BY <1>1, TypeInit, TypeStep, OriginsInit, OriginsStep, PTL DEF Spec, StaysLearned

-----------------------------------------------------------------------------
(* Both directions are served *)

LEMMA BypassInit == Init => Bounded /\ BoundedBypass
<1> SUFFICES ASSUME Init PROVE Bounded /\ BoundedBypass
  OBVIOUS
<1>1. \A n \in Nodes : inbox[n] = <<>> /\ pc[n] = "off" /\ MaxQueue[n] \in Nat
  BY QueueAssumption DEF Init
<1>2. QED
  BY <1>1 DEF Bounded, BoundedBypass

(* What one process's part of both invariants needs to know of a step.     *)
PassedOver(n) ==
    /\ Len(inbox[n]) <= MaxQueue[n]
    /\ pc[n] = "tun" => \A i \in DOMAIN inbox[n] : inbox[n][i].passed = 0
    /\ \A i \in DOMAIN inbox[n] :
            inbox[n][i].passed + i <= MaxQueue[n] + (IF pc[n] = "udp" THEN 2 ELSE 1)

LEMMA PassedOverBounded == Bounded /\ BoundedBypass <=> \A n \in Nodes : PassedOver(n)
  BY DEF Bounded, BoundedBypass, PassedOver

LEMMA InboxTypes ==
  ASSUME TypeOK, NEW n \in Nodes
  PROVE  /\ MaxQueue[n] \in Nat /\ Len(inbox[n]) \in Nat
         /\ DOMAIN inbox[n] = 1..Len(inbox[n])
         /\ \A i \in DOMAIN inbox[n] : inbox[n][i].passed \in Nat
<1>1. inbox[n] \in Seq(Waiting)
  BY DEF TypeOK
<1>2. \A i \in DOMAIN inbox[n] : inbox[n][i] \in Waiting
  BY <1>1
<1>3. QED
  BY <1>1, <1>2, QueueAssumption DEF Waiting

LEMMA PassedOverStep ==
  ASSUME TypeOK, TypeOK', [Next]_vars, NEW m \in Nodes, PassedOver(m)
  PROVE  PassedOver(m)'
<1>a. /\ MaxQueue[m] \in Nat /\ Len(inbox[m]) \in Nat
      /\ DOMAIN inbox[m] = 1..Len(inbox[m])
      /\ \A i \in DOMAIN inbox[m] : inbox[m][i].passed \in Nat
  BY InboxTypes
<1>b. /\ Len(inbox'[m]) \in Nat /\ DOMAIN inbox'[m] = 1..Len(inbox'[m])
      /\ \A i \in DOMAIN inbox'[m] : inbox'[m][i].passed \in Nat
  <2>1. inbox'[m] \in Seq(Waiting)
    BY DEF TypeOK
  <2>2. \A i \in DOMAIN inbox'[m] : inbox'[m][i] \in Waiting
    BY <2>1
  <2>3. QED
    BY <2>1, <2>2 DEF Waiting
<1>c. CASE inbox'[m] = inbox[m] /\ pc'[m] = pc[m]
  BY <1>c DEF PassedOver
<1>1. ASSUME NEW n \in Nodes, Start(n) PROVE PassedOver(m)'
  BY <1>1 DEF Start, TypeOK, PassedOver
<1>2. ASSUME NEW n \in Nodes, Select(n) PROVE PassedOver(m)'
  <2>1. inbox'[m] = inbox[m]
    BY <1>2 DEF Select
  <2>2. CASE m = n
    <3>1. pc[m] = "select" /\ (pc'[m] = "tun" => inbox[m] = <<>>)
      BY <1>2, <2>2 DEF Select, TypeOK
    <3>2. QED
      BY <1>a, <2>1, <3>1 DEF PassedOver
  <2>3. CASE m # n
    BY <1>2, <1>c, <2>1, <2>3 DEF Select, TypeOK
  <2>4. QED
    BY <2>2, <2>3
<1>3. ASSUME NEW n \in Nodes, ReadTun(n) PROVE PassedOver(m)'
  <2>1. SendTo(n)
    BY <1>3 DEF ReadTun
  <2>2. CASE m = n
    <3>1. /\ pc[m] \in {"tun", "both"}
          /\ pc'[m] = IF pc[m] = "both" THEN "udp" ELSE "select"
      BY <1>3, <2>2 DEF ReadTun, TypeOK
    <3>2. /\ Len(inbox'[m]) <= MaxQueue[m]
          /\ Len(inbox'[m]) >= Len(inbox[m])
      <4>1. /\ Len(inbox'[m]) >= Len(inbox[m])
            /\ Len(inbox'[m]) > Len(inbox[m]) => Len(inbox'[m]) <= MaxQueue[m]
        BY <2>1, <2>2, AfterSend
      <4>2. QED
        BY <4>1, <1>a, <1>b DEF PassedOver
    <3>3. \A i \in DOMAIN inbox'[m] :
            \/ /\ i \in DOMAIN inbox[m]
               /\ inbox'[m][i].passed = inbox[m][i].passed + 1
            \/ inbox'[m][i].passed = 0
      <4>1. \A i \in DOMAIN inbox'[m] :
              \/ /\ i \in DOMAIN inbox[m]
                 /\ inbox'[m][i].passed = inbox[m][i].passed + 1
              \/ inbox'[m][i] = Queued(Address(m))
        BY <2>1, <2>2, AfterSend
      <4>2. QED
        BY <4>1, QueuedFields
    <3>4. ASSUME NEW i \in DOMAIN inbox'[m]
          PROVE  inbox'[m][i].passed + i
                   <= MaxQueue[m] + (IF pc'[m] = "udp" THEN 2 ELSE 1)
      <4>1. i \in Nat /\ i <= MaxQueue[m]
        BY <1>a, <1>b, <3>2
      <4>2. CASE inbox'[m][i].passed = 0
        BY <1>a, <4>1, <4>2
      <4>3. CASE /\ i \in DOMAIN inbox[m]
                 /\ inbox'[m][i].passed = inbox[m][i].passed + 1
        <5>1. inbox[m][i].passed \in Nat
          BY <1>a, <4>3
        <5>2. CASE pc[m] = "tun"
          <6>1. inbox[m][i].passed = 0
            BY <4>3, <5>2 DEF PassedOver
          <6>2. QED
            BY <1>a, <4>1, <4>3, <6>1
        <5>3. CASE pc[m] = "both"
          <6>1. inbox[m][i].passed + i <= MaxQueue[m] + 1
            BY <4>3, <5>3 DEF PassedOver
          <6>2. QED
            BY <1>a, <3>1, <4>1, <4>3, <5>1, <5>3, <6>1
        <5>4. QED
          BY <3>1, <5>2, <5>3
      <4>4. QED
        BY <3>3, <4>2, <4>3
    <3>5. QED
      BY <3>1, <3>2, <3>4 DEF PassedOver
  <2>3. CASE m # n
    <3>1. inbox'[m] = inbox[m] /\ pc'[m] = pc[m]
      <4>1. inbox'[m] = inbox[m]
        BY <2>1, <2>3, AfterSend
      <4>2. pc'[m] = pc[m]
        BY <1>3, <2>3 DEF ReadTun, TypeOK
      <4>3. QED
        BY <4>1, <4>2
    <3>2. QED
      BY <1>c, <3>1
  <2>4. QED
    BY <2>2, <2>3
<1>4. ASSUME NEW n \in Nodes, ReadUdp(n) PROVE PassedOver(m)'
  <2>1. CASE m = n
    <3>1. pc[m] = "udp" /\ pc'[m] = "select"
      BY <1>4, <2>1 DEF ReadUdp, TypeOK
    <3>2. /\ Len(inbox'[m]) = Len(inbox[m]) - 1
          /\ \A i \in DOMAIN inbox'[m] :
                i + 1 \in DOMAIN inbox[m] /\ inbox'[m][i] = inbox[m][i + 1]
      BY <1>4, <2>1, AfterReadUdp
    <3>3. Len(inbox'[m]) <= MaxQueue[m]
      BY <1>a, <1>b, <3>2 DEF PassedOver
    <3>4. ASSUME NEW i \in DOMAIN inbox'[m]
          PROVE  inbox'[m][i].passed + i <= MaxQueue[m] + 1
      <4>1. inbox[m][i + 1].passed + (i + 1) <= MaxQueue[m] + 2
        BY <3>1, <3>2 DEF PassedOver
      <4>2. i \in Nat /\ inbox[m][i + 1].passed \in Nat
        BY <1>a, <1>b, <3>2
      <4>3. inbox'[m][i].passed = inbox[m][i + 1].passed
        BY <3>2
      <4>4. QED
        BY <1>a, <4>1, <4>2, <4>3
    <3>5. QED
      BY <3>1, <3>3, <3>4 DEF PassedOver
  <2>2. CASE m # n
    <3>1. inbox'[m] = inbox[m] /\ pc'[m] = pc[m]
      BY <1>4, <2>2, AfterReadUdp DEF ReadUdp, TypeOK
    <3>2. QED
      BY <1>c, <3>1
  <2>3. QED
    BY <2>1, <2>2
<1>5. ASSUME NEW n \in Nodes, End(n) PROVE PassedOver(m)'
  <2>1. CASE m = n
    <3>1. inbox'[m] = <<>>
      BY <1>5, <2>1 DEF End, TypeOK
    <3>2. QED
      BY <1>a, <3>1 DEF PassedOver
  <2>2. CASE m # n
    BY <1>5, <1>c, <2>2 DEF End, TypeOK
  <2>3. QED
    BY <2>1, <2>2
<1>6. ASSUME NEW d \in net, Deliver(d) PROVE PassedOver(m)'
  <2>1. pc' = pc
    BY <1>6 DEF Deliver
  <2>2. CASE m = d.to.node
    <3>1. /\ Len(inbox'[m]) <= MaxQueue[m]
          /\ \A i \in DOMAIN inbox'[m] :
                \/ i \in DOMAIN inbox[m] /\ inbox'[m][i] = inbox[m][i]
                \/ inbox'[m][i].passed = 0
      <4>1. /\ Len(inbox'[m]) <= MaxQueue[m]
            /\ \A i \in DOMAIN inbox'[m] :
                  \/ i \in DOMAIN inbox[m] /\ inbox'[m][i] = inbox[m][i]
                  \/ inbox'[m][i] = Queued(d.from)
        BY <1>6, <2>2, AfterDelivery
      <4>2. QED
        BY <4>1, QueuedFields
    <3>2. \A i \in DOMAIN inbox'[m] : i \in Nat /\ i <= MaxQueue[m]
      BY <1>a, <1>b, <3>1
    <3>3. \A i \in DOMAIN inbox'[m] : inbox'[m][i].passed = 0 =>
            inbox'[m][i].passed + i <= MaxQueue[m] + (IF pc[m] = "udp" THEN 2 ELSE 1)
      BY <1>a, <3>2
    <3>4. QED
      BY <2>1, <3>1, <3>3 DEF PassedOver
  <2>3. CASE m # d.to.node
    BY <1>6, <1>c, <2>1, <2>3, AfterDelivery
  <2>4. QED
    BY <2>2, <2>3
<1>7. CASE UNCHANGED <<pc, inbox>>
  BY <1>c, <1>7
<1>8. QED
  BY <1>1, <1>2, <1>3, <1>4, <1>5, <1>6, <1>7 DEF Next, Loop, Arrive, vars

(* A datagram is passed over at most as often as its socket holds          *)
(* datagrams and once more, before it is read.                             *)
THEOREM BoundedBypassCorrect == Spec => []BoundedBypass
<1>1. TypeOK /\ TypeOK' /\ Bounded /\ BoundedBypass /\ [Next]_vars
        => Bounded' /\ BoundedBypass'
  <2>1. TypeOK /\ TypeOK' /\ (\A n \in Nodes : PassedOver(n)) /\ [Next]_vars
          => \A n \in Nodes : PassedOver(n)'
    BY PassedOverStep
  <2>2. (Bounded /\ BoundedBypass <=> \A n \in Nodes : PassedOver(n))'
    BY PassedOverBounded, PTL
  <2>3. QED
    BY <2>1, <2>2, PassedOverBounded
<1>2. QED
  BY <1>1, TypeInit, TypeStep, BypassInit, PTL DEF Spec

=============================================================================
