---------------------------- MODULE PeerDelivery ----------------------------
(***************************************************************************)
(* PeerHandshake over a network that delivers each datagram at most once   *)
(* and loses a bounded number of them: what the five keys of main() are    *)
(* for.  net is the bag of datagrams on their way; every action is one of  *)
(* PeerHandshake with its effect on net.                                   *)
(***************************************************************************)
EXTENDS PeerHandshake, Bags

CONSTANTS
    MaxLoss,    \* bound: how many datagrams the network loses
    MaxLines    \* bound: how many typed lines are on their way at once

ASSUME LossAssumption == MaxLoss \in Nat

VARIABLES net, lost

netVars == <<vars, net, lost>>

DTypeOK ==
    /\ TypeOK
    /\ IsABag(net) /\ BagToSet(net) \subseteq msgs
    /\ lost \in 0..MaxLoss

DInit == Init /\ net = EmptyBag /\ lost = 0

Put(ms) == net' = net (+) SetToBag(ms)
Replace(m, ms) == net' = (net (-) SetToBag({m})) (+) SetToBag(ms)
LinesUnderway ==
    BagCardinality([m \in {n \in BagToSet(net) : n.type = "MESSAGE"} |-> net[m]])

DBoot(p) == \E k \in Keys : Boot(p, k) /\ UNCHANGED <<net, lost>>
DTypeAddress(p) == \E q \in Peers : TypeAddress(p, q) /\ UNCHANGED <<net, lost>>
DSendKey(p) ==
    SendKey(p) /\ Put({Key(p, conAddr[p], myKey[p])}) /\ UNCHANGED lost
DSendText(p) ==
    /\ LinesUnderway < MaxLines
    /\ SendText(p) /\ Put(Lines(p)) /\ UNCHANGED lost
DKill(p) ==
    /\ Kill(p)
    /\ net' = [m \in BagToSet(net) \ Loopback(p) |-> net[m]]
    /\ UNCHANGED lost

DReceive(p) ==
    /\ \E m \in BagToSet(net) :
          \/ RecKey(p, m) /\ Replace(m, Solutions(p, m))
          \/ RecKeySolved(p, m) /\ Replace(m, {})
          \/ RecConnected(p, m) /\ Replace(m, {})
          \/ RecText(p, m) /\ Replace(m, {})
    /\ UNCHANGED lost
DSendConnected(p) ==
    SendConnected(p) /\ Put({Connected(p, finAddr[p])}) /\ UNCHANGED lost

(* A datagram that reaches a machine on which nobody has bound the port.   *)
Refuse(m) ==
    /\ mainPc[m.dst] = "off"
    /\ Replace(m, {})
    /\ UNCHANGED <<vars, lost>>

Lose(m) ==
    /\ lost < MaxLoss
    /\ m.src # m.dst
    /\ lost' = lost + 1
    /\ Replace(m, {})
    /\ UNCHANGED vars

DMain(p) ==
    DBoot(p) \/ DTypeAddress(p) \/ DSendKey(p) \/ DSendText(p) \/ DKill(p)

Network == \E m \in BagToSet(net) : Refuse(m) \/ Lose(m)

DNext ==
    \/ \E p \in Peers : DMain(p) \/ DReceive(p) \/ DSendConnected(p)
    \/ Network

(* main()'s loop wakes up from usleep() and recLoop returns from recvfrom() *)
(* while there is something to receive; users, kills and losses are free.  *)
Fairness ==
    \A p \in Peers :
        /\ WF_netVars(DSendKey(p))
        /\ WF_netVars(DReceive(p))
        /\ WF_netVars(DSendConnected(p))

DSpec == DInit /\ [][DNext]_netVars /\ Fairness

-----------------------------------------------------------------------------
Typed(p, q) == Running(p) /\ conAddr[p] = q

(* Once both users have typed each other's address the two are connected   *)
(* both ways, whichever started first and although every key that reached  *)
(* an unstarted peer was refused, as long as fewer datagrams are lost than *)
(* main() sends keys and the keys differ.                                  *)
BothConnect ==
    \A p, q \in Peers :
        p # q =>
            (Typed(p, q) /\ Typed(q, p) /\ myKey[p] # myKey[q])
              ~> \/ finAddr[p] = q /\ finAddr[q] = p
                 \/ ~Running(p) \/ ~Running(q)

(* A peer that missed the only CONNECTED, or lost its link in a restart,   *)
(* gets it from a line of the other side, without a handshake.             *)
LinesRelink ==
    \A p, q \in Peers :
        p # q =>
            (BagIn(Text(p, q), net) /\ Running(q) /\ lost = MaxLoss)
              ~> (finAddr[q] = p \/ ~Running(q))
=============================================================================
