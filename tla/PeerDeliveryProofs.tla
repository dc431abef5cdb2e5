------------------------ MODULE PeerDeliveryProofs ------------------------
(***************************************************************************)
(* Proofs about PeerDelivery.  A network that loses datagrams and delivers *)
(* each at most once allows nothing that the network of PeerHandshake does *)
(* not: whatever is proved of the handshake holds of it as well.           *)
(***************************************************************************)
EXTENDS PeerDelivery, PeerHandshakeProofs, Integers

(* Bags: what is added and what is removed.                                *)
LEMMA AddedBag ==
  ASSUME NEW B, IsABag(B), NEW S
  PROVE  LET C == B (+) SetToBag(S)
         IN  IsABag(C) /\ BagToSet(C) = BagToSet(B) \cup S
<1> DEFINE C == B (+) SetToBag(S)
<1>1. DOMAIN SetToBag(S) = S /\ \A e \in S : SetToBag(S)[e] = 1
  BY DEF SetToBag
<1>2. DOMAIN C = DOMAIN B \cup S
  BY <1>1 DEF (+)
<1>3. \A e \in DOMAIN B : B[e] \in Nat /\ B[e] > 0
  BY DEF IsABag
<1>4. \A e \in DOMAIN C : C[e] \in Nat /\ C[e] > 0
  BY <1>1, <1>2, <1>3 DEF (+)
<1>5. C = [e \in DOMAIN C |-> C[e]]
  BY DEF (+)
<1> HIDE DEF C
<1>6. IsABag(C)
  BY <1>4, <1>5 DEF IsABag
<1>7. QED
  BY <1>2, <1>6 DEF C, BagToSet

LEMMA RemovedBag ==
  ASSUME NEW B, IsABag(B), NEW m
  PROVE  LET C == B (-) SetToBag({m})
         IN  IsABag(C) /\ BagToSet(C) \subseteq BagToSet(B)
<1> DEFINE D == [e \in DOMAIN B |-> IF e \in DOMAIN SetToBag({m})
                                    THEN B[e] - SetToBag({m})[e] ELSE B[e]]
           C == [e \in {d \in DOMAIN D : D[d] > 0} |-> D[e]]
<1>1. B (-) SetToBag({m}) = C
  BY DEF (-)
<1>2. \A e \in DOMAIN B : B[e] \in Nat /\ B[e] > 0
  BY DEF IsABag
<1>3. DOMAIN SetToBag({m}) = {m} /\ SetToBag({m})[m] = 1
  BY DEF SetToBag
<1>4. \A e \in DOMAIN B : D[e] \in Int
  BY <1>2, <1>3
<1> HIDE DEF D
<1>5. DOMAIN D = DOMAIN B
  BY DEF D
<1>6. /\ DOMAIN C \subseteq DOMAIN B
      /\ \A e \in DOMAIN C : C[e] \in Nat /\ C[e] > 0
      /\ C = [e \in DOMAIN C |-> C[e]]
  BY <1>4, <1>5
<1> HIDE DEF C
<1>7. IsABag(C) /\ BagToSet(C) \subseteq BagToSet(B)
  BY <1>6 DEF IsABag, BagToSet
<1>8. QED
  BY <1>1, <1>7

(* Every step is one of the handshake, or none: the network that loses     *)
(* datagrams and never repeats them implements the one that does anything. *)
THEOREM DeliveryIsHandshake == DSpec => Spec
<1>1. DInit => Init
  BY DEF DInit
<1>2. [DNext]_netVars => [Next]_vars
  BY DEF DNext, DMain, DBoot, DTypeAddress, DSendKey, DSendText, DKill, DReceive,
         DSendConnected, Network, Refuse, Lose, netVars, Next, Main, RecLoop, Receives,
         RecKey, RecKeySolved, RecConnected, RecText
<1>3. QED
  BY <1>1, <1>2, PTL DEF DSpec, Spec

(* Nobody is connected to itself, or by accident, and nobody is linked     *)
(* without an invitation, whatever is lost.                                *)
THEOREM DeliverySafe == DSpec => [](NeverSelfConnected /\ ConnectedByHandshake)
BY DeliveryIsHandshake, NeverSelf, ByHandshake, PTL

LEMMA BagsBounded ==
  ASSUME IsABag(net), BagToSet(net) \subseteq msgs, NEW ms, ms \subseteq msgs',
         msgs \subseteq msgs', NEW m,
         Put(ms) \/ Replace(m, ms)
  PROVE  IsABag(net)' /\ BagToSet(net)' \subseteq msgs'
<1>1. CASE Put(ms)
  BY <1>1, AddedBag DEF Put
<1>2. CASE Replace(m, ms)
  <2>1. PICK C : C = net (-) SetToBag({m}) /\ IsABag(C) /\ BagToSet(C) \subseteq BagToSet(net)
    BY RemovedBag
  <2>2. net' = C (+) SetToBag(ms)
    BY <1>2, <2>1 DEF Replace
  <2>3. QED
    BY <2>1, <2>2, AddedBag
<1>3. QED
  BY <1>1, <1>2

(* net is a bag of datagrams that were sent, and not more are lost than    *)
(* may be.                                                                 *)
THEOREM DTypeCorrect == DSpec => []DTypeOK
<1> DEFINE Bagged == /\ IsABag(net) /\ BagToSet(net) \subseteq msgs
                     /\ lost \in 0..MaxLoss
<1>1. DInit => Bagged
  BY LossAssumption DEF DInit, EmptyBag, SetToBag, IsABag, BagToSet
<1>2. Bagged /\ [DNext]_netVars => Bagged'
  <2> SUFFICES ASSUME Bagged, [DNext]_netVars
               PROVE  Bagged'
    OBVIOUS
  <2>1. CASE UNCHANGED netVars
    BY <2>1 DEF netVars, vars
  <2>2. ASSUME NEW p \in Peers, DBoot(p) \/ DTypeAddress(p)
        PROVE  Bagged'
    <3>1. UNCHANGED <<net, msgs, lost>>
      BY <2>2 DEF DBoot, DTypeAddress, Boot, TypeAddress
    <3>2. QED
      BY <3>1
  <2>3. ASSUME NEW p \in Peers, DSendKey(p) \/ DSendText(p) \/ DSendConnected(p)
        PROVE  Bagged'
    <3>1. \E ms : Put(ms) /\ msgs' = msgs \cup ms /\ UNCHANGED lost
      BY <2>3 DEF DSendKey, DSendText, DSendConnected, SendKey, SendText, SendConnected
    <3>2. QED
      BY <3>1, BagsBounded
  <2>4. ASSUME NEW p \in Peers, DKill(p)
        PROVE  Bagged'
    <3>1. /\ net' = [m \in BagToSet(net) \ Loopback(p) |-> net[m]]
          /\ msgs' = msgs \ Loopback(p) /\ UNCHANGED lost
      BY <2>4 DEF DKill, Kill
    <3>2. IsABag(net)' /\ BagToSet(net)' \subseteq msgs'
      BY <3>1 DEF IsABag, BagToSet
    <3>3. QED
      BY <3>1, <3>2
  <2>5. ASSUME NEW p \in Peers, DReceive(p)
        PROVE  Bagged'
    <3>1. PICK m \in BagToSet(net) :
             \/ RecKey(p, m) /\ Replace(m, Solutions(p, m))
             \/ RecKeySolved(p, m) /\ Replace(m, {})
             \/ RecConnected(p, m) /\ Replace(m, {})
             \/ RecText(p, m) /\ Replace(m, {})
      BY <2>5 DEF DReceive
    <3>2. \E ms : Replace(m, ms) /\ msgs' = msgs \cup ms
      BY <3>1 DEF RecKey, RecKeySolved, RecConnected, RecText
    <3>3. UNCHANGED lost
      BY <2>5 DEF DReceive
    <3>4. QED
      BY <3>2, <3>3, BagsBounded
  <2>6. ASSUME NEW m \in BagToSet(net), Refuse(m) \/ Lose(m)
        PROVE  Bagged'
    <3>1. Replace(m, {}) /\ msgs' = msgs
      BY <2>6 DEF Refuse, Lose, vars
    <3>2. lost' \in 0..MaxLoss
      BY <2>6, LossAssumption DEF Refuse, Lose
    <3>3. QED
      BY <3>1, <3>2, BagsBounded
  <2>7. QED
    BY <2>1, <2>2, <2>3, <2>4, <2>5, <2>6 DEF DNext, DMain, Network
<1>3. Bagged /\ TypeOK => DTypeOK
  BY DEF DTypeOK
<1>4. QED
  BY <1>1, <1>2, <1>3, DeliveryIsHandshake, TypeCorrect, PTL DEF DSpec
===========================================================================
