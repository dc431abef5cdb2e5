------------------------- MODULE StreamTunnelProofs -------------------------
(***************************************************************************)
(* Proofs about StreamTunnel, for packets of any sizes, buffers of any     *)
(* capacity and any number of packets.  The bytes on their way to an end   *)
(* continue those its reader has, and the bytes that the writer holds      *)
(* continue those on their way.                                            *)
(***************************************************************************)
EXTENDS StreamTunnel, Integers, TLAPS

Byte(p, i) == [packet |-> p, position |-> i]
Bytes == [packet : Packets, position : Nat]

TypeInv ==
    /\ pc \in [Ends -> Places]
    /\ connected \in BOOLEAN
    /\ tap \in [Ends -> Seq(Packets)]
    /\ netSet \in [Ends -> BOOLEAN]
    /\ out \in [Ends -> Seq(Bytes)]
    /\ buffer \in [Ends -> Seq(Bytes)]
    /\ left \in [Ends -> Nat]
    /\ stream \in [Ends -> Seq(Bytes)]
    /\ entered \in [Ends -> Seq(Packets)]
    /\ delivered \in [Ends -> Seq(Seq(Bytes))]
    /\ \A e \in Ends : pc[e] = "tap" => tap[e] # <<>>
    /\ \A e \in Ends : pc[e] = "write" <=> out[e] # <<>>

(* Packets are numbered in the order in which they enter, and what is left *)
(* to write is the end of the last one.                                    *)
Writer(e) ==
    /\ \A i \in 1..Len(entered[e]) : entered[e][i].number = i
    /\ \A i \in 1..Len(tap[e]) : tap[e][i].number = Len(entered[e]) + i
    /\ out[e] # <<>> =>
          LET p == entered[e][Len(entered[e])]
          IN  /\ Len(entered[e]) > 0
              /\ Len(out[e]) <= p.size + 2
              /\ \A i \in 1..Len(out[e]) :
                    out[e][i] = Byte(p, p.size + 2 - Len(out[e]) + i)

(* The packet and the position of the byte that e writes next.             *)
NextPacket(e) == IF out[e] = <<>> THEN Len(entered[e]) + 1 ELSE Len(entered[e])
NextPosition(e) ==
    IF out[e] = <<>> THEN 1
    ELSE entered[e][Len(entered[e])].size + 3 - Len(out[e])

(* The bytes on their way to e are bytes of packets that entered, each     *)
(* packet without a gap and followed by the next one.                      *)
InFlight(e) ==
    LET s == stream[e]
        sent == entered[Other(e)]
    IN  /\ \A i \in 1..Len(s) :
              /\ s[i].packet.number \in 1..Len(sent)
              /\ s[i].packet = sent[s[i].packet.number]
              /\ s[i].position \in 1..(s[i].packet.size + 2)
        /\ \A i, j \in 1..Len(s) :
              i <= j /\ s[i].position + (j - i) <= s[i].packet.size + 2
                => s[j] = Byte(s[i].packet, s[i].position + (j - i))
        /\ \A i \in 1..(Len(s) - 1) :
              s[i].position = s[i].packet.size + 2
                => /\ s[i + 1].position = 1
                   /\ s[i + 1].packet.number = s[i].packet.number + 1

(* Byte b, then the byte at the given packet and position.                 *)
Follows(b, number, position) ==
    IF b.position = b.packet.size + 2
    THEN position = 1 /\ number = b.packet.number + 1
    ELSE position = b.position + 1 /\ number = b.packet.number

(* What the other end writes next follows the last byte on its way to e.   *)
Joined(e) ==
    Running(Other(e)) /\ stream[e] # <<>> =>
        Follows(stream[e][Len(stream[e])], NextPacket(Other(e)), NextPosition(Other(e)))

(* The packet and the position of the byte that e reads next.              *)
WantedPacket(e) == Len(delivered[e]) + 1
Behind(e) == IF pc[e] = "length" THEN 0 ELSE 2
WantedPosition(e) ==
    IF pc[e] \in {"length", "packet"} THEN Behind(e) + Len(buffer[e]) + 1 ELSE 1

Counted(e) ==
    /\ pc[e] \in {"tap", "write"} => left[e] = 2
    /\ pc[e] \in {"tap", "write", "length"} => Len(buffer[e]) + left[e] = 2
    /\ pc[e] \in {"length", "packet"} => left[e] > 0
    /\ pc[e] = "packet" =>
          /\ WantedPacket(e) <= Len(entered[Other(e)])
          /\ Len(buffer[e]) + left[e] = entered[Other(e)][WantedPacket(e)].size

(* What e has read is the beginning of the packet it wants.                *)
Reading(e) ==
    pc[e] \in {"length", "packet"} =>
        \A i \in 1..Len(buffer[e]) :
            /\ WantedPacket(e) <= Len(entered[Other(e)])
            /\ buffer[e][i] = Byte(entered[Other(e)][WantedPacket(e)], Behind(e) + i)

(* The first byte on its way to e, or else the next one that the other end *)
(* writes, is the one that e wants.                                        *)
Wants(e) ==
    Running(e) =>
        /\ stream[e] # <<>> =>
              /\ stream[e][1].packet.number = WantedPacket(e)
              /\ stream[e][1].position = WantedPosition(e)
        /\ stream[e] = <<>> /\ Running(Other(e)) =>
              /\ NextPacket(Other(e)) = WantedPacket(e)
              /\ NextPosition(Other(e)) = WantedPosition(e)

Delivered(e) ==
    /\ Len(delivered[e]) <= Len(entered[Other(e)])
    /\ \A i \in 1..Len(delivered[e]) : delivered[e][i] = Contents(entered[Other(e)][i])

Aligned ==
    \A e \in Ends :
        /\ Writer(e) /\ InFlight(e) /\ Joined(e)
        /\ Counted(e) /\ Reading(e) /\ Wants(e) /\ Delivered(e)
        /\ Len(stream[e]) <= Capacity

-----------------------------------------------------------------------------
(* The two ends and the packets between them *)

LEMMA TwoEnds ==
  ASSUME NEW e \in Ends
  PROVE  /\ Other(e) \in Ends /\ Other(e) # e /\ Other(Other(e)) = e
         /\ \A f \in Ends : f = e \/ f = Other(e)
BY EndsAssumption DEF Ends, Other

LEMMA SizesArePositive == AllSizes \subseteq Nat \ {0}
BY SizesAssumption DEF AllSizes, Ends

LEMMA PacketFields ==
  ASSUME NEW p \in Packets
  PROVE  p.size \in AllSizes /\ p.size \in Nat /\ p.size > 0 /\ p.number \in Nat
<1>1. PICK e \in Ends, n \in 1..MaxPackets, s \in AllSizes : p = Packet(e, n, s)
  BY DEF Packets
<1>2. QED
  BY <1>1, SizesArePositive, BoundsAssumption DEF Packet

LEMMA NewPacket ==
  ASSUME NEW e \in Ends, NEW n \in 1..MaxPackets, NEW s \in AllSizes
  PROVE  Packet(e, n, s) \in Packets
BY DEF Packets

LEMMA ByteFields ==
  ASSUME NEW b \in Bytes
  PROVE  /\ b.packet \in Packets /\ b.position \in Nat
         /\ b = Byte(b.packet, b.position)
BY DEF Bytes, Byte

LEMMA ByteTypes ==
  ASSUME NEW p \in Packets, NEW i \in Nat
  PROVE  /\ Byte(p, i) \in Bytes
         /\ Byte(p, i).packet = p /\ Byte(p, i).position = i
BY DEF Bytes, Byte

LEMMA FrameTypes ==
  ASSUME NEW p \in Packets
  PROVE  /\ Frame(p) \in Seq(Bytes)
         /\ Len(Frame(p)) = p.size + 2
         /\ \A i \in 1..(p.size + 2) : Frame(p)[i] = Byte(p, i)
<1>1. p.size + 2 \in Nat
  BY PacketFields
<1>2. \A i \in 1..(p.size + 2) : Byte(p, i) \in Bytes
  BY <1>1, ByteTypes
<1>3. Frame(p) = [i \in 1..(p.size + 2) |-> Byte(p, i)]
  BY DEF Frame, Byte
<1>4. QED
  BY <1>1, <1>2, <1>3

LEMMA ContentsTypes ==
  ASSUME NEW p \in Packets
  PROVE  /\ Contents(p) \in Seq(Bytes)
         /\ Len(Contents(p)) = p.size
         /\ \A i \in 1..p.size : Contents(p)[i] = Byte(p, i + 2)
<1>1. p.size \in Nat
  BY PacketFields
<1>2. \A i \in 1..p.size : Byte(p, i + 2) \in Bytes
  BY <1>1, ByteTypes
<1>3. Contents(p) = [i \in 1..p.size |-> Byte(p, i + 2)]
  BY DEF Contents, Byte
<1>4. QED
  BY <1>1, <1>2, <1>3

(* What a read() takes from the stream, and what it leaves.                *)
LEMMA Taken ==
  ASSUME NEW b \in Seq(Bytes), NEW s \in Seq(Bytes), NEW k \in Nat, k <= Len(s)
  PROVE  LET bytes == b \o SubSeq(s, 1, k)
             rest == SubSeq(s, k + 1, Len(s))
         IN  /\ bytes \in Seq(Bytes) /\ Len(bytes) = Len(b) + k
             /\ \A i \in 1..Len(b) : bytes[i] = b[i]
             /\ \A i \in 1..k : bytes[Len(b) + i] = s[i]
             /\ rest \in Seq(Bytes) /\ Len(rest) = Len(s) - k
             /\ \A i \in 1..(Len(s) - k) : rest[i] = s[k + i]
<1>1. SubSeq(s, 1, k) \in Seq(Bytes) /\ Len(SubSeq(s, 1, k)) = k
  OBVIOUS
<1>2. \A i \in 1..k : SubSeq(s, 1, k)[i] = s[i]
  OBVIOUS
<1>3. SubSeq(s, k + 1, Len(s)) \in Seq(Bytes) /\ Len(SubSeq(s, k + 1, Len(s))) = Len(s) - k
  OBVIOUS
<1>4. \A i \in 1..(Len(s) - k) : SubSeq(s, k + 1, Len(s))[i] = s[k + i]
  OBVIOUS
<1>5. b \o SubSeq(s, 1, k) \in Seq(Bytes) /\ Len(b \o SubSeq(s, 1, k)) = Len(b) + k
  BY <1>1
<1>6. /\ \A i \in 1..Len(b) : (b \o SubSeq(s, 1, k))[i] = b[i]
      /\ \A i \in 1..k : (b \o SubSeq(s, 1, k))[Len(b) + i] = SubSeq(s, 1, k)[i]
  BY <1>1
<1>7. QED
  BY <1>1, <1>2, <1>3, <1>4, <1>5, <1>6

-----------------------------------------------------------------------------
(* Types *)

(* What one read() of read_n leads to.                                     *)
LEMMA ReadNetTypes ==
  ASSUME TypeInv, NEW e \in Ends, ReadNet(e)
  PROVE  TypeInv'
<1>1. PICK k \in 1..left[e] :
        LET bytes == buffer[e] \o SubSeq(stream[e], 1, k)
        IN  /\ k <= Len(stream[e])
            /\ \/ /\ k < left[e]
                  /\ buffer' = [buffer EXCEPT ![e] = bytes]
                  /\ left' = [left EXCEPT ![e] = @ - k]
                  /\ UNCHANGED <<pc, delivered>>
               \/ /\ k = left[e] /\ pc[e] = "length"
                  /\ \E n \in PacketLength(bytes) : StartRead(e, n)
                  /\ pc' = [pc EXCEPT ![e] = "packet"]
                  /\ UNCHANGED delivered
               \/ /\ k = left[e] /\ pc[e] = "packet"
                  /\ delivered' = [delivered EXCEPT ![e] = Append(@, bytes)]
                  /\ StartRead(e, 0)
                  /\ pc' = [pc EXCEPT ![e] = "select"]
            /\ stream' = [stream EXCEPT ![e] = SubSeq(@, k + 1, Len(@))]
  BY DEF ReadNet
<1> DEFINE bytes == buffer[e] \o SubSeq(stream[e], 1, k)
           rest == SubSeq(stream[e], k + 1, Len(stream[e]))
<1>2. /\ buffer[e] \in Seq(Bytes) /\ stream[e] \in Seq(Bytes)
      /\ left[e] \in Nat /\ k \in Nat /\ k > 0 /\ k <= left[e] /\ k <= Len(stream[e])
  BY <1>1 DEF TypeInv
<1>3. /\ bytes \in Seq(Bytes) /\ Len(bytes) = Len(buffer[e]) + k
      /\ rest \in Seq(Bytes)
  BY <1>2, Taken
<1>4. /\ UNCHANGED <<connected, tap, netSet, out, entered>>
      /\ pc[e] \in {"length", "packet"}
      /\ stream' = [stream EXCEPT ![e] = rest]
  BY <1>1 DEF ReadNet
<1>5. bytes[1] \in Bytes
  <2> HIDE DEF bytes
  <2>1. Len(bytes) >= 1
    BY <1>2, <1>3
  <2>2. QED
    BY <1>3, <2>1
<1>6. \A n \in PacketLength(bytes) : n \in Nat
  <2> HIDE DEF bytes
  <2>1. bytes[1].packet.size \in Nat
    BY <1>5, ByteFields, PacketFields
  <2>2. QED
    BY <2>1, SizesArePositive DEF PacketLength
<1> HIDE DEF bytes, rest
<1>7. CASE /\ k < left[e]
           /\ buffer' = [buffer EXCEPT ![e] = bytes]
           /\ left' = [left EXCEPT ![e] = @ - k]
           /\ UNCHANGED <<pc, delivered>>
  <2>1. left[e] - k \in Nat
    BY <1>2
  <2>2. QED
    BY <1>3, <1>4, <1>7, <2>1 DEF TypeInv
<1>8. CASE /\ \E n \in PacketLength(bytes) : StartRead(e, n)
           /\ pc' = [pc EXCEPT ![e] = "packet"]
           /\ UNCHANGED delivered
  BY <1>3, <1>4, <1>6, <1>8 DEF TypeInv, StartRead, Places
<1>9. CASE /\ delivered' = [delivered EXCEPT ![e] = Append(@, bytes)]
           /\ StartRead(e, 0)
           /\ pc' = [pc EXCEPT ![e] = "select"]
  BY <1>3, <1>4, <1>9 DEF TypeInv, StartRead, Places
<1>10. QED
  BY <1>1, <1>7, <1>8, <1>9 DEF bytes

LEMMA TypeInvCorrect == Spec => []TypeInv
<1>1. Init => TypeInv
  <2> SUFFICES ASSUME Init PROVE TypeInv
    OBVIOUS
  <2>1. \A S : <<>> \in Seq(S)
    OBVIOUS
  <2>2. /\ pc \in [Ends -> Places] /\ connected \in BOOLEAN
        /\ netSet \in [Ends -> BOOLEAN] /\ left \in [Ends -> Nat]
    BY DEF Init, Places
  <2>3. /\ tap \in [Ends -> Seq(Packets)] /\ entered \in [Ends -> Seq(Packets)]
        /\ out \in [Ends -> Seq(Bytes)] /\ buffer \in [Ends -> Seq(Bytes)]
        /\ stream \in [Ends -> Seq(Bytes)] /\ delivered \in [Ends -> Seq(Seq(Bytes))]
    BY <2>1 DEF Init
  <2>4. /\ \A e \in Ends : pc[e] = "tap" => tap[e] # <<>>
        /\ \A e \in Ends : pc[e] = "write" <=> out[e] # <<>>
    BY DEF Init
  <2>5. QED
    BY <2>2, <2>3, <2>4 DEF TypeInv
<1>2. TypeInv /\ [Next]_vars => TypeInv'
  <2> SUFFICES ASSUME TypeInv, [Next]_vars
               PROVE  TypeInv'
    OBVIOUS
  <2>1. ASSUME NEW e \in Ends, Start(e)
        PROVE  TypeInv'
    BY <2>1 DEF TypeInv, Start, Places
  <2>2. ASSUME NEW e \in Ends, Arrive(e)
        PROVE  TypeInv'
    <3>1. PICK s \in Sizes[e] :
            tap' = [tap EXCEPT ![e] = Append(@, Packet(e, Len(entered[e]) + Len(tap[e]) + 1, s))]
      BY <2>2 DEF Arrive
    <3>2. s \in AllSizes
      BY DEF AllSizes
    <3>3. Len(entered[e]) + Len(tap[e]) + 1 \in 1..MaxPackets
      BY <2>2, BoundsAssumption DEF Arrive, TypeInv
    <3>4. Packet(e, Len(entered[e]) + Len(tap[e]) + 1, s) \in Packets
      BY <3>2, <3>3, NewPacket
    <3> DEFINE p == Packet(e, Len(entered[e]) + Len(tap[e]) + 1, s)
    <3>a. p \in Packets /\ tap[e] \in Seq(Packets)
      BY <3>4 DEF TypeInv
    <3> HIDE DEF p
    <3>b. Append(tap[e], p) \in Seq(Packets) /\ Len(Append(tap[e], p)) = Len(tap[e]) + 1
      BY <3>a
    <3>5. Append(tap[e], p) \in Seq(Packets) /\ Append(tap[e], p) # <<>>
      BY <3>a, <3>b
    <3>6. /\ tap' = [tap EXCEPT ![e] = Append(tap[e], p)]
          /\ UNCHANGED <<connected, pc, netSet, out, buffer, left, stream, entered, delivered>>
      BY <2>2, <3>1 DEF Arrive, p
    <3>7. QED
      BY <3>5, <3>6 DEF TypeInv
  <2>3. ASSUME NEW e \in Ends, Connect(e)
        PROVE  TypeInv'
    BY <2>3 DEF TypeInv, Connect, Places
  <2>4. ASSUME NEW e \in Ends, Accept(e)
        PROVE  TypeInv'
    BY <2>4 DEF TypeInv, Accept, Places
  <2>5. ASSUME NEW e \in Ends, Select(e)
        PROVE  TypeInv'
    BY <2>5 DEF TypeInv, Select, StartRead, Readable, Running, Places
  <2>6. ASSUME NEW e \in Ends, ReadTap(e)
        PROVE  TypeInv'
    <3>1. Head(tap[e]) \in Packets /\ Tail(tap[e]) \in Seq(Packets)
      BY <2>6 DEF TypeInv, ReadTap
    <3>2. Frame(Head(tap[e])) \in Seq(Bytes) /\ Frame(Head(tap[e])) # <<>>
      <4> DEFINE p == Head(tap[e])
      <4>1. /\ Frame(p) \in Seq(Bytes) /\ Len(Frame(p)) = p.size + 2
            /\ p.size \in Nat
        BY <3>1, FrameTypes, PacketFields
      <4> HIDE DEF p
      <4>2. Frame(p) # <<>>
        BY <4>1
      <4>3. QED
        BY <4>1, <4>2 DEF p
    <3>3. QED
      BY <2>6, <3>1, <3>2 DEF TypeInv, ReadTap, Places
  <2>7. ASSUME NEW e \in Ends, WriteNet(e)
        PROVE  TypeInv'
    <3>1. Head(out[e]) \in Bytes /\ Tail(out[e]) \in Seq(Bytes)
      BY <2>7 DEF TypeInv, WriteNet
    <3>2. Append(stream[Other(e)], Head(out[e])) \in Seq(Bytes)
      BY <3>1, TwoEnds DEF TypeInv
    <3>3. stream' \in [Ends -> Seq(Bytes)] /\ out' \in [Ends -> Seq(Bytes)]
      BY <2>7, <3>1, <3>2, TwoEnds DEF TypeInv, WriteNet
    <3>4. pc' \in [Ends -> Places]
      BY <2>7 DEF TypeInv, WriteNet, Places
    <3>5. \A f \in Ends : pc'[f] = "write" <=> out'[f] # <<>>
      BY <2>7 DEF TypeInv, WriteNet
    <3>6. \A f \in Ends : pc'[f] = "tap" => tap[f] # <<>>
      BY <2>7 DEF TypeInv, WriteNet
    <3>7. QED
      BY <2>7, <3>3, <3>4, <3>5, <3>6 DEF TypeInv, WriteNet
  <2>8. ASSUME NEW e \in Ends, Leave(e), UNCHANGED <<connected, stream>>
        PROVE  TypeInv'
    BY <2>8 DEF TypeInv, Leave, Places
  <2>9. ASSUME NEW e \in Ends, Interrupt(e)
        PROVE  TypeInv'
    <3>1. \A k \in 0..Len(stream[Other(e)]) : SubSeq(stream[Other(e)], 1, k) \in Seq(Bytes)
      BY TwoEnds DEF TypeInv
    <3>2. stream' \in [Ends -> Seq(Bytes)]
      <4>1. CASE UNCHANGED stream
        BY <4>1 DEF TypeInv
      <4>2. ASSUME NEW k \in 0..Len(stream[Other(e)]),
                   stream' = [stream EXCEPT ![Other(e)] = SubSeq(@, 1, k)]
            PROVE  stream' \in [Ends -> Seq(Bytes)]
        BY <3>1, <4>2, TwoEnds DEF TypeInv
      <4>3. QED
        BY <2>9, <4>1, <4>2 DEF Interrupt
    <3>3. Leave(e)
      BY <2>9 DEF Interrupt
    <3>4. QED
      BY <3>2, <3>3 DEF TypeInv, Leave, Places
  <2>10. CASE UNCHANGED vars
    BY <2>10 DEF TypeInv, vars
  <2>11. ASSUME NEW e \in Ends, EndOfFile(e) \/ BrokenPipe(e)
         PROVE  Leave(e) /\ UNCHANGED <<connected, stream>>
    BY <2>11 DEF EndOfFile, BrokenPipe, Leave
  <2>12. QED
    BY <2>1, <2>2, <2>3, <2>4, <2>5, <2>6, <2>7, <2>8, <2>9, <2>10, <2>11, ReadNetTypes
    DEF Next, Step
<1>3. QED
  BY <1>1, <1>2, PTL DEF Spec

-----------------------------------------------------------------------------
(* What a step leaves alone: each part of Aligned looks at a few variables *)
(* of one end or of both.                                                  *)

LEMMA KeepWriter ==
  ASSUME NEW e \in Ends, Writer(e),
         entered'[e] = entered[e], tap'[e] = tap[e], out'[e] = out[e]
  PROVE  Writer(e)'
BY DEF Writer

LEMMA KeepInFlight ==
  ASSUME NEW e \in Ends, InFlight(e),
         stream'[e] = stream[e], entered'[Other(e)] = entered[Other(e)]
  PROVE  InFlight(e)'
BY DEF InFlight

LEMMA KeepJoined ==
  ASSUME NEW e \in Ends, Joined(e),
         stream'[e] = stream[e], entered'[Other(e)] = entered[Other(e)],
         \/ ~Running(Other(e))'
         \/ Running(Other(e)) /\ out'[Other(e)] = out[Other(e)]
  PROVE  Joined(e)'
BY DEF Joined, NextPacket, NextPosition, Running, Follows

(* The reader has not moved, or has ended.                                 *)
LEMMA KeepReader ==
  ASSUME NEW e \in Ends, Counted(e), Reading(e), Wants(e), Delivered(e),
         \/ pc'[e] = "ended"
         \/ pc'[e] = pc[e]
         \/ {pc[e], pc'[e]} \subseteq {"start", "connect", "accept", "select"},
         buffer'[e] = buffer[e], left'[e] = left[e], delivered'[e] = delivered[e],
         stream'[e] = stream[e], entered'[Other(e)] = entered[Other(e)],
         \/ ~Running(Other(e))'
         \/ Running(Other(e)) /\ out'[Other(e)] = out[Other(e)]
  PROVE  Counted(e)' /\ Reading(e)' /\ Wants(e)' /\ Delivered(e)'
<1>1. Delivered(e)'
  BY DEF Delivered
<1>2. CASE pc'[e] = "ended"
  BY <1>1, <1>2 DEF Counted, Reading, Wants, Running
<1>3. CASE pc'[e] = pc[e]
  <2>1. Counted(e)' /\ Reading(e)'
    BY <1>3 DEF Counted, Reading, WantedPacket, Behind
  <2>2. Wants(e)'
    BY <1>3 DEF Wants, WantedPacket, WantedPosition, Behind, NextPacket, NextPosition, Running
  <2>3. QED
    BY <1>1, <2>1, <2>2
<1>4. CASE {pc[e], pc'[e]} \subseteq {"start", "connect", "accept", "select"}
  <2>1. Counted(e)' /\ Reading(e)'
    BY <1>4 DEF Counted, Reading
  <2>2. Wants(e)'
    BY <1>4 DEF Wants, WantedPacket, WantedPosition, NextPacket, NextPosition, Running
  <2>3. QED
    BY <1>1, <2>1, <2>2
<1>5. QED
  BY <1>2, <1>3, <1>4

-----------------------------------------------------------------------------
(* The connection *)

LEMMA SetupAligned ==
  ASSUME TypeInv, Aligned, NEW e \in Ends, Start(e) \/ Connect(e) \/ Accept(e)
  PROVE  Aligned'
<1>1. /\ UNCHANGED <<tap, out, buffer, left, stream, entered, delivered>>
      /\ {pc[e], pc'[e]} \subseteq {"start", "connect", "accept", "select", "ended"}
      /\ pc[e] # "ended"
      /\ \A f \in Ends : f # e => pc'[f] = pc[f]
  BY DEF Start, Connect, Accept, TypeInv
<1>2. \A f \in Ends : Writer(f)' /\ InFlight(f)'
  BY <1>1, KeepWriter, KeepInFlight DEF Aligned
<1>3. \A f \in Ends : Running(f)' => Running(f)
  BY <1>1 DEF Running
<1>4. \A f \in Ends : Joined(f)'
  BY <1>1, <1>3, KeepJoined, TwoEnds DEF Aligned
<1>5. \A f \in Ends : Counted(f)' /\ Reading(f)' /\ Wants(f)' /\ Delivered(f)'
  BY <1>1, <1>3, KeepReader, TwoEnds DEF Aligned
<1>6. QED
  BY <1>1, <1>2, <1>4, <1>5 DEF Aligned

(* An end that leaves drops what it has not written; the stream to the     *)
(* other end may be cut anywhere.                                          *)
LEMMA CutInFlight ==
  ASSUME TypeInv, NEW e \in Ends, InFlight(e), NEW k \in 0..Len(stream[e]),
         stream'[e] = SubSeq(stream[e], 1, k), entered' = entered
  PROVE  /\ InFlight(e)'
         /\ Len(stream'[e]) = k
         /\ k > 0 => stream'[e] # <<>> /\ stream'[e][1] = stream[e][1]
<1>1. stream[e] \in Seq(Bytes)
  BY DEF TypeInv
<1>2. /\ stream'[e] \in Seq(Bytes) /\ Len(stream'[e]) = k
      /\ \A i \in 1..k : i \in 1..Len(stream[e]) /\ stream'[e][i] = stream[e][i]
  BY <1>1
<1>3. \A i \in 1..(k - 1) : i \in 1..k /\ i + 1 \in 1..k /\ i \in 1..(Len(stream[e]) - 1)
  BY <1>1
<1>4. InFlight(e)'
  BY <1>1, <1>2, <1>3 DEF InFlight
<1>5. QED
  BY <1>2, <1>4

LEMMA LeaveAligned ==
  ASSUME TypeInv, TypeInv', Aligned, NEW e \in Ends, Leave(e),
         \/ UNCHANGED stream
         \/ \E k \in 0..Len(stream[Other(e)]) :
               stream' = [stream EXCEPT ![Other(e)] = SubSeq(@, 1, k)]
  PROVE  Aligned'
<1> DEFINE f == Other(e)
<1>1. /\ UNCHANGED <<tap, buffer, left, entered, delivered>>
      /\ pc'[e] = "ended" /\ out'[e] = <<>>
      /\ pc'[f] = pc[f] /\ out'[f] = out[f]
  BY TwoEnds DEF Leave, TypeInv
<1>2. f \in Ends /\ Other(f) = e /\ \A d \in Ends : d = e \/ d = f
  BY TwoEnds
<1>3. Writer(f)' /\ Writer(e)'
  BY <1>1, <1>2, KeepWriter DEF Aligned, Writer
<1>4. ~Running(e)'
  BY <1>1 DEF Running
<1>5. stream'[e] = stream[e]
  BY <1>2, TwoEnds, ZenonT(40) DEF TypeInv
<1>6. /\ InFlight(e)' /\ Joined(e)' /\ Counted(e)' /\ Reading(e)' /\ Wants(e)' /\ Delivered(e)'
      /\ Len(stream'[e]) <= Capacity
  BY <1>1, <1>2, <1>5, KeepInFlight, KeepJoined, KeepReader DEF Aligned, Running
<1>7. Joined(f)'
  BY <1>2, <1>4 DEF Joined
<1>8. /\ InFlight(f)' /\ Counted(f)' /\ Reading(f)' /\ Wants(f)' /\ Delivered(f)'
      /\ Len(stream'[f]) <= Capacity
  <2>1. CASE stream'[f] = stream[f]
    BY <1>1, <1>2, <1>4, <2>1, KeepInFlight, KeepReader DEF Aligned
  <2>2. ASSUME NEW k \in 0..Len(stream[f]), stream' = [stream EXCEPT ![f] = SubSeq(@, 1, k)]
        PROVE  /\ InFlight(f)' /\ Counted(f)' /\ Reading(f)' /\ Wants(f)' /\ Delivered(f)'
               /\ Len(stream'[f]) <= Capacity
    <3>1. stream'[f] = SubSeq(stream[f], 1, k)
      BY <1>2, <2>2 DEF TypeInv
    <3>2. /\ InFlight(f)' /\ Len(stream'[f]) = k
          /\ k > 0 => stream'[f] # <<>> /\ stream'[f][1] = stream[f][1]
      BY <1>1, <1>2, <3>1, CutInFlight DEF Aligned
    <3>3. Counted(f)' /\ Reading(f)' /\ Delivered(f)'
      BY <1>1, <1>2 DEF Aligned, Counted, Reading, Delivered, WantedPacket, Behind
    <3>4. Wants(f)'
      <4>1. stream'[f] # <<>> => k > 0 /\ stream[f] # <<>>
        BY <1>2, <3>2 DEF TypeInv
      <4>2. QED
        BY <1>1, <1>2, <1>4, <3>2, <4>1
        DEF Aligned, Wants, WantedPacket, WantedPosition, Behind, Running
    <3>5. Len(stream'[f]) <= Capacity
      BY <1>2, <3>2, BoundsAssumption DEF Aligned, TypeInv
    <3>6. QED
      BY <3>2, <3>3, <3>4, <3>5
  <2>3. UNCHANGED stream => stream'[f] = stream[f]
    OBVIOUS
  <2>4. QED
    BY <2>1, <2>2, <2>3, Zenon
<1>9. QED
  BY <1>2, <1>3, <1>6, <1>7, <1>8 DEF Aligned

-----------------------------------------------------------------------------
(* The tap *)

LEMMA ArriveAligned ==
  ASSUME TypeInv, Aligned, NEW e \in Ends, Arrive(e)
  PROVE  Aligned'
<1>1. PICK s \in Sizes[e] :
        tap' = [tap EXCEPT ![e] = Append(@, Packet(e, Len(entered[e]) + Len(tap[e]) + 1, s))]
  BY DEF Arrive
<1>2. UNCHANGED <<pc, out, buffer, left, stream, entered, delivered>>
  BY DEF Arrive
<1> DEFINE p == Packet(e, Len(entered[e]) + Len(tap[e]) + 1, s)
<1>3. p.number = Len(entered[e]) + Len(tap[e]) + 1
  BY DEF Packet
<1> HIDE DEF p
<1>4. /\ tap[e] \in Seq(Packets) /\ entered[e] \in Seq(Packets)
      /\ tap'[e] = Append(tap[e], p)
      /\ \A f \in Ends : f # e => tap'[f] = tap[f]
  BY <1>1 DEF TypeInv, p
<1>5. \A i \in 1..Len(tap'[e]) : tap'[e][i].number = Len(entered[e]) + i
  <2>1. /\ Len(tap'[e]) = Len(tap[e]) + 1
        /\ tap'[e][Len(tap[e]) + 1] = p
        /\ \A i \in 1..Len(tap[e]) : tap'[e][i] = tap[e][i]
    BY <1>4
  <2>2. \A i \in 1..Len(tap[e]) : tap[e][i].number = Len(entered[e]) + i
    BY DEF Aligned, Writer
  <2>3. \A i \in 1..Len(tap'[e]) : i \in 1..Len(tap[e]) \/ i = Len(tap[e]) + 1
    BY <1>4, <2>1
  <2>4. Len(entered[e]) + Len(tap[e]) + 1 = Len(entered[e]) + (Len(tap[e]) + 1)
    <3>1. Len(entered[e]) \in Nat /\ Len(tap[e]) \in Nat
      BY <1>4
    <3>2. \A m, n \in Nat : m + n + 1 = m + (n + 1)
      OBVIOUS
    <3>3. QED
      BY <3>1, <3>2, Zenon
  <2>5. QED
    BY <1>3, <2>1, <2>2, <2>3, <2>4
<1>6. Writer(e)'
  BY <1>2, <1>5 DEF Aligned, Writer
<1>7. \A f \in Ends : f # e => Writer(f)'
  BY <1>2, <1>4, KeepWriter DEF Aligned
<1>8. \A f \in Ends : /\ InFlight(f)' /\ Joined(f)' /\ Counted(f)' /\ Reading(f)' /\ Wants(f)'
                      /\ Delivered(f)' /\ Len(stream'[f]) <= Capacity
  BY <1>2, KeepInFlight, KeepJoined, KeepReader DEF Aligned, Running
<1>9. QED
  BY <1>6, <1>7, <1>8 DEF Aligned

LEMMA SelectAligned ==
  ASSUME TypeInv, Aligned, NEW e \in Ends, Select(e)
  PROVE  Aligned'
<1> DEFINE f == Other(e)
<1>1. /\ UNCHANGED <<tap, out, stream, entered, delivered>>
      /\ pc[e] = "select" /\ pc'[e] \in {"tap", "length"} /\ pc'[f] = pc[f]
      /\ buffer'[e] = <<>> /\ buffer'[f] = buffer[f]
      /\ left'[e] = 2 /\ left'[f] = left[f]
  BY TwoEnds DEF Select, StartRead, TypeInv
<1>2. f \in Ends /\ Other(f) = e /\ \A d \in Ends : d = e \/ d = f
  BY TwoEnds
<1>3. Writer(f)' /\ Writer(e)' /\ InFlight(f)' /\ InFlight(e)'
  BY <1>1, <1>2, KeepWriter, KeepInFlight DEF Aligned
<1>4. Joined(f)' /\ Joined(e)'
  BY <1>1, <1>2, KeepJoined DEF Aligned, Running
<1>5. Counted(f)' /\ Reading(f)' /\ Wants(f)' /\ Delivered(f)'
  BY <1>1, <1>2, KeepReader DEF Aligned, Running
<1>6. Counted(e)' /\ Reading(e)' /\ Delivered(e)'
  BY <1>1, <1>2 DEF Aligned, Counted, Reading, Delivered
<1>7. Wants(e)'
  <2>1. WantedPacket(e)' = WantedPacket(e) /\ WantedPosition(e)' = 1 /\ WantedPosition(e) = 1
    BY <1>1 DEF WantedPacket, WantedPosition, Behind
  <2>2. NextPacket(f)' = NextPacket(f) /\ NextPosition(f)' = NextPosition(f)
    BY <1>1 DEF NextPacket, NextPosition
  <2>3. QED
    BY <1>1, <1>2, <2>1, <2>2 DEF Aligned, Wants, Running
<1>8. QED
  BY <1>1, <1>2, <1>3, <1>4, <1>5, <1>6, <1>7 DEF Aligned

LEMMA ReadTapAligned ==
  ASSUME TypeInv, Aligned, NEW e \in Ends, ReadTap(e)
  PROVE  Aligned'
<1> DEFINE f == Other(e)
           p == Head(tap[e])
<1>1. /\ UNCHANGED <<netSet, buffer, left, stream, delivered>>
      /\ pc[e] = "tap" /\ pc'[e] = "write" /\ pc'[f] = pc[f]
      /\ entered'[e] = Append(entered[e], p) /\ entered'[f] = entered[f]
      /\ tap'[e] = Tail(tap[e]) /\ tap'[f] = tap[f]
      /\ out'[e] = Frame(p) /\ out'[f] = out[f]
  BY TwoEnds DEF ReadTap, TypeInv
<1>2. f \in Ends /\ Other(f) = e /\ e # f /\ \A d \in Ends : d = e \/ d = f
  BY TwoEnds
<1>3. /\ tap[e] \in Seq(Packets) /\ tap[e] # <<>> /\ entered[e] \in Seq(Packets)
      /\ out[e] = <<>>
  BY <1>1 DEF TypeInv
<1>4. /\ p \in Packets /\ p = tap[e][1] /\ 1 \in 1..Len(tap[e])
      /\ Len(Tail(tap[e])) = Len(tap[e]) - 1
      /\ \A i \in 1..(Len(tap[e]) - 1) : Tail(tap[e])[i] = tap[e][i + 1]
  BY <1>3
<1>5. p.number = Len(entered[e]) + 1
  BY <1>4 DEF Aligned, Writer
<1>6. /\ Frame(p) \in Seq(Bytes) /\ Len(Frame(p)) = p.size + 2
      /\ \A i \in 1..(p.size + 2) : Frame(p)[i] = Byte(p, i)
      /\ p.size \in Nat
  BY <1>4, FrameTypes, PacketFields
<1> HIDE DEF p, f
<1>7. /\ Len(entered'[e]) = Len(entered[e]) + 1
      /\ entered'[e][Len(entered[e]) + 1] = p
      /\ \A i \in 1..Len(entered[e]) : entered'[e][i] = entered[e][i]
  BY <1>1, <1>3, <1>4
<1>8. Writer(e)'
  <2>1. \A i \in 1..Len(entered'[e]) : entered'[e][i].number = i
    <3>1. \A i \in 1..Len(entered'[e]) : i \in 1..Len(entered[e]) \/ i = Len(entered[e]) + 1
      BY <1>3, <1>7
    <3>2. \A i \in 1..Len(entered[e]) : entered[e][i].number = i
      BY DEF Aligned, Writer
    <3>3. QED
      BY <1>5, <1>7, <3>1, <3>2
  <2>2. \A i \in 1..Len(tap'[e]) : tap'[e][i].number = Len(entered'[e]) + i
    <3>1. \A i \in 1..(Len(tap[e]) - 1) : i + 1 \in 1..Len(tap[e])
      BY <1>3
    <3>2. QED
      BY <1>1, <1>2, <1>3, <1>4, <1>7, <3>1 DEF Aligned, Writer
  <2>3. \A i \in 1..Len(out'[e]) : out'[e][i] = Byte(p, p.size + 2 - Len(out'[e]) + i)
    <3>1. \A i \in 1..(p.size + 2) : p.size + 2 - (p.size + 2) + i = i
      BY <1>6
    <3>2. QED
      BY <1>1, <1>6, <3>1
  <2>4. /\ entered'[e][Len(entered'[e])] = p /\ Len(entered'[e]) > 0
        /\ Len(out'[e]) <= p.size + 2
    BY <1>1, <1>3, <1>6, <1>7
  <2>5. QED
    BY <2>1, <2>2, <2>3, <2>4 DEF Writer
<1>9. Writer(f)'
  BY <1>1, <1>2, KeepWriter DEF Aligned
<1>10. InFlight(e)' /\ Joined(e)'
  BY <1>1, <1>2, KeepInFlight, KeepJoined DEF Aligned, Running, f
<1>11. Counted(e)' /\ Reading(e)' /\ Wants(e)' /\ Delivered(e)'
  <2>1. Counted(e)' /\ Reading(e)' /\ Delivered(e)'
    BY <1>1, <1>2 DEF Aligned, Counted, Reading, Delivered, f
  <2>2. Wants(e)'
    BY <1>1, <1>2 DEF Aligned, Wants, WantedPacket, WantedPosition, NextPacket, NextPosition,
                      Running, f
  <2>3. QED
    BY <2>1, <2>2
<1>12. NextPacket(e)' = NextPacket(e) /\ NextPosition(e)' = 1 /\ NextPosition(e) = 1
  <2>1. Frame(p) # <<>>
    BY <1>6
  <2>2. QED
    BY <1>1, <1>3, <1>6, <1>7, <2>1 DEF NextPacket, NextPosition
<1>13. Running(e)' /\ Running(e)
  BY <1>1 DEF Running
<1>14. InFlight(f)' /\ Joined(f)'
  <2>1. \A i \in 1..Len(entered[e]) : i \in 1..Len(entered'[e])
    BY <1>3, <1>7
  <2>2. InFlight(f)'
    BY <1>1, <1>2, <1>7, <2>1, ZenonT(40) DEF Aligned, InFlight
  <2>3. Joined(f)'
    BY <1>1, <1>2, <1>12, <1>13 DEF Aligned, Joined
  <2>4. QED
    BY <2>2, <2>3
<1>15. Counted(f)' /\ Reading(f)' /\ Delivered(f)'
  <2>1. delivered[f] \in Seq(Seq(Bytes))
    BY <1>2 DEF TypeInv
  <2>2. Delivered(f)'
    <3>1. \A i \in 1..Len(delivered[f]) : i \in 1..Len(entered[e])
      BY <1>2, <1>3, <2>1 DEF Aligned, Delivered
    <3>2. \A i \in 1..Len(delivered[f]) : delivered[f][i] = Contents(entered'[e][i])
      BY <1>2, <1>7, <3>1 DEF Aligned, Delivered
    <3>3. Len(delivered[f]) <= Len(entered'[e])
      BY <1>2, <1>3, <1>7, <2>1 DEF Aligned, Delivered
    <3>4. QED
      BY <1>1, <1>2, <3>2, <3>3 DEF Delivered
  <2>3. WantedPacket(f)' = WantedPacket(f)
    BY <1>1 DEF WantedPacket
  <2>4. WantedPacket(f) <= Len(entered[e]) =>
           /\ WantedPacket(f) <= Len(entered'[e])
           /\ entered'[e][WantedPacket(f)] = entered[e][WantedPacket(f)]
    BY <1>3, <1>7, <2>1 DEF WantedPacket
  <2>5. Counted(f)'
    BY <1>1, <1>2, <2>3, <2>4 DEF Aligned, Counted
  <2>6. Reading(f)'
    BY <1>1, <1>2, <2>3, <2>4, ZenonT(40) DEF Aligned, Reading, Behind
  <2>7. QED
    BY <2>2, <2>5, <2>6
<1>16. Wants(f)'
  BY <1>1, <1>2, <1>12, <1>13 DEF Aligned, Wants, WantedPacket, WantedPosition, Behind, Running
<1>17. QED
  BY <1>1, <1>2, <1>8, <1>9, <1>10, <1>11, <1>14, <1>15, <1>16 DEF Aligned

-----------------------------------------------------------------------------
(* The connection carries one byte more *)

LEMMA FollowsOnce ==
  ASSUME NEW b, NEW m, NEW n, NEW i, NEW j, Follows(b, m, i), Follows(b, n, j)
  PROVE  m = n /\ i = j
BY DEF Follows

LEMMA Adjacent ==
  ASSUME NEW e \in Ends, TypeInv, InFlight(e), NEW i \in 1..(Len(stream[e]) - 1)
  PROVE  Follows(stream[e][i], stream[e][i + 1].packet.number, stream[e][i + 1].position)
<1> DEFINE s == stream[e]
<1>1. /\ s \in Seq(Bytes) /\ Len(s) \in Nat
      /\ i \in 1..Len(s) /\ i + 1 \in 1..Len(s) /\ i <= i + 1 /\ (i + 1) - i = 1
  BY DEF TypeInv
<1>2. s[i] \in Bytes
  BY <1>1
<1>3. /\ s[i].position \in Nat /\ s[i].packet \in Packets /\ s[i].packet.size \in Nat
  BY <1>2, ByteFields, PacketFields
<1>4. s[i].position <= s[i].packet.size + 2
  <2>1. s[i].position \in 1..(s[i].packet.size + 2)
    BY <1>1, Zenon DEF InFlight
  <2>2. \A m, n \in Nat : m \in 1..(n + 2) => m <= n + 2
    OBVIOUS
  <2>3. QED
    BY <1>3, <2>1, <2>2, Zenon
<1>5. CASE s[i].position = s[i].packet.size + 2
  BY <1>1, <1>5 DEF InFlight, Follows
<1>6. CASE s[i].position # s[i].packet.size + 2
  <2>1. s[i].position + 1 <= s[i].packet.size + 2 /\ s[i].position + 1 \in Nat
    <3>1. \A m, n \in Nat : m <= n + 2 /\ m # n + 2 => m + 1 <= n + 2 /\ m + 1 \in Nat
      OBVIOUS
    <3>2. QED
      BY <1>3, <1>4, <1>6, <3>1, Zenon
  <2>2. s[i + 1] = Byte(s[i].packet, s[i].position + 1)
    BY <1>1, <2>1 DEF InFlight
  <2>3. s[i + 1].packet = s[i].packet /\ s[i + 1].position = s[i].position + 1
    BY <1>3, <2>1, <2>2, ByteTypes
  <2>4. QED
    BY <1>6, <2>3 DEF Follows
<1>7. QED
  BY <1>5, <1>6

LEMMA AppendedInFlight ==
  ASSUME TypeInv, NEW e \in Ends, InFlight(e), NEW b \in Bytes,
         stream'[e] = Append(stream[e], b), entered' = entered,
         b.packet.number \in 1..Len(entered[Other(e)]),
         b.packet = entered[Other(e)][b.packet.number],
         b.position \in 1..(b.packet.size + 2),
         stream[e] # <<>> =>
            Follows(stream[e][Len(stream[e])], b.packet.number, b.position)
  PROVE  InFlight(e)'
<1> DEFINE s == stream[e]
           t == stream'[e]
           l == Len(s)
           sent == entered[Other(e)]
<1>1. /\ s \in Seq(Bytes) /\ l \in Nat /\ Len(t) = l + 1 /\ t[l + 1] = b
      /\ \A i \in 1..l : t[i] = s[i] /\ s[i] \in Bytes
      /\ \A i \in 1..(l + 1) : i \in 1..l \/ i = l + 1
  <2>1. s \in Seq(Bytes)
    BY DEF TypeInv
  <2> HIDE DEF s
  <2>2. l \in Nat /\ Len(Append(s, b)) = l + 1 /\ Append(s, b)[l + 1] = b
    BY <2>1
  <2>3. \A i \in 1..l : Append(s, b)[i] = s[i] /\ s[i] \in Bytes
    BY <2>1
  <2>4. t = Append(s, b)
    BY DEF s
  <2> HIDE DEF l, t
  <2>5. \A i \in 1..(l + 1) : i \in 1..l \/ i = l + 1
    BY <2>2
  <2>6. QED
    BY <2>1, <2>2, <2>3, <2>4, <2>5
<1>2. \A i \in 1..l :
         /\ s[i].packet.size \in Nat /\ s[i].position \in Nat
         /\ s[i].packet.number \in 1..Len(sent)
         /\ s[i].packet = sent[s[i].packet.number]
         /\ s[i].position \in 1..(s[i].packet.size + 2)
  BY <1>1, ByteFields, PacketFields DEF InFlight
<1>3. /\ b = Byte(b.packet, b.position) /\ b.packet.size \in Nat /\ b.position \in Nat
  BY ByteFields, PacketFields
<1>4. l > 0 => l \in 1..l /\ Follows(s[l], b.packet.number, b.position)
  BY <1>1
<1> HIDE DEF s, t, l, sent
<1>5. \A i \in 1..(l + 1) :
         /\ t[i].packet.number \in 1..Len(sent)
         /\ t[i].packet = sent[t[i].packet.number]
         /\ t[i].position \in 1..(t[i].packet.size + 2)
  BY <1>1, <1>2 DEF sent
<1>6. ASSUME NEW i \in 1..l, s[i].position + ((l + 1) - i) <= s[i].packet.size + 2
      PROVE  b = Byte(s[i].packet, s[i].position + ((l + 1) - i))
  <2>1. /\ l \in 1..l /\ i <= l /\ l - i \in Nat
        /\ s[i].position + (l - i) <= s[i].packet.size + 2
        /\ s[i].position + (l - i) # s[i].packet.size + 2
        /\ (s[i].position + (l - i)) + 1 = s[i].position + ((l + 1) - i)
    <3>1. \A x, z \in Nat :
             x + ((l + 1) - i) <= z + 2 =>
                /\ x + (l - i) <= z + 2 /\ x + (l - i) # z + 2
                /\ (x + (l - i)) + 1 = x + ((l + 1) - i)
      BY <1>1
    <3>2. l \in 1..l /\ i <= l /\ l - i \in Nat
      BY <1>1
    <3>3. QED
      BY <1>2, <1>6, <3>1, <3>2, Zenon
  <2>2. s[l] = Byte(s[i].packet, s[i].position + (l - i))
    BY <2>1 DEF InFlight, s, l
  <2>3. s[l].packet = s[i].packet /\ s[l].position = s[i].position + (l - i)
    BY <2>2 DEF Byte
  <2>4. /\ b.position = s[i].position + ((l + 1) - i)
        /\ b.packet.number = s[i].packet.number
    BY <1>4, <2>1, <2>3 DEF Follows
  <2>5. b.packet = s[i].packet
    BY <1>2, <2>4 DEF sent
  <2>6. QED
    BY <1>3, <2>4, <2>5
<1>7. ASSUME NEW i \in 1..(l + 1), NEW j \in 1..(l + 1), i <= j,
             t[i].position + (j - i) <= t[i].packet.size + 2
      PROVE  t[j] = Byte(t[i].packet, t[i].position + (j - i))
  <2>1. CASE i \in 1..l /\ j \in 1..l
    BY <1>1, <1>7, <2>1 DEF InFlight, s, l
  <2>2. CASE i \in 1..l /\ j = l + 1
    BY <1>1, <1>6, <1>7, <2>2
  <2>3. CASE i = l + 1
    <3>1. j = l + 1 /\ t[i].position + (j - i) = b.position
      BY <1>1, <1>3, <1>7, <2>3, SMTT(30)
    <3>2. QED
      BY <1>1, <1>3, <2>3, <3>1
  <2>4. QED
    BY <1>1, <2>1, <2>2, <2>3
<1>8. ASSUME NEW i \in 1..l, t[i].position = t[i].packet.size + 2
      PROVE  t[i + 1].position = 1 /\ t[i + 1].packet.number = t[i].packet.number + 1
  <2>1. CASE i \in 1..(l - 1)
    <3>1. i + 1 \in 1..l
      BY <1>1, <2>1
    <3>2. QED
      BY <1>1, <1>8, <2>1, <3>1 DEF InFlight, s, l
  <2>2. CASE i = l
    BY <1>1, <1>4, <1>8, <2>2 DEF Follows
  <2>3. QED
    BY <1>1, <2>1, <2>2
<1>9. Len(t) - 1 = l
  BY <1>1
<1>10. QED
  BY <1>1, <1>5, <1>7, <1>8, <1>9 DEF InFlight, t, sent

LEMMA LastByte ==
  ASSUME NEW s \in Seq(Bytes), s # <<>>
  PROVE  Tail(s) = <<>> <=> Len(s) = 1
<1>1. Tail(s) \in Seq(Bytes) /\ Len(Tail(s)) = Len(s) - 1 /\ Len(s) \in Nat
  OBVIOUS
<1>2. \A t \in Seq(Bytes) : t = <<>> <=> Len(t) = 0
  OBVIOUS
<1>3. Tail(s) = <<>> <=> Len(Tail(s)) = 0
  BY <1>1, <1>2, Zenon
<1>4. QED
  BY <1>1, <1>3

LEMMA WriteNetAligned ==
  ASSUME TypeInv, Aligned, NEW e \in Ends, WriteNet(e)
  PROVE  Aligned'
<1> DEFINE f == Other(e)
           p == entered[e][Len(entered[e])]
           s == stream[f]
           b == Head(out[e])
           q == p.size + 3 - Len(out[e])
<1>1. /\ UNCHANGED <<tap, buffer, left, entered, delivered>>
      /\ pc[e] = "write" /\ pc'[e] \in {"write", "length", "select"} /\ pc'[f] = pc[f]
      /\ out'[e] = Tail(out[e]) /\ out'[f] = out[f]
      /\ stream'[f] = Append(s, b) /\ stream'[e] = stream[e]
      /\ Len(s) < Capacity
  BY TwoEnds DEF WriteNet, TypeInv
<1>2. f \in Ends /\ Other(f) = e /\ e # f /\ \A d \in Ends : d = e \/ d = f
  BY TwoEnds
<1>3. /\ out[e] \in Seq(Bytes) /\ out[e] # <<>> /\ entered[e] \in Seq(Packets)
      /\ s \in Seq(Bytes)
  BY <1>1, <1>2 DEF TypeInv
<1>4. /\ Len(entered[e]) \in Nat /\ Len(entered[e]) > 0
      /\ Len(out[e]) \in Nat /\ Len(out[e]) > 0 /\ Len(out[e]) <= p.size + 2
      /\ \A i \in 1..Len(out[e]) : out[e][i] = Byte(p, p.size + 2 - Len(out[e]) + i)
  BY <1>3 DEF Aligned, Writer
<1>5. /\ p \in Packets /\ p.size \in Nat /\ p.number = Len(entered[e])
  <2>1. p \in Packets /\ p.number = Len(entered[e])
    BY <1>3, <1>4 DEF Aligned, Writer
  <2>2. QED
    BY <2>1, PacketFields
<1>6. q \in Nat /\ q >= 1 /\ q <= p.size + 2 /\ q = p.size + 2 - Len(out[e]) + 1
  BY <1>4, <1>5
<1>7. b = Byte(p, q) /\ b \in Bytes /\ b.packet = p /\ b.position = q
  <2>1. b = out[e][1] /\ 1 \in 1..Len(out[e])
    BY <1>3, <1>4
  <2>2. b = Byte(p, q)
    BY <1>4, <1>6, <2>1
  <2>3. QED
    BY <1>5, <1>6, <2>2, ByteTypes
<1>8. NextPacket(e) = Len(entered[e]) /\ NextPosition(e) = q
  BY <1>3 DEF NextPacket, NextPosition
<1>9. /\ Len(Tail(out[e])) = Len(out[e]) - 1 /\ Tail(out[e]) \in Seq(Bytes)
      /\ \A i \in 1..(Len(out[e]) - 1) : Tail(out[e])[i] = out[e][i + 1]
  BY <1>3
<1>10. Writer(e)'
  <2>1. \A i \in 1..(Len(out[e]) - 1) :
           /\ i + 1 \in 1..Len(out[e])
           /\ p.size + 2 - Len(out[e]) + (i + 1) = p.size + 2 - (Len(out[e]) - 1) + i
    <3>1. \A n, z \in Nat : \A i \in 1..(n - 1) :
             i + 1 \in 1..n /\ z + 2 - n + (i + 1) = z + 2 - (n - 1) + i
      OBVIOUS
    <3>2. QED
      BY <1>4, <1>5, <3>1, Zenon
  <2>2. \A i \in 1..Len(out'[e]) : out'[e][i] = Byte(p, p.size + 2 - Len(out'[e]) + i)
    BY <1>1, <1>4, <1>9, <2>1, SMTT(30)
  <2>3. Len(out'[e]) <= p.size + 2
    <3>1. \A n, z \in Nat : n <= z + 2 => n - 1 <= z + 2
      OBVIOUS
    <3>2. Len(out'[e]) = Len(out[e]) - 1
      BY <1>1, <1>9, Zenon
    <3>3. QED
      BY <1>4, <1>5, <3>1, <3>2, Zenon
  <2>4. /\ \A i \in 1..Len(entered[e]) : entered[e][i].number = i
        /\ \A i \in 1..Len(tap[e]) : tap[e][i].number = Len(entered[e]) + i
    BY DEF Aligned, Writer
  <2>5. QED
    BY <1>1, <1>4, <2>2, <2>3, <2>4 DEF Writer
<1>11. Follows(b, NextPacket(e)', NextPosition(e)')
  <2>1. CASE Tail(out[e]) = <<>>
    <3>1. Len(out[e]) = 1
      BY <1>3, <2>1, LastByte, Zenon
    <3>2. q = p.size + 2
      BY <1>5, <3>1
    <3>3. NextPacket(e)' = Len(entered[e]) + 1 /\ NextPosition(e)' = 1
      BY <1>1, <2>1 DEF NextPacket, NextPosition
    <3>4. QED
      BY <1>5, <1>7, <3>2, <3>3 DEF Follows
  <2>2. CASE Tail(out[e]) # <<>>
    <3>1. Len(out[e]) # 1
      BY <1>3, <2>2, LastByte, Zenon
    <3>2. q # p.size + 2 /\ p.size + 3 - (Len(out[e]) - 1) = q + 1
      <4>1. \A n, z \in Nat :
               n # 1 => z + 3 - n # z + 2 /\ z + 3 - (n - 1) = (z + 3 - n) + 1
        OBVIOUS
      <4>2. QED
        BY <1>4, <1>5, <3>1, <4>1, Zenon
    <3>3. NextPacket(e)' = Len(entered[e]) /\ NextPosition(e)' = q + 1
      BY <1>1, <1>9, <2>2, <3>2 DEF NextPacket, NextPosition
    <3>4. QED
      BY <1>5, <1>7, <3>2, <3>3 DEF Follows
  <2>3. QED
    BY <2>1, <2>2
<1>12. Running(e) /\ Running(e)'
  BY <1>1 DEF Running
<1> HIDE DEF f, p, s, b, q
<1>13. /\ Len(stream'[f]) = Len(s) + 1 /\ stream'[f][Len(s) + 1] = b
       /\ \A i \in 1..Len(s) : stream'[f][i] = s[i]
       /\ Len(s) \in Nat /\ stream'[f] # <<>>
  BY <1>1, <1>3, <1>7
<1>14. Joined(f)'
  BY <1>2, <1>11, <1>13 DEF Joined
<1>15. s # <<>> => Follows(s[Len(s)], p.number, q)
  BY <1>2, <1>5, <1>8, <1>12 DEF Aligned, Joined, s
<1>16. InFlight(f)'
  <2>1. /\ b.packet.number \in 1..Len(entered[e])
        /\ b.packet = entered[e][b.packet.number]
        /\ b.position \in 1..(b.packet.size + 2)
    BY <1>4, <1>5, <1>6, <1>7 DEF p
  <2>2. stream'[f] = Append(stream[f], b) /\ entered' = entered
    BY <1>1 DEF s
  <2>3. stream[f] # <<>> => Follows(stream[f][Len(stream[f])], b.packet.number, b.position)
    BY <1>7, <1>15 DEF s
  <2>4. QED
    BY <1>2, <1>7, <2>1, <2>2, <2>3, AppendedInFlight DEF Aligned
<1>17. Wants(f)'
  <2>1. WantedPacket(f)' = WantedPacket(f) /\ WantedPosition(f)' = WantedPosition(f)
    BY <1>1 DEF WantedPacket, WantedPosition, Behind
  <2>2. Running(f)' => Running(f)
    BY <1>1 DEF Running
  <2>3. Running(f) => /\ stream'[f][1].packet.number = WantedPacket(f)
                      /\ stream'[f][1].position = WantedPosition(f)
    <3>1. CASE s = <<>>
      <4>1. stream'[f][1] = b
        BY <1>13, <3>1
      <4>2. QED
        BY <1>2, <1>5, <1>7, <1>8, <1>12, <3>1, <4>1 DEF Aligned, Wants, s
    <3>2. CASE s # <<>>
      <4>1. stream'[f][1] = s[1]
        BY <1>3, <1>13, <3>2 DEF s
      <4>2. QED
        BY <1>2, <3>2, <4>1 DEF Aligned, Wants, s
    <3>3. QED
      BY <3>1, <3>2
  <2>4. QED
    BY <1>13, <2>1, <2>2, <2>3 DEF Wants
<1>18. Counted(f)' /\ Reading(f)' /\ Delivered(f)'
  BY <1>1, <1>2 DEF Aligned, Counted, Reading, Delivered, WantedPacket, Behind
<1>19. Writer(f)' /\ InFlight(e)' /\ Joined(e)'
  BY <1>1, <1>2, KeepWriter, KeepInFlight, KeepJoined DEF Aligned, Running, f
<1>20. Counted(e)' /\ Reading(e)' /\ Wants(e)' /\ Delivered(e)'
  <2>1. left[e] = 2 /\ Len(buffer[e]) = 0 /\ buffer[e] = <<>>
    <3>1. buffer[e] \in Seq(Bytes) /\ left[e] = 2 /\ Len(buffer[e]) + left[e] = 2
      BY <1>1 DEF Aligned, Counted, TypeInv
    <3>2. QED
      BY <3>1
  <2>2. Counted(e)' /\ Reading(e)' /\ Delivered(e)'
    BY <1>1, <2>1 DEF Aligned, Counted, Reading, Delivered
  <2>3. WantedPacket(e)' = WantedPacket(e) /\ WantedPosition(e)' = 1 /\ WantedPosition(e) = 1
    BY <1>1, <2>1 DEF WantedPacket, WantedPosition, Behind
  <2>4. NextPacket(f)' = NextPacket(f) /\ NextPosition(f)' = NextPosition(f)
    BY <1>1 DEF NextPacket, NextPosition
  <2>5. Wants(e)'
    BY <1>1, <1>2, <2>3, <2>4 DEF Aligned, Wants, Running, f
  <2>6. QED
    BY <2>2, <2>5
<1>21. Len(stream'[f]) <= Capacity /\ Len(stream'[e]) <= Capacity
  BY <1>1, <1>13, BoundsAssumption DEF Aligned
<1>22. QED
  BY <1>2, <1>10, <1>14, <1>16, <1>17, <1>18, <1>19, <1>20, <1>21 DEF Aligned

-----------------------------------------------------------------------------
(* The connection is read *)

(* What is left of the stream is in order as the whole was.                *)
LEMMA RestInFlight ==
  ASSUME TypeInv, NEW e \in Ends, InFlight(e), NEW k \in 1..Len(stream[e]),
         stream'[e] = SubSeq(stream[e], k + 1, Len(stream[e])), entered' = entered
  PROVE  InFlight(e)'
<1> DEFINE s == stream[e]
           t == stream'[e]
           l == Len(s)
           sent == entered[Other(e)]
<1>1. /\ s \in Seq(Bytes) /\ l \in Nat /\ k \in Nat /\ k <= l /\ Len(t) = l - k
      /\ \A i \in 1..(l - k) : t[i] = s[k + i]
  BY Taken DEF TypeInv
<1>2. \A i \in 1..(l - k) : k + i \in 1..l
  BY <1>1
<1>3. \A i, j \in 1..(l - k) : i <= j => k + i <= k + j /\ (k + j) - (k + i) = j - i
  BY <1>1
<1>4. \A i \in 1..((l - k) - 1) :
         /\ i \in 1..(l - k) /\ i + 1 \in 1..(l - k)
         /\ k + i \in 1..(l - 1) /\ k + (i + 1) = (k + i) + 1
  BY <1>1
<1> HIDE DEF s, t, l, sent
<1>5. \A i \in 1..(l - k) :
         /\ t[i].packet.number \in 1..Len(sent)
         /\ t[i].packet = sent[t[i].packet.number]
         /\ t[i].position \in 1..(t[i].packet.size + 2)
  BY <1>1, <1>2 DEF InFlight, s, l, sent
<1>6. \A i, j \in 1..(l - k) :
         i <= j /\ t[i].position + (j - i) <= t[i].packet.size + 2
           => t[j] = Byte(t[i].packet, t[i].position + (j - i))
  <2>1. \A i, j \in 1..l :
           i <= j /\ s[i].position + (j - i) <= s[i].packet.size + 2
             => s[j] = Byte(s[i].packet, s[i].position + (j - i))
    BY DEF InFlight, s, l
  <2> SUFFICES ASSUME NEW i \in 1..(l - k), NEW j \in 1..(l - k), i <= j,
                      t[i].position + (j - i) <= t[i].packet.size + 2
               PROVE  t[j] = Byte(t[i].packet, t[i].position + (j - i))
    OBVIOUS
  <2>2. /\ t[i] = s[k + i] /\ t[j] = s[k + j] /\ k + i \in 1..l /\ k + j \in 1..l
        /\ k + i <= k + j /\ (k + j) - (k + i) = j - i
    BY <1>1, <1>2, <1>3
  <2>3. QED
    BY <2>1, <2>2, Zenon
<1>7. \A i \in 1..((l - k) - 1) :
         t[i].position = t[i].packet.size + 2
           => t[i + 1].position = 1 /\ t[i + 1].packet.number = t[i].packet.number + 1
  <2>1. \A i \in 1..(l - 1) :
           s[i].position = s[i].packet.size + 2
             => s[i + 1].position = 1 /\ s[i + 1].packet.number = s[i].packet.number + 1
    BY DEF InFlight, s, l
  <2>2. \A i \in 1..((l - k) - 1) :
           t[i] = s[k + i] /\ t[i + 1] = s[(k + i) + 1] /\ k + i \in 1..(l - 1)
    BY <1>1, <1>4, SMTT(30)
  <2>3. QED
    BY <2>1, <2>2, Zenon
<1>8. QED
  BY <1>1, <1>5, <1>6, <1>7 DEF InFlight, t, sent

(* While a packet lasts the stream holds the bytes that the reader wants.  *)
LEMMA WantedBytes ==
  ASSUME TypeInv, Aligned, NEW e \in Ends, pc[e] \in {"length", "packet"},
         NEW k \in 1..left[e], k <= Len(stream[e])
  PROVE  LET p == entered[Other(e)][WantedPacket(e)]
         IN  /\ WantedPacket(e) \in 1..Len(entered[Other(e)])
             /\ p \in Packets
             /\ Behind(e) + Len(buffer[e]) + k <= p.size + 2
             /\ pc[e] = "length" => Len(buffer[e]) + left[e] = 2
             /\ pc[e] = "packet" => Len(buffer[e]) + left[e] = p.size
             /\ \A i \in 1..k : stream[e][i] = Byte(p, Behind(e) + Len(buffer[e]) + i)
<1> DEFINE f == Other(e)
           n == WantedPacket(e)
           p == entered[f][n]
           s == stream[e]
           q == WantedPosition(e)
           m == Len(buffer[e])
<1>1. /\ f \in Ends /\ s \in Seq(Bytes) /\ Len(s) \in Nat /\ left[e] \in Nat
      /\ k \in Nat /\ 1 \in 1..Len(s) /\ s # <<>>
      /\ entered[f] \in Seq(Packets) /\ m \in Nat /\ Behind(e) \in {0, 2}
  BY TwoEnds DEF TypeInv, Behind
<1>2. Running(e)
  BY DEF Running
<1>3. s[1].packet.number = n /\ s[1].position = q /\ q = Behind(e) + m + 1
  BY <1>1, <1>2 DEF Aligned, Wants, WantedPosition
<1>4. n \in 1..Len(entered[f]) /\ s[1].packet = p
  BY <1>1, <1>3 DEF Aligned, InFlight
<1>5. p \in Packets /\ p.size \in Nat /\ p.size > 0
  BY <1>1, <1>4, PacketFields
<1>6. /\ pc[e] = "length" => m + left[e] = 2 /\ Behind(e) = 0
      /\ pc[e] = "packet" => m + left[e] = p.size /\ Behind(e) = 2
  BY DEF Aligned, Counted, Behind
<1> HIDE DEF f, n, p, s, q, m
<1>7. Behind(e) + m + k <= p.size + 2
  <2>1. CASE pc[e] = "length"
    BY <1>1, <1>5, <1>6, <2>1
  <2>2. CASE pc[e] = "packet"
    BY <1>1, <1>5, <1>6, <2>2
  <2>3. QED
    BY <2>1, <2>2
<1>8. \A i \in 1..k : s[i] = Byte(p, Behind(e) + m + i)
  <2> SUFFICES ASSUME NEW i \in 1..k
               PROVE  s[i] = Byte(p, Behind(e) + m + i)
    OBVIOUS
  <2>1. /\ i \in 1..Len(s) /\ 1 <= i
        /\ q + (i - 1) = Behind(e) + m + i /\ q + (i - 1) <= p.size + 2
    <3>1. \A x \in {0, 2}, z \in Nat :
             x + m + k <= z => (x + m + 1) + (i - 1) = x + m + i /\ x + m + i <= z
      BY <1>1
    <3>2. p.size + 2 \in Nat
      BY <1>5
    <3>3. (Behind(e) + m + 1) + (i - 1) = Behind(e) + m + i /\ Behind(e) + m + i <= p.size + 2
      BY <1>1, <1>7, <3>1, <3>2, Zenon
    <3>4. i \in 1..Len(s) /\ 1 <= i
      BY <1>1 DEF s
    <3>5. QED
      BY <1>3, <3>3, <3>4
  <2>2. s[i] = Byte(s[1].packet, s[1].position + (i - 1))
    <3>1. s[1].position + (i - 1) <= s[1].packet.size + 2
      BY <1>3, <1>4, <2>1
    <3>2. QED
      BY <1>1, <2>1, <3>1 DEF Aligned, InFlight, s
  <2>3. QED
    BY <1>3, <1>4, <2>1, <2>2
<1>9. QED
  BY <1>4, <1>5, <1>6, <1>7, <1>8 DEF f, n, p, s, m

(* What one read() of read_n does to the end that calls it.                *)
LEMMA ReadCases ==
  ASSUME TypeInv, NEW e \in Ends, ReadNet(e)
  PROVE  \E k \in 1..left[e], bytes \in Seq(Bytes) :
            /\ k <= Len(stream[e])
            /\ Len(bytes) = Len(buffer[e]) + k
            /\ \A i \in 1..Len(buffer[e]) : bytes[i] = buffer[e][i]
            /\ \A i \in 1..k : bytes[Len(buffer[e]) + i] = stream[e][i]
            /\ stream'[e] = SubSeq(stream[e], k + 1, Len(stream[e]))
            /\ \A d \in Ends : d # e =>
                  /\ pc'[d] = pc[d] /\ buffer'[d] = buffer[d] /\ left'[d] = left[d]
                  /\ delivered'[d] = delivered[d] /\ stream'[d] = stream[d]
            /\ \/ /\ k < left[e]
                  /\ buffer'[e] = bytes /\ left'[e] = left[e] - k
                  /\ pc'[e] = pc[e] /\ delivered'[e] = delivered[e]
               \/ /\ k = left[e] /\ pc[e] = "length"
                  /\ buffer'[e] = <<>> /\ left'[e] \in PacketLength(bytes)
                  /\ pc'[e] = "packet" /\ delivered'[e] = delivered[e]
               \/ /\ k = left[e] /\ pc[e] = "packet"
                  /\ pc'[e] = "select" /\ delivered'[e] = Append(delivered[e], bytes)
<1>1. PICK k \in 1..left[e] :
        LET bytes == buffer[e] \o SubSeq(stream[e], 1, k)
        IN  /\ k <= Len(stream[e])
            /\ \/ /\ k < left[e]
                  /\ buffer' = [buffer EXCEPT ![e] = bytes]
                  /\ left' = [left EXCEPT ![e] = @ - k]
                  /\ UNCHANGED <<pc, delivered>>
               \/ /\ k = left[e] /\ pc[e] = "length"
                  /\ \E n \in PacketLength(bytes) : StartRead(e, n)
                  /\ pc' = [pc EXCEPT ![e] = "packet"]
                  /\ UNCHANGED delivered
               \/ /\ k = left[e] /\ pc[e] = "packet"
                  /\ delivered' = [delivered EXCEPT ![e] = Append(@, bytes)]
                  /\ StartRead(e, 0)
                  /\ pc' = [pc EXCEPT ![e] = "select"]
            /\ stream' = [stream EXCEPT ![e] = SubSeq(@, k + 1, Len(@))]
  BY DEF ReadNet
<1> DEFINE bytes == buffer[e] \o SubSeq(stream[e], 1, k)
<1>2. /\ bytes \in Seq(Bytes) /\ Len(bytes) = Len(buffer[e]) + k
      /\ \A i \in 1..Len(buffer[e]) : bytes[i] = buffer[e][i]
      /\ \A i \in 1..k : bytes[Len(buffer[e]) + i] = stream[e][i]
  <2>1. /\ buffer[e] \in Seq(Bytes) /\ stream[e] \in Seq(Bytes)
        /\ k \in Nat /\ k <= Len(stream[e])
    BY <1>1 DEF TypeInv
  <2>2. QED
    BY <2>1, Taken, SMTT(30)
<1>3. /\ k <= Len(stream[e])
      /\ stream'[e] = SubSeq(stream[e], k + 1, Len(stream[e]))
  BY <1>1 DEF TypeInv
<1>4. \/ /\ k < left[e]
         /\ buffer'[e] = bytes /\ left'[e] = left[e] - k
         /\ pc'[e] = pc[e] /\ delivered'[e] = delivered[e]
      \/ /\ k = left[e] /\ pc[e] = "length"
         /\ buffer'[e] = <<>> /\ left'[e] \in PacketLength(bytes)
         /\ pc'[e] = "packet" /\ delivered'[e] = delivered[e]
      \/ /\ k = left[e] /\ pc[e] = "packet"
         /\ pc'[e] = "select" /\ delivered'[e] = Append(delivered[e], bytes)
  <2> HIDE DEF bytes
  <2>1. \/ /\ k < left[e]
           /\ buffer' = [buffer EXCEPT ![e] = bytes]
           /\ left' = [left EXCEPT ![e] = @ - k]
           /\ UNCHANGED <<pc, delivered>>
        \/ /\ k = left[e] /\ pc[e] = "length"
           /\ \E n \in PacketLength(bytes) : StartRead(e, n)
           /\ pc' = [pc EXCEPT ![e] = "packet"]
           /\ UNCHANGED delivered
        \/ /\ k = left[e] /\ pc[e] = "packet"
           /\ delivered' = [delivered EXCEPT ![e] = Append(@, bytes)]
           /\ pc' = [pc EXCEPT ![e] = "select"]
    BY <1>1 DEF bytes
  <2>2. QED
    BY <2>1 DEF TypeInv, StartRead
<1>5. \A d \in Ends : d # e =>
         /\ pc'[d] = pc[d] /\ buffer'[d] = buffer[d] /\ left'[d] = left[d]
         /\ delivered'[d] = delivered[d] /\ stream'[d] = stream[d]
  <2> HIDE DEF bytes
  <2>1. /\ \/ /\ buffer' = [buffer EXCEPT ![e] = bytes]
              /\ left' = [left EXCEPT ![e] = @ - k]
              /\ UNCHANGED <<pc, delivered>>
           \/ /\ \E n \in PacketLength(bytes) : StartRead(e, n)
              /\ pc' = [pc EXCEPT ![e] = "packet"]
              /\ UNCHANGED delivered
           \/ /\ delivered' = [delivered EXCEPT ![e] = Append(@, bytes)]
              /\ StartRead(e, 0)
              /\ pc' = [pc EXCEPT ![e] = "select"]
        /\ stream' = [stream EXCEPT ![e] = SubSeq(@, k + 1, Len(@))]
    BY <1>1 DEF bytes
  <2>2. QED
    BY <2>1, SMTT(30) DEF TypeInv, StartRead
<1>6. QED
  BY <1>2, <1>3, <1>4, <1>5

LEMMA ReadNetAligned ==
  ASSUME TypeInv, TypeInv', Aligned, NEW e \in Ends, ReadNet(e)
  PROVE  Aligned'
<1> DEFINE f == Other(e)
           s == stream[e]
           sent == entered[f]
           n == WantedPacket(e)
           p == sent[n]
           m == Len(buffer[e])
<1>1. PICK k \in 1..left[e], bytes \in Seq(Bytes) :
            /\ k <= Len(s)
            /\ Len(bytes) = m + k
            /\ \A i \in 1..m : bytes[i] = buffer[e][i]
            /\ \A i \in 1..k : bytes[m + i] = s[i]
            /\ stream'[e] = SubSeq(s, k + 1, Len(s))
            /\ \A d \in Ends : d # e =>
                  /\ pc'[d] = pc[d] /\ buffer'[d] = buffer[d] /\ left'[d] = left[d]
                  /\ delivered'[d] = delivered[d] /\ stream'[d] = stream[d]
            /\ \/ /\ k < left[e]
                  /\ buffer'[e] = bytes /\ left'[e] = left[e] - k
                  /\ pc'[e] = pc[e] /\ delivered'[e] = delivered[e]
               \/ /\ k = left[e] /\ pc[e] = "length"
                  /\ buffer'[e] = <<>> /\ left'[e] \in PacketLength(bytes)
                  /\ pc'[e] = "packet" /\ delivered'[e] = delivered[e]
               \/ /\ k = left[e] /\ pc[e] = "packet"
                  /\ pc'[e] = "select" /\ delivered'[e] = Append(delivered[e], bytes)
  BY ReadCases
<1>2. /\ f \in Ends /\ Other(f) = e /\ e # f /\ \A d \in Ends : d = e \/ d = f
  BY TwoEnds
<1>3. /\ UNCHANGED <<tap, out, entered>>
      /\ pc[e] \in {"length", "packet"} /\ pc'[e] \in {"length", "packet", "select"}
      /\ pc'[f] = pc[f] /\ buffer'[f] = buffer[f] /\ left'[f] = left[f]
      /\ delivered'[f] = delivered[f] /\ stream'[f] = stream[f]
  <2>1. /\ UNCHANGED <<tap, out, entered>> /\ pc[e] \in {"length", "packet"}
        /\ pc'[e] \in {"length", "packet", "select"}
    BY <1>1 DEF ReadNet
  <2>2. /\ pc'[f] = pc[f] /\ buffer'[f] = buffer[f] /\ left'[f] = left[f]
        /\ delivered'[f] = delivered[f] /\ stream'[f] = stream[f]
    BY <1>1, <1>2
  <2>3. QED
    BY <2>1, <2>2
<1>4. /\ n \in 1..Len(sent) /\ p \in Packets
      /\ Behind(e) + m + k <= p.size + 2
      /\ pc[e] = "length" => m + left[e] = 2
      /\ pc[e] = "packet" => m + left[e] = p.size
      /\ \A i \in 1..k : s[i] = Byte(p, Behind(e) + m + i)
  BY <1>1, <1>3, WantedBytes
<1>5. /\ s \in Seq(Bytes) /\ Len(s) \in Nat /\ m \in Nat /\ k \in Nat /\ k > 0
      /\ left[e] \in Nat /\ k \in 1..k /\ k \in 1..Len(s) /\ s # <<>>
      /\ p.size \in Nat /\ p.size > 0 /\ delivered[e] \in Seq(Seq(Bytes))
      /\ buffer[e] \in Seq(Bytes)
  <2>1. p.size \in Nat /\ p.size > 0
    BY <1>4, PacketFields
  <2>2. /\ s \in Seq(Bytes) /\ delivered[e] \in Seq(Seq(Bytes)) /\ buffer[e] \in Seq(Bytes)
        /\ left[e] \in Nat
    BY DEF TypeInv
  <2> HIDE DEF s, p
  <2>3. Len(s) \in Nat /\ m \in Nat /\ k \in Nat /\ k > 0 /\ k \in 1..k /\ k \in 1..Len(s)
    BY <1>1, <2>2, SMTT(30)
  <2>4. s # <<>>
    BY <2>2, <2>3
  <2>5. QED
    BY <2>1, <2>2, <2>3, <2>4
<1>6. Running(e) /\ Running(e)'
  BY <1>3 DEF Running
<1>7. p.number = n
  BY <1>2, <1>4 DEF Aligned, Writer

(* What is read is the next part of the packet.                            *)
<1>8. \A i \in 1..(m + k) : bytes[i] = Byte(p, Behind(e) + i)
  <2>1. \A i \in 1..m : bytes[i] = Byte(p, Behind(e) + i)
    BY <1>1, <1>3 DEF Aligned, Reading
  <2>2. \A i \in 1..k : bytes[m + i] = Byte(p, Behind(e) + (m + i))
    <3>1. \A x \in {0, 2}, i \in 1..k : x + m + i = x + (m + i)
      BY <1>5
    <3>2. Behind(e) \in {0, 2}
      BY DEF Behind
    <3>3. \A i \in 1..k : Behind(e) + m + i = Behind(e) + (m + i)
      BY <3>1, <3>2, Zenon
    <3>4. QED
      BY <1>1, <1>4, <3>3
  <2>3. \A i \in 1..(m + k) : i \in 1..m \/ (i - m \in 1..k /\ m + (i - m) = i)
    BY <1>5, SMTT(30)
  <2> HIDE DEF f, s, sent, n, p, m
  <2>4. QED
    BY <2>1, <2>2, <2>3
<1>9. s[k].packet = p /\ s[k].position = Behind(e) + m + k
  <2> HIDE DEF f, s, sent, n, p, m
  <2>1. s[k] = Byte(p, Behind(e) + m + k)
    BY <1>4, <1>5
  <2>2. QED
    BY <2>1 DEF Byte
<1> HIDE DEF f, s, sent, n, p, m

(* The reader wants the byte that follows what it has read.                *)
<1>10. Follows(s[k], WantedPacket(e)', WantedPosition(e)')
  <2>1. CASE /\ k < left[e]
             /\ buffer'[e] = bytes /\ left'[e] = left[e] - k
             /\ pc'[e] = pc[e] /\ delivered'[e] = delivered[e]
    <3>1. WantedPacket(e)' = n /\ WantedPosition(e)' = Behind(e) + (m + k) + 1
      BY <1>1, <1>3, <2>1 DEF WantedPacket, WantedPosition, Behind, n
    <3>2. /\ Behind(e) + m + k # p.size + 2
          /\ Behind(e) + (m + k) + 1 = (Behind(e) + m + k) + 1
      <4>1. CASE pc[e] = "length"
        BY <1>4, <1>5, <2>1, <4>1 DEF Behind
      <4>2. CASE pc[e] = "packet"
        BY <1>4, <1>5, <2>1, <4>2, SMTT(30) DEF Behind
      <4>3. QED
        BY <1>3, <4>1, <4>2
    <3>3. QED
      BY <1>7, <1>9, <3>1, <3>2 DEF Follows
  <2>2. CASE /\ k = left[e] /\ pc[e] = "length"
             /\ buffer'[e] = <<>> /\ left'[e] \in PacketLength(bytes)
             /\ pc'[e] = "packet" /\ delivered'[e] = delivered[e]
    <3>1. WantedPacket(e)' = n /\ WantedPosition(e)' = 3
      BY <1>1, <1>3, <2>2 DEF WantedPacket, WantedPosition, Behind, n
    <3>2. /\ Behind(e) + m + k = 2 /\ 2 # p.size + 2
      BY <1>3, <1>4, <1>5, <2>2 DEF Behind
    <3>3. QED
      BY <1>7, <1>9, <3>1, <3>2 DEF Follows
  <2>3. CASE /\ k = left[e] /\ pc[e] = "packet"
             /\ pc'[e] = "select" /\ delivered'[e] = Append(delivered[e], bytes)
    <3>1. WantedPacket(e)' = n + 1 /\ WantedPosition(e)' = 1
      BY <1>1, <1>5, <2>3 DEF WantedPacket, WantedPosition, n
    <3>2. Behind(e) + m + k = p.size + 2
      <4>1. Behind(e) = 2 /\ m + k = p.size
        BY <1>4, <2>3 DEF Behind
      <4>2. QED
        BY <1>5, <4>1
    <3>3. QED
      BY <1>7, <1>9, <3>1, <3>2 DEF Follows
  <2>4. QED
    BY <1>1, <2>1, <2>2, <2>3
<1>11. /\ Len(stream'[e]) = Len(s) - k /\ stream'[e] \in Seq(Bytes)
       /\ \A i \in 1..(Len(s) - k) : stream'[e][i] = s[k + i]
  <2> DEFINE rest == SubSeq(s, k + 1, Len(s))
  <2>1. /\ rest \in Seq(Bytes) /\ Len(rest) = Len(s) - k
        /\ \A i \in 1..(Len(s) - k) : rest[i] = s[k + i]
    <3> HIDE DEF s
    <3>1. /\ k \in Nat /\ k <= Len(s) /\ s \in Seq(Bytes) /\ buffer[e] \in Seq(Bytes)
      BY <1>1, <1>5
    <3>2. QED
      BY <3>1, Taken, SMTT(30)
  <2>2. stream'[e] = rest
    BY <1>1
  <2> HIDE DEF rest
  <2>3. QED
    BY <2>1, <2>2
<1>12. InFlight(e)'
  BY <1>1, <1>3, <1>5, RestInFlight DEF Aligned, s
<1>13. Joined(e)'
  <2>1. NextPacket(f)' = NextPacket(f) /\ NextPosition(f)' = NextPosition(f)
        /\ (Running(f)' <=> Running(f))
    BY <1>3, SMTT(30) DEF NextPacket, NextPosition, Running
  <2>2. stream'[e] # <<>> => stream'[e][Len(stream'[e])] = s[Len(s)]
    <3>1. stream'[e] # <<>> => Len(s) - k \in 1..(Len(s) - k)
      BY <1>5, <1>11
    <3>2. k + (Len(s) - k) = Len(s)
      BY <1>5
    <3>3. QED
      BY <1>11, <3>1, <3>2, Zenon
  <2>3. QED
    BY <1>2, <1>5, <2>1, <2>2 DEF Aligned, Joined, s, f
<1>14. Wants(e)'
  <2>1. CASE k = Len(s)
    <3>1. stream'[e] = <<>>
      BY <1>5, <1>11, <2>1
    <3>2. Running(f) => Follows(s[k], NextPacket(f), NextPosition(f))
      BY <1>5, <2>1 DEF Aligned, Joined, s, f
    <3>3. NextPacket(f)' = NextPacket(f) /\ NextPosition(f)' = NextPosition(f)
          /\ (Running(f)' <=> Running(f))
      BY <1>3 DEF NextPacket, NextPosition, Running
    <3>4. Running(f)' => /\ NextPacket(f)' = WantedPacket(e)'
                         /\ NextPosition(f)' = WantedPosition(e)'
      BY <1>10, <3>2, <3>3, FollowsOnce
    <3>5. QED
      BY <3>1, <3>4 DEF Wants, f
  <2>2. CASE k # Len(s)
    <3>1. k \in 1..(Len(s) - 1) /\ 1 \in 1..(Len(s) - k)
      BY <1>5, <2>2
    <3>2. stream'[e][1] = s[k + 1] /\ stream'[e] # <<>>
      BY <1>5, <1>11, <3>1
    <3>3. Follows(s[k], s[k + 1].packet.number, s[k + 1].position)
      BY <3>1, Adjacent DEF Aligned, s
    <3>4. /\ s[k + 1].packet.number = WantedPacket(e)'
          /\ s[k + 1].position = WantedPosition(e)'
      BY <1>10, <3>3, FollowsOnce
    <3>5. QED
      BY <3>2, <3>4 DEF Wants
  <2>3. QED
    BY <2>1, <2>2
<1>15. Counted(e)' /\ Reading(e)' /\ Delivered(e)'
  <2>1. CASE /\ k < left[e]
             /\ buffer'[e] = bytes /\ left'[e] = left[e] - k
             /\ pc'[e] = pc[e] /\ delivered'[e] = delivered[e]
    <3>1. WantedPacket(e)' = n /\ Behind(e)' = Behind(e)
      BY <2>1 DEF WantedPacket, Behind, n
    <3>2. (m + k) + (left[e] - k) = m + left[e] /\ left[e] - k > 0
      <4>1. \A x, y, z \in Nat : y < z => (x + y) + (z - y) = x + z /\ z - y > 0
        OBVIOUS
      <4>2. QED
        BY <1>5, <2>1, <4>1, Zenon
    <3>3. Counted(e)'
      BY <1>1, <1>3, <1>4, <2>1, <3>1, <3>2 DEF Counted, f, sent, p
    <3>4. Reading(e)'
      BY <1>1, <1>3, <1>4, <1>8, <2>1, <3>1 DEF Reading, f, sent, p
    <3>5. Delivered(e)'
      BY <1>3, <2>1 DEF Aligned, Delivered
    <3>6. QED
      BY <3>3, <3>4, <3>5
  <2>2. CASE /\ k = left[e] /\ pc[e] = "length"
             /\ buffer'[e] = <<>> /\ left'[e] \in PacketLength(bytes)
             /\ pc'[e] = "packet" /\ delivered'[e] = delivered[e]
    <3>1. Behind(e) = 0 /\ m + k = 2 /\ 1 \in 1..(m + k) /\ 2 \in 1..(m + k)
      BY <1>4, <1>5, <2>2 DEF Behind
    <3>2. bytes[1] = Byte(p, 1) /\ bytes[2] = Byte(p, 2)
      BY <1>8, <3>1
    <3>3. left'[e] = p.size
      BY <2>2, <3>2 DEF PacketLength, Byte
    <3>4. WantedPacket(e)' = n
      BY <2>2 DEF WantedPacket, n
    <3>5. Counted(e)'
      BY <1>3, <1>4, <1>5, <2>2, <3>3, <3>4 DEF Counted, f, sent, p
    <3>6. Reading(e)'
      BY <2>2 DEF Reading
    <3>7. Delivered(e)'
      BY <1>3, <2>2 DEF Aligned, Delivered
    <3>8. QED
      BY <3>5, <3>6, <3>7
  <2>3. CASE /\ k = left[e] /\ pc[e] = "packet"
             /\ pc'[e] = "select" /\ delivered'[e] = Append(delivered[e], bytes)
    <3>1. bytes = Contents(p)
      <4>1. Behind(e) = 2 /\ m + k = p.size
        BY <1>4, <2>3 DEF Behind
      <4>2. \A i \in 1..p.size : bytes[i] = Byte(p, i + 2)
        <5>1. \A i \in 1..p.size : 2 + i = i + 2
          BY <1>5
        <5>2. QED
          BY <1>8, <4>1, <5>1
      <4>3. \A s1, s2 \in Seq(Bytes) :
               Len(s1) = Len(s2) /\ (\A i \in 1..Len(s1) : s1[i] = s2[i]) => s1 = s2
        OBVIOUS
      <4>4. /\ Contents(p) \in Seq(Bytes) /\ Len(Contents(p)) = p.size
            /\ \A i \in 1..p.size : Contents(p)[i] = Byte(p, i + 2)
        BY <1>4, ContentsTypes
      <4>5. QED
        BY <1>1, <4>1, <4>2, <4>3, <4>4
    <3>2. n = Len(delivered[e]) + 1 /\ Len(delivered[e]) \in Nat
      BY <1>5 DEF WantedPacket, n
    <3>3. /\ Len(delivered'[e]) = n /\ delivered'[e][n] = bytes
          /\ \A i \in 1..Len(delivered[e]) : delivered'[e][i] = delivered[e][i]
      BY <1>5, <2>3, <3>2
    <3>4. \A i \in 1..n : i \in 1..Len(delivered[e]) \/ i = n
      BY <3>2
    <3>5. \A i \in 1..Len(delivered[e]) : delivered[e][i] = Contents(sent[i])
      BY DEF Aligned, Delivered, f, sent
    <3>6. \A i \in 1..n : delivered'[e][i] = Contents(sent[i])
      BY <3>1, <3>3, <3>4, <3>5 DEF p
    <3>7. Delivered(e)'
      BY <1>3, <1>4, <3>3, <3>6 DEF Delivered, f, sent
    <3>8. Counted(e)' /\ Reading(e)'
      BY <2>3 DEF Counted, Reading
    <3>9. QED
      BY <3>7, <3>8
  <2>4. QED
    BY <1>1, <2>1, <2>2, <2>3
<1>16. Writer(e)' /\ Writer(f)' /\ InFlight(f)' /\ Joined(f)'
  BY <1>2, <1>3, <1>6, KeepWriter, KeepInFlight, KeepJoined DEF Aligned
<1>17. Counted(f)' /\ Reading(f)' /\ Wants(f)' /\ Delivered(f)'
  BY <1>2, <1>3, <1>6, KeepReader DEF Aligned
<1>18. Len(stream'[e]) <= Capacity /\ Len(stream'[f]) <= Capacity
  <2>1. Len(s) <= Capacity /\ Len(stream[f]) <= Capacity
    BY <1>2 DEF Aligned, s
  <2>2. QED
    BY <1>3, <1>5, <1>11, <2>1, BoundsAssumption
<1>19. QED
  BY <1>2, <1>12, <1>13, <1>14, <1>15, <1>16, <1>17, <1>18 DEF Aligned

-----------------------------------------------------------------------------
(* The theorems *)

LEMMA InitAligned == Init => Aligned
<1> SUFFICES ASSUME Init, NEW e \in Ends
             PROVE  /\ Writer(e) /\ InFlight(e) /\ Joined(e)
                    /\ Counted(e) /\ Reading(e) /\ Wants(e) /\ Delivered(e)
                    /\ Len(stream[e]) <= Capacity
  BY DEF Aligned
<1>1. /\ entered[e] = <<>> /\ tap[e] = <<>> /\ out[e] = <<>> /\ stream[e] = <<>>
      /\ delivered[e] = <<>> /\ pc[e] = "start"
      /\ entered[Other(e)] = <<>> /\ out[Other(e)] = <<>>
  BY TwoEnds DEF Init
<1>2. Len(<<>>) = 0 /\ 1..0 = {} /\ 1..(0 - 1) = {}
  OBVIOUS
<1>3. Writer(e) /\ InFlight(e) /\ Joined(e)
  BY <1>1, <1>2 DEF Writer, InFlight, Joined
<1>4. Counted(e) /\ Reading(e) /\ Delivered(e)
  BY <1>1, <1>2 DEF Counted, Reading, Delivered
<1>5. Wants(e)
  BY <1>1, <1>2 DEF Wants, NextPacket, NextPosition, WantedPacket, WantedPosition
<1>6. QED
  BY <1>1, <1>2, <1>3, <1>4, <1>5, BoundsAssumption

(* However the bytes are cut and joined, what is on its way continues what *)
(* the reader has and is continued by what the writer holds.               *)
THEOREM AlignedCorrect == Spec => []Aligned
<1>1. TypeInv /\ TypeInv' /\ Aligned /\ [Next]_vars => Aligned'
  <2> SUFFICES ASSUME TypeInv, TypeInv', Aligned, [Next]_vars
               PROVE  Aligned'
    OBVIOUS
  <2>1. CASE UNCHANGED vars
    <3>1. UNCHANGED <<pc, tap, out, buffer, left, stream, entered, delivered>>
      BY <2>1 DEF vars
    <3>2. \A e \in Ends : Other(e) \in Ends
      BY TwoEnds
    <3>3. \A e \in Ends : Writer(e)' /\ InFlight(e)' /\ Joined(e)'
      BY <3>1, KeepWriter, KeepInFlight, KeepJoined DEF Aligned, Running
    <3>4. \A e \in Ends : Counted(e)' /\ Reading(e)' /\ Wants(e)' /\ Delivered(e)'
      BY <3>1, KeepReader DEF Aligned, Running
    <3>5. QED
      BY <3>1, <3>3, <3>4 DEF Aligned
  <2>2. ASSUME NEW e \in Ends, Start(e) \/ Connect(e) \/ Accept(e)
        PROVE  Aligned'
    BY <2>2, SetupAligned
  <2>3. ASSUME NEW e \in Ends, EndOfFile(e) \/ BrokenPipe(e) \/ Interrupt(e)
        PROVE  Aligned'
    <3>1. /\ Leave(e)
          /\ \/ UNCHANGED stream
             \/ \E k \in 0..Len(stream[Other(e)]) :
                   stream' = [stream EXCEPT ![Other(e)] = SubSeq(@, 1, k)]
      BY <2>3 DEF EndOfFile, BrokenPipe, Interrupt
    <3>2. QED
      BY <3>1, LeaveAligned
  <2>4. QED
    BY <2>1, <2>2, <2>3, ArriveAligned, SelectAligned, ReadTapAligned, WriteNetAligned,
       ReadNetAligned
    DEF Next, Step
<1>2. QED
  BY <1>1, InitAligned, TypeInvCorrect, PTL DEF Spec

(* TypeOK holds, whatever the sizes of packets and buffers.                *)
THEOREM TypeCorrect == Spec => []TypeOK
<1>1. TypeInv /\ Aligned => TypeOK
  <2> SUFFICES ASSUME TypeInv, Aligned
               PROVE  TypeOK
    OBVIOUS
  <2>1. pc \in [Ends -> Places] /\ connected \in BOOLEAN /\ netSet \in [Ends -> BOOLEAN]
    BY DEF TypeInv
  <2> SUFFICES ASSUME NEW e \in Ends
               PROVE  /\ \A i \in DOMAIN tap[e] : tap[e][i] \in Packets
                      /\ Len(stream[e]) <= Capacity
                      /\ pc[e] = "length" => Len(buffer[e]) + left[e] = 2
                      /\ pc[e] = "packet" => Len(buffer[e]) + left[e] \in AllSizes
                      /\ pc[e] = "write" <=> out[e] # <<>>
    BY <2>1, Zenon DEF TypeOK
  <2>2. \A i \in DOMAIN tap[e] : tap[e][i] \in Packets
    BY DEF TypeInv
  <2>3. pc[e] = "length" => Len(buffer[e]) + left[e] = 2
    BY DEF Aligned, Counted
  <2>4. ASSUME pc[e] = "packet"
        PROVE  Len(buffer[e]) + left[e] \in AllSizes
    <3>1. /\ WantedPacket(e) <= Len(entered[Other(e)])
          /\ Len(buffer[e]) + left[e] = entered[Other(e)][WantedPacket(e)].size
      BY <2>4 DEF Aligned, Counted
    <3>2. entered[Other(e)] \in Seq(Packets) /\ delivered[e] \in Seq(Seq(Bytes))
      BY TwoEnds DEF TypeInv
    <3>3. WantedPacket(e) \in 1..Len(entered[Other(e)])
      BY <3>1, <3>2 DEF WantedPacket
    <3>4. entered[Other(e)][WantedPacket(e)] \in Packets
      BY <3>2, <3>3
    <3>5. QED
      BY <3>1, <3>4, PacketFields
  <2>5. pc[e] = "write" <=> out[e] # <<>>
    BY DEF TypeInv
  <2>6. QED
    BY <2>2, <2>3, <2>4, <2>5 DEF Aligned
<1>2. QED
  BY <1>1, TypeInvCorrect, AlignedCorrect, PTL

(* A reader is never out of step with its writer.                          *)
THEOREM AlwaysInStep == Spec => []InStep
<1>1. TypeInv /\ Aligned => InStep
  <2> SUFFICES ASSUME TypeInv, Aligned, NEW e \in Ends, Running(e),
                      NEW needed, needed = IF pc[e] \in {"length", "packet"} THEN left[e] ELSE 0,
                      Len(stream[e]) > needed
               PROVE  stream[e][needed + 1].position = IF pc[e] = "length" THEN 3 ELSE 1
    BY DEF InStep
  <2>1. stream[e] \in Seq(Bytes) /\ left[e] \in Nat /\ Len(stream[e]) \in Nat
    BY DEF TypeInv
  <2>2. CASE pc[e] \notin {"length", "packet"}
    <3>1. needed = 0 /\ stream[e] # <<>> /\ pc[e] # "length"
      BY <2>1, <2>2
    <3>2. stream[e][1].position = WantedPosition(e) /\ WantedPosition(e) = 1
      BY <2>2, <3>1 DEF Aligned, Wants, WantedPosition
    <3>3. QED
      BY <3>1, <3>2
  <2>3. CASE pc[e] \in {"length", "packet"}
    <3> DEFINE k == left[e]
               s == stream[e]
               p == entered[Other(e)][WantedPacket(e)]
    <3>1. needed = k /\ k \in 1..left[e] /\ k <= Len(s) /\ k \in 1..(Len(s) - 1)
      BY <2>1, <2>3 DEF Aligned, Counted
    <3>2. /\ p \in Packets
          /\ pc[e] = "length" => Len(buffer[e]) + k = 2
          /\ pc[e] = "packet" => Len(buffer[e]) + k = p.size
          /\ s[k] = Byte(p, Behind(e) + Len(buffer[e]) + k)
      BY <2>3, <3>1, WantedBytes
    <3>3. p.size \in Nat /\ p.size > 0 /\ Len(buffer[e]) \in Nat
      BY <3>2, PacketFields, SMTT(30) DEF TypeInv
    <3>4. Follows(s[k], s[k + 1].packet.number, s[k + 1].position)
      BY <3>1, Adjacent DEF Aligned
    <3>5. s[k].packet = p /\ s[k].position = Behind(e) + Len(buffer[e]) + k
      BY <3>2 DEF Byte
    <3> HIDE DEF k, s, p
    <3>6. CASE pc[e] = "length"
      <4>1. k \in Nat /\ Behind(e) + Len(buffer[e]) + k = 2 /\ 2 # p.size + 2
        BY <2>1, <3>2, <3>3, <3>6 DEF Behind, k
      <4>2. s[k + 1].position = 3
        BY <3>4, <3>5, <4>1 DEF Follows
      <4>3. QED
        BY <3>1, <3>6, <4>2 DEF s
    <3>7. CASE pc[e] = "packet"
      <4>1. k \in Nat /\ Behind(e) + Len(buffer[e]) + k = p.size + 2
        <5>1. k \in Nat /\ Behind(e) = 2 /\ Len(buffer[e]) + k = p.size
          BY <2>1, <3>2, <3>7 DEF Behind, k
        <5>2. QED
          BY <3>3, <5>1
      <4>2. s[k + 1].position = 1
        BY <3>4, <3>5, <4>1 DEF Follows
      <4>3. QED
        BY <3>1, <3>7, <4>2 DEF s
    <3>8. QED
      BY <2>3, <3>6, <3>7
  <2>4. QED
    BY <2>2, <2>3
<1>2. QED
  BY <1>1, TypeInvCorrect, AlignedCorrect, PTL

-----------------------------------------------------------------------------
(* The tunnel implements FrameChannel *)

LEMMA WholePacket ==
  ASSUME NEW p \in Packets
  PROVE  AsPacket(Contents(p)) = p
<1>1. /\ Contents(p)[1] = Byte(p, 1 + 2) /\ p.size > 0
  <2>1. 1 \in 1..p.size
    BY PacketFields
  <2>2. QED
    BY <2>1, ContentsTypes, PacketFields
<1>2. Contents(p)[1].packet = p
  BY <1>1 DEF Byte
<1>3. QED
  BY <1>2 DEF AsPacket

(* The first n packets of s.                                               *)
First(s, n) == [i \in 1..n |-> s[i]]

LEMMA FirstGrows ==
  ASSUME NEW s \in Seq(Packets), NEW n \in Nat, n < Len(s)
  PROVE  /\ First(s, n) \in Seq(Packets) /\ Len(First(s, n)) = n
         /\ First(s, n + 1) = Append(First(s, n), s[n + 1])
<1>1. \A i \in 1..(n + 1) : s[i] \in Packets
  OBVIOUS
<1>2. /\ First(s, n) \in Seq(Packets) /\ Len(First(s, n)) = n
      /\ \A i \in 1..n : First(s, n)[i] = s[i]
  BY <1>1 DEF First
<1>3. /\ First(s, n + 1) \in Seq(Packets) /\ Len(First(s, n + 1)) = n + 1
      /\ \A i \in 1..(n + 1) : First(s, n + 1)[i] = s[i]
  BY <1>1 DEF First
<1> DEFINE a == First(s, n)
           b == First(s, n + 1)
           c == Append(a, s[n + 1])
<1>4. /\ a \in Seq(Packets) /\ Len(a) = n /\ \A i \in 1..n : a[i] = s[i]
      /\ b \in Seq(Packets) /\ Len(b) = n + 1 /\ \A i \in 1..(n + 1) : b[i] = s[i]
      /\ s[n + 1] \in Packets
  BY <1>1, <1>2, <1>3
<1> HIDE DEF a, b
<1>5. /\ c \in Seq(Packets) /\ Len(c) = n + 1
      /\ \A i \in 1..n : c[i] = a[i]
      /\ c[n + 1] = s[n + 1]
  BY <1>4
<1> HIDE DEF c
<1>6. \A i \in 1..(n + 1) : c[i] = b[i]
  <2>1. \A i \in 1..(n + 1) : i \in 1..n \/ i = n + 1
    OBVIOUS
  <2>2. QED
    BY <1>4, <1>5, <2>1
<1>7. \A s1, s2 \in Seq(Packets) :
        Len(s1) = Len(s2) /\ (\A i \in 1..Len(s1) : s1[i] = s2[i]) => s1 = s2
  OBVIOUS
<1>8. c = b
  BY <1>4, <1>5, <1>6, <1>7
<1>9. QED
  BY <1>2, <1>8 DEF a, b, c

(* What an end has delivered is as many packets as entered at the other.   *)
LEMMA DeliveredInOrder ==
  ASSUME TypeInv, Aligned, NEW e \in Ends
  PROVE  DeliveredPackets[e] = First(entered[Other(e)], Len(delivered[e]))
<1>1. /\ delivered[e] \in Seq(Seq(Bytes)) /\ entered[Other(e)] \in Seq(Packets)
      /\ Len(delivered[e]) <= Len(entered[Other(e)])
      /\ \A i \in 1..Len(delivered[e]) : delivered[e][i] = Contents(entered[Other(e)][i])
  BY TwoEnds DEF TypeInv, Aligned, Delivered
<1>2. \A i \in 1..Len(delivered[e]) : entered[Other(e)][i] \in Packets
  BY <1>1
<1>3. \A i \in 1..Len(delivered[e]) : AsPacket(delivered[e][i]) = entered[Other(e)][i]
  BY <1>1, <1>2, WholePacket
<1>4. DOMAIN delivered[e] = 1..Len(delivered[e])
  BY <1>1
<1>5. QED
  BY <1>3, <1>4 DEF DeliveredPackets, First

InOrder ==
    \A e \in Ends : DeliveredPackets[e] = First(entered[Other(e)], Len(delivered[e]))

LEMMA AlwaysInOrder == TypeInv /\ Aligned => InOrder
BY DeliveredInOrder DEF InOrder

LEMMA InOrderNext == TypeInv' /\ Aligned' => InOrder'
BY AlwaysInOrder, PTL

LEMMA ChannelOther ==
  ASSUME NEW e \in Ends
  PROVE  Channel!Other(e) = Other(e)
BY TwoEnds DEF Channel!Other

(* One step of the tunnel is one packet that enters, one that leaves, or   *)
(* no step of the channel.                                                 *)
LEMMA Histories ==
  ASSUME TypeInv, [Next]_vars
  PROVE  \/ UNCHANGED <<entered, delivered>>
         \/ \E e \in Ends : \E p \in Packets :
               /\ entered' = [entered EXCEPT ![e] = Append(@, p)]
               /\ UNCHANGED delivered
         \/ \E e \in Ends : \E bytes \in Seq(Bytes) :
               /\ delivered' = [delivered EXCEPT ![e] = Append(@, bytes)]
               /\ UNCHANGED entered
<1>1. CASE UNCHANGED vars
  BY <1>1 DEF vars
<1>2. ASSUME NEW e \in Ends, ReadTap(e)
      PROVE  \E p \in Packets : /\ entered' = [entered EXCEPT ![e] = Append(@, p)]
                                /\ UNCHANGED delivered
  <2>1. Head(tap[e]) \in Packets
    BY <1>2 DEF TypeInv, ReadTap
  <2>2. QED
    BY <1>2, <2>1 DEF ReadTap
<1>3. ASSUME NEW e \in Ends, ReadNet(e)
      PROVE  \/ UNCHANGED <<entered, delivered>>
             \/ \E bytes \in Seq(Bytes) :
                  /\ delivered' = [delivered EXCEPT ![e] = Append(@, bytes)]
                  /\ UNCHANGED entered
  <2>1. PICK k \in 1..left[e] :
          /\ k <= Len(stream[e])
          /\ \/ UNCHANGED delivered
             \/ delivered' = [delivered EXCEPT ![e] =
                                 Append(@, buffer[e] \o SubSeq(stream[e], 1, k))]
    BY <1>3 DEF ReadNet
  <2>2. buffer[e] \in Seq(Bytes) /\ stream[e] \in Seq(Bytes) /\ left[e] \in Nat /\ k \in Nat
    BY DEF TypeInv
  <2>3. buffer[e] \o SubSeq(stream[e], 1, k) \in Seq(Bytes)
    BY <2>1, <2>2, Taken
  <2>4. UNCHANGED entered
    BY <1>3 DEF ReadNet
  <2>5. QED
    BY <2>1, <2>3, <2>4
<1>4. ASSUME NEW e \in Ends,
             \/ Start(e) \/ Connect(e) \/ Accept(e) \/ Arrive(e) \/ Select(e)
             \/ WriteNet(e) \/ EndOfFile(e) \/ BrokenPipe(e) \/ Interrupt(e)
      PROVE  UNCHANGED <<entered, delivered>>
  BY <1>4 DEF Start, Connect, Accept, Arrive, Select, WriteNet, EndOfFile, BrokenPipe,
              Interrupt, Leave
<1>5. QED
  BY <1>1, <1>2, <1>3, <1>4 DEF Next, Step

(* Every behaviour of the tunnel is a behaviour of FrameChannel: packets   *)
(* come out whole, in order, once.                                         *)
THEOREM Implements == Spec => ImplementsChannel
<1>1. Init => Channel!ChannelInit
  <2> SUFFICES ASSUME Init
               PROVE  Channel!ChannelInit
    OBVIOUS
  <2>1. /\ entered = [e \in Ends |-> <<>>]
        /\ \A e \in Ends : delivered[e] = <<>>
    BY DEF Init
  <2>2. DOMAIN <<>> = {}
    OBVIOUS
  <2>3. \A e \in Ends : [i \in DOMAIN delivered[e] |-> AsPacket(delivered[e][i])] = <<>>
    BY <2>1, <2>2
  <2>4. DeliveredPackets = [e \in Ends |-> <<>>]
    BY <2>3 DEF DeliveredPackets
  <2>5. QED
    BY <2>1, <2>4 DEF Channel!ChannelInit
<1>2. TypeInv /\ TypeInv' /\ Aligned /\ Aligned' /\ [Next]_vars
        => [Channel!ChannelNext]_(Channel!channelVars)
  <2> SUFFICES ASSUME TypeInv, TypeInv', Aligned, Aligned', [Next]_vars
               PROVE  [Channel!ChannelNext]_(Channel!channelVars)
    OBVIOUS
  <2>1. CASE UNCHANGED <<entered, delivered>>
    BY <2>1 DEF Channel!channelVars, DeliveredPackets
  <2>2. ASSUME NEW e \in Ends, NEW p \in Packets,
               entered' = [entered EXCEPT ![e] = Append(@, p)], UNCHANGED delivered
        PROVE  Channel!ChannelNext
    <3>1. UNCHANGED DeliveredPackets
      BY <2>2 DEF DeliveredPackets
    <3>2. Channel!Enter(e, p)
      BY <2>2, <3>1 DEF Channel!Enter
    <3>3. QED
      BY <3>2 DEF Channel!ChannelNext
  <2>3. ASSUME NEW e \in Ends, NEW bytes \in Seq(Bytes),
               delivered' = [delivered EXCEPT ![e] = Append(@, bytes)], UNCHANGED entered
        PROVE  Channel!ChannelNext
    <3> DEFINE n == Len(delivered[e])
               sent == entered[Other(e)]
    <3>1. n \in Nat /\ sent \in Seq(Packets) /\ Len(delivered'[e]) = n + 1
      BY <2>3, TwoEnds DEF TypeInv
    <3>2. n + 1 <= Len(sent)
      BY <2>3, <3>1 DEF Aligned, Delivered
    <3>3. DeliveredPackets[e] = First(sent, n)
      BY DeliveredInOrder
    <3>4. DeliveredPackets'[e] = First(sent, n + 1)
      BY <2>3, <3>1, InOrderNext DEF InOrder
    <3>5. /\ Len(DeliveredPackets[e]) = n
          /\ DeliveredPackets'[e] = Append(DeliveredPackets[e], sent[n + 1])
      <4> HIDE DEF n, sent
      <4>1. n < Len(sent)
        BY <3>1, <3>2
      <4>2. QED
        BY <3>1, <3>3, <3>4, <4>1, FirstGrows
    <3>6. \A d \in Ends : d # e => DeliveredPackets'[d] = DeliveredPackets[d]
      <4>1. \A d \in Ends : d # e => delivered'[d] = delivered[d]
        BY <2>3 DEF TypeInv
      <4>2. QED
        BY <4>1 DEF DeliveredPackets
    <3>7. /\ DeliveredPackets = [d \in Ends |-> DeliveredPackets[d]]
          /\ DeliveredPackets' = [d \in Ends |-> DeliveredPackets'[d]]
      BY DEF DeliveredPackets
    <3>8. DeliveredPackets' = [DeliveredPackets EXCEPT ![e] = Append(@, sent[n + 1])]
      <4> HIDE DEF n, sent
      <4>1. QED
        BY <3>5, <3>6, <3>7
    <3>9. Channel!Leave(e)
      <4>1. Len(DeliveredPackets[e]) < Len(sent)
        <5> HIDE DEF n, sent
        <5>1. QED
          BY <3>1, <3>2, <3>5
      <4>2. entered' = entered
        BY <2>3
      <4>3. QED
        BY <3>5, <3>8, <4>1, <4>2, ChannelOther DEF Channel!Leave
    <3>10. QED
      BY <3>9 DEF Channel!ChannelNext
  <2>4. QED
    BY <2>1, <2>2, <2>3, Histories
<1>3. QED
  BY <1>1, <1>2, TypeInvCorrect, AlignedCorrect, PTL
  DEF Spec, ImplementsChannel, Channel!ChannelSpec

-----------------------------------------------------------------------------
(* Three frames of room *)

(* Each tap delivers packets of one size, and three frames of each end fit *)
(* in one direction of the connection.                                     *)
OneSizeEach == \A e \in Ends : \E s \in Nat : Sizes[e] = {s} /\ 3 * (s + 2) <= Capacity

FrameSize(e) == (CHOOSE s \in Nat : Sizes[e] = {s}) + 2
Room(e) == Capacity \div FrameSize(e)
MostRoom == IF Room(Client) <= Room(Server) THEN Room(Server) ELSE Room(Client)

Sized(e) ==
    /\ \A i \in 1..Len(tap[e]) : tap[e][i].size + 2 = FrameSize(e)
    /\ \A i \in 1..Len(entered[e]) : entered[e][i].size + 2 = FrameSize(e)

(* How much of the next frame e has read.                                  *)
Consumed(e) ==
    CASE pc[e] = "length" -> 2 - left[e]
      [] pc[e] = "packet" -> FrameSize(Other(e)) - left[e]
      [] OTHER -> 0

(* A byte of a packet of e that has entered is still to be written, on its *)
(* way, read, or delivered.                                                *)
Balance(e) ==
    FrameSize(e) * Len(entered[e]) =
        Len(out[e]) + Len(stream[Other(e)]) + Consumed(Other(e))
          + FrameSize(e) * Len(delivered[Other(e)])

(* By how much e, at its next select, will have read more packets from the *)
(* tap than from the connection.                                           *)
WillEnter(e) == IF pc[e] = "tap" THEN 1 ELSE 0
WillDeliver(e) ==
    IF pc[e] \in {"length", "packet"} \/ (pc[e] \in {"tap", "write"} /\ netSet[e])
    THEN 1 ELSE 0
Ahead(e) == Len(entered[e]) - Len(delivered[e]) + WillEnter(e) - WillDeliver(e)

(* An end gets further ahead only when it finds nothing to read: then no   *)
(* more is on its way than what it has sent itself.                        *)
Bounded == Ahead(Client) + Ahead(Server) <= MostRoom + 2

Steady ==
    /\ \A e \in Ends : Sized(e)
    /\ Running(Client) /\ Running(Server) => Bounded /\ \A e \in Ends : Balance(e)

LEMMA Distributes == \A f, n \in Nat : f * n \in Nat /\ f * (n + 1) = f * n + f
OBVIOUS

LEMMA Sums == \A f, m, n \in Nat : f * (m + n) = f * m + f * n
OBVIOUS

LEMMA Moves ==
  \A o, s, k, a, b \in Nat : \A c, d \in Int :
      d + b = c + k + a => o + s + c + a = o + (s - k) + d + b
OBVIOUS

LEMMA Cancel ==
  ASSUME NEW f \in Nat, f > 0, NEW m \in Int, NEW n \in Int, f * m < f * n
  PROVE  m < n
OBVIOUS

(* From f * m = x + f * n, how far m is from n.                            *)
LEMMA LessApart ==
  ASSUME NEW f \in Nat, f > 0, NEW m \in Nat, NEW n \in Nat, NEW k \in Nat, NEW x \in Int,
         f * m = x + f * n, x < f * k
  PROVE  m < n + k
<1>1. f * (n + k) = f * n + f * k /\ f * n \in Nat /\ f * k \in Nat
  BY Sums, Distributes
<1>2. f * m < f * (n + k)
  BY <1>1
<1>3. QED
  BY <1>2, Cancel

LEMMA MoreApart ==
  ASSUME NEW f \in Nat, f > 0, NEW m \in Nat, NEW n \in Nat, NEW k \in Nat, NEW x \in Int,
         f * m = x + f * n, x > f * k
  PROVE  m > n + k
<1>1. f * (n + k) = f * n + f * k /\ f * n \in Nat /\ f * k \in Nat
  BY Sums, Distributes
<1>2. f * (n + k) < f * m
  BY <1>1
<1>3. n + k < m
  BY <1>2, Cancel
<1>4. QED
  BY <1>3

LEMMA Division ==
  ASSUME NEW c \in Nat, NEW f \in Nat, f > 0
  PROVE  /\ c \div f \in Nat
         /\ f * (c \div f) <= c
         /\ c < f * ((c \div f) + 1)
OBVIOUS

LEMMA FrameSizes ==
  ASSUME OneSizeEach, NEW e \in Ends
  PROVE  /\ FrameSize(e) \in Nat /\ FrameSize(e) >= 3
         /\ \A s \in Sizes[e] : s + 2 = FrameSize(e)
         /\ Room(e) \in Nat /\ Room(e) >= 3
         /\ FrameSize(e) * Room(e) <= Capacity
         /\ Capacity < FrameSize(e) * (Room(e) + 1)
<1> DEFINE s == CHOOSE n \in Nat : Sizes[e] = {n}
           f == FrameSize(e)
<1>1. /\ s \in Nat /\ Sizes[e] = {s}
      /\ 3 * (s + 2) <= Capacity
  <2>1. PICK n \in Nat : Sizes[e] = {n} /\ 3 * (n + 2) <= Capacity
    BY DEF OneSizeEach
  <2>2. s \in Nat /\ Sizes[e] = {s}
    BY <2>1
  <2>3. s = n
    BY <2>1, <2>2
  <2>4. QED
    BY <2>1, <2>2, <2>3
<1>2. s # 0
  BY <1>1, SizesAssumption
<1>3. f = s + 2
  BY DEF FrameSize
<1> HIDE DEF s
<1>4. f \in Nat /\ f >= 3 /\ 3 * f <= Capacity
  BY <1>1, <1>2, <1>3
<1>5. \A n \in Sizes[e] : n + 2 = f
  BY <1>1, <1>3
<1> HIDE DEF f
<1>6. /\ Capacity \div f \in Nat
      /\ f * (Capacity \div f) <= Capacity
      /\ Capacity < f * ((Capacity \div f) + 1)
  BY <1>4, Division, BoundsAssumption
<1>7. PICK r \in Nat : r = Capacity \div f
  BY <1>6
<1>8. f * 3 < f * (r + 1)
  <2>1. f * 3 = 3 * f /\ f * 3 \in Nat
    BY <1>4
  <2>2. f * (r + 1) \in Nat /\ Capacity < f * (r + 1)
    BY <1>4, <1>6, <1>7
  <2>3. QED
    BY <1>4, <2>1, <2>2, BoundsAssumption
<1>9. r >= 3
  BY <1>4, <1>8, Cancel
<1>10. Room(e) = r
  BY <1>7 DEF Room, f
<1>11. QED
  BY <1>4, <1>5, <1>6, <1>7, <1>9, <1>10 DEF f
LEMMA ConsumedType ==
  ASSUME OneSizeEach, TypeInv, NEW e \in Ends
  PROVE  Consumed(e) \in Int
<1>1. left[e] \in Nat /\ FrameSize(Other(e)) \in Nat
  BY TwoEnds, FrameSizes DEF TypeInv
<1>2. QED
  BY <1>1 DEF Consumed

(* Neither end moves.                                                      *)
LEMMA SetupSteady ==
  ASSUME TypeInv, Steady, NEW e \in Ends, Start(e) \/ Connect(e) \/ Accept(e)
  PROVE  Steady'
<1>1. /\ UNCHANGED <<tap, netSet, out, left, stream, entered, delivered>>
      /\ {pc[e], pc'[e]} \subseteq {"start", "connect", "accept", "select", "ended"}
      /\ pc[e] # "ended"
      /\ \A d \in Ends : d # e => pc'[d] = pc[d]
  BY DEF Start, Connect, Accept, TypeInv
<1>2. \A d \in Ends : Sized(d)'
  BY <1>1 DEF Steady, Sized, FrameSize
<1>3. \A d \in Ends : Running(d)' => Running(d)
  BY <1>1 DEF Running
<1>4. \A d \in Ends : Consumed(d)' = Consumed(d) /\ Ahead(d)' = Ahead(d)
  BY <1>1, TwoEnds DEF Consumed, Ahead, WillEnter, WillDeliver, FrameSize
<1>5. \A d \in Ends : Balance(d) => Balance(d)'
  BY <1>1, <1>4, TwoEnds DEF Balance, FrameSize
<1>6. Bounded => Bounded'
  BY <1>4 DEF Bounded, Ends, MostRoom, Room, FrameSize
<1>7. QED
  BY <1>2, <1>3, <1>5, <1>6 DEF Steady, Ends

LEMMA ArriveSteady ==
  ASSUME OneSizeEach, TypeInv, Steady, NEW e \in Ends, Arrive(e)
  PROVE  Steady'
<1>1. PICK s \in Sizes[e] :
        tap' = [tap EXCEPT ![e] = Append(@, Packet(e, Len(entered[e]) + Len(tap[e]) + 1, s))]
  BY DEF Arrive
<1> DEFINE p == Packet(e, Len(entered[e]) + Len(tap[e]) + 1, s)
<1>2. UNCHANGED <<pc, netSet, out, left, stream, entered, delivered>>
  BY DEF Arrive
<1>3. p.size + 2 = FrameSize(e)
  BY FrameSizes DEF Packet
<1> HIDE DEF p
<1>4. /\ tap[e] \in Seq(Packets) /\ tap'[e] = Append(tap[e], p)
      /\ \A d \in Ends : d # e => tap'[d] = tap[d]
  BY <1>1 DEF TypeInv, p
<1>5. /\ Len(tap'[e]) = Len(tap[e]) + 1
      /\ tap'[e][Len(tap[e]) + 1] = p
      /\ \A i \in 1..Len(tap[e]) : tap'[e][i] = tap[e][i]
  BY <1>4
<1>6. \A i \in 1..Len(tap'[e]) : i \in 1..Len(tap[e]) \/ i = Len(tap[e]) + 1
  BY <1>4, <1>5
<1>7. FrameSize(e)' = FrameSize(e)
  BY DEF FrameSize
<1>8. Sized(e)'
  BY <1>2, <1>3, <1>5, <1>6, <1>7 DEF Steady, Sized
<1>9. \A d \in Ends : d # e => Sized(d)'
  BY <1>2, <1>4, ZenonT(60) DEF Steady, Sized, FrameSize
<1>10. \A d \in Ends : Balance(d) => Balance(d)'
  BY <1>2 DEF Balance, Consumed, FrameSize
<1>11. Bounded => Bounded'
  BY <1>2 DEF Bounded, Ahead, WillEnter, WillDeliver, MostRoom, Room, FrameSize
<1>12. QED
  BY <1>2, <1>8, <1>9, <1>10, <1>11 DEF Steady, Running

(* An end that has ended is ahead of nothing.                              *)
LEMMA LeaveSteady ==
  ASSUME TypeInv, Steady, NEW e \in Ends, Leave(e)
  PROVE  Steady'
<1>1. UNCHANGED <<tap, entered>> /\ pc'[e] = "ended"
  BY DEF Leave, TypeInv
<1>2. ~Running(e)' /\ (e = Client \/ e = Server)
  BY <1>1 DEF Running, Ends
<1>3. \A d \in Ends : Sized(d)'
  BY <1>1 DEF Steady, Sized, FrameSize
<1>4. QED
  BY <1>2, <1>3 DEF Steady
(* The packet enters when it is written, not before.                       *)
LEMMA ReadTapSteady ==
  ASSUME OneSizeEach, TypeInv, Steady, NEW e \in Ends, ReadTap(e)
  PROVE  Steady'
<1> DEFINE f == Other(e)
           p == Head(tap[e])
           F == FrameSize(e)
           n == Len(entered[e])
<1>1. f \in Ends /\ f # e /\ Other(f) = e /\ \A d \in Ends : d = e \/ d = f
  BY TwoEnds
<1>2. tap[e] \in Seq(Packets) /\ tap[e] # <<>> /\ entered[e] \in Seq(Packets)
  BY DEF TypeInv, ReadTap
<1>3. /\ p = tap[e][1] /\ p \in Packets
      /\ Len(Tail(tap[e])) = Len(tap[e]) - 1 /\ Len(tap[e]) > 0
      /\ \A i \in 1..(Len(tap[e]) - 1) : Tail(tap[e])[i] = tap[e][i + 1]
  BY <1>2
<1>4. p.size + 2 = F
  BY <1>2, <1>3 DEF Steady, Sized
<1>5. /\ entered'[e] = Append(entered[e], p) /\ entered'[f] = entered[f]
      /\ tap'[e] = Tail(tap[e]) /\ tap'[f] = tap[f]
      /\ out[e] = <<>> /\ out'[e] = Frame(p) /\ out'[f] = out[f]
      /\ pc[e] = "tap" /\ pc'[e] = "write" /\ pc'[f] = pc[f]
      /\ UNCHANGED <<netSet, left, stream, delivered>>
  BY <1>1 DEF ReadTap, TypeInv
<1>6. Len(out'[e]) = F /\ Len(out[e]) = 0
  BY <1>3, <1>4, <1>5, FrameTypes
<1>7. FrameSize(e)' = F /\ FrameSize(f)' = FrameSize(f) /\ F \in Nat
  BY FrameSizes DEF FrameSize
<1> HIDE DEF p, F
<1>8. /\ n \in Nat /\ Len(entered'[e]) = n + 1
      /\ entered'[e][n + 1] = p
      /\ \A i \in 1..n : entered'[e][i] = entered[e][i]
  BY <1>2, <1>3, <1>5
<1>9. Sized(e)'
  <2>1. \A i \in 1..Len(tap'[e]) : tap'[e][i].size + 2 = F
    <3>1. \A i \in 1..(Len(tap[e]) - 1) : i + 1 \in 1..Len(tap[e])
      BY <1>2
    <3>2. QED
      BY <1>3, <1>5, <3>1 DEF Steady, Sized, F
  <2>2. \A i \in 1..(n + 1) : entered'[e][i].size + 2 = F
    <3>1. \A i \in 1..(n + 1) : i \in 1..n \/ i = n + 1
      BY <1>8
    <3>2. QED
      BY <1>4, <1>8, <3>1 DEF Steady, Sized, F
  <2>3. QED
    BY <1>7, <1>8, <2>1, <2>2 DEF Sized
<1>10. Sized(f)'
  BY <1>1, <1>5, <1>7 DEF Steady, Sized
<1>11. Consumed(e)' = Consumed(e) /\ Consumed(f)' = Consumed(f)
  BY <1>1, <1>5, <1>7 DEF Consumed, F
<1>12. ASSUME Balance(e), Balance(f)
       PROVE  Balance(e)' /\ Balance(f)'
  <2>1. Balance(f)'
    BY <1>1, <1>5, <1>7, <1>11, <1>12 DEF Balance
  <2>2. F * n = 0 + Len(stream[f]) + Consumed(f) + F * Len(delivered[f])
    BY <1>6, <1>12 DEF Balance, F
  <2>3. F * (n + 1) = F + Len(stream[f]) + Consumed(f) + F * Len(delivered[f])
    <3>1. F * (n + 1) = F * n + F
      BY <1>7, <1>8, Distributes
    <3>2. Len(delivered[f]) \in Nat /\ Len(stream[f]) \in Nat
      BY <1>1 DEF TypeInv
    <3>3. F * Len(delivered[f]) \in Nat
      BY <1>7, <3>2, Distributes, Zenon
    <3>4. Consumed(f) \in Int
      BY <1>1, ConsumedType
    <3>5. \A s, b \in Nat : \A c \in Int : (0 + s + c + b) + F = F + s + c + b
      BY <1>7
    <3>6. QED
      BY <2>2, <3>1, <3>2, <3>3, <3>4, <3>5, ZenonT(60)
  <2>4. Balance(e)'
    BY <1>1, <1>5, <1>6, <1>7, <1>8, <1>11, <2>3, Zenon DEF Balance
  <2>5. QED
    BY <2>1, <2>4
<1>13. Bounded => Bounded'
  <2>1. Ahead(e)' = Ahead(e)
    <3>1. Len(delivered[e]) \in Nat
      BY DEF TypeInv
    <3>2. WillEnter(e) = 1 /\ WillEnter(e)' = 0 /\ WillDeliver(e)' = WillDeliver(e)
      BY <1>5 DEF WillEnter, WillDeliver
    <3>3. WillDeliver(e) \in Nat /\ delivered' = delivered
      BY <1>5 DEF WillDeliver
    <3>4. QED
      <4>1. \A m, d, w \in Nat : (m + 1) - d + 0 - w = m - d + 1 - w
        OBVIOUS
      <4>2. Ahead(e) = n - Len(delivered[e]) + 1 - WillDeliver(e)
        BY <3>2, Zenon DEF Ahead
      <4>3. Ahead(e)' = (n + 1) - Len(delivered[e]) + 0 - WillDeliver(e)
        BY <1>8, <3>2, <3>3, Zenon DEF Ahead
      <4>4. QED
        BY <1>8, <3>1, <3>3, <4>1, <4>2, <4>3, Zenon
  <2>2. Ahead(f)' = Ahead(f)
    BY <1>5 DEF Ahead, WillEnter, WillDeliver
  <2>3. MostRoom' = MostRoom
    BY DEF MostRoom, Room, FrameSize
  <2>4. QED
    BY <1>1, <2>1, <2>2, <2>3 DEF Bounded, Ends
<1>14. \A d \in Ends : Running(d)' = Running(d)
  BY <1>1, <1>5 DEF Running
<1>15. QED
  BY <1>1, <1>9, <1>10, <1>12, <1>13, <1>14 DEF Steady, Ends
(* A byte that is written is on its way.                                   *)
LEMMA WriteNetSteady ==
  ASSUME OneSizeEach, TypeInv, Aligned, Steady, NEW e \in Ends, WriteNet(e)
  PROVE  Steady'
<1> DEFINE f == Other(e)
<1>1. f \in Ends /\ f # e /\ Other(f) = e /\ \A d \in Ends : d = e \/ d = f
  BY TwoEnds
<1>2. /\ UNCHANGED <<tap, netSet, left, entered, delivered>>
      /\ out'[f] = out[f] /\ stream'[e] = stream[e] /\ pc'[f] = pc[f]
      /\ out'[e] = Tail(out[e]) /\ stream'[f] = Append(stream[f], Head(out[e]))
      /\ pc[e] = "write"
  BY <1>1, Zenon DEF WriteNet, TypeInv
<1>3. \/ pc'[e] = "write"
      \/ pc'[e] = "length" /\ netSet[e]
      \/ pc'[e] = "select" /\ ~netSet[e]
  BY DEF WriteNet, TypeInv
<1>4. /\ Len(out[e]) \in Nat /\ Len(out[e]) > 0 /\ Len(out'[e]) = Len(out[e]) - 1
      /\ Len(stream[f]) \in Nat /\ Len(stream'[f]) = Len(stream[f]) + 1
  <2>1. out[e] \in Seq(Bytes) /\ out[e] # <<>> /\ stream[f] \in Seq(Bytes)
    BY <1>1, <1>2 DEF TypeInv
  <2>2. QED
    BY <1>2, <2>1
<1>5. \A d \in Ends : FrameSize(d)' = FrameSize(d)
  BY DEF FrameSize
<1>6. \A d \in Ends : Sized(d)'
  BY <1>2, <1>5 DEF Steady, Sized
<1>7. Consumed(e) = 0 /\ Consumed(e)' = 0 /\ Consumed(f)' = Consumed(f)
  <2>1. left[e] = 2
    BY <1>2 DEF Aligned, Counted
  <2>2. QED
    BY <1>1, <1>2, <1>3, <1>5, <2>1 DEF Consumed
<1>8. ASSUME Balance(f)
      PROVE  Balance(f)'
  BY <1>1, <1>2, <1>5, <1>7, <1>8, Zenon DEF Balance
<1>9. ASSUME Balance(e)
      PROVE  Balance(e)'
  <2> DEFINE F == FrameSize(e)
  <2>1. F * Len(entered[e]) = Len(out[e]) + Len(stream[f]) + Consumed(f) + F * Len(delivered[f])
    BY <1>9, Zenon DEF Balance
  <2>2. \A o, s \in Nat : \A c, b \in Int : o + s + c + b = (o - 1) + (s + 1) + c + b
    OBVIOUS
  <2>3. Consumed(f) \in Int
    BY <1>1, ConsumedType
  <2>4. F \in Nat /\ Len(delivered[f]) \in Nat
    BY <1>1, FrameSizes DEF TypeInv
  <2>5. F * Len(delivered[f]) \in Int
    BY <2>4, Distributes
  <2>6. F * Len(entered[e])
          = Len(out'[e]) + Len(stream'[f]) + Consumed(f)' + F * Len(delivered[f])
    <3> HIDE DEF F
    <3>1. Len(out[e]) + Len(stream[f]) + Consumed(f) + F * Len(delivered[f])
            = (Len(out[e]) - 1) + (Len(stream[f]) + 1) + Consumed(f) + F * Len(delivered[f])
      BY <1>4, <2>2, <2>3, <2>5, Zenon
    <3>2. QED
      BY <1>4, <1>7, <2>1, <3>1, Zenon
  <2>7. QED
    BY <1>2, <1>5, <2>6, Zenon DEF Balance
<1>10. Bounded => Bounded'
  <2>1. WillEnter(e)' = WillEnter(e) /\ WillDeliver(e)' = WillDeliver(e)
    BY <1>2, <1>3 DEF WillEnter, WillDeliver
  <2>2. WillEnter(f)' = WillEnter(f) /\ WillDeliver(f)' = WillDeliver(f)
    BY <1>2 DEF WillEnter, WillDeliver
  <2>3. Ahead(e)' = Ahead(e) /\ Ahead(f)' = Ahead(f)
    BY <1>2, <2>1, <2>2 DEF Ahead
  <2>4. MostRoom' = MostRoom
    BY DEF MostRoom, Room, FrameSize
  <2>5. QED
    BY <1>1, <2>3, <2>4 DEF Bounded, Ends
<1>11. \A d \in Ends : Running(d)' = Running(d)
  BY <1>1, <1>2, <1>3 DEF Running
<1>12. QED
  BY <1>1, <1>6, <1>8, <1>9, <1>10, <1>11 DEF Steady, Ends
(* What e has read and what it has delivered grow by what it takes from    *)
(* the stream.                                                             *)
LEMMA ReadNetSteady ==
  ASSUME OneSizeEach, TypeInv, TypeInv', Aligned, Aligned', Steady,
         NEW e \in Ends, ReadNet(e)
  PROVE  Steady'
<1> DEFINE f == Other(e)
           F == FrameSize(f)
<1>1. PICK k \in 1..left[e], bytes \in Seq(Bytes) :
        /\ k <= Len(stream[e])
        /\ stream'[e] = SubSeq(stream[e], k + 1, Len(stream[e]))
        /\ \A d \in Ends : d # e =>
              /\ pc'[d] = pc[d] /\ left'[d] = left[d]
              /\ delivered'[d] = delivered[d] /\ stream'[d] = stream[d]
        /\ \/ /\ k < left[e]
              /\ left'[e] = left[e] - k
              /\ pc'[e] = pc[e] /\ delivered'[e] = delivered[e]
           \/ /\ k = left[e] /\ pc[e] = "length" /\ buffer'[e] = <<>>
              /\ pc'[e] = "packet" /\ delivered'[e] = delivered[e]
           \/ /\ k = left[e] /\ pc[e] = "packet"
              /\ pc'[e] = "select" /\ delivered'[e] = Append(delivered[e], bytes)
  BY ReadCases
<1>2. f \in Ends /\ f # e /\ Other(f) = e /\ \A d \in Ends : d = e \/ d = f
  BY TwoEnds
<1>3. UNCHANGED <<tap, netSet, out, entered>> /\ pc[e] \in {"length", "packet"}
  BY DEF ReadNet
<1>4. \A d \in Ends : FrameSize(d)' = FrameSize(d)
  BY DEF FrameSize
<1>5. \A d \in Ends : Sized(d)'
  BY <1>3, <1>4 DEF Steady, Sized
<1>6. /\ left[e] \in Nat /\ k \in Nat /\ k > 0
      /\ Len(stream[e]) \in Nat /\ Len(stream'[e]) = Len(stream[e]) - k
      /\ Len(delivered[e]) \in Nat
      /\ delivered'[e] = Append(delivered[e], bytes) => Len(delivered'[e]) = Len(delivered[e]) + 1
  <2>1. stream[e] \in Seq(Bytes) /\ delivered[e] \in Seq(Seq(Bytes)) /\ left[e] \in Nat
    BY DEF TypeInv
  <2>2. Len(stream[e]) \in Nat /\ k \in Nat /\ k > 0 /\ k <= Len(stream[e])
    BY <1>1, <2>1
  <2>3. Len(stream'[e]) = Len(stream[e]) - k
    BY <1>1, <2>1, <2>2
  <2>4. QED
    BY <2>1, <2>2, <2>3
<1>7. F \in Nat
  BY <1>2, FrameSizes
<1>8. Consumed(f)' = Consumed(f)
  BY <1>1, <1>2, <1>4 DEF Consumed
<1>9. ASSUME Balance(e)
      PROVE  Balance(e)'
  BY <1>1, <1>2, <1>3, <1>4, <1>8, <1>9, Zenon DEF Balance
<1>10. Consumed(e) \in Int /\ Consumed(e)' \in Int
       /\ Consumed(e)' + F * Len(delivered'[e]) = Consumed(e) + k + F * Len(delivered[e])
  <2>1. CASE /\ k < left[e] /\ left'[e] = left[e] - k
             /\ pc'[e] = pc[e] /\ delivered'[e] = delivered[e]
    <3>1. /\ Consumed(e) \in Int /\ Consumed(e)' \in Int
          /\ Consumed(e)' = Consumed(e) + k
      <4>1. CASE pc[e] = "length"
        <5>1. Consumed(e) = 2 - left[e] /\ Consumed(e)' = 2 - (left[e] - k)
          BY <2>1, <4>1, Zenon DEF Consumed
        <5>2. QED
          BY <1>6, <5>1, SMTT(30)
      <4>2. CASE pc[e] = "packet"
        <5>1. Consumed(e) = F - left[e] /\ Consumed(e)' = F - (left[e] - k)
          BY <1>2, <1>4, <2>1, <4>2, Zenon DEF Consumed
        <5> HIDE DEF F
        <5>2. QED
          BY <1>6, <1>7, <5>1, SMTT(30)
      <4>3. QED
        BY <1>3, <4>1, <4>2
    <3>2. F * Len(delivered[e]) \in Nat
      BY <1>6, <1>7, Distributes, Zenon
    <3>3. QED
      BY <2>1, <3>1, Zenon
  <2>2. CASE /\ k = left[e] /\ pc[e] = "length" /\ buffer'[e] = <<>>
             /\ pc'[e] = "packet" /\ delivered'[e] = delivered[e]
    <3> DEFINE w == WantedPacket(e)'
    <3>1. w <= Len(entered[f]) /\ Len(buffer'[e]) + left'[e] = entered[f][w].size
      BY <1>3, <2>2, Zenon DEF Aligned, Counted
    <3>2. w \in 1..Len(entered[f]) /\ entered[f][w] \in Packets
      <4>1. w \in Nat /\ w > 0
        BY <1>6, <2>2 DEF WantedPacket
      <4>2. entered[f] \in Seq(Packets)
        BY <1>2 DEF TypeInv
      <4> HIDE DEF w
      <4>3. QED
        BY <3>1, <4>1, <4>2
    <3>3. entered[f][w].size + 2 = F
      BY <1>2, <3>2 DEF Steady, Sized
    <3>4. left'[e] + 2 = F
      <4>1. left'[e] \in Nat /\ Len(buffer'[e]) = 0
        BY <2>2 DEF TypeInv
      <4> HIDE DEF w, F
      <4>2. QED
        BY <3>1, <3>3, <4>1
    <3>5. left'[e] \in Nat
      BY DEF TypeInv
    <3>6. Consumed(e)' = 2
      BY <1>2, <1>4, <2>2, <3>4, <3>5 DEF Consumed
    <3>7. Consumed(e) = 2 - k
      BY <2>2 DEF Consumed
    <3>8. QED
      BY <1>6, <2>2, <3>6, <3>7
  <2>3. CASE /\ k = left[e] /\ pc[e] = "packet"
             /\ pc'[e] = "select" /\ delivered'[e] = Append(delivered[e], bytes)
    <3>1. Consumed(e) = F - k /\ Consumed(e)' = 0
      BY <2>3 DEF Consumed
    <3> HIDE DEF F
    <3>2. F * Len(delivered'[e]) = F * Len(delivered[e]) + F
      BY <1>6, <1>7, <2>3, Distributes
    <3>3. F * Len(delivered[e]) \in Nat
      BY <1>6, <1>7, Distributes
    <3>4. \A b \in Nat : 0 + (b + F) = (F - k) + k + b
      BY <1>6, <1>7
    <3>5. F - k \in Int /\ 0 \in Int
      BY <1>6, <1>7
    <3>6. QED
      BY <3>1, <3>2, <3>3, <3>4, <3>5, Zenon
  <2>4. QED
    BY <1>1, <2>1, <2>2, <2>3
<1>11. ASSUME Balance(f)
       PROVE  Balance(f)'
  <2> DEFINE a == F * Len(delivered[e])
             b == F * Len(delivered'[e])
  <2>1. F * Len(entered[f]) = Len(out[f]) + Len(stream[e]) + Consumed(e) + a
    BY <1>2, <1>11, Zenon DEF Balance
  <2>2. a \in Nat /\ b \in Nat
    <3>1. Len(delivered'[e]) \in Nat
      BY DEF TypeInv
    <3>2. QED
      BY <1>6, <1>7, <3>1, Distributes, Zenon
  <2>3. Len(out[f]) \in Nat
    BY <1>2 DEF TypeInv
  <2>4. Len(out[f]) + Len(stream[e]) + Consumed(e) + a
          = Len(out[f]) + Len(stream'[e]) + Consumed(e)' + b
    <3>1. Consumed(e)' + b = Consumed(e) + k + a
      BY <1>10
    <3>2. PICK c \in Int, d \in Int : c = Consumed(e) /\ d = Consumed(e)'
      BY <1>10
    <3> HIDE DEF a, b, F
    <3>3. d + b = c + k + a
      BY <3>1, <3>2, Zenon
    <3>4. PICK o \in Nat, s \in Nat : o = Len(out[f]) /\ s = Len(stream[e])
      BY <1>6, <2>3
    <3>5. k \in Nat
      BY <1>6
    <3>6. o + s + c + a = o + (s - k) + d + b
      BY <2>2, <3>3, <3>5, Moves
    <3>7. QED
      BY <1>6, <3>2, <3>4, <3>6, Zenon
  <2>5. F * Len(entered[f]) = Len(out[f]) + Len(stream'[e]) + Consumed(e)' + b
    BY <2>1, <2>4, Zenon
  <2>6. QED
    BY <1>2, <1>3, <1>4, <2>5, Zenon DEF Balance
<1>12. Bounded => Bounded'
  <2>1. WillEnter(e) = 0 /\ WillEnter(e)' = 0 /\ WillDeliver(e) = 1
    BY <1>1, <1>3 DEF WillEnter, WillDeliver
  <2>2. \/ WillDeliver(e)' = 1 /\ Len(delivered'[e]) = Len(delivered[e])
        \/ WillDeliver(e)' = 0 /\ Len(delivered'[e]) = Len(delivered[e]) + 1
    BY <1>1, <1>3, <1>6 DEF WillDeliver
  <2>3. Len(entered[e]) \in Nat /\ entered' = entered
    BY <1>3 DEF TypeInv
  <2>4. Ahead(e)' = Ahead(e)
    <3>1. Ahead(e) = Len(entered[e]) - Len(delivered[e]) + 0 - 1
      BY <2>1, Zenon DEF Ahead
    <3>2. Ahead(e)' = Len(entered[e]) - Len(delivered'[e]) + 0 - WillDeliver(e)'
      BY <2>1, <2>3, Zenon DEF Ahead
    <3>3. \A n, d \in Nat : n - d + 0 - 1 = n - (d + 1) + 0 - 0
      OBVIOUS
    <3>4. Len(entered[e]) - Len(delivered[e]) + 0 - 1
            = Len(entered[e]) - (Len(delivered[e]) + 1) + 0 - 0
      BY <1>6, <2>3, <3>3, Zenon
    <3>5. QED
      BY <2>2, <3>1, <3>2, <3>4, Zenon
  <2>5. Ahead(f)' = Ahead(f)
    BY <1>1, <1>2, <1>3 DEF Ahead, WillEnter, WillDeliver
  <2>6. MostRoom' = MostRoom
    BY DEF MostRoom, Room, FrameSize
  <2>7. QED
    BY <1>2, <2>4, <2>5, <2>6 DEF Bounded, Ends
<1>13. \A d \in Ends : Running(d)' => Running(d)
  BY <1>1, <1>2, <1>3 DEF Running
<1>14. QED
  BY <1>2, <1>5, <1>9, <1>11, <1>12, <1>13 DEF Steady, Ends
(* An end that finds nothing to read has delivered all that entered at the *)
(* other end, but for the packet that is being written there.              *)
LEMMA NothingToRead ==
  ASSUME OneSizeEach, TypeInv, Aligned, Steady, NEW e \in Ends,
         Balance(Other(e)), Consumed(e) = 0, stream[e] = <<>>
  PROVE  Len(entered[Other(e)]) + WillEnter(Other(e)) <= Len(delivered[e]) + 1
<1> DEFINE f == Other(e)
           F == FrameSize(f)
           m == Len(entered[f])
           n == Len(delivered[e])
<1>1. f \in Ends /\ Other(f) = e
  BY TwoEnds
<1>2. F \in Nat /\ F > 0
  BY <1>1, FrameSizes
<1>3. m \in Nat /\ n \in Nat /\ Len(out[f]) \in Nat /\ Len(stream[e]) = 0
  BY <1>1 DEF TypeInv
<1>4. F * m = Len(out[f]) + F * n
  <2>1. F * m = Len(out[f]) + 0 + 0 + F * n
    BY <1>1, <1>3, Zenon DEF Balance
  <2>2. F * n \in Nat
    BY <1>2, <1>3, Distributes, Zenon
  <2>3. \A a, b \in Nat : a + 0 + 0 + b = a + b
    OBVIOUS
  <2>4. QED
    BY <1>3, <2>1, <2>2, <2>3, Zenon
<1> HIDE DEF F, m, n
<1>5. CASE out[f] = <<>>
  <2>1. F * 1 = F
    BY <1>2
  <2>2. F * m = 0 + F * n
    <3>1. Len(out[f]) = 0
      BY <1>5
    <3>2. QED
      BY <1>4, <3>1, Zenon
  <2>3. m < n + 1
    BY <1>2, <1>3, <2>1, <2>2, LessApart
  <2>4. WillEnter(f) \in {0, 1}
    BY DEF WillEnter
  <2>5. QED
    BY <1>3, <2>3, <2>4 DEF m, n
<1>6. CASE out[f] # <<>>
  <2>1. Len(out[f]) <= F
    <3>1. m > 0 /\ Len(out[f]) <= entered[f][m].size + 2
      BY <1>1, <1>6 DEF Aligned, Writer, m
    <3>2. m \in 1..Len(entered[f])
      BY <1>3, <3>1 DEF m
    <3>3. entered[f][m].size + 2 = F
      BY <1>1, <3>2 DEF Steady, Sized, F
    <3>4. QED
      BY <3>1, <3>3
  <2>2. PICK o \in Nat : o = Len(out[f])
    BY <1>3
  <2>3. o < F * 2
    BY <1>2, <2>1, <2>2
  <2>4. F * m = o + F * n
    BY <1>4, <2>2
  <2>5. m < n + 2
    BY <1>2, <1>3, <2>3, <2>4, LessApart
  <2>6. WillEnter(f) = 0
    BY <1>1, <1>6 DEF TypeInv, WillEnter
  <2>7. QED
    BY <1>3, <2>5, <2>6 DEF m, n
<1>7. QED
  BY <1>5, <1>6

(* With nothing left to write, what has entered and is not delivered fits  *)
(* in the stream, but for the packet that is being read.                   *)
LEMMA NothingToWrite ==
  ASSUME OneSizeEach, TypeInv, Aligned, NEW e \in Ends, Balance(e), out[e] = <<>>
  PROVE  Len(entered[e]) <= Len(delivered[Other(e)]) + Room(e) + WillDeliver(Other(e))
<1> DEFINE f == Other(e)
           F == FrameSize(e)
           r == Room(e)
           m == Len(entered[e])
           n == Len(delivered[f])
<1>1. f \in Ends /\ Other(f) = e
  BY TwoEnds
<1>2. F \in Nat /\ F >= 3 /\ r \in Nat /\ Capacity < F * (r + 1)
  BY FrameSizes
<1>3. /\ m \in Nat /\ n \in Nat /\ Len(out[e]) = 0
      /\ Len(stream[f]) \in Nat /\ Len(stream[f]) <= Capacity
  BY <1>1 DEF TypeInv, Aligned
<1>4. F * m = Len(stream[f]) + Consumed(f) + F * n
  <2>1. F * m = 0 + Len(stream[f]) + Consumed(f) + F * n
    BY <1>3, Zenon DEF Balance
  <2>2. 0 + Len(stream[f]) = Len(stream[f])
    BY <1>3
  <2>3. QED
    BY <2>1, <2>2, Zenon
<1>5. PICK c \in Int : c = Consumed(f)
  BY <1>1, ConsumedType
<1>6. left[f] \in Nat
  BY <1>1 DEF TypeInv
<1> HIDE DEF F, r, m, n
<1>7. PICK s \in Nat : s = Len(stream[f])
  BY <1>3
<1>8. F * m = (s + c) + F * n /\ s + c \in Int /\ s < F * (r + 1)
  <2>1. F * (r + 1) \in Nat
    BY <1>2, Distributes
  <2>2. s < F * (r + 1)
    BY <1>2, <1>3, <1>7, <2>1, BoundsAssumption
  <2>3. F * m = (s + c) + F * n
    BY <1>4, <1>5, <1>7, Zenon
  <2>4. QED
    BY <2>2, <2>3
<1>9. CASE pc[f] \in {"length", "packet"}
  <2>1. c <= F
    <3>1. c = 2 - left[f] \/ c = F - left[f]
      BY <1>1, <1>5, <1>9 DEF Consumed, F
    <3>2. QED
      BY <1>2, <1>6, <3>1
  <2>2. s + c < F * (r + 2)
    <3>1. F * ((r + 1) + 1) = F * (r + 1) + F
      BY <1>2, Distributes
    <3>2. (r + 1) + 1 = r + 2
      BY <1>2
    <3>3. PICK a \in Nat : a = F * (r + 1)
      BY <1>2, Distributes
    <3>4. s < a
      BY <1>8, <3>3
    <3>5. s + c < a + F
      BY <1>2, <2>1, <3>4
    <3>6. QED
      BY <3>1, <3>2, <3>3, <3>5
  <2>3. m < n + (r + 2)
    BY <1>2, <1>3, <1>8, <2>2, LessApart
  <2>4. WillDeliver(f) = 1
    BY <1>9 DEF WillDeliver
  <2>5. QED
    BY <1>2, <1>3, <2>3, <2>4, SMTT(30) DEF m, n, r
<1>10. CASE pc[f] \notin {"length", "packet"}
  <2>1. c = 0
    BY <1>5, <1>10 DEF Consumed
  <2>2. s + c < F * (r + 1)
    BY <1>8, <2>1
  <2>3. m < n + (r + 1)
    BY <1>2, <1>3, <1>8, <2>2, LessApart
  <2>4. WillDeliver(f) \in {0, 1}
    BY DEF WillDeliver
  <2>5. QED
    BY <1>2, <1>3, <2>3, <2>4, SMTT(30) DEF m, n, r
<1>11. QED
  BY <1>9, <1>10

(* A writer that finds the stream full is more than a full stream ahead.   *)
LEMMA StreamFull ==
  ASSUME OneSizeEach, TypeInv, NEW e \in Ends, Balance(e),
         pc[e] = "write", pc[Other(e)] = "write", Len(stream[Other(e)]) = Capacity
  PROVE  Len(entered[e]) > Len(delivered[Other(e)]) + Room(e)
<1> DEFINE f == Other(e)
           F == FrameSize(e)
           r == Room(e)
           m == Len(entered[e])
           n == Len(delivered[f])
           o == Len(out[e])
<1>1. f \in Ends
  BY TwoEnds
<1>2. F \in Nat /\ F > 0 /\ r \in Nat /\ F * r <= Capacity
  BY FrameSizes
<1>3. m \in Nat /\ n \in Nat /\ o \in Nat /\ o > 0
  <2>1. out[e] \in Seq(Bytes) /\ out[e] # <<>>
    BY DEF TypeInv
  <2>2. QED
    BY <1>1, <2>1 DEF TypeInv
<1>4. F * m = o + Capacity + 0 + F * n
  <2>1. Consumed(f) = 0
    BY DEF Consumed
  <2>2. QED
    BY <2>1, Zenon DEF Balance
<1> HIDE DEF F, r, m, n, o
<1>5. o + Capacity \in Nat /\ o + Capacity > F * r
  <2>1. PICK a \in Nat : a = F * r
    BY <1>2, Distributes
  <2>2. a <= Capacity
    BY <1>2, <2>1
  <2>3. o + Capacity > a
    BY <1>3, <2>2, BoundsAssumption
  <2>4. QED
    BY <1>3, <2>1, <2>3, BoundsAssumption
<1>6. F * m = (o + Capacity) + F * n
  <2>1. o + Capacity + 0 = o + Capacity
    BY <1>3, BoundsAssumption
  <2>2. QED
    BY <1>4, <2>1, Zenon
<1>7. m > n + r
  BY <1>2, <1>3, <1>5, <1>6, MoreApart
<1>8. QED
  BY <1>7 DEF m, n, r
LEMMA Leads == \A m, n \in Nat : \A a, b \in {0, 1} : m - n + a - b \in Int
OBVIOUS

(* The lead of the two grows only at an end that finds nothing to read.    *)
LEMMA SelectSteady ==
  ASSUME OneSizeEach, TypeInv, Aligned, Steady, NEW e \in Ends, Select(e)
  PROVE  Steady'
<1> DEFINE f == Other(e)
<1>1. f \in Ends /\ f # e /\ Other(f) = e /\ \A d \in Ends : d = e \/ d = f
  BY TwoEnds
<1>2. /\ UNCHANGED <<tap, out, stream, entered, delivered>>
      /\ pc[e] = "select" /\ left'[e] = 2
      /\ pc'[e] = IF tap[e] # <<>> THEN "tap" ELSE "length"
      /\ tap[e] # <<>> \/ Readable(e)
      /\ netSet'[e] = Readable(e)
      /\ pc'[f] = pc[f] /\ left'[f] = left[f] /\ netSet'[f] = netSet[f]
  BY <1>1 DEF Select, StartRead, TypeInv
<1>3. \A d \in Ends : FrameSize(d)' = FrameSize(d)
  BY DEF FrameSize
<1>4. \A d \in Ends : Sized(d)'
  BY <1>2, <1>3 DEF Steady, Sized
<1>5. Consumed(e) = 0 /\ Consumed(e)' = 0 /\ Consumed(f)' = Consumed(f)
  BY <1>1, <1>2, <1>3 DEF Consumed
<1>6. \A d \in Ends : Balance(d) => Balance(d)'
  <2>1. \A d \in Ends : Consumed(Other(d))' = Consumed(Other(d))
    BY <1>1, <1>5
  <2>2. QED
    BY <1>2, <1>3, <2>1, Zenon DEF Balance
<1>7. \A d \in Ends : Running(d)' = Running(d)
  BY <1>1, <1>2 DEF Running
<1>8. ASSUME Running(f), Bounded, Balance(e), Balance(f)
      PROVE  Bounded'
  <2> DEFINE ee == Len(entered[e])
             ef == Len(entered[f])
             de == Len(delivered[e])
             df == Len(delivered[f])
  <2>1. \/ e = Client /\ f = Server
        \/ e = Server /\ f = Client
    BY <1>1 DEF Ends
  <2>2. ee \in Nat /\ ef \in Nat /\ de \in Nat /\ df \in Nat
    BY <1>1, SMTT(30) DEF TypeInv
  <2>3. WillEnter(f) \in {0, 1} /\ WillDeliver(f) \in {0, 1}
    BY DEF WillEnter, WillDeliver
  <2>4. Ahead(f)' = ef - df + WillEnter(f) - WillDeliver(f)
    <3>1. WillEnter(f)' = WillEnter(f) /\ WillDeliver(f)' = WillDeliver(f)
      BY <1>2 DEF WillEnter, WillDeliver
    <3>2. QED
      BY <1>2, <3>1, Zenon DEF Ahead
  <2>5. Ahead(f)' = Ahead(f)
    BY <2>4, Zenon DEF Ahead
  <2>6. Ahead(e)' = ee - de + WillEnter(e)' - WillDeliver(e)'
    BY <1>2, Zenon DEF Ahead
  <2>7. /\ MostRoom' = MostRoom /\ MostRoom \in Nat /\ Room(e) <= MostRoom
    <3>1. MostRoom' = MostRoom
      BY DEF MostRoom, Room, FrameSize
    <3>2. Room(Client) \in Nat /\ Room(Server) \in Nat
      BY FrameSizes DEF Ends
    <3>3. QED
      BY <3>1, <3>2 DEF MostRoom, Ends
  <2>8. Ahead(e) + Ahead(f) <= MostRoom + 2
    <3>1. Ahead(e) \in Int /\ Ahead(f) \in Int
      <4>1. WillEnter(e) \in {0, 1} /\ WillDeliver(e) \in {0, 1}
        BY DEF WillEnter, WillDeliver
      <4>2. QED
        BY <2>2, <2>3, <4>1, Leads, Zenon DEF Ahead
    <3>2. Ahead(e) + Ahead(f) = Ahead(f) + Ahead(e)
      BY <3>1
    <3>3. QED
      BY <1>8, <2>1, <3>2, Zenon DEF Bounded
  <2>9. Ahead(e)' + Ahead(f)' <= MostRoom + 2
    <3>1. CASE Readable(e)
      <4>1. Ahead(e) = ee - de + 0 - 0
        <5>1. WillEnter(e) = 0 /\ WillDeliver(e) = 0
          BY <1>2 DEF WillEnter, WillDeliver
        <5>2. QED
          BY <5>1, Zenon DEF Ahead
      <4>2. WillEnter(e)' \in {0, 1} /\ WillDeliver(e)' = 1
        BY <1>2, <3>1 DEF WillEnter, WillDeliver
      <4> HIDE DEF ee, ef, de, df
      <4>3. PICK w \in {0, 1} : w = WillEnter(e)'
        BY <4>2
      <4>4. Ahead(e)' = ee - de + w - 1
        BY <2>6, <4>2, <4>3, Zenon
      <4>5. Ahead(f) = ef - df + WillEnter(f) - WillDeliver(f)
        BY <2>4, <2>5, Zenon
      <4>6. QED
        BY <2>2, <2>3, <2>5, <2>7, <2>8, <4>1, <4>4, <4>5
    <3>2. CASE ~Readable(e)
      <4>1. stream[e] = <<>> /\ tap[e] # <<>>
        BY <1>2, <3>2 DEF Readable
      <4>2. ef + WillEnter(f) <= de + 1
        BY <1>5, <1>8, <4>1, NothingToRead
      <4>3. out[e] = <<>>
        BY <1>2 DEF TypeInv
      <4>4. ee <= df + Room(e) + WillDeliver(f)
        BY <1>8, <4>3, NothingToWrite
      <4>5. WillEnter(e)' = 1 /\ WillDeliver(e)' = 0
        BY <1>2, <3>2, <4>1 DEF WillEnter, WillDeliver
      <4>6. Ahead(e)' = ee - de + 1 - 0
        BY <2>6, <4>5, Zenon
      <4>7. Room(e) \in Nat
        BY FrameSizes
      <4> HIDE DEF ee, ef, de, df
      <4>8. QED
        BY <2>2, <2>3, <2>4, <2>7, <4>2, <4>4, <4>6, <4>7
    <3>3. QED
      BY <3>1, <3>2
  <2>10. Ahead(e)' \in Int /\ Ahead(f)' \in Int
    <3>1. WillEnter(e)' \in {0, 1} /\ WillDeliver(e)' \in {0, 1}
      BY DEF WillEnter, WillDeliver
    <3>2. QED
      BY <2>2, <2>3, <2>4, <2>6, <3>1, Leads, Zenon
  <2>11. Ahead(e)' + Ahead(f)' = Ahead(f)' + Ahead(e)'
    BY <2>10
  <2>12. QED
    BY <2>1, <2>7, <2>9, <2>11, Zenon DEF Bounded
<1>9. QED
  BY <1>1, <1>4, <1>6, <1>7, <1>8 DEF Steady, Ends

LEMMA InitSteady ==
  ASSUME OneSizeEach, Init
  PROVE  Steady
<1>1. \A d \in Ends : /\ pc[d] = "start" /\ tap[d] = <<>> /\ entered[d] = <<>>
                      /\ delivered[d] = <<>> /\ out[d] = <<>> /\ stream[d] = <<>>
  BY DEF Init
<1>2. Len(<<>>) = 0
  OBVIOUS
<1>3. \A d \in Ends : Sized(d)
  BY <1>1, <1>2 DEF Sized
<1>4. \A d \in Ends : Consumed(d) = 0
  BY <1>1 DEF Consumed
<1>5. ASSUME NEW d \in Ends
      PROVE  Balance(d)
  <2>1. FrameSize(d) * 0 = 0 + 0 + 0 + FrameSize(d) * 0
    BY FrameSizes
  <2>2. QED
    BY <1>1, <1>2, <1>4, <2>1, TwoEnds, Zenon DEF Balance
<1>6. Bounded
  <2>1. ASSUME NEW d \in Ends
        PROVE  Ahead(d) = 0
    <3>1. WillEnter(d) = 0 /\ WillDeliver(d) = 0
      BY <1>1 DEF WillEnter, WillDeliver
    <3>2. QED
      BY <1>1, <1>2, <3>1 DEF Ahead
  <2>2. Room(Client) \in Nat /\ Room(Server) \in Nat
    BY FrameSizes DEF Ends
  <2>3. QED
    BY <2>1, <2>2 DEF Bounded, MostRoom, Ends
<1>7. QED
  BY <1>3, <1>5, <1>6 DEF Steady

(* With one size at each end and three frames of room, both ends are never *)
(* blocked: whoever fills the connection while the other does not read has *)
(* entered more packets than it delivered, and together they are not that  *)
(* far ahead.                                                              *)
THEOREM RoomForThreeFrames ==
  ASSUME OneSizeEach
  PROVE  Spec => []NeverBothBlocked
<1>1. Init => Steady
  BY InitSteady
<1>2. TypeInv /\ TypeInv' /\ Aligned /\ Aligned' /\ Steady /\ [Next]_vars => Steady'
  <2> SUFFICES ASSUME TypeInv, TypeInv', Aligned, Aligned', Steady, [Next]_vars
               PROVE  Steady'
    OBVIOUS
  <2>1. CASE UNCHANGED vars
    BY <2>1 DEF vars, Steady, Sized, Balance, Consumed, Bounded, Ahead, WillEnter, WillDeliver,
                Running, MostRoom, Room, FrameSize
  <2>2. ASSUME NEW e \in Ends, Start(e) \/ Connect(e) \/ Accept(e)
        PROVE  Steady'
    BY <2>2, SetupSteady
  <2>3. ASSUME NEW e \in Ends, EndOfFile(e) \/ BrokenPipe(e) \/ Interrupt(e)
        PROVE  Steady'
    BY <2>3, LeaveSteady DEF EndOfFile, BrokenPipe, Interrupt
  <2>4. QED
    BY <2>1, <2>2, <2>3, ArriveSteady, SelectSteady, ReadTapSteady, WriteNetSteady,
       ReadNetSteady
    DEF Next, Step
<1>3. TypeInv /\ Steady => NeverBothBlocked
  <2> SUFFICES ASSUME TypeInv, Steady, Blocked(Client), Blocked(Server)
               PROVE  FALSE
    BY DEF NeverBothBlocked
  <2> DEFINE ec == Len(entered[Client])
             es == Len(entered[Server])
             dc == Len(delivered[Client])
             ds == Len(delivered[Server])
  <2>1. Other(Client) = Server /\ Other(Server) = Client
    BY EndsAssumption DEF Other
  <2>2. Client \in Ends /\ Server \in Ends
    BY DEF Ends
  <2>3. /\ pc[Client] = "write" /\ pc[Server] = "write"
        /\ Len(stream[Client]) = Capacity /\ Len(stream[Server]) = Capacity
    BY <2>1, <2>2 DEF Blocked
  <2>4. Bounded /\ Balance(Client) /\ Balance(Server)
    BY <2>2, <2>3 DEF Steady, Running
  <2>5. ec > ds + Room(Client) /\ es > dc + Room(Server)
    BY <2>1, <2>2, <2>3, <2>4, StreamFull
  <2>6. /\ ec \in Nat /\ es \in Nat /\ dc \in Nat /\ ds \in Nat
        /\ Room(Client) \in Nat /\ Room(Server) \in Nat
        /\ Room(Client) >= 3 /\ Room(Server) >= 3
    <3>1. /\ Room(Client) \in Nat /\ Room(Server) \in Nat
          /\ Room(Client) >= 3 /\ Room(Server) >= 3
      BY <2>2, FrameSizes, Zenon
    <3>2. QED
      BY <2>2, <3>1, SMTT(30) DEF TypeInv
  <2>7. \E w \in {0, 1} : Ahead(Client) = ec - dc + 0 - w
    <3>1. WillEnter(Client) = 0 /\ WillDeliver(Client) \in {0, 1}
      BY <2>3 DEF WillEnter, WillDeliver
    <3>2. Ahead(Client) = ec - dc + 0 - WillDeliver(Client)
      BY <3>1, Zenon DEF Ahead
    <3>3. QED
      BY <3>1, <3>2
  <2>8. \E w \in {0, 1} : Ahead(Server) = es - ds + 0 - w
    <3>1. WillEnter(Server) = 0 /\ WillDeliver(Server) \in {0, 1}
      BY <2>3 DEF WillEnter, WillDeliver
    <3>2. Ahead(Server) = es - ds + 0 - WillDeliver(Server)
      BY <3>1, Zenon DEF Ahead
    <3>3. QED
      BY <3>1, <3>2
  <2> HIDE DEF ec, es, dc, ds
  <2>9. Ahead(Client) + Ahead(Server) >= Room(Client) + Room(Server)
    BY <2>5, <2>6, <2>7, <2>8
  <2>10. Ahead(Client) \in Int /\ Ahead(Server) \in Int
    BY <2>6, <2>7, <2>8
  <2>11. QED
    BY <2>4, <2>6, <2>9, <2>10 DEF Bounded, MostRoom
<1>4. QED
  BY <1>1, <1>2, <1>3, TypeInvCorrect, AlignedCorrect, PTL DEF Spec
=============================================================================
