------------------------- MODULE DhcpDiscoverProofs -------------------------
(***************************************************************************)
(* Proofs about DhcpDiscover, for any traffic on the segment, any hardware *)
(* address and any contents of the stack.  What the loop does with the     *)
(* frames it is handed does not depend on what was sent, and comes first;  *)
(* what the frame that is sent consists of comes behind it.                *)
(***************************************************************************)
EXTENDS DhcpDiscover, OctetsProofs, TLAPS

(* The variables that the loop works on have their types.                  *)
LoopTypes ==
    /\ pc \in {"start", "send", "loop", "got", "exit"}
    /\ captured \in Seq(Frames)
    /\ next \in 1..(Len(captured) + 1)
    /\ ip \in Addresses \cup {0}

(* What is captured names an address.                                      *)
LEMMA FrameFields ==
  ASSUME NEW f \in Frames
  PROVE  f.yiaddr \in Addresses /\ Addresses \subseteq Nat
BY FramesAssumption, NumbersAssumption

(* They keep them, whatever is captured and whenever it is.                *)
LEMMA LoopTypesCorrect == Spec => []LoopTypes
<1>1. Init => LoopTypes
  BY DEF Init, LoopTypes
<1>2. LoopTypes /\ [Next]_vars => LoopTypes'
  <2> SUFFICES ASSUME LoopTypes, [Next]_vars
               PROVE  LoopTypes'
    OBVIOUS
  <2>1. CASE Open
    BY <2>1 DEF LoopTypes, Open
  <2>2. CASE DhcpDiscovery
    BY <2>2 DEF LoopTypes, DhcpDiscovery
  <2>3. CASE EtherInput
    <3>1. captured[next] \in Frames /\ next + 1 \in 1..(Len(captured) + 1)
      BY <2>3 DEF LoopTypes, EtherInput
    <3>2. QED
      BY <2>3, <3>1, FrameFields DEF LoopTypes, EtherInput
  <2>4. CASE Close
    BY <2>4 DEF LoopTypes, Close
  <2>5. CASE Capture
    <3>1. captured' \in Seq(Frames) /\ Len(captured') = Len(captured) + 1
      BY <2>5 DEF LoopTypes, Capture
    <3>2. QED
      BY <2>5, <3>1 DEF LoopTypes, Capture
  <2>6. CASE DeviceDown
    BY <2>6 DEF LoopTypes, DeviceDown
  <2>7. CASE UNCHANGED vars
    BY <2>7 DEF LoopTypes, vars
  <2>8. QED
    BY <2>1, <2>2, <2>3, <2>4, <2>5, <2>6, <2>7 DEF Next, Main
<1>3. QED
  BY <1>1, <1>2, PTL DEF Spec

-----------------------------------------------------------------------------
(* What the segment adds leaves what was handed over as it was.            *)
LEMMA CaptureKeepsPast ==
  ASSUME LoopTypes, Capture
  PROVE  \A i \in 1..Len(captured) : captured'[i] = captured[i]
BY DEF LoopTypes, Capture

(* dhcp_input acts on one reply only, the first that the handle has        *)
(* captured, whatever else is on the segment: what main() reports comes of *)
(* no other frame, and is zero if there was none.                          *)
THEOREM OneReply == Spec => []OneReplyTaken
<1>1. Init => OneReplyTaken
  BY DEF Init, OneReplyTaken, NoReplyBefore
<1>2. LoopTypes /\ OneReplyTaken /\ [Next]_vars => OneReplyTaken'
  <2> SUFFICES ASSUME LoopTypes, OneReplyTaken, [Next]_vars
               PROVE  OneReplyTaken'
    OBVIOUS
  <2> USE DEF OneReplyTaken, NoReplyBefore
  <2>1. CASE Open
    BY <2>1 DEF Open
  <2>2. CASE DhcpDiscovery
    BY <2>2 DEF DhcpDiscovery
  <2>3. CASE EtherInput
    <3>1. /\ next \in 1..Len(captured) /\ next' = next + 1
          /\ UNCHANGED captured
          /\ \A i \in 1..(next - 1) : ~IsReply(captured[i])
          /\ pc = "loop" /\ ip = 0
      BY <2>3 DEF LoopTypes, EtherInput
    <3>2. \A i \in 1..(next' - 1) : i \in 1..(next - 1) \/ i = next
      BY <3>1
    <3>3. CASE IsReply(captured[next])
      <4>1. pc' = "got" /\ ip' = captured[next].yiaddr
        BY <2>3, <3>3 DEF EtherInput
      <4>2. QED
        BY <3>1, <3>3, <4>1
    <3>4. CASE ~IsReply(captured[next])
      <4>1. pc' = "loop" /\ ip' = 0
        BY <2>3, <3>1, <3>4 DEF EtherInput
      <4>2. QED
        BY <3>1, <3>2, <3>4, <4>1
    <3>5. QED
      BY <3>3, <3>4
  <2>4. CASE Close
    BY <2>4 DEF Close
  <2>5. CASE Capture
    <3>1. /\ \A i \in 1..(next - 1) : i \in 1..Len(captured)
          /\ Len(captured') = Len(captured) + 1
          /\ pc \in {"send", "loop"} /\ UNCHANGED <<pc, next, ip>>
      BY <2>5 DEF LoopTypes, Capture
    <3>2. \A i \in 1..(next - 1) : ~IsReply(captured'[i])
      BY <2>5, <3>1, CaptureKeepsPast
    <3>3. QED
      BY <3>1, <3>2
  <2>6. CASE DeviceDown
    BY <2>6 DEF DeviceDown
  <2>7. CASE UNCHANGED vars
    BY <2>7 DEF vars
  <2>8. QED
    BY <2>1, <2>2, <2>3, <2>4, <2>5, <2>6, <2>7 DEF Next, Main
<1>3. QED
  BY <1>1, <1>2, LoopTypesCorrect, PTL DEF Spec
-----------------------------------------------------------------------------
(* One's complement arithmetic in two steps, for a sum of at most 32 bits  *)
Once(s) == (s \div 65536) + (s % 65536)
Twice(s) == Once(s) + (Once(s) \div 65536)
InRange(s) == s > 0 /\ s < 65536 * 65536
Complemented(s, c, q) == c >= 0 /\ c <= 65535 /\ s + c = 65535 * q
                          /\ c = (65535 - Twice(s)) % 65536

(* A sum whose carries leave no carry                                      *)
LEMMA NoCarry ==
  ASSUME NEW s \in Nat, InRange(s), Once(s) < 65536
  PROVE  \E c, q \in Nat : Complemented(s, c, q)
<1>1. PICK h \in Nat, l \in Nat : s = 65536 * h + l /\ l < 65536
                                  /\ s \div 65536 = h /\ s % 65536 = l
  <2>1. /\ s \div 65536 \in Nat /\ s % 65536 \in Nat
        /\ s = 65536 * (s \div 65536) + (s % 65536) /\ s % 65536 < 65536
    BY SMT
  <2>2. QED
    BY SMT, <2>1
<1>2. Once(s) = h + l
  BY SMT, <1>1 DEF Once
<1>3. (h + l) \div 65536 = 0
  BY SMT, <1>2
<1>4. Twice(s) = h + l
  BY SMT, <1>2, <1>3 DEF Twice
<1>5. h + l <= 65535 /\ 65535 - (h + l) \in Nat
  BY SMT, <1>2
<1>6. PICK c \in Nat : c = 65535 - (h + l)
  BY SMT, <1>5
<1>7. c <= 65535 /\ c % 65536 = c
  BY SMT, <1>6
<1>8. s + c = 65535 * (h + 1)
  BY SMT, <1>1, <1>6
<1>9. c = (65535 - Twice(s)) % 65536
  BY SMT, <1>4, <1>6, <1>7
<1>10. h + 1 \in Nat /\ Complemented(s, c, h + 1)
  BY SMT, <1>7, <1>8, <1>9 DEF Complemented
<1>11. QED
  BY SMT, <1>10

(* One whose carries leave a carry, that the second step adds              *)
LEMMA OneCarry ==
  ASSUME NEW s \in Nat, InRange(s), Once(s) >= 65536
  PROVE  \E c, q \in Nat : Complemented(s, c, q)
<1>1. PICK h \in Nat, l \in Nat : s = 65536 * h + l /\ l < 65536
                                  /\ s \div 65536 = h /\ s % 65536 = l
  <2>1. /\ s \div 65536 \in Nat /\ s % 65536 \in Nat
        /\ s = 65536 * (s \div 65536) + (s % 65536) /\ s % 65536 < 65536
    BY SMT
  <2>2. QED
    BY SMT, <2>1
<1>2. Once(s) = h + l
  BY SMT, <1>1 DEF Once
<1>3. h < 65536
  BY SMT, <1>1 DEF InRange
<1>4. (h + l) \div 65536 = 1
  BY SMT, <1>1, <1>2, <1>3
<1>5. Twice(s) = h + l + 1
  BY SMT, <1>2, <1>4 DEF Twice
<1>6. 131070 - (h + l) \in Nat /\ 131070 - (h + l) <= 65535
  BY SMT, <1>1, <1>2, <1>3
<1>7. PICK c \in Nat : c = 131070 - (h + l)
  BY SMT, <1>6
<1>8. 65535 - (h + l + 1) = c - 65536
  BY SMT, <1>7
<1>9. c <= 65535 /\ (c - 65536) % 65536 = c
  BY SMT, <1>6, <1>7
<1>10. s + c = 65535 * (h + 2)
  BY SMT, <1>1, <1>7
<1>11. c = (65535 - Twice(s)) % 65536
  BY SMT, <1>5, <1>8, <1>9
<1>12. h + 2 \in Nat /\ Complemented(s, c, h + 2)
  BY SMT, <1>9, <1>10, <1>11 DEF Complemented
<1>13. QED
  BY SMT, <1>12

(* in_cksum yields what completes the sum, when the sum has 32 bits.       *)
LEMMA InCksumCompletes ==
  ASSUME NEW b, NEW s \in Nat, s = HostSum(b), InRange(s)
  PROVE  \E c \in Word : InCksum(b) = Host16(c) /\ Completes(s, c)
<1>1. PICK c \in Nat, q \in Nat : Complemented(s, c, q)
  <2>1. Once(s) \in Nat
    BY SMT DEF Once
  <2>2. Once(s) < 65536 \/ Once(s) >= 65536
    BY SMT, <2>1
  <2>3. QED
    BY SMT, <2>2, NoCarry, OneCarry
<1>2. c \in Word
  <2>1. c <= 65535
    BY SMT, <1>1 DEF Complemented
  <2>2. QED
    BY SMT, <2>1, WordOfNumber
<1>3. (s + c) % 65535 = 0
  <2>1. s + c = 65535 * q
    BY SMT, <1>1 DEF Complemented
  <2>2. (65535 * q) % 65535 = 0
    BY SMT
  <2>3. QED
    BY SMT, <2>1, <2>2
<1>4. Completes(s, c)
  BY SMT, <1>3 DEF Completes, InRange
<1>5. c = (65535 - Twice(s)) % 65536
  BY SMT, <1>1 DEF Complemented
<1>6. InCksum(b) = Host16((65535 - Twice(s)) % 65536)
  BY SMT DEF InCksum, HostSum, Twice, Once
<1>7. InCksum(b) = Host16(c)
  BY SMT, <1>5, <1>6
<1>8. QED
  BY SMT, <1>2, <1>4, <1>7
-----------------------------------------------------------------------------
(* The header that ip_output writes, with its checksum field               *)
IpBytes(t, check) ==
    <<69, 16>> \o Net16(t) \o <<255, 255, 0, 0, 16, 17>> \o check
    \o Zeros(4) \o <<255, 255, 255, 255>>

(* ip_output writes a header that a receiver accepts: its ten words add    *)
(* up to less than 32 bits, so in_cksum is right to add the carries twice  *)
(* and no more.                                                            *)
LEMMA IpOutputAccepted ==
  ASSUME NEW t \in Word, NEW header, header = IpBytes(t, InCksum(IpBytes(t, Zeros(2))))
  PROVE  /\ Accepted(header) /\ Bytes(header, 20)
         /\ Bytes(InCksum(IpBytes(t, Zeros(2))), 2)
<1>1. PICK v : v = <<69, 16>>
  OBVIOUS
<1>2. PICK l : l = Net16(t)
  OBVIOUS
<1>3. PICK x : x = <<255, 255, 0, 0, 16, 17>>
  OBVIOUS
<1>4. PICK y : y = <<255, 255, 255, 255>>
  OBVIOUS
<1>5. PICK z : z = Zeros(4)
  OBVIOUS
<1>6. PICK e : e = Zeros(2)
  OBVIOUS
<1>7. /\ Bytes(v, 2) /\ Bytes(l, 2) /\ Bytes(x, 6)
      /\ Bytes(y, 4) /\ Bytes(z, 4) /\ Bytes(e, 2)
  <2>1. 0 \in Octet /\ 16 \in Octet /\ 17 \in Octet /\ 69 \in Octet /\ 255 \in Octet
    BY SMT DEF Octet
  <2>2. Bytes(v, 2) /\ Bytes(x, 6) /\ Bytes(y, 4)
    BY SMT, <1>1, <1>3, <1>4, <2>1 DEF Bytes
  <2>3. Bytes(l, 2)
    BY SMT, <1>2, NumberBytes DEF Bytes
  <2>4. Bytes(z, 4) /\ Bytes(e, 2)
    BY SMT, <1>5, <1>6, BytesOfZeros
  <2>5. QED
    BY <2>2, <2>3, <2>4
<1>8. PICK pre : pre = v \o l \o x
  OBVIOUS
<1>9. PICK post : post = z \o y
  OBVIOUS
<1>10. \A c : Bytes(c, 2) => IpBytes(t, c) = pre \o c \o post
  <2> TAKE c
  <2> HAVE Bytes(c, 2)
  <2>1. IpBytes(t, c) = (((v \o l) \o x) \o c) \o z \o y
    BY SMT, <1>1, <1>2, <1>3, <1>4, <1>5 DEF IpBytes
  <2>2. pre \in Seq(Octet) /\ c \in Seq(Octet) /\ z \in Seq(Octet) /\ y \in Seq(Octet)
    BY SMT, <1>7, <1>8 DEF Bytes
  <2>3. PICK w : w = pre \o c
    OBVIOUS
  <2>4. w \in Seq(Octet)
    BY SMT, <2>2, <2>3
  <2>5. w \o (z \o y) = (w \o z) \o y
    BY SMTT(30), <2>2, <2>4
  <2>6. IpBytes(t, c) = (w \o z) \o y
    BY <2>1, <1>8, <2>3, Zenon
  <2>7. QED
    BY <2>3, <2>5, <2>6, <1>9, Zenon
<1>11. Even(v) /\ Even(l) /\ Even(x)
  <2>1. 2 = 2 * 1 /\ 6 = 2 * 3
    BY SMT
  <2>2. QED
    BY SMT, <2>1, <1>7, EvenBytes
<1>12. Even(v \o l) /\ Even(pre)
  BY <1>8, <1>11, EvenBoth, Zenon
<1>13. HostSum(pre) \in Nat /\ HostSum(pre) > 0
  <2>1. v \in Seq(Octet) /\ l \in Seq(Octet) /\ x \in Seq(Octet)
    BY Zenon, <1>11 DEF Even
  <2>2. /\ HostSum(v \o l) = HostSum(v) + HostSum(l)
        /\ HostSum(v) \in Nat /\ HostSum(l) \in Nat
    BY <1>11, <2>1, HostSumOfEven, Zenon
  <2>3. /\ HostSum(v \o l \o x) = HostSum(v \o l) + HostSum(x)
        /\ HostSum(x) \in Nat
    BY <1>12, <2>1, HostSumOfEven, Zenon
  <2>4. HostSum(v) > 0
    <3>1. 69 \in Octet /\ 16 \in Octet
      BY SMT DEF Octet
    <3>2. HostSum(<<69, 16>>) = 69 + 256 * 16
      BY SMT, <3>1, HostSumOfPair
    <3>3. QED
      BY SMT, <3>2, <1>1
  <2>5. QED
    BY SMT, <1>8, <2>2, <2>3, <2>4
<1>14. pre \in Seq(Octet) /\ post \in Seq(Octet) /\ e \in Seq(Octet) /\ Len(e) = 2
  BY SMT, <1>7, <1>8, <1>9 DEF Bytes
<1>15. HostSum(post) \in Nat
  BY <1>14, SumTypes
<1>16. PICK s \in Nat : s = HostSum(pre) + HostSum(post)
  BY <1>13, <1>15
<1>17. s > 0
  BY SMT, <1>13, <1>15, <1>16
<1>18. \A c : Bytes(c, 2) => Bytes(IpBytes(t, c), 20)
  <2> TAKE c
  <2> HAVE Bytes(c, 2)
  <2>1. Bytes(v \o l, 2 + 2)
    BY SMT, <1>7, BytesOfBoth
  <2>2. Bytes(pre, 2 + 2 + 6)
    BY SMT, <1>7, <1>8, <2>1, BytesOfBoth
  <2>3. Bytes(post, 4 + 4)
    BY SMT, <1>7, <1>9, BytesOfBoth
  <2>4. Bytes(pre \o c, 2 + 2 + 6 + 2)
    BY SMT, <2>2, BytesOfBoth
  <2>5. 2 + 2 + 6 + 2 \in Nat /\ 4 + 4 \in Nat
    BY SMT
  <2>6. Bytes(pre \o c \o post, 2 + 2 + 6 + 2 + (4 + 4))
    BY <2>3, <2>4, <2>5, BytesOfBoth, Zenon
  <2>7. 2 + 2 + 6 + 2 + (4 + 4) = 20
    BY SMT
  <2>8. IpBytes(t, c) = pre \o c \o post
    BY <1>10, Zenon
  <2>9. QED
    BY <2>6, <2>7, <2>8
<1>19. HostSum(IpBytes(t, e)) = s
  <2>1. PICK k \in Nat : Len(pre) = 2 * k
    BY <1>12, Zenon DEF Even
  <2>2. HostSum(pre \o e \o post) = HostSum(pre) + HostSum(e) + HostSum(post)
    BY <2>1, <1>14, HostSumAround, Zenon
  <2>3. HostSum(e) = 0
    BY <1>6, HostSumOfZeros, Zenon
  <2>4. HostSum(pre \o e \o post) = s
    BY SMT, <2>2, <2>3, <1>13, <1>15, <1>16
  <2>5. IpBytes(t, e) = pre \o e \o post
    BY <1>7, <1>10, Zenon
  <2>6. QED
    BY <2>4, <2>5, Zenon
<1>20. InRange(s)
  <2>1. PICK b : b = IpBytes(t, e)
    OBVIOUS
  <2>2. PICK n \in Nat : n = 10 /\ 20 = 2 * n
    BY SMT
  <2>3. Bytes(b, 2 * n)
    BY <1>7, <1>18, <2>1, <2>2
  <2>4. HostSum(b) <= 65535 * n
    BY SMT, <2>3, HostSumBounded
  <2>5. s <= 65535 * 10
    BY SMT, <1>19, <2>1, <2>2, <2>4
  <2>6. QED
    BY SMT, <1>17, <2>5 DEF InRange
<1>21. PICK c \in Word : InCksum(IpBytes(t, e)) = Host16(c) /\ Completes(s, c)
  <2>1. PICK b : b = IpBytes(t, e)
    OBVIOUS
  <2>2. s = HostSum(b)
    BY <1>19, <2>1, Zenon
  <2>3. \E c \in Word : InCksum(b) = Host16(c) /\ Completes(s, c)
    BY <1>20, <2>2, InCksumCompletes, Zenon
  <2>4. QED
    BY <2>1, <2>3, Zenon
<1>22. Bytes(Host16(c), 2)
  BY SMT, NumberBytes DEF Bytes
<1>23. header = pre \o Host16(c) \o post
  BY <1>6, <1>10, <1>21, <1>22, Zenon
<1>24. Accepted(header)
  BY <1>12, <1>14, <1>16, <1>21, <1>23, ChecksumAccepted, Zenon
<1>25. Bytes(header, 20)
  BY <1>6, <1>18, <1>21, <1>22, Zenon
<1>26. Bytes(InCksum(IpBytes(t, Zeros(2))), 2)
  BY <1>6, <1>21, <1>22, Zenon
<1>27. QED
  BY <1>24, <1>25, <1>26

(* The length field of the header is the one it was given.                 *)
LEMMA IpOutputLength ==
  ASSUME NEW t \in Word, NEW c, Bytes(c, 2)
  PROVE  NetWords(IpBytes(t, c))[2] = t
<1>1. PICK v : v = <<69, 16>>
  OBVIOUS
<1>2. PICK l : l = Net16(t)
  OBVIOUS
<1>3. PICK x : x = <<255, 255, 0, 0, 16, 17>>
  OBVIOUS
<1>4. PICK y : y = <<255, 255, 255, 255>>
  OBVIOUS
<1>5. PICK z : z = Zeros(4)
  OBVIOUS
<1>6. IpBytes(t, c) = v \o l \o x \o c \o z \o y
  BY SMT, <1>1, <1>2, <1>3, <1>4, <1>5 DEF IpBytes
<1>7. PICK one \in Nat, n \in Nat : one = 1 /\ n = 2 * one + 2
  BY SMT
<1>8. /\ Bytes(v, 2 * one) /\ l \in Seq(Octet) /\ z \in Seq(Octet)
      /\ x \in Seq(Octet) /\ y \in Seq(Octet) /\ c \in Seq(Octet) /\ Bytes(v \o l, n)
  <2>1. 0 \in Octet /\ 16 \in Octet /\ 17 \in Octet /\ 69 \in Octet /\ 255 \in Octet
    BY SMT DEF Octet
  <2>2. Bytes(v, 2) /\ x \in Seq(Octet) /\ y \in Seq(Octet)
    BY SMT, <1>1, <1>3, <1>4, <2>1 DEF Bytes
  <2>3. l \in Seq(Octet) /\ Bytes(l, 2)
    BY SMT, <1>2, NumberBytes DEF Bytes
  <2>4. z \in Seq(Octet)
    BY SMT, <1>5, BytesOfZeros DEF Bytes
  <2>5. c \in Seq(Octet)
    BY Zenon DEF Bytes
  <2>6. Bytes(v \o l, 2 + 2)
    BY SMT, <2>2, <2>3, BytesOfBoth
  <2>7. 2 * one = 2 /\ n = 2 + 2
    BY SMT, <1>7
  <2>8. QED
    BY <2>2, <2>3, <2>4, <2>5, <2>6, <2>7
<1>9. Begins(v \o l, n, v \o l)
  BY <1>8, BeginsItself, Zenon
<1>10. Begins(v \o l \o x, n, v \o l)
  BY <1>8, <1>9, BeginsLonger, Zenon
<1>11. Begins(v \o l \o x \o c \o z \o y, n, v \o l)
  BY <1>8, <1>10, BeginsLonger, Zenon
<1>12. NetWords(IpBytes(t, c))[one + 1] = t
  <2>1. PICK b : b = IpBytes(t, c)
    OBVIOUS
  <2>2. Begins(b, n, v \o Net16(t))
    BY <1>2, <1>6, <1>11, <2>1, Zenon
  <2>3. Bytes(v, 2 * one) /\ n = 2 * one + 2
    BY <1>7, <1>8
  <2>4. NetWords(b)[one + 1] = t
    BY <2>2, <2>3, NumberReadBack, Zenon
  <2>5. QED
    BY <2>1, <2>4, Zenon
<1>13. QED
  BY SMT, <1>7, <1>12
-----------------------------------------------------------------------------
(* The UDP header, without a checksum                                      *)
UdpBytes(len) == <<0, 68, 0, 67>> \o Net16(len) \o Zeros(2)

(* The length field is the one it was given, and there is no checksum,     *)
(* whatever follows.                                                       *)
LEMMA UdpOutputFields ==
  ASSUME NEW len \in Word, NEW d \in Seq(Octet)
  PROVE  /\ Bytes(UdpBytes(len), 8)
         /\ NetWords(UdpBytes(len) \o d)[3] = len
         /\ NetWords(UdpBytes(len) \o d)[4] = 0
<1>1. PICK p : p = <<0, 68, 0, 67>>
  OBVIOUS
<1>2. PICK l : l = Net16(len)
  OBVIOUS
<1>3. PICK z : z = Zeros(2)
  OBVIOUS
<1>4. PICK u : u = UdpBytes(len)
  OBVIOUS
<1>5. u = p \o l \o z
  BY SMT, <1>1, <1>2, <1>3, <1>4 DEF UdpBytes
<1>6. PICK two \in Nat, three \in Nat, n \in Nat, k \in Nat :
         two = 2 /\ three = 3 /\ n = 2 * two + 2 /\ k = 2 * three + 2
  BY SMT
<1>7. Bytes(p, 4) /\ Bytes(l, 2) /\ Bytes(z, 2)
  <2>1. 0 \in Octet /\ 67 \in Octet /\ 68 \in Octet
    BY SMT DEF Octet
  <2>2. Bytes(p, 4)
    BY SMT, <1>1, <2>1 DEF Bytes
  <2>3. Bytes(l, 2)
    BY SMT, <1>2, NumberBytes DEF Bytes
  <2>4. Bytes(z, 2)
    BY SMT, <1>3, BytesOfZeros
  <2>5. QED
    BY <2>2, <2>3, <2>4
<1>8. Bytes(p \o l, 4 + 2)
  BY SMT, <1>7, BytesOfBoth
<1>9. Bytes(u, 4 + 2 + 2)
  BY SMT, <1>5, <1>7, <1>8, BytesOfBoth
<1>10. /\ 2 * two = 4 /\ n = 4 + 2 /\ 2 * three = 4 + 2 /\ k = 4 + 2 + 2
       /\ two + 1 = 3 /\ three + 1 = 4 /\ 4 + 2 + 2 = 8
  BY SMT, <1>6
<1>11. /\ Bytes(p, 2 * two) /\ Bytes(p \o l, n) /\ Bytes(p \o l, 2 * three)
       /\ Bytes(u, k) /\ Bytes(u, 8)
  BY <1>7, <1>8, <1>9, <1>10
<1>12. z \in Seq(Octet) /\ l \in Seq(Octet)
  BY <1>7, Zenon DEF Bytes
<1>13. Begins(u \o d, n, p \o Net16(len))
  <2>1. Begins(p \o l, n, p \o l)
    BY <1>11, BeginsItself, Zenon
  <2>2. Begins((p \o l) \o z, n, p \o l)
    BY <1>12, <2>1, BeginsLonger, Zenon
  <2>3. Begins(u, n, p \o l)
    BY <1>5, <2>2, Zenon
  <2>4. Begins(u \o d, n, p \o l)
    BY <2>3, BeginsLonger, Zenon
  <2>5. QED
    BY <1>2, <2>4, Zenon
<1>14. NetWords(u \o d)[two + 1] = len
  <2>1. PICK b : b = u \o d
    OBVIOUS
  <2>2. Bytes(p, 2 * two) /\ n = 2 * two + 2 /\ Begins(b, n, p \o Net16(len))
    BY <1>6, <1>11, <1>13, <2>1
  <2>3. NetWords(b)[two + 1] = len
    BY <2>2, NumberReadBack, Zenon
  <2>4. QED
    BY <2>1, <2>3, Zenon
<1>15. PICK zero \in Word : zero = 0 /\ Net16(zero) = z
  <2>1. 0 \in Word
    BY SMT, WordOfNumber
  <2>2. Net16(0) = <<0, 0>>
    BY SMT DEF Net16
  <2>3. Zeros(2) = <<0, 0>>
    BY SMT DEF Zeros
  <2>4. QED
    BY SMT, <1>3, <2>1, <2>2, <2>3
<1>16. PICK q : q = p \o l
  OBVIOUS
<1>17. Begins(u \o d, k, q \o Net16(zero))
  <2>1. Begins(u, k, u)
    BY <1>11, BeginsItself, Zenon
  <2>2. Begins(u \o d, k, u)
    BY <2>1, BeginsLonger, Zenon
  <2>3. u = q \o Net16(zero)
    BY <1>5, <1>15, <1>16, Zenon
  <2>4. QED
    BY <2>2, <2>3, Zenon
<1>18. NetWords(u \o d)[three + 1] = zero
  <2>1. PICK b : b = u \o d
    OBVIOUS
  <2>2. Bytes(q, 2 * three) /\ k = 2 * three + 2 /\ Begins(b, k, q \o Net16(zero))
    BY <1>6, <1>11, <1>16, <1>17, <2>1
  <2>3. NetWords(b)[three + 1] = zero
    BY <2>2, NumberReadBack, Zenon
  <2>4. QED
    BY <2>1, <2>3, Zenon
<1>19. QED
  BY SMT, <1>4, <1>10, <1>11, <1>14, <1>15, <1>18

-----------------------------------------------------------------------------
(* The DHCP message for hardware address m, when the stack holds b         *)
Message(m, b) ==
    <<1, 1, 6>> \o Zeros(25) \o m \o b \o Zeros(64 + 128) \o <<99, 130, 83, 99>>

(* It has 240 bytes, and the hardware address behind the first 28.         *)
LEMMA MessageBytes ==
  ASSUME NEW m \in [1..6 -> Octet], NEW b \in [1..10 -> Octet]
  PROVE  Bytes(Message(m, b), 240) /\ Carries(Message(m, b), 28, 6, m)
<1>1. PICK h : h = <<1, 1, 6>>
  OBVIOUS
<1>2. PICK z : z = Zeros(25)
  OBVIOUS
<1>3. PICK r : r = Zeros(64 + 128)
  OBVIOUS
<1>4. PICK w : w = <<99, 130, 83, 99>>
  OBVIOUS
<1>5. Message(m, b) = h \o z \o m \o b \o r \o w
  BY SMT, <1>1, <1>2, <1>3, <1>4 DEF Message
<1>6. PICK i \in Nat, j \in Nat, l \in Nat, t \in Nat, n \in Nat, k \in Nat :
         i = 3 /\ j = 25 /\ l = 6 /\ t = 10 /\ n = 64 + 128 /\ k = 4
  BY SMT
<1>7. /\ Bytes(h, i) /\ Bytes(z, j) /\ Bytes(m, l) /\ Bytes(b, t)
      /\ Bytes(r, n) /\ Bytes(w, k)
  <2>1. /\ 1 \in Octet /\ 6 \in Octet /\ 83 \in Octet /\ 99 \in Octet /\ 130 \in Octet
    BY SMT DEF Octet
  <2>2. Bytes(h, i) /\ Bytes(w, k)
    BY SMT, <1>1, <1>4, <1>6, <2>1 DEF Bytes
  <2>3. Bytes(z, j) /\ Bytes(r, n)
    BY SMT, <1>2, <1>3, <1>6, BytesOfZeros
  <2>4. Bytes(m, l)
    BY SMT, <1>6, HardwareAddress
  <2>5. Bytes(b, t)
    <3>1. b \in [1..t -> Octet]
      BY SMT, <1>6
    <3>2. QED
      BY <3>1, ArrayBytes, Zenon
  <2>6. QED
    BY <2>2, <2>3, <2>4, <2>5
<1>8. /\ i + j \in Nat /\ i + j + l \in Nat /\ i + j + l + t \in Nat
      /\ i + j + l + t + n \in Nat
  BY SMT
<1>9. Bytes(h \o z, i + j)
  BY <1>7, BytesOfBoth, Zenon
<1>10. Bytes(h \o z \o m, i + j + l)
  BY <1>7, <1>8, <1>9, BytesOfBoth, Zenon
<1>11. Bytes(h \o z \o m \o b, i + j + l + t)
  BY <1>7, <1>8, <1>10, BytesOfBoth, Zenon
<1>12. Bytes(h \o z \o m \o b \o r, i + j + l + t + n)
  BY <1>7, <1>8, <1>11, BytesOfBoth, Zenon
<1>13. Bytes(h \o z \o m \o b \o r \o w, i + j + l + t + n + k)
  BY <1>7, <1>8, <1>12, BytesOfBoth, Zenon
<1>14. b \in Seq(Octet) /\ r \in Seq(Octet) /\ w \in Seq(Octet)
  BY <1>7, Zenon DEF Bytes
<1>15. Carries(h \o z \o m, i + j, l, m)
  BY <1>7, <1>8, <1>9, CarriesItself, Zenon
<1>16. Carries(h \o z \o m \o b, i + j, l, m)
  BY <1>8, <1>14, <1>15, CarriesMore, Zenon
<1>17. Carries(h \o z \o m \o b \o r, i + j, l, m)
  BY <1>8, <1>14, <1>16, CarriesMore, Zenon
<1>18. Carries(h \o z \o m \o b \o r \o w, i + j, l, m)
  BY <1>8, <1>14, <1>17, CarriesMore, Zenon
<1>19. i + j + l + t + n + k = 240 /\ i + j = 28 /\ l = 6
  BY SMT, <1>6
<1>20. PICK x : x = Message(m, b)
  OBVIOUS
<1>21. Bytes(x, i + j + l + t + n + k) /\ Carries(x, i + j, l, m)
  BY <1>5, <1>13, <1>18, <1>20, Zenon
<1>22. QED
  BY SMT, <1>19, <1>20, <1>21

(* What fill_dhcp_option writes of the four options                        *)
Fills(code, data, r) == FillDhcpOption(code, data) = r

(* Its code and the length of its data, and then the data                  *)
LEMMA OptionFilled ==
  ASSUME NEW code \in Nat, NEW data \in Seq(Nat), NEW r \in Seq(Nat),
         NEW h, h = <<code, Len(data)>>, Joined(r, h, data)
  PROVE  Fills(code, data, r)
<1>1. h \in Seq(Nat)
  BY SMT
<1>2. Both(r, h, data)
  BY <1>1, JoinedBoth, Zenon
<1>3. FillDhcpOption(code, data) = h \o data
  BY SMT DEF FillDhcpOption
<1>4. QED
  BY <1>2, <1>3, Zenon DEF Fills, Both

(* The bytes of each of the four                                           *)
LEMMA OptionsFilled ==
  /\ Fills(53, <<1>>, <<53, 1, 1>>)
  /\ Fills(50, <<192, 168, 1, 10>>, <<50, 4, 192, 168, 1, 10>>)
  /\ Fills(55, <<1, 3, 6, 15>>, <<55, 4, 1, 3, 6, 15>>)
  /\ Fills(255, <<0>>, <<255, 1, 0>>)
<1>1. Fills(53, <<1>>, <<53, 1, 1>>)
  <2>1. PICK data : data = <<1>>
    OBVIOUS
  <2>2. PICK r : r = <<53, 1, 1>>
    OBVIOUS
  <2>3. PICK code \in Nat : code = 53
    BY SMT
  <2>4. PICK h : h = <<code, Len(data)>>
    OBVIOUS
  <2>5. h = <<53, 1>>
    BY SMT, <2>1, <2>3, <2>4
  <2>6. data \in Seq(Nat) /\ r \in Seq(Nat)
    BY SMT, <2>1, <2>2
  <2>7. Joined(r, h, data)
    BY SMT, <2>1, <2>2, <2>5 DEF Joined
  <2>8. Fills(code, data, r)
    BY <2>4, <2>6, <2>7, OptionFilled, Zenon
  <2>9. QED
    BY SMT, <2>1, <2>2, <2>3, <2>8
<1>2. Fills(50, <<192, 168, 1, 10>>, <<50, 4, 192, 168, 1, 10>>)
  <2>1. PICK data : data = <<192, 168, 1, 10>>
    OBVIOUS
  <2>2. PICK r : r = <<50, 4, 192, 168, 1, 10>>
    OBVIOUS
  <2>3. PICK code \in Nat : code = 50
    BY SMT
  <2>4. PICK h : h = <<code, Len(data)>>
    OBVIOUS
  <2>5. h = <<50, 4>>
    BY SMT, <2>1, <2>3, <2>4
  <2>6. data \in Seq(Nat) /\ r \in Seq(Nat)
    BY SMT, <2>1, <2>2
  <2>7. Joined(r, h, data)
    BY SMT, <2>1, <2>2, <2>5 DEF Joined
  <2>8. Fills(code, data, r)
    BY <2>4, <2>6, <2>7, OptionFilled, Zenon
  <2>9. QED
    BY SMT, <2>1, <2>2, <2>3, <2>8
<1>3. Fills(55, <<1, 3, 6, 15>>, <<55, 4, 1, 3, 6, 15>>)
  <2>1. PICK data : data = <<1, 3, 6, 15>>
    OBVIOUS
  <2>2. PICK r : r = <<55, 4, 1, 3, 6, 15>>
    OBVIOUS
  <2>3. PICK code \in Nat : code = 55
    BY SMT
  <2>4. PICK h : h = <<code, Len(data)>>
    OBVIOUS
  <2>5. h = <<55, 4>>
    BY SMT, <2>1, <2>3, <2>4
  <2>6. data \in Seq(Nat) /\ r \in Seq(Nat)
    BY SMT, <2>1, <2>2
  <2>7. Joined(r, h, data)
    BY SMT, <2>1, <2>2, <2>5 DEF Joined
  <2>8. Fills(code, data, r)
    BY <2>4, <2>6, <2>7, OptionFilled, Zenon
  <2>9. QED
    BY SMT, <2>1, <2>2, <2>3, <2>8
<1>4. Fills(255, <<0>>, <<255, 1, 0>>)
  <2>1. PICK data : data = <<0>>
    OBVIOUS
  <2>2. PICK r : r = <<255, 1, 0>>
    OBVIOUS
  <2>3. PICK code \in Nat : code = 255
    BY SMT
  <2>4. PICK h : h = <<code, Len(data)>>
    OBVIOUS
  <2>5. h = <<255, 1>>
    BY SMT, <2>1, <2>3, <2>4
  <2>6. data \in Seq(Nat) /\ r \in Seq(Nat)
    BY SMT, <2>1, <2>2
  <2>7. Joined(r, h, data)
    BY SMT, <2>1, <2>2, <2>5 DEF Joined
  <2>8. Fills(code, data, r)
    BY <2>4, <2>6, <2>7, OptionFilled, Zenon
  <2>9. QED
    BY SMT, <2>1, <2>2, <2>3, <2>8
<1>5. QED
  BY SMT, <1>1, <1>2, <1>3, <1>4

(* The options that are asked for, as they are to lie on the wire          *)
Asked == <<53, 1, 1, 50, 4, 192, 168, 1, 10, 55, 4, 1, 3, 6, 15, 255>>

(* The four options take 18 bytes, of which the last two are the length    *)
(* and data of the end option.                                             *)
LEMMA DiscoveryOptionsBytes ==
  Bytes(DiscoveryOptions, 18) /\ Carries(DiscoveryOptions, 0, 16, Asked)
<1>1. PICK x : x = <<1, 0>>
  OBVIOUS
<1>2. DiscoveryOptions = Asked \o x
  <2>1. PICK a : a = <<53, 1, 1>>
    OBVIOUS
  <2>2. PICK b : b = <<50, 4, 192, 168, 1, 10>>
    OBVIOUS
  <2>3. PICK c : c = <<55, 4, 1, 3, 6, 15>>
    OBVIOUS
  <2>4. PICK d : d = <<255, 1, 0>>
    OBVIOUS
  <2>5. /\ FillDhcpOption(53, <<1>>) = a
        /\ FillDhcpOption(50, <<192, 168, 1, 10>>) = b
        /\ FillDhcpOption(55, <<1, 3, 6, 15>>) = c
        /\ FillDhcpOption(255, <<0>>) = d
    BY SMT, <2>1, <2>2, <2>3, <2>4, OptionsFilled DEF Fills
  <2>6. PICK p : p = <<53, 1, 1, 50, 4, 192, 168, 1, 10>>
    OBVIOUS
  <2>7. PICK q : q = <<53, 1, 1, 50, 4, 192, 168, 1, 10, 55, 4, 1, 3, 6, 15>>
    OBVIOUS
  <2>8. PICK r : r = <<53, 1, 1, 50, 4, 192, 168, 1, 10, 55, 4, 1, 3, 6, 15, 255, 1, 0>>
    OBVIOUS
  <2>9. PICK w : w = Asked
    OBVIOUS
  <2>10. /\ a \in Seq(Nat) /\ b \in Seq(Nat) /\ c \in Seq(Nat) /\ d \in Seq(Nat)
         /\ p \in Seq(Nat) /\ q \in Seq(Nat) /\ r \in Seq(Nat) /\ w \in Seq(Nat)
         /\ x \in Seq(Nat)
    BY SMT, <1>1, <2>1, <2>2, <2>3, <2>4, <2>6, <2>7, <2>8, <2>9 DEF Asked
  <2>11. Joined(p, a, b)
    BY SMT, <2>1, <2>2, <2>6 DEF Joined
  <2>12. Joined(q, p, c)
    BY SMTT(30), <2>3, <2>6, <2>7 DEF Joined
  <2>13. Joined(r, q, d)
    BY SMTT(30), <2>4, <2>7, <2>8 DEF Joined
  <2>14. Joined(r, w, x)
    BY SMTT(30), <1>1, <2>8, <2>9 DEF Joined, Asked
  <2>15. Both(p, a, b) /\ Both(q, p, c) /\ Both(r, q, d) /\ Both(r, w, x)
    BY <2>10, <2>11, <2>12, <2>13, <2>14, JoinedBoth, Zenon
  <2>16. p = a \o b /\ q = p \o c /\ r = q \o d /\ r = w \o x
    BY <2>15, Zenon DEF Both
  <2>17. DiscoveryOptions = ((a \o b) \o c) \o d
    BY <2>5, Zenon DEF DiscoveryOptions
  <2>18. QED
    BY <2>9, <2>16, <2>17, Zenon
<1>3. PICK n \in Nat, k \in Nat, zero \in Nat : n = 16 /\ k = 2 /\ zero = 0
  BY SMT
<1>4. Bytes(Asked, n) /\ Bytes(x, k)
  <2>1. /\ 0 \in Octet /\ 1 \in Octet /\ 3 \in Octet /\ 4 \in Octet /\ 6 \in Octet
        /\ 10 \in Octet /\ 15 \in Octet /\ 50 \in Octet /\ 53 \in Octet /\ 55 \in Octet
        /\ 168 \in Octet /\ 192 \in Octet /\ 255 \in Octet
    BY SMT DEF Octet
  <2>2. QED
    BY SMT, <1>1, <1>3, <2>1 DEF Bytes, Asked
<1>5. PICK o : o = DiscoveryOptions
  OBVIOUS
<1>6. PICK a : a = Asked
  OBVIOUS
<1>7. o = a \o x /\ Bytes(a, n)
  BY <1>2, <1>4, <1>5, <1>6, Zenon
<1>8. Bytes(o, n + k)
  BY <1>4, <1>7, BytesOfBoth, Zenon
<1>9. PICK e : e = Zeros(0)
  OBVIOUS
<1>10. Bytes(e, zero) /\ e \o a = a
  <2>1. Bytes(e, zero)
    BY SMT, <1>3, <1>9, BytesOfZeros
  <2>2. e = <<>>
    BY SMT, <1>9 DEF Zeros
  <2>3. QED
    BY SMT, <1>7, <2>1, <2>2 DEF Bytes
<1>11. Carries(e \o a, zero, n, a) /\ x \in Seq(Octet)
  BY <1>4, <1>7, <1>10, CarriesItself, Zenon DEF Bytes
<1>12. Carries(o, zero, n, a)
  <2>1. Carries(a, zero, n, a)
    BY <1>10, <1>11, Zenon
  <2>2. Carries(a \o x, zero, n, a)
    BY <1>11, <2>1, CarriesMore, Zenon
  <2>3. QED
    BY <1>7, <2>2, Zenon
<1>13. n + k = 18 /\ n = 16 /\ zero = 0
  BY SMT, <1>3
<1>14. QED
  BY SMT, <1>5, <1>6, <1>8, <1>12, <1>13
-----------------------------------------------------------------------------
(* The frame around a message, whose length is even already                *)
Framed(e, dhcp) ==
    LET padded == dhcp \o Zeros(Len(dhcp) % 2)
    IN  e \o IpOutput(Len(padded) + 8) \o UdpOutput(Len(dhcp)) \o padded

(* What the frame f of hardware address m is to be                         *)
IpRight(f) == Accepted(IpOf(f)) /\ NetWords(IpOf(f))[2] = Len(f) - 14

Address(u) == SubSeq(u, 37, 42)
Requested(u) == SubSeq(u, 249, 264)
UdpRight(u, m) ==
    /\ NetWords(u)[3] = Len(u)
    /\ NetWords(u)[4] = 0
    /\ Address(u) = m
    /\ Requested(u) = Asked
Right(f, m) == f \in Seq(Octet) /\ IpRight(f) /\ UdpRight(UdpOf(f), m)

(* The lengths in it                                                       *)
Lengths(len, t, n) == len = 266 /\ t = 286 /\ n = 258

(* The headers have the lengths of a message of 258 bytes.                 *)
LEMMA FramedParts ==
  ASSUME NEW m \in [1..6 -> Octet], NEW n \in Nat, NEW d, Bytes(d, n),
         NEW len \in Word, NEW t \in Word, Lengths(len, t, n),
         NEW c, c = InCksum(IpBytes(t, Zeros(2)))
  PROVE  Parts(Framed(Addressed(m), d), n, Addressed(m), IpBytes(t, c), UdpBytes(len), d)
<1>1. d \in Seq(Octet) /\ Len(d) = n
  BY Zenon DEF Bytes
<1>2. n % 2 = 0 /\ n + 8 = len /\ n + (n % 2) + 8 = len /\ len + 20 = t
  BY SMT DEF Lengths
<1>3. d \o Zeros(Len(d) % 2) = d
  <2>1. Zeros(0) = <<>>
    BY SMT DEF Zeros
  <2>2. d \o <<>> = d
    BY SMT, <1>1
  <2>3. Len(d) % 2 = 0
    BY SMT, <1>1, <1>2
  <2>4. QED
    BY <2>1, <2>2, <2>3
<1>4. IpOutput(len) = IpBytes(t, c)
  <2>1. PICK x : x = len + 20
    OBVIOUS
  <2>2. IpOutput(len) = IpBytes(x, InCksum(IpBytes(x, Zeros(2))))
    BY SMT, <2>1 DEF IpOutput, IpBytes
  <2>3. x = t
    BY SMT, <1>2, <2>1
  <2>4. QED
    BY <2>2, <2>3
<1>5. UdpOutput(n) = UdpBytes(len)
  <2>1. UdpOutput(n) = UdpBytes(n + (n % 2) + 8)
    BY SMT DEF UdpOutput, UdpBytes
  <2>2. QED
    BY SMT, <1>2, <2>1
<1>6. Framed(Addressed(m), d) = Addressed(m) \o IpBytes(t, c) \o UdpBytes(len) \o d
  <2>1. PICK e : e = Addressed(m)
    OBVIOUS
  <2>2. Framed(e, d) = e \o IpOutput(Len(d) + 8) \o UdpOutput(Len(d)) \o d
    BY <1>3, Zenon DEF Framed
  <2>3. Len(d) + 8 = len
    BY SMT, <1>1, <1>2
  <2>4. QED
    BY <1>1, <1>4, <1>5, <2>1, <2>2, <2>3
<1>7. Bytes(IpBytes(t, c), 20)
  BY SMT, IpOutputAccepted
<1>8. Bytes(UdpBytes(len), 8)
  BY <1>1, UdpOutputFields
<1>9. Bytes(Addressed(m), 14)
  BY AddressedBytes
<1>10. QED
  BY <1>6, <1>7, <1>8, <1>9 DEF Parts

(* The frame is right, whatever the stack holds behind the address.        *)
LEMMA DiscoverRight ==
  ASSUME NEW m \in [1..6 -> Octet], NEW b \in [1..10 -> Octet],
         NEW f, f = Framed(Addressed(m), Message(m, b) \o DiscoveryOptions)
  PROVE  Right(f, m)
<1>1. PICK g : g = Message(m, b)
  OBVIOUS
<1>2. PICK o : o = DiscoveryOptions
  OBVIOUS
<1>3. PICK d : d = g \o o
  OBVIOUS
<1>4. PICK n \in Nat : n = 258
  BY SMT
<1>5. PICK len \in Word : len = 266
  <2>1. 266 \in Word
    BY SMT, WordOfNumber
  <2>2. QED
    BY SMT, <2>1
<1>6. PICK t \in Word : t = 286
  <2>1. 286 \in Word
    BY SMT, WordOfNumber
  <2>2. QED
    BY SMT, <2>1
<1>7. Lengths(len, t, n)
  BY SMT, <1>4, <1>5, <1>6 DEF Lengths
<1>8. PICK i \in Nat, j \in Nat, k \in Nat, eight \in Nat, six \in Nat,
           six10 \in Nat, zero \in Nat :
         /\ i = 240 /\ j = 18 /\ k = 28 /\ eight = 8 /\ six = 6 /\ six10 = 16 /\ zero = 0
  BY SMT
<1>9. Bytes(g, i) /\ Carries(g, k, six, m)
  BY SMT, <1>1, <1>8, MessageBytes
<1>10. PICK a : a = Asked
  OBVIOUS
<1>11. Bytes(o, j) /\ Carries(o, zero, six10, a)
  BY SMT, <1>2, <1>8, <1>10, DiscoveryOptionsBytes
<1>12. Bytes(d, n)
  <2>1. Bytes(d, i + j)
    BY <1>3, <1>9, <1>11, BytesOfBoth, Zenon
  <2>2. i + j = n
    BY SMT, <1>4, <1>8
  <2>3. QED
    BY <2>1, <2>2
<1>13. o \in Seq(Octet) /\ g \in Seq(Octet) /\ d \in Seq(Octet)
  BY <1>9, <1>11, <1>12, Zenon DEF Bytes
<1>14. PICK c : c = InCksum(IpBytes(t, Zeros(2)))
  OBVIOUS
<1>15. PICK header : header = IpBytes(t, c)
  OBVIOUS
<1>16. PICK u : u = UdpBytes(len)
  OBVIOUS
<1>17. Parts(f, n, Addressed(m), header, u, d)
  <2>1. f = Framed(Addressed(m), d)
    BY <1>1, <1>2, <1>3, Zenon
  <2>2. Parts(Framed(Addressed(m), d), n, Addressed(m), IpBytes(t, c), UdpBytes(len), d)
    BY <1>7, <1>12, <1>14, FramedParts, Zenon
  <2>3. QED
    BY <1>15, <1>16, <2>1, <2>2, Zenon
<1>18. PICK v : v = u \o d
  OBVIOUS
<1>19. Bytes(f, n + 42) /\ IpOf(f) = header /\ UdpOf(f) = v /\ Bytes(v, n + 8)
  <2>1. /\ Bytes(f, n + 42) /\ IpOf(f) = header
        /\ UdpOf(f) = u \o d /\ Bytes(u \o d, n + 8)
    BY SMTT(60), <1>17, PartsOfFrame
  <2>2. QED
    BY <1>18, <2>1, Zenon
<1>20. Accepted(header) /\ Bytes(c, 2)
  BY SMT, <1>14, <1>15, IpOutputAccepted
<1>21. NetWords(header)[2] = t
  BY SMT, <1>15, <1>20, IpOutputLength
<1>22. IpRight(f)
  <2>1. Len(f) - 14 = t
    BY SMT, <1>4, <1>6, <1>19 DEF Bytes
  <2>2. QED
    BY SMT, <1>19, <1>20, <1>21, <2>1 DEF IpRight
<1>23. Bytes(u, eight) /\ NetWords(v)[3] = len /\ NetWords(v)[4] = 0
  BY SMT, <1>8, <1>13, <1>16, <1>18, UdpOutputFields
<1>24. Carries(v, eight + k, six, m)
  <2>1. Carries(d, k, six, m)
    BY <1>3, <1>9, <1>13, CarriesMore, Zenon
  <2>2. QED
    BY <1>18, <1>23, <2>1, CarriesBehind, Zenon
<1>25. Carries(v, eight + (i + zero), six10, a)
  <2>1. Carries(d, i + zero, six10, a)
    BY <1>3, <1>9, <1>11, CarriesBehind, Zenon
  <2>2. i + zero \in Nat
    OBVIOUS
  <2>3. QED
    BY <1>18, <1>23, <2>1, <2>2, CarriesBehind, Zenon
<1>26. SubSeq(v, (eight + k) + 1, (eight + k) + six) = m
  <2>1. eight + k \in Nat
    OBVIOUS
  <2>2. QED
    BY <1>24, <2>1, CarriedCut, Zenon
<1>27. SubSeq(v, (eight + (i + zero)) + 1, (eight + (i + zero)) + six10) = a
  <2>1. eight + (i + zero) \in Nat
    OBVIOUS
  <2>2. QED
    BY <1>25, <2>1, CarriedCut, Zenon
<1>28. /\ (eight + k) + 1 = 37 /\ (eight + k) + six = 42
       /\ (eight + (i + zero)) + 1 = 249 /\ (eight + (i + zero)) + six10 = 264
  BY SMT, <1>8
<1>29. Len(v) = len
  BY SMT, <1>4, <1>5, <1>19 DEF Bytes
<1>30. UdpRight(UdpOf(f), m)
  <2>1. Address(v) = m
    <3>1. PICK x : x = (eight + k) + 1
      OBVIOUS
    <3>2. PICK y : y = (eight + k) + six
      OBVIOUS
    <3>3. SubSeq(v, x, y) = m
      BY <1>26, <3>1, <3>2, Zenon
    <3>4. x = 37 /\ y = 42
      BY SMT, <1>28, <3>1, <3>2
    <3>5. QED
      BY SMT, <3>3, <3>4 DEF Address
  <2>2. Requested(v) = a
    <3>1. PICK x : x = (eight + (i + zero)) + 1
      OBVIOUS
    <3>2. PICK y : y = (eight + (i + zero)) + six10
      OBVIOUS
    <3>3. SubSeq(v, x, y) = a
      BY <1>27, <3>1, <3>2, Zenon
    <3>4. x = 249 /\ y = 264
      BY SMT, <1>28, <3>1, <3>2
    <3>5. QED
      BY SMT, <3>3, <3>4 DEF Requested
  <2>3. UdpRight(v, m)
    BY SMT, <1>10, <1>23, <1>29, <2>1, <2>2 DEF UdpRight
  <2>4. QED
    BY <1>19, <2>3, Zenon
<1>31. f \in Seq(Octet)
  BY <1>19, Zenon DEF Bytes
<1>32. QED
  BY <1>22, <1>30, <1>31, Zenon DEF Right
-----------------------------------------------------------------------------
(* Whatever was sent is a frame of main()'s mac that is right.             *)
SentInv ==
    /\ mac \in Macs
    /\ result \in {0, -1}
    /\ sent = <<>> \/ Right(sent, mac)

(* dhcp_discovery sends that frame or nothing.                             *)
LEMMA DhcpDiscoverySends ==
  ASSUME DhcpDiscovery, mac \in Macs
  PROVE  sent' = <<>> \/ Right(sent', mac)
<1>1. PICK beyond \in Stack :
         sent' \in {<<>>, Framed(EtherOutput, DhcpOutput(beyond) \o DiscoveryOptions)}
  BY Zenon DEF DhcpDiscovery, Framed
<1>2. EtherOutput = Addressed(mac)
  BY SMT DEF EtherOutput, Addressed
<1>3. DhcpOutput(beyond) = Message(mac, beyond)
  BY SMT DEF DhcpOutput, Message
<1>4. mac \in [1..6 -> Octet] /\ beyond \in [1..10 -> Octet]
  BY SMT, BytesAssumption
<1>5. PICK f : f = Framed(Addressed(mac), Message(mac, beyond) \o DiscoveryOptions)
  OBVIOUS
<1>6. Right(f, mac)
  BY <1>4, <1>5, DiscoverRight, Zenon
<1>7. sent' \in {<<>>, f}
  BY <1>1, <1>2, <1>3, <1>5, Zenon
<1>8. QED
  BY <1>6, <1>7, Zenon

(* Nothing else sends, and main() does not change its mac.                 *)
LEMMA SentRight == Spec => []SentInv
<1>1. Init => SentInv
  BY DEF Init, SentInv
<1>2. SentInv /\ [Next]_vars => SentInv'
  <2> SUFFICES ASSUME SentInv, [Next]_vars
               PROVE  SentInv'
    OBVIOUS
  <2>1. CASE Open
    BY <2>1 DEF SentInv, Open
  <2>2. CASE DhcpDiscovery
    <3>1. mac \in Macs /\ mac' = mac /\ result' = result
      BY <2>2 DEF SentInv, DhcpDiscovery
    <3>2. sent' = <<>> \/ Right(sent', mac)
      BY <2>2, <3>1, DhcpDiscoverySends
    <3>3. QED
      BY <3>1, <3>2, Zenon DEF SentInv
  <2>3. CASE EtherInput
    BY <2>3 DEF SentInv, EtherInput
  <2>4. CASE Close
    BY <2>4 DEF SentInv, Close
  <2>5. CASE Capture
    BY <2>5 DEF SentInv, Capture
  <2>6. CASE DeviceDown
    BY <2>6 DEF SentInv, DeviceDown
  <2>7. CASE UNCHANGED vars
    BY <2>7 DEF SentInv, vars
  <2>8. QED
    BY <2>1, <2>2, <2>3, <2>4, <2>5, <2>6, <2>7 DEF Next, Main
<1>3. QED
  BY <1>1, <1>2, PTL DEF Spec

(* Whatever main()'s mac is and whatever lies behind it on the stack, a    *)
(* receiver accepts the frame that pcap_inject puts on the wire: the       *)
(* header checksum of in_cksum, which adds the carries twice only, is      *)
(* right, both lengths end where the frame ends, and the hardware address  *)
(* and the options lie where they are looked for.                          *)
THEOREM DiscoverSent == Spec => []DiscoverOnWire
<1>1. SentInv => DiscoverOnWire
  <2> SUFFICES ASSUME SentInv, sent # <<>>
               PROVE  DiscoverOnWire
    BY DEF DiscoverOnWire
  <2>1. Right(sent, mac)
    BY DEF SentInv
  <2>2. QED
    BY <2>1, ZenonT(60) DEF DiscoverOnWire, Right, IpRight, UdpRight, Address, Requested,
                            IpOf, UdpOf, Asked
<1>2. QED
  BY <1>1, SentRight, PTL

(* Every variable that the handlers share has its type: ip is zero or an   *)
(* address that a server named, and no frame is taken before it is there.  *)
THEOREM TypeCorrect == Spec => []TypeOK
<1>1. LoopTypes /\ SentInv => TypeOK
  BY DEF LoopTypes, SentInv, TypeOK
<1>2. QED
  BY <1>1, LoopTypesCorrect, SentRight, PTL
=============================================================================
