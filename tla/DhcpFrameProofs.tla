-------------------------- MODULE DhcpFrameProofs --------------------------
(***************************************************************************)
(* Proofs about DhcpFrame, for any hardware address, any links with any    *)
(* addresses and any contents of the stack.  The loop that adds the        *)
(* carries is shown to yield the sum modulo 2^16 - 1, from which follows   *)
(* that a receiver of either byte order accepts both checksums; the        *)
(* invariant says which bytes are in the buffers at each point of main(),  *)
(* so that what is in the frame can be read off its parts.                 *)
(***************************************************************************)
EXTENDS DhcpFrame, OctetsProofs, TLAPS

(* Adding the carries to the low word takes a multiple of 2^16 - 1 away.    *)
Carried(s, r, q) == s = r + 65535 * q /\ r > 0 /\ r < s
Rest(s) == (s % 65536) + (s \div 65536)

(* Adding the carries makes a sum of more than 16 bits smaller.            *)
LEMMA CarriesShrink ==
  ASSUME NEW s \in Nat, s >= 65536
  PROVE  Rest(s) \in Nat /\ s \div 65536 \in Nat /\ Carried(s, Rest(s), s \div 65536)
BY SMT DEF Carried, Rest

(* What the fold of s may yield                                            *)
Same(s, v) == \E q \in Nat : s = v + 65535 * q
Fold(s, v) == v \in Word /\ (s > 0 => v > 0) /\ Same(s, v)

(* A word is its own fold.                                                 *)
LEMMA FoldOfWord == ASSUME NEW s \in Nat, s < 65536 PROVE Fold(s, s)
<1>1. 0 \in Nat /\ s = s + 65535 * 0
  BY SMT
<1>2. Same(s, s)
  BY SMT, <1>1 DEF Same
<1>3. QED
  BY SMT, <1>2, WordOfNumber DEF Fold

(* What folds once the carries are added is a fold of the sum.             *)
LEMMA FoldOfMore ==
  ASSUME NEW s \in Nat, NEW r \in Nat, NEW q \in Nat, Carried(s, r, q),
         NEW v, Fold(r, v)
  PROVE  Fold(s, v)
<1>1. v \in Word /\ (r > 0 => v > 0) /\ Same(r, v)
  BY Zenon DEF Fold
<1>2. v \in Int /\ v > 0
  <2>1. v \in Int
    BY SMT, <1>1, NumberOfWord
  <2>2. r > 0
    BY SMT DEF Carried
  <2>3. QED
    BY SMT, <1>1, <2>1, <2>2
<1>3. PICK p \in Nat : r = v + 65535 * p
  BY SMT, <1>1 DEF Same
<1>4. PICK t \in Nat : t = p + q
  <2>1. p + q \in Nat
    BY SMT
  <2>2. QED
    BY SMT, <2>1
<1>5. s = v + 65535 * t
  BY SMT, <1>2, <1>3, <1>4 DEF Carried
<1>6. Same(s, v)
  BY SMT, <1>5 DEF Same
<1>7. QED
  BY SMT, <1>1, <1>2, <1>6 DEF Fold

FoldStep(f, s) == IF s < 65536 THEN s ELSE f[Rest(s)]

(* A function that obeys the recursion exists: the remainder modulo 2^16   *)
(* - 1, where a multiple other than zero leaves all ones.                  *)
LEMMA FoldExists ==
  \E f : f = [s \in Nat |-> FoldStep(f, s)]
<1> DEFINE f == [s \in Nat |-> IF s = 0 THEN 0 ELSE ((s - 1) % 65535) + 1]
<1>1. ASSUME NEW s \in Nat PROVE f[s] = FoldStep(f, s)
  <2>1. CASE s < 65536
    BY SMT, <2>1 DEF FoldStep
  <2>2. CASE s >= 65536
    <3>1. PICK r \in Nat, q \in Nat : r = Rest(s) /\ Carried(s, r, q)
      BY SMT, <2>2, CarriesShrink
    <3>2. ((r + 65535 * q) - 1) % 65535 = (r - 1) % 65535
      BY SMT, <3>1 DEF Carried
    <3>3. QED
      BY SMT, <2>2, <3>1, <3>2 DEF FoldStep, Carried
  <2>3. QED
    BY SMT, <2>1, <2>2
<1>2. f = [s \in Nat |-> FoldStep(f, s)]
  BY SMT, <1>1
<1>3. QED
  <2> HIDE DEF f
  <2> QED
    BY <1>2, Zenon

(* FoldCarries applies such a function.                                    *)
LEMMA FoldOf ==
  ASSUME NEW sum \in Nat
  PROVE  \E f : f = [s \in Nat |-> FoldStep(f, s)] /\ FoldCarries(sum) = f[sum]
<1> DEFINE f == CHOOSE f : f = [s \in Nat |-> FoldStep(f, s)]
<1>1. f = [s \in Nat |-> FoldStep(f, s)]
  BY FoldExists, Zenon
<1>2. FoldCarries(sum) = f[sum]
  BY SMT DEF FoldCarries, FoldStep, Rest
<1>3. QED
  <2> HIDE DEF f
  <2> QED
    BY <1>1, <1>2, Zenon

(* The step of the induction below                                         *)
LEMMA FoldValueStep ==
  ASSUME NEW f, f = [s \in Nat |-> FoldStep(f, s)],
         NEW m \in Nat, \A n \in Nat : n < m => Fold(n, f[n])
  PROVE  Fold(m, f[m])
<1>1. f[m] = FoldStep(f, m)
  BY SMT
<1>2. CASE m < 65536
  <2>1. f[m] = m
    BY SMT, <1>1, <1>2 DEF FoldStep
  <2>2. QED
    BY SMT, <1>2, <2>1, FoldOfWord
<1>3. CASE m >= 65536
  <2>1. PICK r \in Nat, q \in Nat : r = Rest(m) /\ Carried(m, r, q)
    BY SMT, <1>3, CarriesShrink
  <2>2. f[m] = f[r]
    BY SMT, <1>1, <1>3, <2>1 DEF FoldStep
  <2>3. Fold(r, f[r])
    BY SMT, <2>1 DEF Carried
  <2>4. Fold(m, f[r])
    BY SMT, <2>1, <2>3, FoldOfMore
  <2>5. QED
    BY SMT, <2>2, <2>4
<1>4. QED
  BY SMT, <1>2, <1>3

(* Any such function yields a fold of every sum: by infinite descent.      *)
LEMMA FoldValue ==
  ASSUME NEW f, f = [s \in Nat |-> FoldStep(f, s)]
  PROVE  \A s \in Nat : Fold(s, f[s])
<1>1. SUFFICES ASSUME {s \in Nat : ~Fold(s, f[s])} # {}
               PROVE  FALSE
  OBVIOUS
<1>2. PICK T \in SUBSET Nat : T = {s \in Nat : ~Fold(s, f[s])}
  OBVIOUS
<1>3. PICK m \in T : \A n \in T : m <= n
  BY <1>1, <1>2, LeastNumber, Zenon
<1>4. m \in Nat /\ ~Fold(m, f[m])
  BY SMT, <1>2
<1>5. \A n \in Nat : n < m => Fold(n, f[n])
  BY SMT, <1>2, <1>3, <1>4
<1>6. Fold(m, f[m])
  BY SMT, <1>4, <1>5, FoldValueStep
<1>7. QED
  BY SMT, <1>4, <1>6

(* So does FoldCarries; its loop ends with the sum modulo 2^16 - 1.        *)
LEMMA FoldCarriesValue == ASSUME NEW sum \in Nat PROVE Fold(sum, FoldCarries(sum))
BY SMT, FoldOf, FoldValue

(* What ChecksumOf yields completes the sum it is given.                   *)
LEMMA ChecksumCompletes ==
  ASSUME NEW sum \in Nat, sum > 0
  PROVE  \E check \in Word : ChecksumOf(sum) = Host16(check) /\ Completes(sum, check)
<1>1. PICK v : v = FoldCarries(sum)
  OBVIOUS
<1>2. v \in Word /\ Same(sum, v)
  <2>1. Fold(sum, v)
    BY <1>1, FoldCarriesValue
  <2>2. QED
    BY <2>1, Zenon DEF Fold
<1>3. PICK q \in Nat : sum = v + 65535 * q
  BY SMT, <1>2 DEF Same
<1>4. PICK c \in Word : v + c = 65535 /\ c = 65535 - v /\ c % 65536 = c
  BY <1>2, Complement
<1>5. ChecksumOf(sum) = Host16(c)
  BY SMT, <1>1, <1>4 DEF ChecksumOf
<1>6. (sum + c) % 65535 = 0
  <2>1. v \in Nat /\ c \in Nat
    BY SMT, <1>2, <1>4, NumberOfWord
  <2>2. QED
    BY SMT, <2>1, <1>3, <1>4, ComplementSum
<1>7. Completes(sum, c)
  BY SMT, <1>6 DEF Completes
<1>8. QED
  BY <1>4, <1>5, <1>7, SMT
-----------------------------------------------------------------------------
(* A header whose checksum field lies between two parts                    *)
LEMMA IpHeaderAccepted ==
  ASSUME NEW t \in Word, NEW ip, ip = IpHeader(t, IpChecksum(IpHeader(t, Zeros(2))))
  PROVE  /\ Accepted(ip) /\ Bytes(ip, 20)
         /\ Bytes(IpChecksum(IpHeader(t, Zeros(2))), 2)
<1>1. PICK v : v = <<69, 16>>
  OBVIOUS
<1>2. PICK l : l = Net16(t)
  OBVIOUS
<1>3. PICK x : x = <<255, 17>>
  OBVIOUS
<1>4. PICK y : y = <<255, 255, 255, 255>>
  OBVIOUS
<1>5. PICK z : z = Zeros(4)
  OBVIOUS
<1>6. PICK e : e = Zeros(2)
  OBVIOUS
<1>7. /\ Bytes(v, 2) /\ Bytes(l, 2) /\ Bytes(x, 2)
      /\ Bytes(y, 4) /\ Bytes(z, 4) /\ Bytes(e, 2)
  <2>1. 16 \in Octet /\ 17 \in Octet /\ 69 \in Octet /\ 255 \in Octet
    BY SMT DEF Octet
  <2>2. Bytes(v, 2) /\ Bytes(x, 2) /\ Bytes(y, 4)
    BY SMT, <1>1, <1>3, <1>4, <2>1 DEF Bytes
  <2>3. Bytes(l, 2)
    BY SMT, <1>2, NumberBytes DEF Bytes
  <2>4. Bytes(z, 4) /\ Bytes(e, 2)
    BY SMT, <1>5, <1>6, BytesOfZeros
  <2>5. QED
    BY <2>2, <2>3, <2>4
<1>8. PICK pre : pre = v \o l \o z \o x
  OBVIOUS
<1>9. PICK post : post = z \o y
  OBVIOUS
<1>10. \A c : Bytes(c, 2) => IpHeader(t, c) = pre \o c \o post
  <2> TAKE c
  <2> HAVE Bytes(c, 2)
  <2>1. IpHeader(t, c) = ((((v \o l) \o z) \o x) \o c) \o z \o y
    BY SMT, <1>1, <1>2, <1>3, <1>4, <1>5 DEF IpHeader
  <2>2. pre \in Seq(Octet) /\ c \in Seq(Octet) /\ z \in Seq(Octet) /\ y \in Seq(Octet)
    BY SMT, <1>7, <1>8 DEF Bytes
  <2>3. PICK w : w = pre \o c
    OBVIOUS
  <2>4. w \in Seq(Octet)
    BY SMT, <2>2, <2>3
  <2>5. w \o (z \o y) = (w \o z) \o y
    BY SMTT(30), <2>2, <2>4
  <2>6. IpHeader(t, c) = (w \o z) \o y
    BY <2>1, <1>8, <2>3, Zenon
  <2>7. QED
    BY <2>3, <2>5, <2>6, <1>9, Zenon
<1>11. Even(v) /\ Even(l) /\ Even(x) /\ Even(z)
  <2>1. 2 = 2 * 1 /\ 4 = 2 * 2
    BY SMT
  <2>2. QED
    BY SMT, <2>1, <1>7, EvenBytes
<1>12. Even(v \o l) /\ Even(v \o l \o z) /\ Even(pre)
  BY <1>8, <1>11, EvenBoth, Zenon
<1>13. HostSum(pre) \in Nat /\ HostSum(pre) > 0
  <2>1. v \in Seq(Octet) /\ l \in Seq(Octet) /\ z \in Seq(Octet) /\ x \in Seq(Octet)
    BY Zenon, <1>11 DEF Even
  <2>2. /\ HostSum(v \o l) = HostSum(v) + HostSum(l)
        /\ HostSum(v) \in Nat /\ HostSum(l) \in Nat
    BY <1>11, <2>1, HostSumOfEven, Zenon
  <2>3. /\ HostSum(v \o l \o z) = HostSum(v \o l) + HostSum(z)
        /\ HostSum(z) \in Nat
    BY <1>12, <2>1, HostSumOfEven, Zenon
  <2>4. /\ HostSum(v \o l \o z \o x) = HostSum(v \o l \o z) + HostSum(x)
        /\ HostSum(x) \in Nat
    BY <1>12, <2>1, HostSumOfEven, Zenon
  <2>5. HostSum(v) > 0
    <3>1. 69 \in Octet /\ 16 \in Octet
      BY SMT DEF Octet
    <3>2. HostSum(<<69, 16>>) = 69 + 256 * 16
      BY SMT, <3>1, HostSumOfPair
    <3>3. QED
      BY SMT, <3>2, <1>1
  <2>6. QED
    BY SMT, <1>8, <2>2, <2>3, <2>4, <2>5
<1>14. pre \in Seq(Octet) /\ post \in Seq(Octet) /\ e \in Seq(Octet) /\ Len(e) = 2
  BY SMT, <1>7, <1>8, <1>9 DEF Bytes
<1>15. HostSum(post) \in Nat
  BY <1>14, SumTypes
<1>16. PICK s \in Nat : s = HostSum(pre) + HostSum(post)
  BY <1>13, <1>15
<1>17. s > 0
  BY SMT, <1>13, <1>15, <1>16
<1>18. SumFunction(HostWords(IpHeader(t, e))) = s
  <2>1. PICK k \in Nat : Len(pre) = 2 * k
    BY <1>12, Zenon DEF Even
  <2>2. HostSum(pre \o e \o post) = HostSum(pre) + HostSum(e) + HostSum(post)
    BY <2>1, <1>14, HostSumAround, Zenon
  <2>3. HostSum(e) = 0
    BY <1>6, HostSumOfZeros, Zenon
  <2>4. HostSum(pre \o e \o post) = s
    BY SMT, <2>2, <2>3, <1>13, <1>15, <1>16
  <2>5. IpHeader(t, e) = pre \o e \o post
    BY <1>7, <1>10, Zenon
  <2>6. QED
    BY <2>4, <2>5, Zenon DEF HostSum
<1>19. PICK c \in Word : ChecksumOf(s) = Host16(c) /\ Completes(s, c)
  BY <1>17, ChecksumCompletes
<1>20. IpChecksum(IpHeader(t, e)) = Host16(c)
  BY <1>18, <1>19, Zenon DEF IpChecksum
<1>21. Bytes(Host16(c), 2)
  BY SMT, NumberBytes DEF Bytes
<1>22. ip = pre \o Host16(c) \o post
  BY <1>6, <1>10, <1>20, <1>21, Zenon
<1>23. Accepted(ip)
  BY <1>12, <1>14, <1>16, <1>19, <1>22, ChecksumAccepted, Zenon
<1>24. Bytes(ip, 20)
  <2>1. Bytes(v \o l, 2 + 2)
    BY SMT, <1>7, BytesOfBoth
  <2>2. Bytes(v \o l \o z, 2 + 2 + 4)
    BY SMT, <1>7, <2>1, BytesOfBoth
  <2>3. Bytes(pre, 2 + 2 + 4 + 2)
    BY SMT, <1>7, <1>8, <2>2, BytesOfBoth
  <2>4. Bytes(post, 4 + 4)
    BY SMT, <1>7, <1>9, BytesOfBoth
  <2>5. Bytes(pre \o Host16(c), 2 + 2 + 4 + 2 + 2)
    BY SMT, <1>21, <2>3, BytesOfBoth
  <2>6. Bytes(ip, 2 + 2 + 4 + 2 + 2 + (4 + 4))
    <3>1. 2 + 2 + 4 + 2 + 2 \in Nat /\ 4 + 4 \in Nat
      BY SMT
    <3>2. QED
      BY <3>1, <1>22, <2>4, <2>5, BytesOfBoth, Zenon
  <2>7. 2 + 2 + 4 + 2 + 2 + (4 + 4) = 20
    BY SMT
  <2>8. QED
    BY <2>6, <2>7
<1>25. Bytes(IpChecksum(IpHeader(t, Zeros(2))), 2)
  BY <1>6, <1>20, <1>21, Zenon
<1>26. QED
  BY <1>23, <1>24, <1>25

(* The checksum of a datagram with data d, behind the header ip            *)
Checksummed(len, d, n, ip, a, check) ==
    /\ Bytes(d, n) /\ len = n + 8
    /\ a = SubSeq(ip, 13, 20) /\ Bytes(a, 8)
    /\ check = UdpChecksum(ip, UdpHeader(len, Zeros(2)) \o d)

(* udpChecksum, over the addresses, the protocol, the length and the       *)
(* datagram, makes a receiver accept the datagram, whatever the data are   *)
(* and whether or not their number is even.                                *)
LEMMA DatagramAccepted ==
  ASSUME NEW len \in Word, NEW d, NEW n \in Nat, NEW ip, NEW a, NEW check,
         Checksummed(len, d, n, ip, a, check)
  PROVE  /\ Bytes(check, 2)
         /\ Bytes(UdpHeader(len, check), 8)
         /\ Accepted(a \o <<0, 17>> \o Net16(len) \o (UdpHeader(len, check) \o d))
<1>0. Bytes(d, n) /\ Bytes(a, 8)
  BY SMT DEF Checksummed
<1>1. PICK p : p = <<0, 68, 0, 67>>
  OBVIOUS
<1>2. PICK l : l = Net16(len)
  OBVIOUS
<1>3. PICK v : v = <<0, 17>>
  OBVIOUS
<1>4. PICK e : e = Zeros(2)
  OBVIOUS
<1>5. Bytes(p, 4) /\ Bytes(l, 2) /\ Bytes(v, 2) /\ Bytes(e, 2)
  <2>1. 0 \in Octet /\ 17 \in Octet /\ 67 \in Octet /\ 68 \in Octet
    BY SMT DEF Octet
  <2>2. Bytes(p, 4) /\ Bytes(v, 2)
    BY SMT, <1>1, <1>3, <2>1 DEF Bytes
  <2>3. Bytes(l, 2)
    BY SMT, <1>2, NumberBytes DEF Bytes
  <2>4. Bytes(e, 2)
    BY SMT, <1>4, BytesOfZeros
  <2>5. QED
    BY <2>2, <2>3, <2>4
<1>6. /\ a \in Seq(Octet) /\ p \in Seq(Octet) /\ l \in Seq(Octet)
      /\ v \in Seq(Octet) /\ e \in Seq(Octet) /\ d \in Seq(Octet) /\ Len(e) = 2
  BY <1>0, <1>5, Zenon DEF Bytes
<1>7. Even(a) /\ Even(p) /\ Even(l) /\ Even(v) /\ Even(e)
  <2>1. 2 = 2 * 1 /\ 4 = 2 * 2 /\ 8 = 2 * 4
    BY SMT
  <2>2. QED
    BY SMT, <2>1, <1>0, <1>5, EvenBytes
(* The rest of the datagram                                                *)
<1>8. PICK h : h = p \o l
  OBVIOUS
<1>9. PICK pre : pre = a \o v \o l \o h
  OBVIOUS
<1>10. Even(h) /\ Even(a \o v) /\ Even(a \o v \o l) /\ Even(pre)
  BY <1>7, <1>8, <1>9, EvenBoth, Zenon
<1>11. h \in Seq(Octet) /\ a \o v \in Seq(Octet) /\ a \o v \o l \in Seq(Octet) /\ pre \in Seq(Octet)
  BY <1>10, Zenon DEF Even
<1>12. \A c : Bytes(c, 2) =>
          a \o v \o l \o (UdpHeader(len, c) \o d) = pre \o c \o d
  <2> TAKE c
  <2> HAVE Bytes(c, 2)
  <2>1. c \in Seq(Octet) /\ h \o c \in Seq(Octet)
    BY SMT, <1>11 DEF Bytes
  <2>2. UdpHeader(len, c) = h \o c
    BY SMT, <1>1, <1>2, <1>8 DEF UdpHeader
  <2>3. PICK x : x = a \o v \o l
    OBVIOUS
  <2>7. x \in Seq(Octet)
    BY <1>11, <2>3
  <2>4. h \in Seq(Octet) /\ d \in Seq(Octet)
    BY <1>6, <1>11
  <2>5. x \o ((h \o c) \o d) = ((x \o h) \o c) \o d
    <3>1. Regroups(x, h, c, d)
      BY <2>1, <2>4, <2>7, Regrouped, Zenon
    <3>2. QED
      BY <3>1, Zenon DEF Regroups
  <2>6. QED
    BY <1>9, <2>2, <2>3, <2>5, Zenon
<1>13. /\ HostSum(pre) = HostSum(a \o v \o l) + HostSum(h)
       /\ HostSum(a \o v \o l) = HostSum(a \o v) + HostSum(l)
       /\ HostSum(a \o v) = HostSum(a) + HostSum(v)
       /\ HostSum(a) \in Nat /\ HostSum(v) \in Nat /\ HostSum(l) \in Nat
       /\ HostSum(h) \in Nat
  BY <1>6, <1>7, <1>9, <1>10, <1>11, HostSumOfEven, Zenon
<1>14. HostSum(v) = 256 * 17
  <2>1. 0 \in Octet /\ 17 \in Octet
    BY SMT DEF Octet
  <2>2. HostSum(<<0, 17>>) = 0 + 256 * 17
    BY SMT, <2>1, HostSumOfPair
  <2>3. QED
    BY SMT, <2>2, <1>3
<1>15. HostSum(l) = HostWords(Net16(len))[1]
  BY <1>2, HostSumOfNet
<1>16. HostSum(d) \in Nat
  BY <1>6, SumTypes
<1>17. PICK u : u = UdpHeader(len, e) \o d
  OBVIOUS
<1>18. HostSum(a \o u) = HostSum(a) + HostSum(h) + HostSum(d)
  <2>1. HostSum(a \o u) = HostSum(a) + HostSum(u)
    <3>1. u \in Seq(Octet)
      BY SMT, <1>1, <1>2, <1>6, <1>17 DEF UdpHeader
    <3>2. QED
      BY <3>1, <1>7, HostSumOfEven, Zenon
  <2>2. u = h \o e \o d
    <3>1. UdpHeader(len, e) = h \o e
      BY SMT, <1>1, <1>2, <1>8 DEF UdpHeader
    <3>2. QED
      BY <3>1, <1>17, Zenon
  <2>3. PICK k \in Nat : Len(h) = 2 * k
    BY <1>10, Zenon DEF Even
  <2>4. HostSum(h \o e \o d) = HostSum(h) + HostSum(e) + HostSum(d)
    <3>1. h \in Seq(Octet) /\ e \in Seq(Octet) /\ d \in Seq(Octet) /\ Len(e) = 2
      BY <1>6, <1>11
    <3>2. QED
      BY <2>3, <3>1, HostSumAround, Zenon
  <2>5. HostSum(e) = 0
    BY <1>4, HostSumOfZeros, Zenon
  <2>6. QED
    BY SMT, <1>13, <1>16, <2>1, <2>2, <2>4, <2>5
<1>19. Len(u) = len
  <2>1. Bytes(p \o l, 4 + 2)
    BY SMT, <1>5, BytesOfBoth
  <2>2. Bytes(p \o l \o e, 4 + 2 + 2)
    BY SMT, <1>5, <2>1, BytesOfBoth
  <2>3. UdpHeader(len, e) = p \o l \o e
    BY SMT, <1>1, <1>2 DEF UdpHeader
  <2>4. 4 + 2 + 2 \in Nat
    BY SMT
  <2>5. Bytes(u, 4 + 2 + 2 + n)
    BY <1>0, <2>2, <2>3, <2>4, <1>17, BytesOfBoth, Zenon
  <2>6. QED
    BY SMT, <2>5 DEF Bytes, Checksummed
<1>20. PICK s \in Nat : s = HostSum(pre) + HostSum(d)
  BY <1>13, <1>16
<1>21. s > 0
  BY SMT, <1>13, <1>14, <1>16, <1>20
<1>22. SumFunction(HostWords(a \o u)) + 256 * 17 + HostWords(Net16(len))[1] = s
  <2>1. SumFunction(HostWords(a \o u)) = HostSum(a \o u)
    BY Zenon DEF HostSum
  <2>2. QED
    BY SMT, <2>1, <1>13, <1>14, <1>15, <1>16, <1>18, <1>20
<1>23. UdpChecksum(ip, u) = ChecksumOf(s)
  BY SMT, <1>19, <1>22 DEF UdpChecksum, Checksummed
<1>24. PICK c \in Word : ChecksumOf(s) = Host16(c) /\ Completes(s, c)
  BY <1>21, ChecksumCompletes
<1>25. check = Host16(c)
  <2>1. check = UdpChecksum(ip, u)
    BY SMT, <1>4, <1>17 DEF Checksummed
  <2>2. QED
    BY <2>1, <1>23, <1>24, Zenon
<1>26. Bytes(check, 2)
  BY SMT, <1>25, NumberBytes DEF Bytes
<1>27. Accepted(pre \o Host16(c) \o d)
  BY <1>6, <1>10, <1>20, <1>24, ChecksumAccepted, Zenon
<1>28. Accepted(a \o v \o l \o (UdpHeader(len, check) \o d))
  BY <1>12, <1>25, <1>26, <1>27, Zenon
<1>29. Bytes(UdpHeader(len, check), 8)
  <2>1. Bytes(p \o l, 4 + 2)
    BY SMT, <1>5, BytesOfBoth
  <2>2. Bytes(p \o l \o check, 4 + 2 + 2)
    BY SMT, <1>26, <2>1, BytesOfBoth
  <2>3. UdpHeader(len, check) = p \o l \o check
    BY SMT, <1>1, <1>2 DEF UdpHeader
  <2>4. 4 + 2 + 2 = 8
    BY SMT
  <2>5. QED
    BY <2>2, <2>3, <2>4
<1>30. QED
  BY <1>2, <1>3, <1>26, <1>28, <1>29, Zenon
-----------------------------------------------------------------------------
(* What dhcpPacket builds of a hardware address, a kind and the options o  *)
Message(m, k, o) == MainDhcp(m, ClientIp(k)) \o o \o <<255>>
Framed(m, len, t, d) ==
    LET ip == IpHeader(t, IpChecksum(IpHeader(t, Zeros(2))))
        check == UdpChecksum(ip, UdpHeader(len, Zeros(2)) \o d)
    IN  EthernetHeader(m) \o ip \o UdpHeader(len, check) \o d
FrameOf(m, d) == Framed(m, Len(d) + 8, Len(d) + 8 + 20, d)

(* The ethernet header has 14 bytes,                                       *)
LEMMA EthernetBytes ==
  ASSUME NEW m \in [1..6 -> Octet]
  PROVE  Bytes(EthernetHeader(m), 14)
<1>1. EthernetHeader(m) = Addressed(m)
  BY SMT DEF EthernetHeader, Addressed
<1>2. QED
  BY <1>1, AddressedBytes, Zenon

(* the fixed part of the message 240                                       *)
LEMMA MainDhcpBytes ==
  ASSUME NEW m \in [1..6 -> Octet], NEW k \in Kinds
  PROVE  Bytes(MainDhcp(m, ClientIp(k)), 240)
<1>1. PICK b : b = <<1, 1, 6, 0>>
  OBVIOUS
<1>2. PICK x : x = <<25, 240, 90, 149>>
  OBVIOUS
<1>3. PICK z : z = Zeros(4)
  OBVIOUS
<1>4. PICK c : c = ClientIp(k)
  OBVIOUS
<1>5. PICK y : y = Zeros(12)
  OBVIOUS
<1>6. PICK r : r = Zeros(10 + 64 + 128)
  OBVIOUS
<1>7. PICK w : w = <<99, 130, 83, 99>>
  OBVIOUS
<1>8. MainDhcp(m, c) = b \o x \o z \o c \o y \o m \o r \o w
  BY SMT, <1>1, <1>2, <1>3, <1>5, <1>6, <1>7 DEF MainDhcp
<1>9. PICK i \in Nat, j \in Nat, l \in Nat, n \in Nat :
         i = 4 /\ j = 12 /\ l = 6 /\ n = 10 + 64 + 128
  BY SMT
<1>10. /\ Bytes(b, i) /\ Bytes(x, i) /\ Bytes(z, i) /\ Bytes(c, i)
       /\ Bytes(y, j) /\ Bytes(m, l) /\ Bytes(r, n) /\ Bytes(w, i)
  <2>1. /\ 0 \in Octet /\ 1 \in Octet /\ 6 \in Octet /\ 25 \in Octet
        /\ 83 \in Octet /\ 90 \in Octet /\ 99 \in Octet /\ 100 \in Octet
        /\ 130 \in Octet /\ 149 \in Octet /\ 168 \in Octet /\ 192 \in Octet
        /\ 240 \in Octet
    BY SMT DEF Octet
  <2>2. Bytes(b, i) /\ Bytes(x, i) /\ Bytes(w, i)
    BY SMT, <1>1, <1>2, <1>7, <1>9, <2>1 DEF Bytes
  <2>3. Bytes(<<192, 168, 1, 100>>, i)
    BY SMT, <1>9, <2>1 DEF Bytes
  <2>4. Bytes(z, i) /\ Bytes(y, j) /\ Bytes(r, n) /\ Bytes(Zeros(4), i)
    BY SMT, <1>3, <1>5, <1>6, <1>9, BytesOfZeros
  <2>5. Bytes(c, i)
    BY SMT, <1>4, <2>3, <2>4 DEF ClientIp
  <2>6. Bytes(m, l)
    BY SMT, <1>9, HardwareAddress
  <2>7. QED
    BY <2>2, <2>4, <2>5, <2>6
<1>11. Bytes(b \o x, i + i)
  BY <1>10, BytesOfBoth, Zenon
<1>12. /\ i + i \in Nat /\ i + i + i \in Nat /\ i + i + i + i \in Nat
       /\ i + i + i + i + j \in Nat /\ i + i + i + i + j + l \in Nat
       /\ i + i + i + i + j + l + n \in Nat
  BY SMT
<1>13. Bytes(b \o x \o z, i + i + i)
  BY <1>10, <1>11, <1>12, BytesOfBoth, Zenon
<1>14. Bytes(b \o x \o z \o c, i + i + i + i)
  BY <1>10, <1>12, <1>13, BytesOfBoth, Zenon
<1>15. Bytes(b \o x \o z \o c \o y, i + i + i + i + j)
  BY <1>10, <1>12, <1>14, BytesOfBoth, Zenon
<1>16. Bytes(b \o x \o z \o c \o y \o m, i + i + i + i + j + l)
  BY <1>10, <1>12, <1>15, BytesOfBoth, Zenon
<1>17. Bytes(b \o x \o z \o c \o y \o m \o r, i + i + i + i + j + l + n)
  BY <1>10, <1>12, <1>16, BytesOfBoth, Zenon
<1>18. Bytes(b \o x \o z \o c \o y \o m \o r \o w, i + i + i + i + j + l + n + i)
  BY <1>10, <1>12, <1>17, BytesOfBoth, Zenon
<1>19. i + i + i + i + j + l + n + i = 240
  BY SMT, <1>9
<1>20. QED
  BY SMT, <1>4, <1>8, <1>18, <1>19

(* and the message one more than its options beside that.                  *)
LEMMA MessageBytes ==
  ASSUME NEW m \in [1..6 -> Octet], NEW k \in Kinds, NEW n \in Nat, NEW o, Bytes(o, n)
  PROVE  Bytes(Message(m, k, o), n + 241)
<1>1. PICK b : b = MainDhcp(m, ClientIp(k))
  OBVIOUS
<1>2. PICK e : e = <<255>>
  OBVIOUS
<1>3. PICK i \in Nat, j \in Nat : i = 240 /\ j = 1
  BY SMT
<1>4. Bytes(b, i) /\ Bytes(e, j)
  <2>1. 255 \in Octet
    BY SMT DEF Octet
  <2>2. QED
    BY SMT, <1>1, <1>2, <1>3, <2>1, MainDhcpBytes DEF Bytes
<1>5. Bytes(b \o o, i + n)
  BY <1>4, BytesOfBoth, Zenon
<1>6. i + n \in Nat
  OBVIOUS
<1>7. Bytes(b \o o \o e, i + n + j)
  BY <1>4, <1>5, <1>6, BytesOfBoth, Zenon
<1>8. i + n + j = n + 241
  BY SMT, <1>3
<1>9. QED
  BY SMT, <1>1, <1>2, <1>7, <1>8 DEF Message

(* The two addresses at the end of the IP header                           *)
LEMMA AddressBytes ==
  ASSUME NEW ip, Bytes(ip, 20)
  PROVE  Bytes(SubSeq(ip, 13, 20), 8)
<1>1. PICK n \in Nat, i \in Nat, k \in Nat : n = 20 /\ i = 12 /\ k = 8
  BY SMT
<1>2. i + k <= n /\ i + 1 = 13 /\ i + k = 20
  BY SMT, <1>1
<1>3. Bytes(SubSeq(ip, i + 1, i + k), k)
  <2>1. Bytes(ip, n) /\ i + k <= n
    BY <1>1, <1>2
  <2>2. QED
    BY <2>1, CutBytes, Zenon
<1>4. QED
  BY <1>1, <1>2, <1>3, Zenon

Fits(n) == n + 28 <= 65535

(* A frame around data d                                                   *)
LEMMA FrameParts ==
  ASSUME NEW m \in [1..6 -> Octet], NEW n \in Nat, Fits(n), NEW d, Bytes(d, n)
  PROVE  \E len \in Word, t \in Word : \E c, check :
            /\ len = n + 8 /\ t = n + 28
            /\ Bytes(c, 2) /\ Bytes(check, 2)
            /\ Parts(FrameOf(m, d), n, EthernetHeader(m), IpHeader(t, c),
                     UdpHeader(len, check), d)
            /\ Accepted(IpHeader(t, c))
            /\ Accepted(SubSeq(IpHeader(t, c), 13, 20) \o <<0, 17>> \o Net16(len)
                        \o (UdpHeader(len, check) \o d))
<1>1. PICK len \in Word : len = n + 8
  <2>1. n + 8 \in Nat /\ n + 8 <= 65535
    BY SMT DEF Fits
  <2>2. n + 8 \in Word
    BY SMT, <2>1, WordOfNumber
  <2>3. QED
    BY SMT, <2>2
<1>2. PICK t \in Word : t = n + 28
  <2>1. n + 28 \in Nat /\ n + 28 <= 65535
    BY SMT DEF Fits
  <2>2. n + 28 \in Word
    BY SMT, <2>1, WordOfNumber
  <2>3. QED
    BY SMT, <2>2
<1>3. PICK c : c = IpChecksum(IpHeader(t, Zeros(2)))
  OBVIOUS
<1>4. PICK ip : ip = IpHeader(t, c)
  OBVIOUS
<1>5. Accepted(ip) /\ Bytes(ip, 20)
  BY SMT, <1>3, <1>4, IpHeaderAccepted
<1>6. PICK a : a = SubSeq(ip, 13, 20)
  OBVIOUS
<1>7. Bytes(a, 8)
  BY <1>5, <1>6, AddressBytes
<1>8. PICK check : check = UdpChecksum(ip, UdpHeader(len, Zeros(2)) \o d)
  OBVIOUS
<1>9. Checksummed(len, d, n, ip, a, check)
  BY SMT, <1>1, <1>6, <1>7, <1>8 DEF Checksummed
<1>10. /\ Bytes(check, 2) /\ Bytes(UdpHeader(len, check), 8)
       /\ Accepted(a \o <<0, 17>> \o Net16(len) \o (UdpHeader(len, check) \o d))
  BY SMT, <1>9, DatagramAccepted
<1>11. FrameOf(m, d) = EthernetHeader(m) \o ip \o UdpHeader(len, check) \o d
  <2>1. Len(d) + 8 = len /\ len + 20 = t
    BY SMT, <1>1, <1>2 DEF Bytes
  <2>2. QED
    <3>1. FrameOf(m, d) = Framed(m, len, t, d)
      BY SMT, <2>1 DEF FrameOf
    <3>2. QED
      BY <3>1, <1>3, <1>4, <1>8, Zenon DEF Framed
<1>12. Parts(FrameOf(m, d), n, EthernetHeader(m), ip, UdpHeader(len, check), d)
  BY SMT, <1>5, <1>10, <1>11, EthernetBytes DEF Parts
<1>13. Bytes(c, 2)
  BY SMT, <1>3, IpHeaderAccepted
<1>14. QED
  BY SMT, <1>1, <1>2, <1>4, <1>5, <1>6, <1>10, <1>12, <1>13

(* The length fields                                                       *)
LEMMA IpLength ==
  ASSUME NEW t \in Word, NEW c, Bytes(c, 2)
  PROVE  NetWords(IpHeader(t, c))[2] = t
<1>1. PICK v : v = <<69, 16>>
  OBVIOUS
<1>2. PICK l : l = Net16(t)
  OBVIOUS
<1>3. PICK x : x = <<255, 17>>
  OBVIOUS
<1>4. PICK y : y = <<255, 255, 255, 255>>
  OBVIOUS
<1>5. PICK z : z = Zeros(4)
  OBVIOUS
<1>6. IpHeader(t, c) = v \o l \o z \o x \o c \o z \o y
  BY SMT, <1>1, <1>2, <1>3, <1>4, <1>5 DEF IpHeader
<1>7. PICK one \in Nat, n \in Nat : one = 1 /\ n = 2 * one + 2
  BY SMT
<1>8. /\ Bytes(v, 2 * one) /\ l \in Seq(Octet) /\ z \in Seq(Octet)
      /\ x \in Seq(Octet) /\ y \in Seq(Octet) /\ c \in Seq(Octet) /\ Bytes(v \o l, n)
  <2>1. 16 \in Octet /\ 17 \in Octet /\ 69 \in Octet /\ 255 \in Octet
    BY SMT DEF Octet
  <2>2. Bytes(v, 2) /\ x \in Seq(Octet) /\ y \in Seq(Octet)
    BY SMT, <1>1, <1>3, <1>4, <2>1 DEF Bytes
  <2>3. l \in Seq(Octet) /\ Bytes(l, 2)
    BY SMT, <1>2, NumberBytes DEF Bytes
  <2>4. z \in Seq(Octet)
    BY SMT, <1>5, BytesOfZeros DEF Bytes
  <2>5. c \in Seq(Octet)
    BY Zenon DEF Bytes
  <2>6. Bytes(v \o l, 2 + 2)
    BY SMT, <2>2, <2>3, BytesOfBoth
  <2>7. 2 * one = 2 /\ n = 2 + 2
    BY SMT, <1>7
  <2>8. QED
    BY <2>2, <2>3, <2>4, <2>5, <2>6, <2>7
<1>9. Begins(v \o l, n, v \o l)
  BY <1>8, BeginsItself, Zenon
<1>10. Begins(v \o l \o z \o x, n, v \o l)
  BY <1>8, <1>9, BeginsLonger, Zenon
<1>11. Begins(v \o l \o z \o x \o c \o z \o y, n, v \o l)
  BY <1>8, <1>10, BeginsLonger, Zenon
<1>12. NetWords(IpHeader(t, c))[one + 1] = t
  <2>1. PICK b : b = IpHeader(t, c)
    OBVIOUS
  <2>2. Begins(b, n, v \o Net16(t))
    BY <1>2, <1>6, <1>11, <2>1, Zenon
  <2>3. Bytes(v, 2 * one) /\ n = 2 * one + 2
    BY <1>7, <1>8
  <2>4. NetWords(b)[one + 1] = t
    BY <2>2, <2>3, NumberReadBack, Zenon
  <2>5. QED
    BY <2>1, <2>4, Zenon
<1>13. QED
  BY SMT, <1>7, <1>12

(* The same of the UDP header                                              *)
LEMMA UdpLength ==
  ASSUME NEW len \in Word, NEW c, Bytes(c, 2), NEW d \in Seq(Octet)
  PROVE  NetWords(UdpHeader(len, c) \o d)[3] = len
<1>1. PICK p : p = <<0, 68, 0, 67>>
  OBVIOUS
<1>2. PICK l : l = Net16(len)
  OBVIOUS
<1>3. UdpHeader(len, c) \o d = p \o l \o c \o d
  BY SMT, <1>1, <1>2 DEF UdpHeader
<1>4. PICK two \in Nat, n \in Nat : two = 2 /\ n = 2 * two + 2
  BY SMT
<1>5. /\ Bytes(p, 2 * two) /\ l \in Seq(Octet)
      /\ c \in Seq(Octet) /\ Bytes(p \o l, n)
  <2>1. 0 \in Octet /\ 67 \in Octet /\ 68 \in Octet
    BY SMT DEF Octet
  <2>2. Bytes(p, 4)
    BY SMT, <1>1, <2>1 DEF Bytes
  <2>3. l \in Seq(Octet) /\ Bytes(l, 2)
    BY SMT, <1>2, NumberBytes DEF Bytes
  <2>4. c \in Seq(Octet)
    BY Zenon DEF Bytes
  <2>5. Bytes(p \o l, 4 + 2)
    BY SMT, <2>2, <2>3, BytesOfBoth
  <2>6. 2 * two = 4 /\ n = 4 + 2
    BY SMT, <1>4
  <2>7. QED
    BY <2>2, <2>3, <2>4, <2>5, <2>6
<1>6. Begins(p \o l, n, p \o l)
  BY <1>5, BeginsItself, Zenon
<1>7. Begins(p \o l \o c \o d, n, p \o l)
  BY <1>5, <1>6, BeginsLonger, Zenon
<1>8. NetWords(UdpHeader(len, c) \o d)[two + 1] = len
  <2>1. PICK b : b = UdpHeader(len, c) \o d
    OBVIOUS
  <2>2. Begins(b, n, p \o Net16(len))
    BY <1>2, <1>3, <1>7, <2>1, Zenon
  <2>3. Bytes(p, 2 * two) /\ n = 2 * two + 2
    BY <1>4, <1>5
  <2>4. NetWords(b)[two + 1] = len
    BY <2>2, <2>3, NumberReadBack, Zenon
  <2>5. QED
    BY <2>1, <2>4, Zenon
<1>9. QED
  BY SMT, <1>4, <1>8
-----------------------------------------------------------------------------
(* What a copy into the buffer does                                        *)
Copied(w, b, n, at, data) ==
    /\ w \in [1..n -> Octet]
    /\ \A i \in 1..n : i <= at => w[i] = b[i]
    /\ \A i \in 1..Len(data) : at + i <= n => w[at + i] = data[i]

(* What Written leaves in a buffer long enough: the data where they were   *)
(* written, and what was there before in front of them.                    *)
LEMMA WrittenBytes ==
  ASSUME NEW n \in Nat, NEW b \in [1..n -> Octet], NEW at \in Nat, NEW data \in Seq(Octet)
  PROVE  Copied(Written(b, at, data), b, n, at, data)
<1>1. PICK w : w = Written(b, at, data)
  OBVIOUS
<1>2. w = [i \in 1..n |-> IF i - at \in 1..Len(data) THEN data[i - at] ELSE b[i]]
  BY <1>1 DEF Written
<1>3. w \in [1..n -> Octet]
  BY <1>2
<1>4. \A i \in 1..n : i <= at => w[i] = b[i]
  BY <1>2
<1>5. ASSUME NEW i \in 1..Len(data), at + i <= n PROVE w[at + i] = data[i]
  <2>1. PICK k \in 1..n : k = at + i
    <3>1. at + i \in 1..n
      BY <1>5
    <3>2. QED
      BY <3>1
  <2>2. k - at = i
    BY <2>1
  <2>3. w[k] = data[k - at]
    BY <1>2, <2>2
  <2>4. QED
    BY <2>1, <2>2, <2>3
<1>6. QED
  BY <1>1, <1>3, <1>4, <1>5 DEF Copied

Stored(w, o, at, code, k, data) ==
    /\ w \in [1..OptionBufSize -> Octet]
    /\ \A i \in 1..at : w[i] = o[i]
    /\ w[at + 1] = code /\ w[at + 2] = k
    /\ \A i \in 1..k : w[at + 2 + i] = data[i]

(* addDhcpOption: the option comes behind those that are there, whatever   *)
(* the pointer, which the data and the next option overwrite.              *)
LEMMA OptionStored ==
  ASSUME opts \in [1..OptionBufSize -> Octet], NEW q \in [1..8 -> Octet],
         NEW at \in Nat, NEW code \in Octet, NEW data \in Seq(Octet),
         NEW k \in Nat, k = Len(data), k \in Octet, at + 2 + k <= OptionBufSize,
         NEW w, w = WithOption(at, code, data, q)
  PROVE  Stored(w, opts, at, code, k, data)
<1>1. PICK n \in Nat : n = OptionBufSize
  BY DEF OptionBufSize
<1>2. PICK a \in Nat : a = at + 2
  OBVIOUS
<1>3. PICK p : p = q /\ p \in Seq(Octet)
  <2>1. 8 \in Nat
    OBVIOUS
  <2>2. q \in Seq(Octet)
    BY <2>1, ArrayBytes, Zenon DEF Bytes
  <2>3. QED
    BY <2>2
<1>4. PICK h : h = <<code, k>>
  OBVIOUS
<1>5. h \in Seq(Octet) /\ Len(h) = 2 /\ h[1] = code /\ h[2] = k
  BY <1>4
<1>6. PICK s : s = Written(opts, a, p)
  OBVIOUS
<1>7. PICK t : t = Written(s, at, h)
  OBVIOUS
<1>8. w = Written(t, a, data)
  BY SMT, <1>2, <1>3, <1>4, <1>6, <1>7 DEF WithOption
<1>9. s \in [1..n -> Octet] /\ \A i \in 1..n : i <= a => s[i] = opts[i]
  <2>1. opts \in [1..n -> Octet]
    BY <1>1
  <2>2. Copied(s, opts, n, a, p)
    BY <2>1, <1>3, <1>6, WrittenBytes, Zenon
  <2>3. QED
    BY <2>2 DEF Copied
<1>10. /\ t \in [1..n -> Octet] /\ \A i \in 1..n : i <= at => t[i] = s[i]
       /\ \A i \in 1..Len(h) : at + i <= n => t[at + i] = h[i]
  <2>1. Copied(t, s, n, at, h)
    BY <1>5, <1>7, <1>9, WrittenBytes, Zenon
  <2>2. QED
    BY <2>1 DEF Copied
<1>11. /\ w \in [1..n -> Octet] /\ \A i \in 1..n : i <= a => w[i] = t[i]
       /\ \A i \in 1..Len(data) : a + i <= n => w[a + i] = data[i]
  <2>1. Copied(w, t, n, a, data)
    BY <1>8, <1>10, WrittenBytes, Zenon
  <2>2. QED
    BY <2>1 DEF Copied
<1>12. \A i \in 1..at : w[i] = opts[i]
  <2> TAKE i \in 1..at
  <2>1. i \in 1..n /\ i <= at /\ i <= a
    BY <1>1, <1>2
  <2>2. QED
    BY <2>1, <1>9, <1>10, <1>11
<1>13. w[at + 1] = code /\ w[at + 2] = k
  <2>1. /\ at + 1 \in 1..n /\ at + 2 \in 1..n /\ at + 1 <= a /\ at + 2 <= a
        /\ at + 1 <= n /\ at + 2 <= n
    BY <1>1, <1>2
  <2>2. t[at + 1] = h[1] /\ t[at + 2] = h[2]
    BY <2>1, <1>5, <1>10
  <2>3. w[at + 1] = t[at + 1] /\ w[at + 2] = t[at + 2]
    BY <2>1, <1>11
  <2>4. QED
    BY <1>5, <2>2, <2>3
<1>14. \A i \in 1..k : w[at + 2 + i] = data[i]
  <2> TAKE i \in 1..k
  <2>1. i \in 1..Len(data) /\ a + i <= n /\ at + 2 + i = a + i
    BY <1>1, <1>2
  <2>2. QED
    BY <2>1, <1>11
<1>15. QED
  BY <1>1, <1>11, <1>12, <1>13, <1>14 DEF Stored

-----------------------------------------------------------------------------
(* The options of a message: at most three, none longer than four bytes    *)
Option == {o \in Octet \X Seq(Octet) : Len(o[2]) <= 4}

Short(data) == data \in Seq(Octet) /\ Len(data) <= 4

(* What an option consists of                                              *)
LEMMA OptionOf ==
  ASSUME NEW code \in Octet, NEW data, Short(data)
  PROVE  <<code, data>> \in Option
BY DEF Option, Short

(* A natural number that fits is a byte.                                   *)
LEMMA OctetOfNumber ==
  ASSUME NEW v \in Nat, v <= 255
  PROVE  v \in Octet
<1>1. PICK n \in Nat : n = 255
  BY SMT
<1>2. v \in 0..n
  BY SMT, <1>1
<1>3. Octet = 0..n
  BY SMT, <1>1 DEF Octet
<1>4. QED
  BY SMT, <1>2, <1>3

(* The options of the three messages                                       *)
LEMMA OptionsType ==
  ASSUME NEW k \in Kinds
  PROVE  Options(k) \in Seq(Option) /\ Len(Options(k)) \in 0..3
<1>1. /\ 1 \in Octet /\ 3 \in Octet /\ 10 \in Octet /\ 0 \in Octet /\ 50 \in Octet
      /\ 51 \in Octet /\ 53 \in Octet /\ 55 \in Octet /\ 61 \in Octet
      /\ 105 \in Octet /\ 168 \in Octet /\ 192 \in Octet
  BY SMT DEF Octet
<1>2. Short(<<1>>) /\ Short(<<10>>) /\ Short(<<51>>) /\ Short(<<3>>)
  BY SMT, <1>1 DEF Short
<1>3. Short(<<192, 168, 1, 105>>) /\ Short(<<0, 3>>)
  BY SMT, <1>1 DEF Short
<1>4. PICK type \in Octet : type = 53
  BY <1>1
<1>5. Discover \in Seq(Option) /\ Len(Discover) = 1
  <2>1. PICK d : Short(d) /\ d = <<1>>
    BY <1>2
  <2>2. PICK a : a = <<type, d>>
    OBVIOUS
  <2>3. a \in Option
    BY <2>1, <2>2, OptionOf, Zenon
  <2>4. Discover = <<a>>
    BY SMT, <1>4, <2>1, <2>2 DEF Discover
  <2>5. QED
    BY SMT, <2>3, <2>4
<1>6. LeaseQuery \in Seq(Option) /\ Len(LeaseQuery) = 2
  <2>1. PICK d : Short(d) /\ d = <<10>>
    BY <1>2
  <2>2. PICK e : Short(e) /\ e = <<51>>
    BY <1>2
  <2>3. PICK code \in Octet : code = 55
    BY <1>1
  <2>4. PICK a : a = <<type, d>>
    OBVIOUS
  <2>5. PICK b : b = <<code, e>>
    OBVIOUS
  <2>6. a \in Option
    BY <2>1, <2>4, OptionOf, Zenon
  <2>7. b \in Option
    BY <2>2, <2>5, OptionOf, Zenon
  <2>8. LeaseQuery = <<a, b>>
    BY SMT, <1>4, <2>1, <2>2, <2>3, <2>4, <2>5 DEF LeaseQuery
  <2>9. QED
    BY SMT, <2>6, <2>7, <2>8
<1>7. Request \in Seq(Option) /\ Len(Request) = 3
  <2>1. PICK d : Short(d) /\ d = <<3>>
    BY <1>2
  <2>2. PICK e : Short(e) /\ e = <<192, 168, 1, 105>>
    BY <1>3
  <2>3. PICK f : Short(f) /\ f = <<0, 3>>
    BY <1>3
  <2>4. PICK code \in Octet : code = 50
    BY <1>1
  <2>5. PICK id \in Octet : id = 61
    BY <1>1
  <2>6. PICK a : a = <<type, d>>
    OBVIOUS
  <2>7. PICK b : b = <<code, e>>
    OBVIOUS
  <2>8. PICK c : c = <<id, f>>
    OBVIOUS
  <2>9. a \in Option
    BY <2>1, <2>6, OptionOf, Zenon
  <2>10. b \in Option
    BY <2>2, <2>7, OptionOf, ZenonT(60)
  <2>11. c \in Option
    BY <2>3, <2>8, OptionOf, Zenon
  <2>12. Request = <<a, b, c>>
    BY SMT, <1>4, <2>1, <2>2, <2>3, <2>4, <2>5, <2>6, <2>7, <2>8 DEF Request
  <2>13. QED
    BY SMT, <2>9, <2>10, <2>11, <2>12
<1>8. \/ Options(k) = Discover \/ Options(k) = LeaseQuery \/ Options(k) = Request
  BY SMT DEF Kinds, Options
<1>9. QED
  BY <1>5, <1>6, <1>7, <1>8

All(k) == Len(Options(k))

(* An option on the wire is bytes.                                         *)
LEMMA FieldType ==
  ASSUME NEW o \in Option
  PROVE  /\ Field(o) \in Seq(Octet) /\ Len(Field(o)) = Len(o[2]) + 2
         /\ Len(o[2]) \in Nat /\ Len(o[2]) \in Octet
         /\ Field(o)[1] = o[1] /\ Field(o)[2] = Len(o[2])
         /\ \A i \in 1..Len(o[2]) : Field(o)[2 + i] = o[2][i]
<1>1. PICK d \in Seq(Octet), n \in Nat : d = o[2] /\ n = Len(d) /\ n <= 4
  BY DEF Option
<1>2. n \in Octet /\ o[1] \in Octet
  <2>1. n \in Octet
    BY SMT, <1>1, OctetOfNumber
  <2>2. o[1] \in Octet
    BY DEF Option
  <2>3. QED
    BY <2>1, <2>2
<1>3. PICK h : h = <<o[1], n>>
  OBVIOUS
<1>4. h \in Seq(Octet) /\ Len(h) = 2 /\ h[1] = o[1] /\ h[2] = n
  BY <1>2, <1>3
<1>5. PICK x : x = h \o d
  OBVIOUS
<1>6. x \in Seq(Octet) /\ Joined(x, h, d)
  BY <1>1, <1>4, <1>5, Concatenated, Zenon
<1>7. Len(x) = n + 2 /\ x[1] = h[1] /\ x[2] = h[2] /\ \A i \in 1..n : x[2 + i] = d[i]
  BY <1>1, <1>4, <1>6 DEF Joined
<1>8. Field(o) = x
  BY <1>1, <1>3, <1>5 DEF Field
<1>9. QED
  BY <1>1, <1>2, <1>4, <1>6, <1>7, <1>8

(* So are all of a message, of which there are three at the most.          *)
LEMMA FieldsType ==
  ASSUME NEW k \in Kinds
  PROVE  Fields(k) \in Seq(Seq(Octet)) /\ Len(Fields(k)) = All(k) /\ All(k) \in 0..3
<1>1. Options(k) \in Seq(Option) /\ All(k) \in 0..3 /\ All(k) = Len(Options(k))
  BY OptionsType DEF All
<1>2. Fields(k) = [i \in 1..All(k) |-> Field(Options(k)[i])]
  BY <1>1 DEF Fields
<1>3. \A i \in 1..All(k) : Field(Options(k)[i]) \in Seq(Octet)
  <2> TAKE i \in 1..All(k)
  <2>1. Options(k)[i] \in Option
    BY <1>1
  <2>2. QED
    BY <2>1, FieldType
<1>4. QED
  BY <1>1, <1>2, <1>3

(* The first j options, as they are to lie in the buffer                   *)
First(k, j) == FlattenSeq(SubSeq(Fields(k), 1, j))

(* One option more                                                         *)
LEMMA FirstOfMore ==
  ASSUME NEW k \in Kinds, NEW j \in Nat, j + 1 <= All(k)
  PROVE  /\ First(k, j) \in Seq(Octet)
         /\ First(k, j + 1) = First(k, j) \o Field(Options(k)[j + 1])
         /\ Options(k)[j + 1] \in Option
<1>1. PICK f \in Seq(Seq(Octet)) : f = Fields(k) /\ Len(f) = All(k)
  BY FieldsType
<1>2. All(k) \in Nat
  BY FieldsType
<1>3. PICK s : s = SubSeq(f, 1, j + 1)
  OBVIOUS
<1>4. s \in Seq(Seq(Octet)) /\ Len(s) = j + 1 /\ s[j + 1] = f[j + 1]
  BY <1>1, <1>2, <1>3
<1>5. SubSeq(s, 1, j) = SubSeq(f, 1, j)
  BY <1>1, <1>2, <1>3
<1>6. PICK z : z = SubSeq(s, 1, j)
  OBVIOUS
<1>7. FlattenSeq(z) \in Seq(Octet) /\ FlattenSeq(s) = FlattenSeq(z) \o s[j + 1]
  BY <1>4, <1>6, FlattenOfMore, Zenon
<1>8. First(k, j + 1) = FlattenSeq(s) /\ First(k, j) = FlattenSeq(z)
  BY <1>1, <1>3, <1>5, <1>6, Zenon DEF First
<1>9. f[j + 1] = Field(Options(k)[j + 1]) /\ Options(k)[j + 1] \in Option
  <2>1. Options(k) \in Seq(Option) /\ All(k) = Len(Options(k))
    BY OptionsType DEF All
  <2>2. j + 1 \in 1..Len(Options(k))
    BY <1>2, <2>1
  <2>3. QED
    BY <1>1, <2>1, <2>2 DEF Fields
<1>10. QED
  BY <1>4, <1>7, <1>8, <1>9, Zenon

(* No options take no bytes.                                               *)
LEMMA FirstOfNone ==
  ASSUME NEW k \in Kinds
  PROVE  First(k, 0) = <<>>
<1>1. PICK f \in Seq(Seq(Octet)) : f = Fields(k)
  BY FieldsType
<1>2. SubSeq(f, 1, 0) = <<>> /\ Len(<<>>) = 0
  BY <1>1
<1>3. FlattenSeq(<<>>) = <<>>
  BY <1>2, FlattenOfNone
<1>4. QED
  BY <1>1, <1>2, <1>3 DEF First

(* The first j options of a message are bytes.                             *)
LEMMA FirstBytes ==
  ASSUME NEW k \in Kinds, NEW j \in Nat, j <= All(k)
  PROVE  First(k, j) \in Seq(Octet) /\ Len(First(k, j)) <= 6 * j
<1> DEFINE T == {i \in Nat : i <= All(k) =>
                     First(k, i) \in Seq(Octet) /\ Len(First(k, i)) <= 6 * i}
<1>1. 0 \in T
  <2>1. PICK x : x = First(k, 0)
    OBVIOUS
  <2>2. x = <<>>
    BY <2>1, FirstOfNone, Zenon
  <2>3. x \in Seq(Octet) /\ Len(x) <= 6 * 0
    BY <2>2
  <2>4. QED
    BY <2>1, <2>3
<1>2. ASSUME NEW i \in T PROVE i + 1 \in T
  <2>1. i \in Nat /\ i + 1 \in Nat
    OBVIOUS
  <2>2. SUFFICES ASSUME i + 1 <= All(k)
                 PROVE  First(k, i + 1) \in Seq(Octet) /\ Len(First(k, i + 1)) <= 6 * (i + 1)
    BY <2>1
  <2>3. All(k) \in Nat
    BY FieldsType
  <2>4. Len(First(k, i)) <= 6 * i
    BY <2>1, <2>2, <2>3
  <2>5. PICK x : x = First(k, i)
    OBVIOUS
  <2>6. PICK y : y = Field(Options(k)[i + 1])
    OBVIOUS
  <2>7. x \in Seq(Octet) /\ First(k, i + 1) = x \o y /\ Options(k)[i + 1] \in Option
    BY <2>1, <2>2, <2>5, <2>6, FirstOfMore
  <2>8. y \in Seq(Octet) /\ Len(y) <= 6
    <3>1. y \in Seq(Octet) /\ Len(y) = Len(Options(k)[i + 1][2]) + 2
      BY <2>6, <2>7, FieldType, Zenon
    <3>2. Len(Options(k)[i + 1][2]) <= 4 /\ Len(Options(k)[i + 1][2]) \in Nat
      BY <2>7, FieldType DEF Option
    <3>3. QED
      BY <3>1, <3>2
  <2>9. x \o y \in Seq(Octet) /\ Len(x \o y) = Len(x) + Len(y)
    BY <2>7, <2>8
  <2>10. Len(x \o y) <= 6 * (i + 1)
    BY <2>1, <2>4, <2>5, <2>7, <2>8, <2>9
  <2>11. QED
    BY <2>7, <2>9, <2>10
<1>3. T \in SUBSET Nat
  OBVIOUS
<1>4. T = Nat
  <2> HIDE DEF T
  <2>1. QED
    BY <1>1, <1>2, <1>3, Induction
<1>5. QED
  BY <1>4
-----------------------------------------------------------------------------
(* The first j options of kind k lie in the n bytes o, and t is the rest.  *)
Added(k, j, t, n, o) ==
    /\ t = SubSeq(Options(k), j + 1, All(k))
    /\ n = Len(First(k, j))
    /\ \A i \in 1..n : o[i] = First(k, j)[i]

(* The options of a message take 18 bytes at the most.                     *)
LEMMA FirstFits ==
  ASSUME NEW k \in Kinds, NEW j \in 0..All(k)
  PROVE  /\ First(k, j) \in Seq(Octet) /\ Len(First(k, j)) \in Nat
         /\ Len(First(k, j)) <= 18 /\ j \in Nat /\ j <= All(k)
<1>0. All(k) \in 0..3
  BY FieldsType
<1>1. j \in Nat /\ j <= All(k) /\ All(k) <= 3
  <2>1. All(k) \in 0..3
    BY FieldsType
  <2>2. PICK n \in 0..3 : n = All(k)
    BY <2>1
  <2>3. j \in 0..n
    BY <2>2
  <2>4. j \in Nat /\ j <= n /\ n <= 3
    BY <2>3
  <2>5. QED
    BY <2>2, <2>4
<1>2. PICK x : x = First(k, j)
  OBVIOUS
<1>3. x \in Seq(Octet) /\ Len(x) <= 6 * j
  BY <1>1, <1>2, FirstBytes, Zenon
<1>4. Len(x) \in Nat /\ Len(x) <= 18
  <2>1. Len(x) \in Nat /\ Len(x) <= 6 * j
    BY <1>3
  <2>2. PICK n \in Nat : n = Len(x)
    BY <2>1
  <2>3. j <= 3
    BY <1>0, <1>1
  <2>4. n <= 6 * j
    BY <2>1, <2>2
  <2>5. n <= 18
    BY SMT, <1>1, <2>3, <2>4
  <2>6. QED
    BY <2>2, <2>5
<1>5. QED
  BY <1>1, <1>2, <1>3, <1>4, Zenon

(* Before the first call nothing is added.                                 *)
LEMMA NoneAdded ==
  ASSUME NEW k \in Kinds, NEW o
  PROVE  Added(k, 0, Options(k), 0, o)
<1>1. PICK x : x = First(k, 0)
  OBVIOUS
<1>2. x = <<>>
  BY <1>1, FirstOfNone, Zenon
<1>3. 0 = Len(x) /\ \A i \in 1..0 : o[i] = x[i]
  BY <1>2
<1>4. Options(k) = SubSeq(Options(k), 0 + 1, All(k))
  BY OptionsType DEF All
<1>5. QED
  BY <1>1, <1>3, <1>4, Zenon DEF Added

(* A call of addDhcpOption adds the next option: the pointer that it       *)
(* stores is overwritten by the data, or lies behind dhcpOptionSize,       *)
(* where the next call or nobody writes.                                   *)
LEMMA OneMoreAdded ==
  ASSUME opts \in [1..OptionBufSize -> Octet], NEW q \in [1..8 -> Octet],
         NEW k \in Kinds, NEW j \in 0..All(k), NEW t, t # <<>>, NEW n,
         Added(k, j, t, n, opts),
         NEW w, w = WithOption(n, Head(t)[1], Head(t)[2], q)
  PROVE  /\ w \in [1..OptionBufSize -> Octet]
         /\ j + 1 \in 0..All(k)
         /\ Added(k, j + 1, Tail(t), n + 2 + Len(Head(t)[2]), w)
<1>1. Options(k) \in Seq(Option) /\ All(k) = Len(Options(k)) /\ All(k) \in 0..3
  BY OptionsType DEF All
<1>2. PICK s \in Seq(Option) : s = Options(k)
  BY <1>1
<1>3. t = SubSeq(s, j + 1, Len(s)) /\ Len(s) = All(k)
  BY <1>1, <1>2 DEF Added
<1>4. j \in Nat /\ j + 1 \in Nat /\ j + 1 <= All(k)
  BY SMTT(30), <1>1, <1>3
<1>5. Head(t) = s[j + 1] /\ Tail(t) = SubSeq(s, j + 1 + 1, Len(s))
  BY SMTT(30), <1>1, <1>3, <1>4
<1>6. PICK a \in Option : a = s[j + 1]
  BY SMTT(30), <1>1, <1>3, <1>4
<1>7. PICK x : x = First(k, j)
  OBVIOUS
<1>8. PICK y : y = First(k, j + 1)
  OBVIOUS
<1>9. /\ x \in Seq(Octet) /\ y = x \o Field(a)
  BY <1>2, <1>4, <1>6, <1>7, <1>8, FirstOfMore, Zenon
<1>10. n = Len(x) /\ n \in Nat /\ n <= 18 /\ \A i \in 1..n : opts[i] = x[i]
  BY <1>7, FirstFits DEF Added
<1>11. PICK d \in Seq(Octet), m \in Nat : d = a[2] /\ m = Len(d) /\ m <= 4
  BY DEF Option
<1>12. PICK f : f = Field(a)
  OBVIOUS
<1>13. /\ f \in Seq(Octet) /\ Len(f) = m + 2 /\ m \in Octet
       /\ f[1] = a[1] /\ f[2] = m /\ \A i \in 1..m : f[2 + i] = d[i]
  BY <1>11, <1>12, FieldType, Zenon
<1>14. a[1] \in Octet
  BY DEF Option
<1>15. w = WithOption(n, a[1], d, q)
  BY <1>5, <1>6, <1>11, Zenon
<1>16. n \in Nat /\ m <= 4 /\ n + 2 + m <= OptionBufSize
  <2>1. n \in Nat /\ n <= 18 /\ m <= 4
    BY <1>10, <1>11
  <2>2. QED
    BY SMT, <2>1 DEF OptionBufSize
<1>170. Stored(w, opts, n, a[1], m, d)
  <2>1. n \in Nat /\ m = Len(d) /\ m \in Octet /\ n + 2 + m <= OptionBufSize
    BY <1>11, <1>13, <1>16
  <2>2. QED
    BY <1>14, <1>15, <2>1, OptionStored, Zenon
<1>17. /\ w \in [1..OptionBufSize -> Octet] /\ \A i \in 1..n : w[i] = opts[i]
       /\ w[n + 1] = a[1] /\ w[n + 2] = m /\ \A i \in 1..m : w[n + 2 + i] = d[i]
  BY <1>170 DEF Stored
<1>18. PICK v \in Nat : v = n + 2 + m
  <2>1. n + 2 + m \in Nat
    BY <1>16
  <2>2. QED
    BY <2>1
<1>19. v = Len(y) /\ \A i \in 1..v : w[i] = y[i]
  <2>1. y \in Seq(Octet) /\ Joined(y, x, f)
    BY <1>9, <1>12, <1>13, Concatenated, Zenon
  <2>2. Len(y) = v
    BY <1>10, <1>13, <1>18, <2>1 DEF Joined
  <2>3. ASSUME NEW i \in 1..v PROVE w[i] = y[i]
    <3>1. CASE i <= n
      <4>1. i \in 1..n /\ i \in 1..Len(x)
        BY <1>10, <3>1
      <4>2. y[i] = x[i]
        BY <2>1, <4>1 DEF Joined
      <4>3. QED
        BY <1>10, <1>17, <4>1, <4>2
    <3>2. CASE i = n + 1
      <4>1. y[n + 1] = f[1]
        BY <1>10, <1>13, <2>1 DEF Joined
      <4>2. QED
        BY <1>13, <1>17, <3>2, <4>1
    <3>3. CASE i = n + 2
      <4>1. y[n + 2] = f[2]
        BY <1>10, <1>13, <2>1 DEF Joined
      <4>2. QED
        BY <1>13, <1>17, <3>3, <4>1
    <3>4. CASE i > n + 2
      <4>1. PICK l \in 1..m : i = n + 2 + l
        <5>1. i - (n + 2) \in 1..m /\ i = n + 2 + (i - (n + 2))
          BY SMT, <1>16, <1>18, <3>4
        <5>2. QED
          BY <5>1
      <4>2. y[n + (2 + l)] = f[2 + l]
        BY SMTT(30), <1>10, <1>13, <2>1, <4>1 DEF Joined
      <4>3. n + 2 + l = n + (2 + l)
        BY <1>10
      <4>4. QED
        BY <1>13, <1>17, <4>1, <4>2, <4>3
    <3>5. QED
      BY <1>16, <3>1, <3>2, <3>3, <3>4
  <2>4. QED
    BY <2>2, <2>3
<1>20. Added(k, j + 1, Tail(t), v, w)
  <2>1. Tail(t) = SubSeq(Options(k), j + 1 + 1, All(k))
    BY <1>2, <1>3, <1>5
  <2>2. QED
    BY <1>8, <1>19, <2>1, Zenon DEF Added
<1>21. n + 2 + Len(Head(t)[2]) = v
  BY <1>5, <1>6, <1>11, <1>18
<1>22. j + 1 \in 0..All(k)
  BY <1>1, <1>4
<1>23. QED
  BY <1>17, <1>20, <1>21, <1>22

(* When nothing is left to do all options are added.                       *)
LEMMA AllAdded ==
  ASSUME NEW o \in [1..OptionBufSize -> Octet],
         NEW k \in Kinds, NEW j \in 0..All(k), NEW n, Added(k, j, <<>>, n, o)
  PROVE  /\ Added(k, All(k), <<>>, n, o)
         /\ SubSeq(o, 1, n) = First(k, All(k))
<1>1. Options(k) \in Seq(Option) /\ All(k) = Len(Options(k)) /\ All(k) \in 0..3
  BY OptionsType DEF All
<1>2. j = All(k)
  BY <1>1 DEF Added
<1>3. PICK x : x = First(k, j)
  OBVIOUS
<1>4. /\ x \in Seq(Octet) /\ n = Len(x) /\ n \in Nat /\ n <= 18
      /\ \A i \in 1..n : o[i] = x[i]
  BY <1>3, FirstFits DEF Added
<1>5. o \in Seq(Octet) /\ Len(o) = OptionBufSize
  <2>1. OptionBufSize \in Nat
    BY DEF OptionBufSize
  <2>2. QED
    BY <2>1, ArrayBytes, Zenon DEF Bytes
<1>6. n <= Len(o)
  BY <1>4, <1>5 DEF OptionBufSize
<1>7. SubSeq(o, 1, n) = x
  BY <1>4, <1>5, <1>6
<1>8. QED
  BY <1>2, <1>3, <1>7, Zenon
-----------------------------------------------------------------------------
(* What a frame of kind k from hardware address m consists of              *)
Built(k, m) == FrameOf(m, Message(m, k, First(k, All(k))))

(* The options lie in the buffer as far as they have been added; the frame *)
(* is then built of all of them.                                           *)
FrameInv ==
    /\ kind \in Kinds /\ mac \in Macs /\ opts \in [1..OptionBufSize -> Octet]
    /\ pc \in {"start", "crashed", "list", "options", "send", "done"}
    /\ pc \in {"start", "crashed", "list"} =>
          todo = <<>> /\ size = 0 /\ buf = <<>> /\ wire = <<>>
    /\ pc = "options" =>
          /\ buf = <<>> /\ wire = <<>>
          /\ \E j \in 0..All(kind) : Added(kind, j, todo, size, opts)
    /\ pc \in {"send", "done"} =>
          /\ Added(kind, All(kind), todo, size, opts)
          /\ buf = Built(kind, mac) /\ wire \in {<<>>, buf}

(* main() begins with nothing added and nothing built.                     *)
LEMMA FrameInvInit == Init => FrameInv
<1> SUFFICES ASSUME Init PROVE FrameInv
  OBVIOUS
<1>1. OptionBufSize \in Nat
  BY SMT DEF OptionBufSize
<1>2. opts = [i \in 1..OptionBufSize |-> 0]
  BY DEF Init, Zeros
<1>3. 0 \in Octet
  BY SMT DEF Octet
<1>4. opts \in [1..OptionBufSize -> Octet]
  BY <1>2, <1>3
<1>5. QED
  BY <1>4 DEF Init, FrameInv

(* Listing the interfaces touches none of it.                              *)
LEMMA GetIfmacsFrameInv == FrameInv /\ GetIfmacs => FrameInv'
BY DEF FrameInv, GetIfmacs

(* A message begins with all its options to do.                            *)
LEMMA BeginFrameInv == FrameInv /\ Begin => FrameInv'
<1> SUFFICES ASSUME FrameInv, Begin PROVE FrameInv'
  OBVIOUS
<1>1. /\ kind \in Kinds /\ kind' = kind /\ todo' = Options(kind) /\ size' = 0
      /\ pc' = "options" /\ buf' = <<>> /\ wire' = <<>> /\ mac' = mac /\ mac \in Macs
      /\ opts' = opts /\ opts \in [1..OptionBufSize -> Octet]
  BY DEF FrameInv, Begin
<1>2. Added(kind', 0, todo', size', opts')
  BY <1>1, NoneAdded, Zenon
<1>3. 0 \in 0..All(kind')
  BY <1>1, FieldsType
<1>4. QED
  BY <1>1, <1>2, <1>3 DEF FrameInv

(* Each call adds the next one.                                            *)
LEMMA AddDhcpOptionFrameInv == FrameInv /\ AddDhcpOption => FrameInv'
<1> SUFFICES ASSUME FrameInv, AddDhcpOption PROVE FrameInv'
  OBVIOUS
<1>1. /\ kind \in Kinds /\ mac \in Macs /\ kind' = kind /\ mac' = mac
      /\ pc' = "options" /\ buf' = <<>> /\ wire' = <<>>
      /\ opts \in [1..OptionBufSize -> Octet] /\ todo # <<>>
      /\ size' = size + 2 + Len(Head(todo)[2]) /\ todo' = Tail(todo)
  BY DEF FrameInv, AddDhcpOption
<1>2. PICK q \in [1..8 -> Octet] : opts' = WithOption(size, Head(todo)[1], Head(todo)[2], q)
  BY BytesAssumption DEF AddDhcpOption
<1>3. PICK j \in 0..All(kind) : Added(kind, j, todo, size, opts)
  BY DEF FrameInv, AddDhcpOption
<1>4. /\ opts' \in [1..OptionBufSize -> Octet]
      /\ j + 1 \in 0..All(kind)
      /\ Added(kind, j + 1, Tail(todo), size + 2 + Len(Head(todo)[2]), opts')
  BY <1>1, <1>2, <1>3, OneMoreAdded, Zenon
<1>5. Added(kind', j + 1, todo', size', opts')
  BY <1>1, <1>4, Zenon
<1>6. QED
  BY <1>1, <1>4, <1>5 DEF FrameInv

(* dhcpPacket builds the frame of the options added.                       *)
LEMMA DhcpPacketFrameInv == FrameInv /\ DhcpPacket => FrameInv'
<1> SUFFICES ASSUME FrameInv, DhcpPacket PROVE FrameInv'
  OBVIOUS
<1>1. /\ kind \in Kinds /\ mac \in Macs /\ kind' = kind /\ mac' = mac
      /\ pc' = "send" /\ wire' = <<>> /\ wire = <<>> /\ opts' = opts
      /\ opts \in [1..OptionBufSize -> Octet]
      /\ todo = <<>> /\ todo' = todo /\ size' = size
  BY SMTT(30) DEF FrameInv, DhcpPacket
<1>2. PICK j \in 0..All(kind) : Added(kind, j, todo, size, opts)
  BY DEF FrameInv, DhcpPacket
<1>3. /\ Added(kind, All(kind), todo, size, opts)
      /\ SubSeq(opts, 1, size) = First(kind, All(kind))
  BY <1>1, <1>2, AllAdded, Zenon
<1>4. PICK o : o = SubSeq(opts, 1, size)
  OBVIOUS
<1>5. PICK d : d = Message(mac, kind, o)
  OBVIOUS
<1>6. buf' = FrameOf(mac, d)
  <2>1. d = MainDhcp(mac, ClientIp(kind)) \o SubSeq(opts, 1, size) \o <<255>>
    BY SMT, <1>4, <1>5 DEF Message
  <2>2. PICK len : len = Len(d) + 8
    OBVIOUS
  <2>3. PICK t : t = len + 20
    OBVIOUS
  <2>4. buf' = Framed(mac, len, t, d)
    BY SMT, <2>1, <2>2, <2>3 DEF DhcpPacket, Framed
  <2>5. QED
    BY SMT, <2>2, <2>3, <2>4 DEF FrameOf
<1>7. buf' = Built(kind', mac')
  BY <1>1, <1>3, <1>4, <1>5, <1>6, Zenon DEF Built
<1>8. Added(kind', All(kind'), todo', size', opts')
  BY <1>1, <1>3, Zenon
<1>9. QED
  BY SMTT(30), <1>1, <1>7, <1>8 DEF FrameInv

(* The socket sends that frame or nothing.                                 *)
LEMMA SendFrameInv == FrameInv /\ Send => FrameInv'
<1> SUFFICES ASSUME FrameInv, Send PROVE FrameInv'
  OBVIOUS
<1>1. /\ kind \in Kinds /\ mac \in Macs /\ kind' = kind /\ mac' = mac
      /\ pc' = "done" /\ opts' = opts /\ opts \in [1..OptionBufSize -> Octet]
      /\ todo' = todo /\ size' = size /\ buf' = buf /\ wire' \in {<<>>, buf}
      /\ Added(kind, All(kind), todo, size, opts) /\ buf = Built(kind, mac)
  BY DEF FrameInv, Send
<1>2. Added(kind', All(kind'), todo', size', opts') /\ buf' = Built(kind', mac')
  BY <1>1, Zenon
<1>3. QED
  BY <1>1, <1>2 DEF FrameInv

(* What dhcpPacket builds is, for any hardware address and whatever the    *)
(* pointers looked like, a frame of the first options of the message in    *)
(* their order, and only that frame is sent.                               *)
THEOREM FrameInvariant == Spec => []FrameInv
<1>1. FrameInv /\ [Next]_vars => FrameInv'
  <2> SUFFICES ASSUME FrameInv, [Next]_vars PROVE FrameInv'
    OBVIOUS
  <2>1. CASE GetIfmacs
    BY <2>1, GetIfmacsFrameInv
  <2>2. CASE Begin
    BY <2>2, BeginFrameInv
  <2>3. CASE AddDhcpOption
    BY <2>3, AddDhcpOptionFrameInv
  <2>4. CASE DhcpPacket
    BY <2>4, DhcpPacketFrameInv
  <2>5. CASE Send
    BY <2>5, SendFrameInv
  <2>6. CASE UNCHANGED vars
    <3>1. /\ kind' = kind /\ mac' = mac /\ opts' = opts /\ pc' = pc /\ todo' = todo
          /\ size' = size /\ buf' = buf /\ wire' = wire
      BY <2>6 DEF vars
    <3>2. QED
      BY <3>1, Zenon DEF FrameInv
  <2>7. QED
    BY <2>1, <2>2, <2>3, <2>4, <2>5, <2>6 DEF Next
<1>2. QED
  BY <1>1, FrameInvInit, PTL DEF Spec
-----------------------------------------------------------------------------
(* A frame f with n bytes behind the UDP header, d, whose checksums are    *)
(* right                                                                   *)
Sound(f, m, n, len, t, c, check, d) ==
    /\ len = n + 8 /\ t = n + 28
    /\ Bytes(c, 2) /\ Bytes(check, 2) /\ Bytes(d, n)
    /\ Parts(f, n, EthernetHeader(m), IpHeader(t, c), UdpHeader(len, check), d)
    /\ Accepted(IpHeader(t, c))
    /\ Accepted(SubSeq(IpHeader(t, c), 13, 20) \o <<0, 17>> \o Net16(len)
                \o (UdpHeader(len, check) \o d))

(* The frame that is built is right in all parts.                          *)
LEMMA BuiltSound ==
  ASSUME NEW k \in Kinds, NEW m \in Macs, NEW x, x = First(k, All(k)),
         NEW d, d = Message(m, k, x)
  PROVE  /\ Bytes(x, Len(x)) /\ Len(x) \in Nat
         /\ \E n \in Nat, len \in Word, t \in Word : \E c, check :
               n = Len(x) + 241 /\ Sound(Built(k, m), m, n, len, t, c, check, d)
<1>1. m \in [1..6 -> Octet]
  BY BytesAssumption
<1>2. Bytes(x, Len(x)) /\ Len(x) \in Nat /\ Len(x) <= 18
  <2>1. All(k) \in 0..3
    BY FieldsType
  <2>2. PICK i \in 0..3 : i = All(k)
    BY <2>1
  <2>3. i \in 0..i
    BY <2>2
  <2>4. All(k) \in 0..All(k)
    BY <2>2, <2>3
  <2>5. x \in Seq(Octet) /\ Len(x) \in Nat /\ Len(x) <= 18
    BY <2>4, FirstFits, Zenon
  <2>6. QED
    BY <2>5 DEF Bytes
<1>3. PICK j \in Nat : j = Len(x)
  BY <1>2
<1>4. PICK n \in Nat : n = j + 241
  BY SMT
<1>5. Bytes(d, n)
  <2>1. Bytes(x, j)
    BY <1>2, <1>3
  <2>2. Bytes(d, j + 241)
    BY SMT, <1>1, <2>1, MessageBytes
  <2>3. QED
    BY SMT, <1>4, <2>2
<1>6. Fits(n)
  BY SMT, <1>2, <1>3, <1>4 DEF Fits
<1>7. PICK len \in Word, t \in Word : \E c, check :
            /\ len = n + 8 /\ t = n + 28
            /\ Bytes(c, 2) /\ Bytes(check, 2)
            /\ Parts(FrameOf(m, d), n, EthernetHeader(m), IpHeader(t, c),
                     UdpHeader(len, check), d)
            /\ Accepted(IpHeader(t, c))
            /\ Accepted(SubSeq(IpHeader(t, c), 13, 20) \o <<0, 17>> \o Net16(len)
                        \o (UdpHeader(len, check) \o d))
  BY SMT, <1>1, <1>5, <1>6, FrameParts
<1>8. PICK c, check :
            /\ len = n + 8 /\ t = n + 28
            /\ Bytes(c, 2) /\ Bytes(check, 2)
            /\ Parts(FrameOf(m, d), n, EthernetHeader(m), IpHeader(t, c),
                     UdpHeader(len, check), d)
            /\ Accepted(IpHeader(t, c))
            /\ Accepted(SubSeq(IpHeader(t, c), 13, 20) \o <<0, 17>> \o Net16(len)
                        \o (UdpHeader(len, check) \o d))
  BY SMT, <1>7
<1>9. Built(k, m) = FrameOf(m, d)
  BY Zenon DEF Built
<1>10. Sound(Built(k, m), m, n, len, t, c, check, d)
  BY SMT, <1>5, <1>8, <1>9 DEF Sound
<1>11. n = Len(x) + 241
  BY SMT, <1>3, <1>4
<1>12. QED
  BY SMT, <1>2, <1>10, <1>11

(* A frame that is sent is one that was built.                             *)
LEMMA WireBuilt ==
  ASSUME FrameInv, wire # <<>>
  PROVE  kind \in Kinds /\ mac \in Macs /\ wire = Built(kind, mac)
BY DEF FrameInv

(* Where its parts lie                                                     *)
LEMMA SoundFrame ==
  ASSUME NEW f, NEW m, NEW n \in Nat, NEW len \in Word, NEW t \in Word, NEW c, NEW check,
         NEW d, Sound(f, m, n, len, t, c, check, d)
  PROVE  /\ Bytes(f, n + 42) /\ Ip(f) = IpHeader(t, c)
         /\ Datagram(f) = UdpHeader(len, check) \o d
         /\ Len(Datagram(f)) = len
<1>1. PICK ip : ip = IpHeader(t, c)
  OBVIOUS
<1>2. PICK u : u = UdpHeader(len, check)
  OBVIOUS
<1>3. Parts(f, n, EthernetHeader(m), ip, u, d)
  BY SMT, <1>1, <1>2 DEF Sound
<1>4. Bytes(f, n + 42) /\ Ip(f) = ip /\ Datagram(f) = u \o d
  <2>1. Bytes(f, n + 42) /\ IpOf(f) = ip /\ UdpOf(f) = u \o d
    BY SMT, <1>3, PartsOfFrame
  <2>2. Ip(f) = IpOf(f) /\ Datagram(f) = UdpOf(f)
    BY Zenon DEF Ip, Datagram, IpOf, UdpOf
  <2>3. QED
    BY <2>1, <2>2, Zenon
<1>5. Bytes(u, 8) /\ Bytes(d, n)
  BY SMT, <1>3 DEF Parts
<1>6. Bytes(u \o d, 8 + n)
  BY SMT, <1>5, BytesOfBoth
<1>7. len = 8 + n
  BY SMT DEF Sound
<1>8. Len(u \o d) = len
  BY SMT, <1>6, <1>7 DEF Bytes
<1>9. QED
  BY SMT, <1>1, <1>2, <1>4, <1>8

(* So a receiver accepts what is sent.                                     *)
LEMMA BuiltAccepted == FrameInv => FramesAccepted
<1> SUFFICES ASSUME FrameInv, wire # <<>>
             PROVE  /\ Accepted(Ip(wire))
                    /\ Accepted(SubSeq(Ip(wire), 13, 20) \o <<0, 17>>
                                \o Net16(Len(Datagram(wire))) \o Datagram(wire))
  BY SMT DEF FramesAccepted
<1>1. kind \in Kinds /\ mac \in Macs /\ wire = Built(kind, mac)
  BY WireBuilt
<1>2. PICK x : x = First(kind, All(kind))
  OBVIOUS
<1>3. PICK d : d = Message(mac, kind, x)
  OBVIOUS
<1>4. PICK n \in Nat, len \in Word, t \in Word : \E c, check :
         Sound(wire, mac, n, len, t, c, check, d)
  BY SMT, <1>1, <1>2, <1>3, BuiltSound
<1>5. PICK c, check : Sound(wire, mac, n, len, t, c, check, d)
  BY <1>4
<1>6. PICK f : f = wire
  OBVIOUS
<1>7. /\ Ip(f) = IpHeader(t, c) /\ Len(Datagram(f)) = len
      /\ Datagram(f) = UdpHeader(len, check) \o d
  <2>1. Sound(f, mac, n, len, t, c, check, d)
    BY <1>5, <1>6, Zenon
  <2>2. QED
    BY <2>1, SoundFrame, Zenon
<1>8. /\ Accepted(IpHeader(t, c))
      /\ Accepted(SubSeq(IpHeader(t, c), 13, 20) \o <<0, 17>> \o Net16(len)
                  \o (UdpHeader(len, check) \o d))
  BY SMT, <1>5 DEF Sound
<1>9. QED
  BY SMT, <1>6, <1>7, <1>8

(* A receiver of either byte order accepts both checksums of every frame   *)
(* that dhcpPacket builds.                                                 *)
THEOREM ChecksumsRight == Spec => []FramesAccepted
BY FrameInvariant, BuiltAccepted, PTL

(* The end of a frame, from byte 283 on                                    *)
LEMMA OptionsBytes ==
  ASSUME NEW k \in Kinds, NEW m \in Macs, NEW n \in Nat, NEW x, x = First(k, All(k)), Bytes(x, n),
         NEW e, NEW ip, NEW u, NEW d, d = Message(m, k, x), NEW f,
         NEW j \in Nat, Parts(f, j, e, ip, u, d)
  PROVE  SubSeq(f, 283, Len(f)) = x \o <<255>>
<1>1. PICK h : h = MainDhcp(m, ClientIp(k))
  OBVIOUS
<1>2. PICK z : z = <<255>>
  OBVIOUS
<1>3. Bytes(h, 240) /\ Bytes(z, 1)
  <2>1. 255 \in Octet
    BY SMT DEF Octet
  <2>2. m \in [1..6 -> Octet]
    BY BytesAssumption
  <2>3. QED
    BY SMT, <1>1, <1>2, <2>1, <2>2, MainDhcpBytes DEF Bytes
<1>4. PICK b : b = e \o ip \o u \o h
  OBVIOUS
<1>5. /\ Bytes(e, 14) /\ Bytes(ip, 20) /\ Bytes(u, 8)
      /\ f = e \o ip \o u \o d
  BY SMT DEF Parts
<1>6. Bytes(b, 282)
  <2>1. Bytes(e \o ip, 14 + 20)
    BY SMT, <1>5, BytesOfBoth
  <2>2. Bytes(e \o ip \o u, 14 + 20 + 8)
    BY SMT, <1>5, <2>1, BytesOfBoth
  <2>3. Bytes(b, 14 + 20 + 8 + 240)
    BY SMT, <1>3, <1>4, <2>2, BytesOfBoth
  <2>4. 14 + 20 + 8 + 240 = 282
    BY SMT
  <2>5. QED
    BY SMT, <2>3, <2>4
<1>7. PICK y : y = x \o z
  OBVIOUS
<1>8. Bytes(y, n + 1)
  BY SMT, <1>3, <1>7, BytesOfBoth
<1>9. f = b \o y
  <2>1. PICK v : v = e \o ip \o u
    OBVIOUS
  <2>2. /\ v \in Seq(Octet) /\ h \in Seq(Octet) /\ x \in Seq(Octet) /\ z \in Seq(Octet)
    <3>1. Bytes(e \o ip, 14 + 20)
      BY SMT, <1>5, BytesOfBoth
    <3>2. Bytes(e \o ip \o u, 14 + 20 + 8)
      BY SMT, <1>5, <3>1, BytesOfBoth
    <3>3. QED
      BY SMT, <1>3, <2>1, <3>2 DEF Bytes
  <2>3. f = v \o ((h \o x) \o z)
    BY SMT, <1>1, <1>2, <1>5, <2>1 DEF Message
  <2>5. v \o ((h \o x) \o z) = ((v \o h) \o x) \o z
    <3>1. Regroups(v, h, x, z)
      BY <2>2, Regrouped, Zenon
    <3>2. QED
      BY <3>1, Zenon DEF Regroups
  <2>6. v \o h \in Seq(Octet)
    BY SMT, <2>2
  <2>7. ((v \o h) \o x) \o z = (v \o h) \o (x \o z)
    BY SMTT(30), <2>2, <2>6
  <2>8. b = v \o h
    BY <1>4, <2>1, Zenon
  <2>9. QED
    BY <1>7, <2>3, <2>5, <2>7, <2>8, Zenon
<1>10. PICK i \in Nat, l \in Nat : i = 282 /\ l = n + 1
  BY SMT
<1>11. SubSeq(b \o y, i + 1, Len(b \o y)) = y
  <2>1. Bytes(b, i) /\ Bytes(y, l)
    BY SMT, <1>6, <1>8, <1>10
  <2>2. QED
    BY <2>1, CutRest, Zenon
<1>12. i + 1 = 283
  BY SMT, <1>10
<1>13. SubSeq(f, 283, Len(f)) = y
  <2>1. PICK k1 : k1 = i + 1
    OBVIOUS
  <2>2. SubSeq(f, k1, Len(f)) = y
    BY <1>9, <1>11, <2>1, Zenon
  <2>3. k1 = 283
    BY SMT, <1>12, <2>1
  <2>4. QED
    BY SMT, <2>2, <2>3
<1>14. QED
  BY SMT, <1>2, <1>7, <1>13

(* All options of a message, flattened, are its fields.                    *)
LEMMA AllFields ==
  ASSUME NEW k \in Kinds
  PROVE  First(k, All(k)) = FlattenSeq(Fields(k))
<1>1. Fields(k) \in Seq(Seq(Octet)) /\ Len(Fields(k)) = All(k)
  BY FieldsType
<1>2. SubSeq(Fields(k), 1, All(k)) = Fields(k)
  BY <1>1
<1>3. QED
  BY <1>2 DEF First

(* So the options and the lengths are right in what is sent.               *)
LEMMA BuiltOptions == FrameInv => OptionsOnWire
<1> SUFFICES ASSUME FrameInv, wire # <<>>
             PROVE  /\ SubSeq(wire, 283, Len(wire)) = FlattenSeq(Fields(kind)) \o <<255>>
                    /\ NetWords(Ip(wire))[2] = Len(wire) - 14
                    /\ NetWords(Datagram(wire))[3] = Len(wire) - 34
  BY SMT DEF OptionsOnWire
<1>1. kind \in Kinds /\ mac \in Macs /\ wire = Built(kind, mac)
  BY WireBuilt
<1>2. PICK x : x = First(kind, All(kind))
  OBVIOUS
<1>3. PICK d : d = Message(mac, kind, x)
  OBVIOUS
<1>4. Bytes(x, Len(x)) /\ Len(x) \in Nat
  BY SMT, <1>1, <1>2, <1>3, BuiltSound
<1>5. PICK n \in Nat, len \in Word, t \in Word : \E c, check :
         n = Len(x) + 241 /\ Sound(wire, mac, n, len, t, c, check, d)
  BY SMT, <1>1, <1>2, <1>3, BuiltSound
<1>6. PICK c, check : n = Len(x) + 241 /\ Sound(wire, mac, n, len, t, c, check, d)
  BY SMT, <1>5
<1>7. PICK f : f = wire
  OBVIOUS
<1>8. /\ Bytes(f, n + 42) /\ Ip(f) = IpHeader(t, c)
      /\ Datagram(f) = UdpHeader(len, check) \o d
  <2>1. Sound(f, mac, n, len, t, c, check, d)
    BY SMT, <1>6, <1>7
  <2>2. QED
    BY <2>1, SoundFrame, Zenon
<1>9. /\ len = n + 8 /\ t = n + 28 /\ Bytes(c, 2) /\ Bytes(check, 2) /\ Bytes(d, n)
      /\ Parts(f, n, EthernetHeader(mac), IpHeader(t, c), UdpHeader(len, check), d)
  BY SMT, <1>6, <1>7 DEF Sound
<1>10. SubSeq(f, 283, Len(f)) = FlattenSeq(Fields(kind)) \o <<255>>
  <2>1. PICK j \in Nat : j = Len(x)
    BY <1>4
  <2>2. Bytes(x, j)
    BY <1>4, <2>1
  <2>3. Parts(f, n, EthernetHeader(mac), IpHeader(t, c), UdpHeader(len, check), d)
    BY <1>9
  <2>4. SubSeq(f, 283, Len(f)) = x \o <<255>>
    BY SMT, <1>1, <1>2, <1>3, <2>2, <2>3, OptionsBytes
  <2>5. x = FlattenSeq(Fields(kind))
    BY <1>1, <1>2, AllFields, Zenon
  <2>6. QED
    BY SMT, <2>4, <2>5
<1>11. Len(f) = n + 42
  BY SMT, <1>8 DEF Bytes
<1>12. NetWords(Ip(f))[2] = Len(f) - 14
  <2>1. NetWords(IpHeader(t, c))[2] = t
    BY SMT, <1>9, IpLength
  <2>2. t = Len(f) - 14
    BY SMT, <1>9, <1>11
  <2>3. QED
    BY SMT, <1>8, <2>1, <2>2
<1>13. NetWords(Datagram(f))[3] = Len(f) - 34
  <2>1. d \in Seq(Octet)
    BY SMT, <1>9 DEF Bytes
  <2>2. NetWords(UdpHeader(len, check) \o d)[3] = len
    BY SMT, <1>9, <2>1, UdpLength
  <2>3. len = Len(f) - 34
    BY SMT, <1>9, <1>11
  <2>4. QED
    BY SMT, <1>8, <2>2, <2>3
<1>14. QED
  BY SMT, <1>7, <1>10, <1>12, <1>13

(* The options that were asked for, and nothing of the pointers that were  *)
(* stored among them, reach the wire; both lengths are right.              *)
THEOREM OptionsRight == Spec => []OptionsOnWire
BY FrameInvariant, BuiltOptions, PTL
-----------------------------------------------------------------------------
(* The elements of a sequence that are in a set                            *)
Pieces(s, T) == [i \in DOMAIN s |-> IF s[i] \in T THEN <<s[i]>> ELSE <<>>]

(* The pieces that Only flattens are sequences.                            *)
LEMMA PiecesType ==
  ASSUME NEW X, NEW s \in Seq(X), NEW T
  PROVE  /\ Pieces(s, T) \in Seq(Seq(X)) /\ Len(Pieces(s, T)) = Len(s)
         /\ \A i \in 1..Len(s) :
               Pieces(s, T)[i] = IF s[i] \in T THEN <<s[i]>> ELSE <<>>
<1>1. Pieces(s, T) = [i \in 1..Len(s) |-> IF s[i] \in T THEN <<s[i]>> ELSE <<>>]
  BY DEF Pieces
<1>2. \A i \in 1..Len(s) : (IF s[i] \in T THEN <<s[i]>> ELSE <<>>) \in Seq(X)
  OBVIOUS
<1>3. QED
  BY <1>1, <1>2

OneMore(y, z, x, T) ==
    /\ x \in T => z = y \o <<x>>
    /\ x \notin T => z = y

(* One element more either is in the set or leaves the result as it was.   *)
LEMMA OnlyOfMore ==
  ASSUME NEW X, NEW s \in Seq(X), NEW T, NEW n \in Nat, n + 1 <= Len(s),
         NEW y, y = Only(SubSeq(s, 1, n), T),
         NEW z, z = Only(SubSeq(s, 1, n + 1), T)
  PROVE  y \in Seq(X) /\ OneMore(y, z, s[n + 1], T)
<1>1. PICK b : b = SubSeq(s, 1, n + 1)
  OBVIOUS
<1>2. b \in Seq(X) /\ Len(b) = n + 1 /\ b[n + 1] = s[n + 1] /\ SubSeq(b, 1, n) = SubSeq(s, 1, n)
  BY <1>1
<1>3. PICK p : p = Pieces(b, T)
  OBVIOUS
<1>4. PICK q : q = SubSeq(p, 1, n)
  OBVIOUS
<1>5. /\ p \in Seq(Seq(X)) /\ Len(p) = n + 1
      /\ \A i \in 1..(n + 1) : p[i] = IF b[i] \in T THEN <<b[i]>> ELSE <<>>
  BY SMTT(30), <1>2, <1>3, PiecesType
<1>6. FlattenSeq(q) \in Seq(X) /\ FlattenSeq(p) = FlattenSeq(q) \o p[n + 1]
  BY <1>4, <1>5, FlattenOfMore, Zenon
<1>7. PICK a : a = SubSeq(b, 1, n)
  OBVIOUS
<1>8. a \in Seq(X) /\ Len(a) = n /\ \A i \in 1..n : a[i] = b[i]
  BY <1>2, <1>7
<1>9. q = Pieces(a, T)
  <2>1. /\ Pieces(a, T) \in Seq(Seq(X)) /\ Len(Pieces(a, T)) = n
        /\ \A i \in 1..n : Pieces(a, T)[i] = IF a[i] \in T THEN <<a[i]>> ELSE <<>>
    BY SMTT(30), <1>8, PiecesType
  <2>2. q \in Seq(Seq(X)) /\ Len(q) = n /\ \A i \in 1..n : q[i] = p[i]
    BY <1>4, <1>5
  <2>3. \A i \in 1..n : q[i] = Pieces(a, T)[i]
    <3> TAKE i \in 1..n
    <3>1. i \in 1..(n + 1)
      OBVIOUS
    <3>2. p[i] = IF b[i] \in T THEN <<b[i]>> ELSE <<>>
      BY <1>5, <3>1, Zenon
    <3>3. q[i] = p[i] /\ a[i] = b[i]
      BY <1>8, <2>2, Zenon
    <3>4. Pieces(a, T)[i] = IF a[i] \in T THEN <<a[i]>> ELSE <<>>
      BY <2>1, Zenon
    <3>5. QED
      BY <3>2, <3>3, <3>4, Zenon
  <2>4. QED
    BY <2>1, <2>2, <2>3
<1>10. y = FlattenSeq(q) /\ z = FlattenSeq(p)
  BY <1>1, <1>2, <1>3, <1>7, <1>9, Zenon DEF Only, Pieces
<1>11. p[n + 1] = IF s[n + 1] \in T THEN <<s[n + 1]>> ELSE <<>>
  BY <1>2, <1>5
<1>12. y \o <<>> = y
  BY <1>6, <1>10
<1>13. QED
  BY <1>6, <1>10, <1>11, <1>12, Zenon DEF OneMore

Picks(y, s, n, T) ==
    /\ \A i \in 1..Len(y) : \E j \in 1..n : y[i] = s[j] /\ s[j] \in T
    /\ \A j \in 1..n : s[j] \in T => \E i \in 1..Len(y) : y[i] = s[j]
Distinct(y, w) == \A i, j \in 1..Len(y) : w[y[i]] = w[y[j]] => i = j

(* Taking one more element, which is in T, keeps the elements taken so     *)
(* far in their order and apart from it.                                   *)
LEMMA PicksMore ==
  ASSUME NEW X, NEW s \in Seq(X), NEW T, NEW n \in Nat, n + 1 <= Len(s), NEW w,
         \A i, j \in 1..Len(s) :
            s[i] \in T /\ s[j] \in T /\ w[s[i]] = w[s[j]] => i = j,
         NEW y \in Seq(X), Picks(y, s, n, T), Distinct(y, w), s[n + 1] \in T,
         NEW z, z = y \o <<s[n + 1]>>
  PROVE  z \in Seq(X) /\ Picks(z, s, n + 1, T) /\ Distinct(z, w)
<1>1. PICK m \in Nat : m = Len(y)
  OBVIOUS
<1>2. PICK e \in X : e = s[n + 1]
  OBVIOUS
<1>3. z \in Seq(X) /\ Len(z) = m + 1 /\ z[m + 1] = e /\ \A i \in 1..m : z[i] = y[i]
  BY <1>1, <1>2
<1>4. Picks(z, s, n + 1, T)
  <2>1. ASSUME NEW i \in 1..Len(z) PROVE \E j \in 1..(n + 1) : z[i] = s[j] /\ s[j] \in T
    <3>1. CASE i = m + 1
      <4>1. n + 1 \in 1..(n + 1)
        OBVIOUS
      <4>2. QED
        BY <1>2, <1>3, <3>1, <4>1
    <3>2. CASE i # m + 1
      <4>1. i \in 1..m
        BY <1>3, <3>2
      <4>2. PICK j \in 1..n : y[i] = s[j] /\ s[j] \in T
        BY <1>1, <4>1 DEF Picks
      <4>3. j \in 1..(n + 1)
        OBVIOUS
      <4>4. QED
        BY <1>3, <4>1, <4>2, <4>3
    <3>3. QED
      BY <3>1, <3>2
  <2>2. ASSUME NEW j \in 1..(n + 1), s[j] \in T PROVE \E i \in 1..Len(z) : z[i] = s[j]
    <3>1. CASE j = n + 1
      <4>1. m + 1 \in 1..Len(z)
        BY <1>3
      <4>2. QED
        BY <1>2, <1>3, <3>1, <4>1
    <3>2. CASE j # n + 1
      <4>1. j \in 1..n
        BY <3>2
      <4>2. PICK i \in 1..m : y[i] = s[j]
        BY <1>1, <2>2, <4>1 DEF Picks
      <4>3. i \in 1..Len(z)
        BY <1>3
      <4>4. QED
        BY <1>3, <4>2, <4>3
    <3>3. QED
      BY <3>1, <3>2
  <2>3. QED
    BY <2>1, <2>2 DEF Picks
<1>5. ASSUME NEW i \in 1..m PROVE w[y[i]] # w[e]
  <2>1. PICK j \in 1..n : y[i] = s[j] /\ s[j] \in T
    BY <1>1 DEF Picks
  <2>2. j \in 1..Len(s) /\ n + 1 \in 1..Len(s) /\ j # n + 1
    OBVIOUS
  <2>3. QED
    BY <1>2, <2>1, <2>2
<1>6. ASSUME NEW i \in 1..Len(z), NEW j \in 1..Len(z), w[z[i]] = w[z[j]] PROVE i = j
  <2>1. CASE i \in 1..m /\ j \in 1..m
    BY <1>1, <1>3, <1>6, <2>1 DEF Distinct
  <2>2. CASE i \in 1..m /\ j = m + 1
    BY <1>3, <1>5, <1>6, <2>2
  <2>3. CASE i = m + 1 /\ j \in 1..m
    BY <1>3, <1>5, <1>6, <2>3
  <2>4. CASE i = m + 1 /\ j = m + 1
    BY <2>4
  <2>5. QED
    BY <1>3, <2>1, <2>2, <2>3, <2>4
<1>7. QED
  BY <1>3, <1>4, <1>6 DEF Distinct

(* Only takes what is in the set, and nothing twice that was not there     *)
(* twice: elements that a key w tells apart are still told apart.          *)
LEMMA OnlyPicks ==
  ASSUME NEW X, NEW s \in Seq(X), NEW T, NEW w,
         \A i, j \in 1..Len(s) :
            s[i] \in T /\ s[j] \in T /\ w[s[i]] = w[s[j]] => i = j
  PROVE  /\ Only(s, T) \in Seq(X)
         /\ Picks(Only(s, T), s, Len(s), T)
         /\ Distinct(Only(s, T), w)
<1> DEFINE Good(n, y) == y \in Seq(X) /\ Picks(y, s, n, T) /\ Distinct(y, w)
<1> DEFINE N == {n \in Nat : n <= Len(s) => Good(n, Only(SubSeq(s, 1, n), T))}
<1>1. 0 \in N
  <2>1. PICK b : b = SubSeq(s, 1, 0)
    OBVIOUS
  <2>2. b \in Seq(X) /\ Len(b) = 0
    BY <2>1
  <2>3. PICK p : p = Pieces(b, T)
    OBVIOUS
  <2>4. Len(p) = 0 /\ p = <<>>
    <3>1. p \in Seq(Seq(X)) /\ Len(p) = Len(b)
      BY <2>2, <2>3, PiecesType, Zenon
    <3>2. QED
      BY <2>2, <3>1
  <2>5. FlattenSeq(p) = p
    BY <2>4, FlattenOfNone, Zenon
  <2>6. Only(b, T) = <<>>
    BY <2>3, <2>4, <2>5, Zenon DEF Only, Pieces
  <2>7. Good(0, <<>>)
    BY DEF Picks, Distinct
  <2>8. QED
    BY <2>1, <2>6, <2>7
<1>2. ASSUME NEW n \in N PROVE n + 1 \in N
  <2>1. n \in Nat /\ n + 1 \in Nat
    OBVIOUS
  <2>2. SUFFICES ASSUME n + 1 <= Len(s)
                 PROVE  Good(n + 1, Only(SubSeq(s, 1, n + 1), T))
    BY <2>1
  <2>3. PICK y : y = Only(SubSeq(s, 1, n), T)
    OBVIOUS
  <2>4. PICK z : z = Only(SubSeq(s, 1, n + 1), T)
    OBVIOUS
  <2>5. Good(n, y)
    BY <2>1, <2>2, <2>3
  <2>6. /\ s[n + 1] \in T => z = y \o <<s[n + 1]>>
        /\ s[n + 1] \notin T => z = y
    <3> HIDE DEF N, Good
    <3>1. n \in Nat /\ n + 1 <= Len(s)
      BY <2>1, <2>2
    <3>2. OneMore(y, z, s[n + 1], T)
      BY <3>1, <2>3, <2>4, OnlyOfMore, Zenon
    <3>3. QED
      BY <3>2, Zenon DEF OneMore
  <2>7. CASE s[n + 1] \in T
    <3>1. z = y \o <<s[n + 1]>>
      BY <2>6, <2>7
    <3>2. z \in Seq(X) /\ Picks(z, s, n + 1, T) /\ Distinct(z, w)
      BY <2>1, <2>2, <2>5, <2>7, <3>1, PicksMore, Zenon
    <3>3. QED
      BY <2>4, <3>2
  <2>8. CASE s[n + 1] \notin T
    <3>1. z = y
      BY <2>6, <2>8
    <3>2. Picks(y, s, n + 1, T)
      <4>1. ASSUME NEW i \in 1..Len(y) PROVE \E j \in 1..(n + 1) : y[i] = s[j] /\ s[j] \in T
        <5>1. PICK j \in 1..n : y[i] = s[j] /\ s[j] \in T
          BY <2>5 DEF Picks
        <5>2. j \in 1..(n + 1)
          BY <2>1
        <5>3. QED
          BY <5>1, <5>2
      <4>2. ASSUME NEW j \in 1..(n + 1), s[j] \in T PROVE \E i \in 1..Len(y) : y[i] = s[j]
        <5>1. j \in 1..n
          BY <2>1, <2>8, <4>2
        <5>2. QED
          BY <2>5, <4>2, <5>1 DEF Picks
      <4>3. QED
        BY <4>1, <4>2 DEF Picks
    <3>3. QED
      BY <2>4, <2>5, <3>1, <3>2
  <2>9. QED
    BY <2>7, <2>8
<1>3. N \in SUBSET Nat
  OBVIOUS
<1>4. N = Nat
  <2> HIDE DEF N
  <2>1. QED
    BY <1>1, <1>2, <1>3, Induction
<1>5. PICK l \in Nat : l = Len(s)
  OBVIOUS
<1>6. SubSeq(s, 1, l) = s
  BY <1>5
<1>7. Good(l, Only(SubSeq(s, 1, l), T))
  BY <1>4, <1>5
<1>8. QED
  BY <1>5, <1>6, <1>7
-----------------------------------------------------------------------------
(* What FlattenSeq yields is a sequence of what it is given sequences of.  *)
LEMMA FlattenType ==
  ASSUME NEW X, NEW s \in Seq(Seq(X))
  PROVE  FlattenSeq(s) \in Seq(X)
<1>1. CASE Len(s) = 0
  <2>1. FlattenSeq(s) = s
    BY <1>1, FlattenOfNone, Zenon
  <2>2. s \in Seq(X)
    BY <1>1
  <2>3. QED
    BY <2>1, <2>2
<1>2. CASE Len(s) # 0
  <2>1. PICK n \in Nat : n = Len(s) - 1
    <3>1. Len(s) - 1 \in Nat
      BY <1>2
    <3>2. QED
      BY <3>1
  <2>2. Len(s) = n + 1 /\ s[n + 1] \in Seq(X)
    BY <2>1
  <2>3. PICK z : z = SubSeq(s, 1, n)
    OBVIOUS
  <2>4. FlattenSeq(z) \in Seq(X) /\ FlattenSeq(s) = FlattenSeq(z) \o s[n + 1]
    BY <2>2, <2>3, FlattenOfMore, Zenon
  <2>5. QED
    BY <2>2, <2>4
<1>3. QED
  BY <1>1, <1>2

(* The entries of addresses                                                *)
IpOnly == {e \in Entries : e.family = "INET"}

(* The entries of the addresses of a link                                  *)
LEMMA IpEntriesType ==
  ASSUME NEW n \in ToSet(Links), NEW ips \in SUBSET Ips
  PROVE  IpEntries(n, ips) \in Seq(IpOnly)
<1>1. IsFiniteSet(ips)
  BY IpsAssumption, FS_Subset
<1>2. Cardinality(ips) \in Nat /\ ExistsBijection(1..Cardinality(ips), ips)
  BY <1>1, FS_CardinalityType
<1>3. PICK c \in Nat : c = Cardinality(ips)
  BY <1>2
<1>4. \E f \in [1..c -> ips] : IsInjective(f)
  BY <1>2, <1>3 DEF ExistsBijection, Bijection, Injection
<1>5. SetToSeq(ips) \in [1..c -> ips]
  BY <1>3, <1>4, Zenon DEF SetToSeq
<1>6. PICK s \in [1..c -> ips] : s = SetToSeq(ips)
  BY <1>5
<1>7. IpEntries(n, ips) = [i \in 1..c |-> [name |-> n, family |-> "INET", ip |-> s[i]]]
  BY <1>6 DEF IpEntries
<1>8. \A i \in 1..c : [name |-> n, family |-> "INET", ip |-> s[i]] \in IpOnly
  BY DEF Entries, IpOnly
<1>9. QED
  BY <1>7, <1>8

(* The entry of a link is one.                                             *)
LEMMA LinkEntryType ==
  ASSUME NEW n \in ToSet(Links)
  PROVE  LinkEntry(n) \in Entries
BY DEF LinkEntry, Entries

(* What is known of them: no two links have the same name, a tun device    *)
(* has no hardware address, and an address of any other link comes with    *)
(* its hardware address.                                                   *)
AddrsOK(a) ==
    /\ a \in Seq(Entries)
    /\ \A i, j \in 1..Len(a) :
          a[i].family = "PACKET" /\ a[j].family = "PACKET" /\ a[i].name = a[j].name => i = j
    /\ \A i \in 1..Len(a) : a[i].family = "PACKET" => a[i].name \notin Tuns
    /\ \A n \in ToSet(Links) \ Tuns :
          \E i \in 1..Len(a) : a[i].family = "PACKET" /\ a[i].name = n

(* What is in the entry of a link                                          *)
LEMMA LinkEntryFields ==
  ASSUME NEW n
  PROVE  /\ LinkEntry(n).name = n
         /\ LinkEntry(n).family = "PACKET" <=> n \notin Tuns
BY DEF LinkEntry

(* What getifaddrs returns is well-formed: each link has one ethernet      *)
(* entry at the most, tun devices have none, and all others have one.      *)
LEMMA ReportedOK ==
  ASSUME NEW has \in [ToSet(Links) -> SUBSET Ips], NEW present \in SUBSET Tuns
  PROVE  AddrsOK(Reported(has, present))
<1>1. Links \in Seq(ToSet(Links))
  BY LinksAssumption DEF ToSet
<1>2. PICK T : T = {n \in ToSet(Links) : n \notin Tuns \/ n \in present}
  OBVIOUS
<1>3. PICK up : up = Only(Links, T)
  OBVIOUS
<1>4. PICK w : w = [n \in ToSet(Links) |-> n]
  OBVIOUS
<1>5. \A i, j \in 1..Len(Links) :
         Links[i] \in T /\ Links[j] \in T /\ w[Links[i]] = w[Links[j]] => i = j
  <2> TAKE i, j \in 1..Len(Links)
  <2>1. Links[i] \in ToSet(Links) /\ Links[j] \in ToSet(Links)
    BY <1>1
  <2>2. w[Links[i]] = Links[i] /\ w[Links[j]] = Links[j]
    BY <1>4, <2>1
  <2>3. i \in DOMAIN Links /\ j \in DOMAIN Links
    BY <1>1
  <2>4. QED
    BY <2>2, <2>3, LinksAssumption DEF IsInjective
<1>6. /\ up \in Seq(ToSet(Links)) /\ Picks(up, Links, Len(Links), T) /\ Distinct(up, w)
  BY <1>1, <1>3, <1>5, OnlyPicks, Zenon
<1>7. \A i, j \in 1..Len(up) : up[i] = up[j] => i = j
  BY <1>6 DEF Distinct
<1>8. PICK l : l = [i \in DOMAIN up |-> LinkEntry(up[i])]
  OBVIOUS
<1>9. PICK p : p = [i \in DOMAIN up |-> IpEntries(up[i], has[up[i]])]
  OBVIOUS
<1>10. l \in Seq(Entries) /\ Len(l) = Len(up) /\ \A i \in 1..Len(up) : l[i] = LinkEntry(up[i])
  <2>1. \A i \in 1..Len(up) : LinkEntry(up[i]) \in Entries
    BY <1>6, LinkEntryType
  <2>2. l = [i \in 1..Len(up) |-> LinkEntry(up[i])]
    BY <1>6, <1>8
  <2>3. QED
    BY <1>6, <2>1, <2>2
<1>11. p \in Seq(Seq(IpOnly))
  <2>1. \A i \in 1..Len(up) : IpEntries(up[i], has[up[i]]) \in Seq(IpOnly)
    BY <1>6, IpEntriesType
  <2>2. p = [i \in 1..Len(up) |-> IpEntries(up[i], has[up[i]])]
    BY <1>6, <1>9
  <2>3. QED
    BY <1>6, <2>1, <2>2
<1>12. PICK r \in Seq(IpOnly) : r = FlattenSeq(p)
  BY <1>11, FlattenType
<1>13. PICK a : a = l \o r
  OBVIOUS
<1>14. Reported(has, present) = a
  BY <1>2, <1>3, <1>8, <1>9, <1>12, <1>13, Zenon DEF Reported
<1>15. r \in Seq(Entries) /\ \A i \in 1..Len(r) : r[i].family # "PACKET"
  BY DEF IpOnly
<1>16. a \in Seq(Entries) /\ Joined(a, l, r)
  BY <1>10, <1>13, <1>15, Concatenated, Zenon
<1>17. \A i \in 1..Len(l) : a[i] = l[i]
  BY <1>16 DEF Joined
<1>18. \A i \in 1..Len(a) : a[i].family = "PACKET" => i \in 1..Len(l)
  <2> SUFFICES ASSUME NEW i \in 1..Len(a), i \notin 1..Len(l)
               PROVE  a[i].family # "PACKET"
    OBVIOUS
  <2>1. PICK k \in 1..Len(r) : i = Len(l) + k
    <3>1. i - Len(l) \in 1..Len(r) /\ i = Len(l) + (i - Len(l))
      BY <1>10, <1>12, <1>16 DEF Joined
    <3>2. QED
      BY <3>1
  <2>2. a[i] = r[k]
    BY <1>16, <2>1 DEF Joined
  <2>3. QED
    BY <1>15, <2>2
<1>19. ASSUME NEW i \in 1..Len(a), NEW j \in 1..Len(a),
              a[i].family = "PACKET", a[j].family = "PACKET", a[i].name = a[j].name
       PROVE  i = j
  <2>1. i \in 1..Len(l) /\ j \in 1..Len(l)
    BY <1>18, <1>19
  <2>2. a[i] = LinkEntry(up[i]) /\ a[j] = LinkEntry(up[j])
    BY <1>10, <1>17, <2>1
  <2>3. a[i].name = up[i] /\ a[j].name = up[j]
    BY <2>2, LinkEntryFields, Zenon
  <2>4. QED
    BY <1>7, <1>10, <1>19, <2>1, <2>3
<1>20. ASSUME NEW i \in 1..Len(a), a[i].family = "PACKET"
       PROVE  a[i].name \notin Tuns
  <2>1. i \in 1..Len(l)
    BY <1>18, <1>20
  <2>2. a[i] = LinkEntry(up[i])
    BY <1>10, <1>17, <2>1
  <2>3. QED
    BY <1>20, <2>2, LinkEntryFields, Zenon
<1>21. ASSUME NEW n \in ToSet(Links) \ Tuns
       PROVE  \E i \in 1..Len(a) : a[i].family = "PACKET" /\ a[i].name = n
  <2>1. n \in T
    BY <1>2
  <2>2. PICK j \in 1..Len(Links) : n = Links[j]
    BY <1>1 DEF ToSet
  <2>3. PICK i \in 1..Len(up) : up[i] = n
    BY <1>6, <2>1, <2>2 DEF Picks
  <2>4. i \in 1..Len(a) /\ i \in 1..Len(l)
    BY <1>10, <1>12, <1>16 DEF Joined
  <2>5. a[i] = LinkEntry(n)
    BY <1>10, <1>17, <2>3, <2>4
  <2>6. a[i].family = "PACKET" /\ a[i].name = n
    BY <2>5, LinkEntryFields, Zenon
  <2>7. QED
    BY <2>4, <2>6
<1>22. QED
  BY <1>14, <1>16, <1>19, <1>20, <1>21 DEF AddrsOK
-----------------------------------------------------------------------------
(* The loops of getifmacsWithIps                                           *)
LEMMA LeastOf ==
  ASSUME NEW S, S \subseteq Nat, S # {}
  PROVE  Min(S) \in S
<1>1. \E m \in S : \A n \in S : m <= n
  BY LeastNumber, Zenon
<1>2. QED
  BY <1>1, Zenon DEF Min

(* AddressOf finds an address of n if and only if there is one.            *)
LEMMA AddressFound ==
  ASSUME addrs \in Seq(Entries), NEW n
  PROVE  AddressOf(n) > 0 <=>
            \E i \in 1..Len(addrs) : PrivateIp(addrs[i]) /\ addrs[i].name = n
<1>1. PICK I : I = {i \in 1..Len(addrs) : PrivateIp(addrs[i]) /\ addrs[i].name = n}
  OBVIOUS
<1>2. AddressOf(n) = IF I # {} THEN Min(I) ELSE 0
  BY <1>1, Zenon DEF AddressOf, SelectInSeq
<1>3. CASE I = {}
  <2>1. AddressOf(n) = 0
    BY <1>2, <1>3
  <2>2. ~ \E i \in 1..Len(addrs) : PrivateIp(addrs[i]) /\ addrs[i].name = n
    BY <1>1, <1>3, Zenon
  <2>3. QED
    BY <2>1, <2>2
<1>4. CASE I # {}
  <2>1. I \subseteq 1..Len(addrs)
    BY <1>1, Zenon
  <2>2. I \subseteq Nat /\ \A i \in I : i > 0
    BY <2>1
  <2>3. Min(I) \in I
    BY <1>4, <2>2, LeastOf, Zenon
  <2>4. AddressOf(n) > 0
    BY <1>2, <1>4, <2>2, <2>3
  <2>5. \E i \in 1..Len(addrs) : PrivateIp(addrs[i]) /\ addrs[i].name = n
    BY <1>1, <2>3, Zenon
  <2>6. QED
    BY <2>4, <2>5
<1>5. QED
  BY <1>3, <1>4

(* NoAddress is an entry without an address.                               *)
LEMMA NullMet ==
  ASSUME addrs \in Seq(Entries), NoAddress > 0
  PROVE  \E e \in ToSet(addrs) : e.family = "NULL"
<1>1. PICK I : I = {i \in 1..Len(addrs) : addrs[i].family = "NULL"}
  OBVIOUS
<1>2. NoAddress = IF I # {} THEN Min(I) ELSE 0
  BY <1>1, Zenon DEF NoAddress, SelectInSeq
<1>3. I # {}
  BY <1>2
<1>4. PICK i \in 1..Len(addrs) : addrs[i].family = "NULL"
  BY <1>1, <1>3, Zenon
<1>5. addrs[i] \in ToSet(addrs)
  BY DEF ToSet
<1>6. QED
  BY <1>4, <1>5

PrivateNames == {e.name : e \in {d \in ToSet(addrs) : PrivateIp(d)}} \ Tuns

(* The ethernet entries are the links with a hardware address, each named  *)
(* once.                                                                   *)
LEMMA EthernetNames ==
  ASSUME AddrsOK(addrs)
  PROVE  /\ Ethernet \in Seq(Entries)
         /\ \A i, j \in 1..Len(Ethernet) : Ethernet[i].name = Ethernet[j].name => i = j
         /\ \A i \in 1..Len(Ethernet) : Ethernet[i].name \in ToSet(Links) \ Tuns
         /\ \A n \in ToSet(Links) \ Tuns : \E i \in 1..Len(Ethernet) : Ethernet[i].name = n
<1>1. addrs \in Seq(Entries)
  BY DEF AddrsOK
<1>2. PICK T : T = {e \in ToSet(addrs) : e.family = "PACKET"}
  OBVIOUS
<1>3. PICK w : w = [e \in Entries |-> e.name]
  OBVIOUS
<1>4. PICK eth : eth = Only(addrs, T)
  OBVIOUS
<1>5. \A i \in 1..Len(addrs) : addrs[i] \in T <=> addrs[i].family = "PACKET"
  BY <1>1, <1>2 DEF ToSet
<1>6. \A i, j \in 1..Len(addrs) :
         addrs[i] \in T /\ addrs[j] \in T /\ w[addrs[i]] = w[addrs[j]] => i = j
  <2> SUFFICES ASSUME NEW i \in 1..Len(addrs), NEW j \in 1..Len(addrs),
                      addrs[i] \in T, addrs[j] \in T, w[addrs[i]] = w[addrs[j]]
               PROVE  i = j
    OBVIOUS
  <2>1. addrs[i].family = "PACKET" /\ addrs[j].family = "PACKET"
    BY <1>5
  <2>2. addrs[i].name = addrs[j].name
    BY <1>1, <1>3
  <2>3. QED
    BY <2>1, <2>2, Zenon DEF AddrsOK
<1>7. eth \in Seq(Entries) /\ Picks(eth, addrs, Len(addrs), T) /\ Distinct(eth, w)
  BY <1>1, <1>4, <1>6, OnlyPicks, Zenon
<1>8. \A i, j \in 1..Len(eth) : eth[i].name = eth[j].name => i = j
  <2> TAKE i, j \in 1..Len(eth)
  <2>1. w[eth[i]] = eth[i].name /\ w[eth[j]] = eth[j].name
    BY <1>3, <1>7
  <2>2. QED
    BY <1>7, <2>1, Zenon DEF Distinct
<1>9. ASSUME NEW i \in 1..Len(eth) PROVE eth[i].name \in ToSet(Links) \ Tuns
  <2>1. PICK j \in 1..Len(addrs) : eth[i] = addrs[j] /\ addrs[j] \in T
    BY <1>7, Zenon DEF Picks
  <2>2. addrs[j].family = "PACKET"
    BY <1>5, <2>1
  <2>3. addrs[j].name \notin Tuns
    BY <2>2, Zenon DEF AddrsOK
  <2>4. eth[i] \in Entries
    BY <1>7
  <2>5. eth[i].name \in ToSet(Links)
    BY <2>4 DEF Entries
  <2>6. QED
    BY <2>1, <2>3, <2>5
<1>10. ASSUME NEW n \in ToSet(Links) \ Tuns PROVE \E i \in 1..Len(eth) : eth[i].name = n
  <2>1. PICK j \in 1..Len(addrs) : addrs[j].family = "PACKET" /\ addrs[j].name = n
    BY Zenon DEF AddrsOK
  <2>2. addrs[j] \in T
    BY <1>5, <2>1
  <2>3. PICK i \in 1..Len(eth) : eth[i] = addrs[j]
    BY <1>7, <2>2, Zenon DEF Picks
  <2>4. QED
    BY <2>1, <2>3
<1>11. eth = Ethernet
  BY <1>2, <1>4, Zenon DEF Ethernet
<1>12. QED
  BY <1>7, <1>8, <1>9, <1>10, <1>11

(* The list is that of the ethernet links with a private address.          *)
LEMMA ListedOK ==
  ASSUME AddrsOK(addrs)
  PROVE  IsInjective(Listed) /\ ToSet(Listed) = PrivateNames
<1>1. addrs \in Seq(Entries)
  BY DEF AddrsOK
<1>2. PICK eth : eth = Ethernet
  OBVIOUS
<1>3. /\ eth \in Seq(Entries)
      /\ \A i, j \in 1..Len(eth) : eth[i].name = eth[j].name => i = j
      /\ \A i \in 1..Len(eth) : eth[i].name \in ToSet(Links) \ Tuns
      /\ \A n \in ToSet(Links) \ Tuns : \E i \in 1..Len(eth) : eth[i].name = n
  BY <1>2, EthernetNames
<1>4. PICK T : T = {e \in ToSet(eth) : AddressOf(e.name) > 0}
  OBVIOUS
<1>5. PICK w : w = [e \in Entries |-> e.name]
  OBVIOUS
<1>6. PICK found : found = Only(eth, T)
  OBVIOUS
<1>7. \A e \in Entries : w[e] = e.name
  BY <1>5
<1>8. \A i, j \in 1..Len(eth) :
         eth[i] \in T /\ eth[j] \in T /\ w[eth[i]] = w[eth[j]] => i = j
  BY <1>3, <1>7
<1>9. found \in Seq(Entries) /\ Picks(found, eth, Len(eth), T) /\ Distinct(found, w)
  BY <1>3, <1>6, <1>8, OnlyPicks, Zenon
<1>10. Listed = [i \in DOMAIN found |-> found[i].name]
  BY <1>2, <1>4, <1>6, Zenon DEF Listed
<1>11. DOMAIN Listed = 1..Len(found) /\ \A i \in 1..Len(found) : Listed[i] = found[i].name
  BY <1>9, <1>10
<1>12. IsInjective(Listed)
  <2> SUFFICES ASSUME NEW i \in 1..Len(found), NEW j \in 1..Len(found), Listed[i] = Listed[j]
               PROVE  i = j
    BY <1>11 DEF IsInjective
  <2>1. w[found[i]] = w[found[j]]
    BY <1>7, <1>9, <1>11
  <2>2. QED
    BY <1>9, <2>1, Zenon DEF Distinct
<1>13. ASSUME NEW n \in ToSet(Listed) PROVE n \in PrivateNames
  <2>1. PICK i \in 1..Len(found) : n = found[i].name
    BY <1>11 DEF ToSet
  <2>2. PICK j \in 1..Len(eth) : found[i] = eth[j] /\ eth[j] \in T
    BY <1>9, Zenon DEF Picks
  <2>3. AddressOf(n) > 0 /\ n \in ToSet(Links) \ Tuns
    BY <1>3, <1>4, <2>1, <2>2
  <2>4. PICK k \in 1..Len(addrs) : PrivateIp(addrs[k]) /\ addrs[k].name = n
    BY <1>1, <2>3, AddressFound
  <2>5. addrs[k] \in ToSet(addrs)
    BY <1>1 DEF ToSet
  <2>6. QED
    BY <2>3, <2>4, <2>5, Zenon DEF PrivateNames
<1>14. ASSUME NEW n \in PrivateNames PROVE n \in ToSet(Listed)
  <2>1. PICK e \in ToSet(addrs) : PrivateIp(e) /\ e.name = n
    BY Zenon DEF PrivateNames
  <2>2. PICK k \in 1..Len(addrs) : addrs[k] = e
    BY <1>1 DEF ToSet
  <2>3. AddressOf(n) > 0
    BY <1>1, <2>1, <2>2, AddressFound
  <2>4. n \in ToSet(Links) \ Tuns
    <3>1. addrs[k] \in Entries
      BY <1>1
    <3>2. n \in ToSet(Links)
      BY <2>1, <2>2, <3>1 DEF Entries
    <3>3. n \notin Tuns
      BY Zenon DEF PrivateNames
    <3>4. QED
      BY <3>2, <3>3
  <2>5. PICK j \in 1..Len(eth) : eth[j].name = n
    BY <1>3, <2>4
  <2>6. eth[j] \in ToSet(eth)
    BY <1>3 DEF ToSet
  <2>7. eth[j] \in T
    BY <1>4, <2>3, <2>5, <2>6
  <2>8. PICK i \in 1..Len(found) : found[i] = eth[j]
    BY <1>9, <2>7, Zenon DEF Picks
  <2>9. n = Listed[i] /\ i \in DOMAIN Listed
    BY <1>11, <2>5, <2>8
  <2>10. QED
    BY <2>9, Zenon DEF ToSet
<1>15. QED
  BY <1>12, <1>13, <1>14

(* What getifaddrs returned is still there when the list is made; the      *)
(* names in the list are those of links.                                   *)
LinksInv ==
    /\ pc = "start" => AddrsOK(addrs)
    /\ addrs \in Seq(Entries)
    /\ ToSet(ifs) \subseteq ToSet(Links)

(* The private addresses belong to links.                                  *)
LEMMA LinksOfPrivate ==
  ASSUME AddrsOK(addrs)
  PROVE  PrivateNames \subseteq ToSet(Links)
<1>1. ASSUME NEW e \in ToSet(addrs) PROVE e.name \in ToSet(Links)
  <2>1. addrs \in Seq(Entries)
    BY DEF AddrsOK
  <2>2. e \in Entries
    BY <2>1 DEF ToSet
  <2>3. QED
    BY <2>2 DEF Entries
<1>2. QED
  BY <1>1, Zenon DEF PrivateNames

(* It holds when main() begins.                                            *)
LEMMA LinksInvInit == Init => LinksInv
<1> SUFFICES ASSUME Init PROVE LinksInv
  OBVIOUS
<1>1. PICK has \in [ToSet(Links) -> SUBSET Ips], present \in SUBSET Tuns :
         addrs = Reported(has, present)
  BY DEF Init
<1>2. AddrsOK(addrs)
  BY <1>1, ReportedOK
<1>3. ifs = <<>>
  BY DEF Init
<1>4. ToSet(ifs) \subseteq ToSet(Links)
  BY <1>3 DEF ToSet
<1>5. addrs \in Seq(Entries)
  BY <1>2 DEF AddrsOK
<1>6. QED
  BY <1>2, <1>4, <1>5 DEF LinksInv

(* getifmacsWithIps lists the links with a private address, each of them   *)
(* once, or has met an entry without an address.                           *)
LEMMA GetIfmacsLists ==
  ASSUME LinksInv, GetIfmacs
  PROVE  /\ LinksInv'
         /\ pc' = "list" => IsInjective(ifs') /\ ToSet(ifs') = PrivateNames
         /\ pc' = "crashed" => \E e \in ToSet(addrs) : e.family = "NULL"
<1>1. AddrsOK(addrs) /\ ToSet(ifs) \subseteq ToSet(Links)
  BY DEF LinksInv, GetIfmacs
<1>2. /\ pc' \in {"list", "crashed"} /\ ifs' \in {ifs, Listed}
      /\ pc' = "list" => ifs' = Listed
  BY DEF GetIfmacs
<1>3. IsInjective(Listed) /\ ToSet(Listed) = PrivateNames
  BY <1>1, ListedOK
<1>4. ToSet(ifs') \subseteq ToSet(Links)
  <2>1. ToSet(Listed) \subseteq ToSet(Links)
    BY <1>1, <1>3, LinksOfPrivate
  <2>2. QED
    BY <1>1, <1>2, <2>1, Zenon
<1>5. LinksInv'
  <2>1. addrs' \in Seq(Entries)
    BY DEF GetIfmacs
  <2>2. QED
    BY <1>2, <1>4, <2>1 DEF LinksInv
<1>6. ASSUME pc' = "crashed" PROVE \E e \in ToSet(addrs) : e.family = "NULL"
  <2>1. NoAddress > 0
    BY <1>6 DEF GetIfmacs, Dereferences
  <2>2. addrs \in Seq(Entries)
    BY <1>1, Zenon DEF AddrsOK
  <2>3. QED
    BY <2>1, <2>2, NullMet
<1>7. QED
  BY <1>2, <1>3, <1>5, <1>6

(* It holds ever after.                                                    *)
LEMMA LinksInvariant == Spec => []LinksInv
<1>1. LinksInv /\ [Next]_vars => LinksInv'
  <2> SUFFICES ASSUME LinksInv, [Next]_vars PROVE LinksInv'
    OBVIOUS
  <2>1. CASE GetIfmacs
    BY <2>1, GetIfmacsLists
  <2>2. ASSUME addrs' = addrs, ifs' = ifs, pc' # "start" \/ pc' = pc PROVE LinksInv'
    BY <2>2, Zenon DEF LinksInv
  <2>3. QED
    BY <2>1, <2>2, ZenonT(60) DEF Next, Begin, AddDhcpOption, DhcpPacket, Send, vars
<1>2. QED
  BY <1>1, LinksInvInit, PTL DEF Spec

(* getifmacsWithIps lists every ethernet link that has a private address,  *)
(* once however many it has, and crashes only on an entry without an       *)
(* address, whatever the links and their addresses are.                    *)
THEOREM InterfacesRight == Spec => InterfacesListed
<1> DEFINE A == /\ pc' = "list" /\ pc = "start" =>
                      /\ IsInjective(ifs')
                      /\ ToSet(ifs') = PrivateNames
                /\ pc' = "crashed" => \E e \in ToSet(addrs) : e.family = "NULL"
<1>1. LinksInv /\ [Next]_vars => [A]_vars
  <2> SUFFICES ASSUME LinksInv, Next PROVE A
    BY DEF vars
  <2>1. CASE GetIfmacs
    BY <2>1, GetIfmacsLists
  <2>2. CASE Begin
    BY <2>2 DEF Begin
  <2>3. CASE AddDhcpOption
    BY <2>3 DEF AddDhcpOption
  <2>4. CASE DhcpPacket
    BY <2>4 DEF DhcpPacket
  <2>5. CASE Send
    BY <2>5 DEF Send
  <2>6. QED
    BY <2>1, <2>2, <2>3, <2>4, <2>5 DEF Next
<1>2. QED
  BY <1>1, LinksInvariant, PTL DEF Spec, InterfacesListed, PrivateNames

(* What follows the first j elements is a suffix.                          *)
LEMMA SuffixOf ==
  ASSUME NEW S, NEW s \in Seq(S), NEW j \in 0..Len(s)
  PROVE  IsSuffix(SubSeq(s, j + 1, Len(s)), s)
<1>1. PICK t : t = SubSeq(s, j + 1, Len(s))
  OBVIOUS
<1>2. t \in Seq(S) /\ Len(t) = Len(s) - j /\ \A i \in 1..Len(t) : t[i] = s[j + i]
  BY <1>1
<1>3. PICK r : r = Reverse(s)
  OBVIOUS
<1>4. PICK z : z = Reverse(t)
  OBVIOUS
<1>5. r \in Seq(S) /\ Len(r) = Len(s) /\ \A i \in 1..Len(s) : r[i] = s[(Len(s) - i) + 1]
  BY <1>3 DEF Reverse
<1>6. z \in Seq(S) /\ Len(z) = Len(t) /\ \A i \in 1..Len(t) : z[i] = t[(Len(t) - i) + 1]
  BY <1>2, <1>4 DEF Reverse
<1>7. Len(z) <= Len(r)
  BY <1>2, <1>5, <1>6
<1>8. \A i \in 1..Len(z) : z[i] = r[i]
  <2> TAKE i \in 1..Len(z)
  <2>1. z[i] = t[(Len(t) - i) + 1]
    BY <1>6
  <2>2. PICK k \in 1..Len(t) : k = (Len(t) - i) + 1
    <3>1. (Len(t) - i) + 1 \in 1..Len(t)
      BY <1>2, <1>6
    <3>2. QED
      BY <3>1
  <2>3. t[k] = s[j + k]
    BY <1>2
  <2>4. r[i] = s[(Len(s) - i) + 1]
    BY <1>5, <1>7
  <2>5. j + k = (Len(s) - i) + 1
    BY <1>2, <2>2
  <2>6. QED
    BY <2>1, <2>2, <2>3, <2>4, <2>5
<1>9. SubSeq(z, 1, Len(z)) = z
  BY <1>6
<1>10. SubSeq(r, 1, Len(z)) = z
  BY <1>5, <1>6, <1>7, <1>8
<1>11. QED
  BY <1>1, <1>3, <1>4, <1>7, <1>9, <1>10 DEF IsSuffix, IsPrefix

(* Every variable has its type: what is left to add is the end of the      *)
(* options asked for, and none is added beyond the buffer.                 *)
THEOREM TypeCorrect == Spec => []TypeOK
<1>1. LinksInv /\ FrameInv => TypeOK
  <2> SUFFICES ASSUME LinksInv, FrameInv PROVE TypeOK
    OBVIOUS
  <2>1. /\ pc \in {"start", "crashed", "list", "options", "send", "done"}
        /\ kind \in Kinds /\ mac \in Macs /\ opts \in [1..OptionBufSize -> Octet]
        /\ addrs \in Seq(Entries) /\ ToSet(ifs) \subseteq ToSet(Links)
    BY DEF LinksInv, FrameInv
  <2>2. Options(kind) \in Seq(Option) /\ All(kind) = Len(Options(kind)) /\ All(kind) \in 0..3
    BY <2>1, OptionsType DEF All
  <2>3. ASSUME NEW j \in 0..All(kind), Added(kind, j, todo, size, opts)
        PROVE  IsSuffix(todo, Options(kind)) /\ size \in 0..OptionBufSize
    <3>1. todo = SubSeq(Options(kind), j + 1, Len(Options(kind)))
      BY <2>2, <2>3 DEF Added
    <3>2. j \in 0..Len(Options(kind))
      BY <2>2
    <3>3. IsSuffix(todo, Options(kind))
      BY <2>2, <3>1, <3>2, SuffixOf, Zenon
    <3>4. PICK x : x = First(kind, j)
      OBVIOUS
    <3>5. Len(x) \in Nat /\ Len(x) <= 18 /\ size = Len(x)
      BY <2>1, <2>3, <3>4, FirstFits DEF Added
    <3>6. PICK n \in Nat : n = size /\ n <= 18
      BY <3>5
    <3>7. n \in 0..OptionBufSize
      BY <3>6 DEF OptionBufSize
    <3>8. QED
      BY <3>3, <3>6, <3>7
  <2>4. IsSuffix(todo, Options(kind)) /\ size \in 0..OptionBufSize
    <3>1. CASE pc \in {"start", "crashed", "list"}
      <4>1. todo = <<>> /\ size = 0
        BY <3>1 DEF FrameInv
      <4>2. PICK s \in Seq(Option) : s = Options(kind)
        BY <2>2
      <4>3. <<>> = SubSeq(s, Len(s) + 1, Len(s)) /\ Len(s) \in 0..Len(s)
        OBVIOUS
      <4>4. IsSuffix(<<>>, s)
        BY <4>3, SuffixOf
      <4>5. 0 \in 0..OptionBufSize
        BY DEF OptionBufSize
      <4>6. QED
        BY <4>1, <4>2, <4>4, <4>5
    <3>2. CASE pc = "options"
      BY <2>3, <3>2 DEF FrameInv
    <3>3. CASE pc \in {"send", "done"}
      <4>1. Added(kind, All(kind), todo, size, opts)
        BY <3>3 DEF FrameInv
      <4>2. PICK n \in Nat : n = All(kind)
        BY <2>2
      <4>3. n \in 0..n
        OBVIOUS
      <4>4. All(kind) \in 0..All(kind)
        BY <4>2, <4>3
      <4>5. QED
        BY <2>3, <4>1, <4>4
    <3>4. QED
      BY <2>1, <3>1, <3>2, <3>3
  <2>5. ToSet(buf) \subseteq Octet /\ wire \in {<<>>, buf}
    <3>1. CASE pc \in {"send", "done"}
      <4>1. buf = Built(kind, mac) /\ wire \in {<<>>, buf}
        BY <3>1 DEF FrameInv
      <4>2. PICK n \in Nat : Bytes(Built(kind, mac), n)
        <5>1. PICK x : x = First(kind, All(kind))
          OBVIOUS
        <5>2. PICK d : d = Message(mac, kind, x)
          OBVIOUS
        <5>3. PICK n \in Nat, len \in Word, t \in Word : \E c, check :
                 Sound(Built(kind, mac), mac, n, len, t, c, check, d)
          BY SMT, <2>1, <5>1, <5>2, BuiltSound
        <5>4. PICK c, check : Sound(Built(kind, mac), mac, n, len, t, c, check, d)
          BY <5>3
        <5>5. PICK b : b = Built(kind, mac)
          OBVIOUS
        <5>6. Sound(b, mac, n, len, t, c, check, d)
          BY <5>4, <5>5, Zenon
        <5>7. Bytes(b, n + 42)
          BY <5>6, SoundFrame, Zenon
        <5>8. n + 42 \in Nat
          BY SMT
        <5>9. QED
          BY <5>5, <5>7, <5>8, Zenon
      <4>3. buf \in Seq(Octet)
        BY <4>1, <4>2, Zenon DEF Bytes
      <4>4. QED
        BY <4>1, <4>3 DEF ToSet
    <3>2. CASE pc \notin {"send", "done"}
      <4>1. buf = <<>> /\ wire = <<>>
        BY <2>1, <3>2 DEF FrameInv
      <4>2. QED
        BY <4>1 DEF ToSet
    <3>3. QED
      BY <3>1, <3>2
  <2>6. QED
    BY <2>1, <2>4, <2>5, Zenon DEF TypeOK
<1>2. QED
  BY <1>1, LinksInvariant, FrameInvariant, PTL
=============================================================================
