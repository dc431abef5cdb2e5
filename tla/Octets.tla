------------------------------- MODULE Octets -------------------------------
(* Byte strings as they lie in memory, and the checksum of RFC 1071 over   *)
(* them.  The programs add up words in the order of their host, which is   *)
(* little-endian; what goes on the wire is big-endian.                      *)
EXTENDS Integers, Sequences, Functions

Octet == 0..255

Zeros(n) == [i \in 1..n |-> 0]

OctetAt(b, i) == IF i \in DOMAIN b THEN b[i] ELSE 0

(* The two bytes of a 16-bit number, as the wire and as the host order them *)
Net16(v) == <<v \div 256, v % 256>>
Host16(v) == <<v % 256, v \div 256>>

(* The 16-bit words of b; an odd last byte has a zero beside it.            *)
HostWords(b) ==
    [i \in 1..((Len(b) + 1) \div 2) |->
        OctetAt(b, 2 * i - 1) + 256 * OctetAt(b, 2 * i)]
NetWords(b) ==
    [i \in 1..((Len(b) + 1) \div 2) |->
        256 * OctetAt(b, 2 * i - 1) + OctetAt(b, 2 * i)]

(* A copy of data into buf, from offset at on, counted from zero as in C.   *)
Written(buf, at, data) ==
    [i \in DOMAIN buf |->
        IF i - at \in DOMAIN data THEN data[i - at] ELSE buf[i]]

(* What a receiver checks on any host: the one's complement sum of all      *)
(* words, the checksum among them, is all ones, that is, a multiple of      *)
(* 2^16 - 1 other than zero.                                                *)
Accepted(b) ==
    LET sum == SumFunction(NetWords(b)) IN sum > 0 /\ sum % 65535 = 0
=============================================================================
