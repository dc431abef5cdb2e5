------------------------------ MODULE DhcpFrame ------------------------------
(* dhcpfinal.c: a DHCP frame built by hand, byte by byte, on a little-endian *)
(* host, and handed to a packet socket.  main() first lists the interfaces  *)
(* that have a private address.  It calls dhcpDiscover; the calls of        *)
(* dhcpLeaseQuery and dhcpRequest stand beside it in comments, and any of   *)
(* the three is taken here, for any of the addresses of dhcpfinal.h.        *)
EXTENDS Octets, SequencesExt, FiniteSets

CONSTANTS
    Links,      \* names of the network links, in the order of getifaddrs
    Tuns,       \* those without a hardware address
    Ips,        \* first two bytes of the addresses that links may have
    Macs,       \* hardware addresses to send from
    Pointers    \* what a pointer into the stack may look like, eight bytes

ASSUME LinksAssumption ==
    /\ Links \in Seq(STRING) /\ IsInjective(Links)
    /\ Tuns \subseteq ToSet(Links)
ASSUME IpsAssumption == IsFiniteSet(Ips)
ASSUME BytesAssumption ==
    /\ \A m \in Macs : m \in [1..6 -> Octet]
    /\ \A q \in Pointers : q \in [1..8 -> Octet]

VARIABLES
    pc,     \* where the program is
    addrs,  \* what getifaddrs returned: a sequence of entries
    ifs,    \* the names in the list of getifmacsWithIps
    kind,   \* the message that is built
    mac,    \* its macSrc
    todo,   \* options still to be added
    opts,   \* dhcpOptionBuf, its first OptionBufSize bytes
    size,   \* dhcpOptionSize
    buf,    \* the bytes of main()'s buf that dhcpPacket wrote
    wire    \* the frame that was sent, if any

vars == <<pc, addrs, ifs, kind, mac, todo, opts, size, buf, wire>>

(* The part of dhcpOptionBuf that any of the messages uses.                 *)
OptionBufSize == 24

Kinds == {"discover", "leaseQuery", "request"}

-----------------------------------------------------------------------------
(* An entry without an address has family NULL: the kernel reports no       *)
(* hardware address for a tun device.                                       *)
LinkEntry(n) ==
    [name |-> n, family |-> IF n \in Tuns THEN "NULL" ELSE "PACKET",
     ip |-> Zeros(2)]
IpEntries(n, ips) ==
    LET s == SetToSeq(ips)
    IN  [i \in DOMAIN s |-> [name |-> n, family |-> "INET", ip |-> s[i]]]

Entries ==
    [name : ToSet(Links), family : {"NULL", "PACKET", "INET"},
     ip : Ips \cup {Zeros(2)}]

(* The elements of s that are in T, in their order                          *)
Only(s, T) ==
    FlattenSeq([i \in DOMAIN s |-> IF s[i] \in T THEN <<s[i]>> ELSE <<>>])

(* Links come first, then the addresses.  A tun device is there while its   *)
(* program runs, with an address or without.                                *)
Reported(has, present) ==
    LET up == Only(Links, {n \in ToSet(Links) : n \notin Tuns \/ n \in present})
    IN  [i \in DOMAIN up |-> LinkEntry(up[i])]
        \o FlattenSeq([i \in DOMAIN up |-> IpEntries(up[i], has[up[i]])])

Init ==
    /\ pc = "start"
    /\ \E has \in [ToSet(Links) -> SUBSET Ips], present \in SUBSET Tuns :
          addrs = Reported(has, present)
    /\ ifs = <<>>
    /\ kind \in Kinds
    /\ mac \in Macs
    /\ todo = <<>>
    /\ opts = Zeros(OptionBufSize)
    /\ size = 0
    /\ buf = <<>>
    /\ wire = <<>>

-----------------------------------------------------------------------------
PrivateIp(e) == e.family = "INET" /\ (e.ip[1] = 10 \/ e.ip = <<192, 168>>)

(* Where the inner loop finds an address of n, and where it meets an entry  *)
(* without one; zero if it does not.                                        *)
AddressOf(n) == SelectInSeq(addrs, LAMBDA e : PrivateIp(e) /\ e.name = n)
NoAddress == SelectInSeq(addrs, LAMBDA e : e.family = "NULL")

Ethernet == Only(addrs, {e \in ToSet(addrs) : e.family = "PACKET"})

(* The inner loop reads ifa_addr->sa_family of every entry up to the one it *)
(* looks for, and of all of them when there is none.                        *)
Dereferences(n) ==
    NoAddress > 0 /\ (AddressOf(n) = 0 \/ NoAddress < AddressOf(n))

(* Bug: no break after a match.                                             *)
ListedWithoutBreak ==
    FlattenSeq([i \in DOMAIN Ethernet |->
        LET own == SelectSeq(addrs, LAMBDA e : PrivateIp(e) /\ e.name = Ethernet[i].name)
        IN  [j \in DOMAIN own |-> own[j].name]])

(* The inner loop ends with the first match.                                *)
Listed ==
    LET found == Only(Ethernet, {e \in ToSet(Ethernet) : AddressOf(e.name) > 0})
    IN  [i \in DOMAIN found |-> found[i].name]

GetIfmacs ==
    /\ pc = "start"
    /\ addrs' = <<>>
    /\ IF \E i \in DOMAIN Ethernet : Dereferences(Ethernet[i].name)
       THEN pc' = "crashed" /\ UNCHANGED ifs
       ELSE pc' = "list" /\ ifs' = Listed
    /\ UNCHANGED <<kind, mac, todo, opts, size, buf, wire>>

-----------------------------------------------------------------------------
Discover == << <<53, <<1>> >> >>
LeaseQuery == << <<53, <<10>> >>, <<55, <<51>> >> >>
Request == << <<53, <<3>> >>, <<50, <<192, 168, 1, 105>> >>, <<61, <<0, 3>> >> >>

Options(k) ==
    CASE k = "discover" -> Discover
      [] k = "leaseQuery" -> LeaseQuery
      [] k = "request" -> Request

Begin ==
    /\ pc = "list"
    /\ pc' = "options"
    /\ todo' = Options(kind)
    /\ UNCHANGED <<addrs, ifs, kind, mac, opts, size, buf, wire>>

(* Bug: the pointer is stored after the data.                               *)
WithPointerLast(at, code, data, pointer) ==
    Written(Written(opts, at, <<code, Len(data)>> \o data), at + 2, pointer)

(* struct dhcp_option is packed and lies over the buffer: op->data is       *)
(* stored in the eight bytes that the data is then copied to.               *)
WithOption(at, code, data, pointer) ==
    LET stored == Written(opts, at + 2, pointer)
        head == Written(stored, at, <<code, Len(data)>>)
    IN  Written(head, at + 2, data)

(* Bug: it returns sizeof(struct dhcp_option).                              *)
AddDhcpOptionWhole ==
    /\ pc = "options"
    /\ todo # <<>>
    /\ \E q \in Pointers :
          opts' = WithOption(size, Head(todo)[1], Head(todo)[2], q)
    /\ size' = size + 10
    /\ todo' = Tail(todo)
    /\ UNCHANGED <<pc, addrs, ifs, kind, mac, buf, wire>>

AddDhcpOption ==
    /\ pc = "options"
    /\ todo # <<>>
    /\ \E q \in Pointers :
          opts' = WithOption(size, Head(todo)[1], Head(todo)[2], q)
    /\ size' = size + 2 + Len(Head(todo)[2])
    /\ todo' = Tail(todo)
    /\ UNCHANGED <<pc, addrs, ifs, kind, mac, buf, wire>>

-----------------------------------------------------------------------------
(* while (sum >> 16) of both checksums, and the complement in 16 bits.      *)
FoldCarries(sum) ==
    LET f[s \in Nat] ==
            IF s < 65536 THEN s ELSE f[(s % 65536) + (s \div 65536)]
    IN  f[sum]

(* Bug: the carries are dropped.                                            *)
ChecksumOfTruncated(sum) == Host16((65535 - sum) % 65536)

ChecksumOf(sum) == Host16((65535 - FoldCarries(sum)) % 65536)

IpHeader(totLen, check) ==
    <<69, 16>> \o Net16(totLen) \o Zeros(4) \o <<255, 17>> \o check
    \o Zeros(4) \o <<255, 255, 255, 255>>

IpChecksum(ip) == ChecksumOf(SumFunction(HostWords(ip)))

UdpHeader(len, check) == <<0, 68, 0, 67>> \o Net16(len) \o check

(* Bug: the loop stops before an odd last byte.                             *)
UdpChecksumEven(ip, udp) ==
    LET even == SubSeq(udp, 1, Len(udp) - (Len(udp) % 2))
    IN  ChecksumOf(SumFunction(HostWords(SubSeq(ip, 13, 20) \o even))
                   + 256 * 17 + HostWords(Net16(Len(udp)))[1])

(* From the two addresses at the end of the IP header to the end of the     *)
(* datagram.  With an odd length the last word takes a byte beyond it,      *)
(* which is zero because main() has zeroed buf.                             *)
UdpChecksum(ip, udp) ==
    ChecksumOf(SumFunction(HostWords(SubSeq(ip, 13, 20) \o udp))
               + 256 * 17 + HostWords(Net16(Len(udp)))[1])

EthernetHeader(macSrc) ==
    <<255, 255, 255, 255, 255, 255>> \o macSrc \o <<8, 0>>

MainDhcp(macSrc, clientIP) ==
    <<1, 1, 6, 0>> \o <<25, 240, 90, 149>> \o Zeros(4) \o clientIP \o Zeros(12)
    \o macSrc \o Zeros(10 + 64 + 128) \o <<99, 130, 83, 99>>

ClientIp(k) == IF k = "leaseQuery" THEN <<192, 168, 1, 100>> ELSE Zeros(4)

(* Both checksum fields are zero while the sums are taken.                  *)
DhcpPacket ==
    LET dhcp == MainDhcp(mac, ClientIp(kind)) \o SubSeq(opts, 1, size) \o <<255>>
        len == Len(dhcp) + 8
        ip == IpHeader(len + 20, IpChecksum(IpHeader(len + 20, Zeros(2))))
        check == UdpChecksum(ip, UdpHeader(len, Zeros(2)) \o dhcp)
    IN  /\ pc = "options"
        /\ todo = <<>>
        /\ pc' = "send"
        /\ buf' = EthernetHeader(mac) \o ip \o UdpHeader(len, check) \o dhcp
        /\ UNCHANGED <<addrs, ifs, kind, mac, todo, opts, size, wire>>

(* socket() fails without privileges, sendto() when there is no interface   *)
(* of the name that is compiled in.                                         *)
Send ==
    /\ pc = "send"
    /\ pc' = "done"
    /\ wire' \in {buf, <<>>}
    /\ UNCHANGED <<addrs, ifs, kind, mac, todo, opts, size, buf>>

Next == GetIfmacs \/ Begin \/ AddDhcpOption \/ DhcpPacket \/ Send

Spec == Init /\ [][Next]_vars

-----------------------------------------------------------------------------
(* Every variable has its type; no option is added beyond the buffer.       *)
TypeOK ==
    /\ pc \in {"start", "crashed", "list", "options", "send", "done"}
    /\ addrs \in Seq(Entries)
    /\ ToSet(ifs) \subseteq ToSet(Links)
    /\ kind \in Kinds /\ mac \in Macs
    /\ IsSuffix(todo, Options(kind))
    /\ opts \in [1..OptionBufSize -> Octet]
    /\ size \in 0..OptionBufSize
    /\ ToSet(buf) \subseteq Octet
    /\ wire \in {<<>>, buf}

Ip(frame) == SubSeq(frame, 15, 34)
Datagram(frame) == SubSeq(frame, 35, Len(frame))

(* A receiver of either byte order accepts both checksums of every frame    *)
(* that is sent: sums that carry, an odd length and the byte order of the   *)
(* fields come out right, although the code adds up words of its host.      *)
FramesAccepted ==
    wire # <<>> =>
        /\ Accepted(Ip(wire))
        /\ Accepted(SubSeq(Ip(wire), 13, 20) \o <<0, 17>>
                    \o Net16(Len(Datagram(wire))) \o Datagram(wire))

(* An option as it is to lie on the wire, and those of a message.           *)
Field(o) == <<o[1], Len(o[2])>> \o o[2]
Fields(k) == [i \in DOMAIN Options(k) |-> Field(Options(k)[i])]

(* The options reach the wire as they were asked for, closed by 255, with   *)
(* nothing of the pointers that addDhcpOption stores among them, and the    *)
(* two length fields end where they end.                                    *)
OptionsOnWire ==
    wire # <<>> =>
        /\ SubSeq(wire, 283, Len(wire)) = FlattenSeq(Fields(kind)) \o <<255>>
        /\ NetWords(Ip(wire))[2] = Len(wire) - 14
        /\ NetWords(Datagram(wire))[3] = Len(wire) - 34

(* getifmacsWithIps lists every ethernet link that has a private address,   *)
(* once however many it has, unless it meets an entry without an address    *)
(* first: it then reads through a null pointer.                             *)
InterfacesListed ==
    [][/\ pc' = "list" /\ pc = "start" =>
             /\ IsInjective(ifs')
             /\ ToSet(ifs') =
                   {e.name : e \in {d \in ToSet(addrs) : PrivateIp(d)}} \ Tuns
       /\ pc' = "crashed" => \E e \in ToSet(addrs) : e.family = "NULL"]_vars
=============================================================================
