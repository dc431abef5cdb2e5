---------------------------- MODULE DhcpDiscover ----------------------------
(* dhcp.cpp: broadcast one DHCPDISCOVER through pcap and listen until an    *)
(* answer comes.  The handle is opened before the frame is sent, so that    *)
(* what was captured earlier waits in it; whatever else is on the segment   *)
(* comes in between.                                                        *)
EXTENDS Octets

CONSTANTS
    Macs,       \* hardware addresses of the interface
    Stack,      \* ten bytes that may lie behind main()'s mac
    Addresses,  \* addresses a server may name
    Frames,     \* frames that may be captured
    MaxFrames   \* bound on the frames captured

ASSUME BytesAssumption ==
    /\ \A m \in Macs : m \in [1..6 -> Octet]
    /\ \A s \in Stack : s \in [1..10 -> Octet]
ASSUME NumbersAssumption == Addresses \subseteq Nat /\ MaxFrames \in Nat

Port == 0..65535

(* What the handlers look at of a frame: the bytes at fixed offsets.  Behind *)
(* IP options, or beyond the end of a short frame, these are other bytes     *)
(* than the fields they are named for.  What the message is, which option 53 *)
(* says, no handler looks at; it is here for the properties.                 *)
MessageTypes == {"DISCOVER", "OFFER", "REQUEST", "ACK", "NAK", "none"}

ASSUME FramesAssumption ==
    Frames \subseteq [etherType : {"IP", "ARP"}, protocol : {"UDP", "TCP"},
                      sport : Port, opcode : Octet, yiaddr : Addresses,
                      message : MessageTypes]

VARIABLES
    pc,         \* where main() is
    result,     \* what main() returns
    mac,
    sent,       \* the frame that pcap_inject put on the wire, if any
    captured,   \* every frame the handle has captured so far, in order
    next,       \* the first of them that pcap_loop has not handed over
    ip          \* the address that main() reports

vars == <<pc, result, mac, sent, captured, next, ip>>

Init ==
    /\ pc = "start"
    /\ result = 0
    /\ mac \in Macs
    /\ sent = <<>>
    /\ captured = <<>>
    /\ next = 1
    /\ ip = 0

-----------------------------------------------------------------------------
(* The MAC address cannot be read, or the device cannot be opened.          *)
Open ==
    /\ pc = "start"
    /\ \/ pc' = "send" /\ UNCHANGED result
       \/ pc' = "exit" /\ result' = -1
    /\ UNCHANGED <<mac, sent, captured, next, ip>>

Capture ==
    /\ pc \in {"send", "loop"}
    /\ Len(captured) < MaxFrames
    /\ \E f \in Frames : captured' = Append(captured, f)
    /\ UNCHANGED <<pc, result, mac, sent, next, ip>>

-----------------------------------------------------------------------------
FillDhcpOption(code, data) == <<code, Len(data)>> \o data

DiscoveryOptions ==
    FillDhcpOption(53, <<1>>) \o FillDhcpOption(50, <<192, 168, 1, 10>>)
    \o FillDhcpOption(55, <<1, 3, 6, 15>>) \o FillDhcpOption(255, <<0>>)

(* memcpy takes sixteen bytes from an address that has six.                 *)
DhcpOutput(beyond) ==
    <<1, 1, 6>> \o Zeros(25) \o mac \o beyond \o Zeros(64 + 128)
    \o <<99, 130, 83, 99>>

(* Bug: the header is counted before the length is made even.               *)
UdpOutputShort(len) == <<0, 68, 0, 67>> \o Net16(len + (len % 2)) \o Zeros(2)

UdpOutput(len) == <<0, 68, 0, 67>> \o Net16(len + (len % 2) + 8) \o Zeros(2)

(* Bug: the carries are left out.                                           *)
InCksumOnce(b) ==
    LET sum == SumFunction(HostWords(b))
    IN  Host16((65535 - (sum % 65536)) % 65536)

InCksum(b) ==
    LET sum == SumFunction(HostWords(b))
        once == (sum \div 65536) + (sum % 65536)
        twice == once + (once \div 65536)
    IN  Host16((65535 - twice) % 65536)

IpOutput(len) ==
    LET header(check) ==
            <<69, 16>> \o Net16(len + 20) \o <<255, 255, 0, 0, 16, 17>> \o check
            \o Zeros(4) \o <<255, 255, 255, 255>>
    IN  header(InCksum(header(Zeros(2))))

EtherOutput == <<255, 255, 255, 255, 255, 255>> \o mac \o <<8, 0>>

(* dhcp_discovery returns zero whether or not pcap_inject succeeded, and    *)
(* main() goes on to listen.                                                *)
DhcpDiscovery ==
    /\ pc = "send"
    /\ \E beyond \in Stack :
          LET dhcp == DhcpOutput(beyond) \o DiscoveryOptions
              padded == dhcp \o Zeros(Len(dhcp) % 2)
              frame == EtherOutput \o IpOutput(Len(padded) + 8)
                       \o UdpOutput(Len(dhcp)) \o padded
          IN  sent' \in {<<>>, frame}
    /\ pc' = "loop"
    /\ ip' = 0
    /\ UNCHANGED <<result, mac, captured, next>>

-----------------------------------------------------------------------------
(* The way from ether_input to dhcp_input                                   *)
IsReply(f) ==
    f.etherType = "IP" /\ f.protocol = "UDP" /\ f.sport = 67 /\ f.opcode = 2

(* Bug: the break takes effect only after the frames at hand.               *)
EtherInputDrains ==
    /\ pc = "loop"
    /\ next <= Len(captured)
    /\ next' = next + 1
    /\ pc' = IF next = Len(captured) /\ (ip # 0 \/ IsReply(captured[next]))
             THEN "got" ELSE pc
    /\ ip' = IF IsReply(captured[next]) THEN captured[next].yiaddr ELSE ip
    /\ UNCHANGED <<result, mac, sent, captured>>

(* Bug: dhcp_input does not break the loop.                                 *)
EtherInputGoesOn ==
    /\ pc = "loop"
    /\ next <= Len(captured)
    /\ next' = next + 1
    /\ ip' = IF IsReply(captured[next]) THEN captured[next].yiaddr ELSE ip
    /\ UNCHANGED <<pc, result, mac, sent, captured>>

(* Bug: the address is taken without ntohl.                                 *)
Reversed(a) ==
    (a % 256) * 16777216 + ((a \div 256) % 256) * 65536
    + ((a \div 65536) % 256) * 256 + (a \div 16777216)

EtherInputNetworkOrder ==
    /\ pc = "loop"
    /\ next <= Len(captured)
    /\ next' = next + 1
    /\ IF IsReply(captured[next])
       THEN pc' = "got" /\ ip' = Reversed(captured[next].yiaddr)
       ELSE UNCHANGED <<pc, ip>>
    /\ UNCHANGED <<result, mac, sent, captured>>

(* pcap_loop hands over one frame; dhcp_input sets ip and breaks the loop.  *)
EtherInput ==
    /\ pc = "loop"
    /\ next <= Len(captured)
    /\ next' = next + 1
    /\ IF IsReply(captured[next])
       THEN pc' = "got" /\ ip' = captured[next].yiaddr
       ELSE UNCHANGED <<pc, ip>>
    /\ UNCHANGED <<result, mac, sent, captured>>

(* pcap_loop returns with an error, which main() does not look at.          *)
DeviceDown ==
    /\ pc = "loop"
    /\ pc' = "got"
    /\ UNCHANGED <<result, mac, sent, captured, next, ip>>

(* "Got IP ..."                                                             *)
Close ==
    /\ pc = "got"
    /\ pc' = "exit"
    /\ UNCHANGED <<result, mac, sent, captured, next, ip>>

Main == Open \/ DhcpDiscovery \/ EtherInput \/ Close

Next == Main \/ Capture \/ DeviceDown

Spec == Init /\ [][Next]_vars /\ WF_vars(Main)

-----------------------------------------------------------------------------
(* Every variable that main() and the handlers share has its type: pcap_loop *)
(* is never ahead of the capture, and ip is zero or an address that a server *)
(* named.  What sent is, DiscoverOnWire says.                                *)
TypeOK ==
    /\ pc \in {"start", "send", "loop", "got", "exit"}
    /\ result \in {0, -1}
    /\ mac \in Macs
    /\ captured \in Seq(Frames)
    /\ next \in 1..(Len(captured) + 1)
    /\ ip \in Addresses \cup {0}

NoReplyBefore(n) == \A i \in 1..(n - 1) : ~IsReply(captured[i])

(* dhcp_input acts on one reply and no other: pcap_breakloop keeps the      *)
(* frames that wait behind it from being handed over, so the address that   *)
(* main() reports is never overwritten; it is zero when the device failed   *)
(* before a reply.  Which messages pass for a reply is another matter, see  *)
(* OnlyOfferEndsWait.                                                       *)
OneReplyTaken ==
    /\ pc \in {"start", "send", "loop"} => NoReplyBefore(next) /\ ip = 0
    /\ pc \in {"got", "exit"} =>
          \/ NoReplyBefore(next) /\ ip = 0
          \/ \E last \in 1..Len(captured) :
                /\ next = last + 1
                /\ NoReplyBefore(last)
                /\ IsReply(captured[last])
                /\ ip = captured[last].yiaddr

(* What goes out is a DISCOVER of the interface that a receiver takes: the  *)
(* IP checksum is right and the UDP checksum absent, both lengths end at    *)
(* the end of the frame, the hardware address is followed by whatever the   *)
(* stack held, and the options survive the memset of the header behind      *)
(* which they were written first.                                           *)
DiscoverOnWire ==
    sent # <<>> =>
        LET header == SubSeq(sent, 15, 34)
            udp == SubSeq(sent, 35, Len(sent))
        IN  /\ Accepted(header)
            /\ NetWords(header)[2] = Len(sent) - 14
            /\ NetWords(udp)[3] = Len(udp)
            /\ NetWords(udp)[4] = 0
            /\ SubSeq(udp, 37, 42) = mac
            /\ SubSeq(udp, 249, 264) =
                  <<53, 1, 1, 50, 4, 192, 168, 1, 10, 55, 4, 1, 3, 6, 15, 255>>

(* dhcp.cpp:430, "Listen till the DHCP OFFER comes", first half: an OFFER   *)
(* that the handle has captured (and that has no IP options before it) ends *)
(* the wait, whatever else arrives before and after it, the DISCOVER or     *)
(* not: main() listens even when sending has failed.                        *)
OfferEndsWait ==
    (/\ pc = "loop"
     /\ \E i \in next..Len(captured) :
           IsReply(captured[i]) /\ captured[i].message = "OFFER")
        ~> pc = "exit"

(* The second half: a message that ends the wait is an OFFER.  Not so: the  *)
(* handlers compare the opcode, which every message of a server shares, so  *)
(* a NAK for somebody else ends it too, and its address is reported.        *)
OnlyOfferEndsWait ==
    pc = "got" /\ next > 1 /\ IsReply(captured[next - 1])
        => captured[next - 1].message = "OFFER"
=============================================================================
