# A verification of HamachiLike

HamachiLike is a collection of C and C++ programs that together are meant to become a
peer-to-peer VPN: peers find each other (client.cpp), packets of a virtual interface travel
through a tunnel (vpnServer.cpp, vpnClient.cpp, vpnDev.cpp, simpletun.cpp, own.cpp), and DHCP
frames are to obtain an address (dhcp.cpp, dhcpfinal.c). The programs do not call each other;
what they share is the network and the kernel of the machine. This directory holds TLA+ modules
of those that have behaviour of their own, TLC configurations that check them on small instances,
and proofs, checked by TLAPS, for instances of any size.

## Inventory

| Part | State | Operations | Hard about it |
|---|---|---|---|
| Peer handshake, client.cpp | `myKey`, `myAnswer`, `conAddr` (typed), `finAddr` (where lines go), the receive queue | `main`: bind, draw a key, ask for an address, start `recLoop`, send five keys, send lines. `recLoop`: KEY, KEY_SOLVED, CONNECTED, MESSAGE | two threads share `finAddr` without a lock; UDP; restarts; one-byte keys seeded with the second; CONNECTED and MESSAGE are not checked |
| VPN life cycle, vpnServer.cpp, vpnClient.cpp, vpnDev.cpp | tun0, routes, iptables rules, `ip_forward`, the signal handlers | `tun_alloc`, `ifconfig`, `setup_route_table`, `cleanup_when_sig_exit`, `udp_bind`, the loop, `cleanup_route_table`, `cleanup` | a command may fail in the middle; signals interrupt setup and cleanup; rules outlive the process, routes do not |
| VPN packet path, the same files and own.cpp | `client_addr`, `tun_buf`, `udp_buf` | one packet each way per `select` | `client_addr` is whoever sent last, perhaps the process itself; clients and servers restart; any I/O error ends the loop |
| TCP tunnel, simpletun.cpp | the connection and its byte streams, `rd_set`, `plength`, `buffer` | `tun_alloc`, `connect`, `accept`, `cread`, `cwrite`, `read_n`, the copy loop | a client that is connected before it is accepted, partial reads, end of file within a packet, blocking writes |
| DHCP client, dhcp.cpp | `ip`, the pcap handle | DISCOVER, then `ether_input` ... `dhcp_input` until a reply | no retry, no check of what the reply is or for whom |
| DHCP frames, dhcpfinal.c and .h; checksum.c takes the same sums over one frame | a zeroed buffer, the list of interfaces | header builders, `addDhcpOption`, `ipCecksum`, `udpCecksum`, `getifmacsWithIps` | odd lengths, a checksum of zero, interfaces without an address |
| Experiments, the other files | none to speak of | build or print one packet | nothing; README.md calls them learning and testing files |

The parts interact in these ways: peers with peers, by UDP datagrams (PeerDelivery composes the
handshake with a network); `main` with `recLoop`, by the shared `finAddr`; the VPN programs with
their own earlier executions, by what stays in the kernel, and with each other by UDP; the two
ends of simpletun, by two byte streams.

## The modules

| Module | Models |
|---|---|
| PeerLink | what the handshake promises: links follow invitations |
| PeerHandshake | client.cpp: both threads of every peer, datagrams that arrive late, twice or never |
| PeerDelivery | PeerHandshake composed with a network that delivers each datagram at most once and loses some, with fairness |
| PeerHandshakeProofs, PeerDeliveryProofs | the theorems about PeerHandshake and PeerDelivery |
| MCPeerHandshake, MCPeerDelivery | small instances |
| VpnRoutes | the life cycle of the three VPN programs on one machine |
| VpnRoutesProofs | the theorems about VpnRoutes |
| VpnTunnel | the main loop of the VPN programs: a server and its clients, tun0, sockets and network |
| VpnTunnelProofs | the theorems about VpnTunnel |
| MCVpnTunnel | small instances |
| FrameChannel | what the TCP tunnel promises: a FIFO of packets |
| StreamTunnel | simpletun.cpp at both ends: how they connect, and the loop, byte by byte |
| StreamTunnelProofs | the theorems about StreamTunnel |
| MCStreamTunnel | small instances |
| Octets | byte strings in memory, words of the host and of the wire, the checksum of RFC 1071 |
| OctetsProofs | lemmas about byte strings of any length, their words and their sums |
| DhcpFrame | dhcpfinal.c: the list of interfaces, the options, the headers, both checksums, sending |
| DhcpFrameProofs | the theorems about DhcpFrame |
| DhcpDiscover | dhcp.cpp: the frame it sends, the segment, the wait for a reply |
| DhcpDiscoverProofs | the theorems about DhcpDiscover |
| MCDhcpFrame, MCDhcpDiscover | small instances |

PROJECT.json gives the lines of every definition. What follows are the decisions a reader should
know to compare the two.

**PeerHandshake.** A peer is its address: all peers bind port 8080 and a `sockaddr_in` is thus
its IP. `mainPc` is the place in `main` ("prompt" is the `getline` for the address, "keys" the
five-fold loop, "input" the endless one), `recPc` the place in `recLoop`: "connected" is between
the `memcpy` to `finAddr` (line 170) and the `sendto` of CONNECTED (174), the only point within
an iteration where the other thread sees something. The race on `finAddr` has as outcomes the old
address and the new one, as for an atomic variable: family, port and address are its first eight
bytes, and the build copies those of an aligned global in one piece. (Were they copied in smaller
pieces, the new port beside the zero address would be the peer's own socket, and a line could come
back.) A key is an element of `Keys` with its
exclusive or given by the function `Solve`; the instances take pairs of small numbers and the real
exclusive or. `msgs` is the set of all datagrams ever sent, and receiving leaves them there: that
is late, reordered and repeated delivery, and never delivery. What a process sent to its own
machine dies with its socket (`Kill`); without that a restarted peer could be answered by itself.
`KeySends` is 5 in the code and any positive number in the theorems.

**PeerDelivery** adds the bag `net` to make delivery at most once and to bound the losses, which
liveness needs. Each of its actions is one of PeerHandshake with its effect on `net`. A datagram
to a peer that is not running is refused.

**VpnRoutes.** The kernel state is `tun`, `routes`, the number of copies of each rule and
`forward`, the setting net.ipv4.ip_forward, which the setup turns on and nothing turns off. A
function is a sequence of commands, `next` is the one `run()` executes; `Run` has the three
outcomes of `system()`: done, impossible, failed for a reason of its own. Programs run one after
the other. `asClient` chooses the branch of `#ifdef AS_CLIENT`. vpnServer, vpnClient and vpnDev
share their functions up to details that the model keeps: the order in which tun0 goes up, and the
host route of vpnDev. A command that a signal interrupts goes on beside the handler; its outcomes
are those of the signal just before or just after it. iptables and ip are external: `Possible`
says when they succeed. That the command of vpnDev.cpp line 99 fails rests on an `ip` that rejects
a second `via`, as iproute2 has done for years (and, as SERVER_HOST is set in the source, on an
empty destination too).

**VpnTunnel.** `addr` is `client_addr`. An address is a process and how often it was started,
since a client's port changes with every start; the server's is always PORT. The server starts by
sending to 0.0.0.0, its own loopback, so that its packets are in its own queue at once and come
from itself; to other machines they go through the set `net`, where a datagram stays: it arrives
late, again, in any order or never. `pc` is what `select()` reported and has not been read yet. A
packet's content is never looked at by the code: a packet is the machine it comes from. The
history variable `written` and the counter `passed` (how many packets a process sent while a
datagram waited in its queue) are there for the properties. The loop of vpnClient.cpp is not part
of it: at this commit it opens a raw socket, connects it to nothing and ignores that every
`write()` to it fails.

**StreamTunnel.** A byte is known by its packet and position, so that a reader out of step would
be seen. `Capacity` stands for the buffers of both machines. The packet that a `cwrite` is busy
with is `out`; a write and a read of the stream move bytes in any portions. `Start` is everything
before `connect` and `accept`; any call in it may fail. The kernel of a server that listens
completes the connection by itself: `connected` is true then, and the client goes on, writes and
may even end, before the server leaves `accept`. A client that comes before the server listens is
refused and ends. Sizes of packets are positive, as a tap never delivers an empty one.

**DhcpFrame.** The bytes matter here: the properties are about two checksums, lengths and a packed
structure laid over a buffer, so a frame is the sequence of its bytes, on a little-endian host as
the code assumes in places (`htons(IPPROTO_UDP)` added to host words). `opts` is the part of
`dhcpOptionBuf` in use; `AddDhcpOption` stores the pointer, of which any bytes may be left, and then
the data over it. `main` calls `dhcpDiscover` and has the other two calls in comments; the module
takes any of the three, and any hardware address. `addrs` is what `getifaddrs` reports: the links in
order, then their addresses; a tun device, which has no entry with a hardware address, is there or
not, with IP addresses or without (as vpnClient leaves it). A null pointer that is read is the
state "crashed". `Only` picks the elements of a sequence with a fold, not with SelectSeq, whose
recursive definition the provers cannot expand. `Accepted` is written from the definition of the checksum, in the order of the
wire, and shares nothing with the sums of the code.

**DhcpDiscover.** `captured` is what the pcap handle has seen since it was opened, which is before
the DISCOVER is sent; `next` is what `pcap_loop` hands over next. A frame is the five fields on
which the handlers decide, as found at the offsets where the handlers read them: they look at
neither the header length nor the captured length, so a frame with IP options, or one that is cut
short, is a frame with other values in these fields. A sixth field, `message`, is the type that option 53 names; no
handler looks at it, and only the properties do. Transaction and client are left out, as the code
looks at neither.
Ten bytes of the sent frame are whatever lay behind `mac` on the stack. `DeviceDown` is a
`pcap_loop` that fails, after which `main` reports 0.0.0.0 like an address.

## The runs

| Run | Bounds | Shows |
|---|---|---|
| PeerRestarts | 2 peers, 3 keys of which two have the same answer, 2 sends, 2 starts each | type, NeverSelfConnected, ConnectedByHandshake, LinesFollowHandshake, FreshChallenge, TwinsNeverConnect, ImplementsPeerLink |
| PeerDelivery | 2 peers, 2 sends, 1 loss, 1 line on its way | BothConnect, LinesRelink |
| VpnRoutes | 3 programs in both builds, 4 executions, 1 failing command | ServingIsRouted, SuccessIsClean, DriftIsBounded, SignalCleansUp |
| VpnInterrupted | vpnServer, 1 execution | violates CaughtSignalCleans |
| VpnDevSetup | vpnDev, 1 execution | violates SetupIsPossible |
| VpnPackets | a server with 2 starts and a queue of 2, 2 clients with 1 start and a queue of 1, 1 packet waiting in each tun0 | RightEnds, StaysLearned, BoundedBypass |
| StreamFrames | packets of 1 and 2 bytes, 2 each way, buffer of 3 bytes, both ends may stop | InStep, ImplementsChannel |
| StreamFlow | packets of 1 byte, 4 each way, buffer of 3 frames | NeverBothBlocked, EventuallyDelivered |
| StreamBlocked | packets of 1 and 4 bytes, 4 each way, buffer of 9 bytes | violates NeverBothBlocked |
| DhcpFrame | 2 cards and a tun device with any of 3 addresses each, 4 hardware addresses, 3 messages, 2 pointers | FramesAccepted, OptionsOnWire, InterfacesListed |
| DhcpDiscover | 1 hardware address, 2 stack contents, 8 kinds of frames (three of them replies, one with an IP option) of which 3 may be captured | OneReplyTaken, DiscoverOnWire, OfferEndsWait |
| DhcpOffer | the same with 2 frames | violates OnlyOfferEndsWait |

Why the bounds are enough: for the safety properties of the handshake they are not the last word,
the theorems are. The runs have what those need to be interesting: equal keys, different keys with
equal answers, a restart of either side; a third peer is left to the theorems. One loss and
two keys are "fewer losses than keys", and one lost CONNECTED is what a line makes up for; three keys
and two losses, which were checked too, add only more of the same. What a restart does to the datagrams
of a former life is the subject of PeerRestarts and of the theorems, not of this run. Four executions
are the least in which a fourth starts beside three leftovers and the handler deletes more than it
added. Two clients are what it takes for one to replace the other at the server, a queue of two
for an echo to wait behind a client's datagram; for the rest of VpnTunnel there are the theorems.
A buffer of three bytes cuts every frame somewhere; three frames are the least for which packets
of one size do not block (two do). Of the DHCP messages one has an odd length, and one of the
hardware addresses makes the sum of a DISCOVER all ones; in each frame the sums carry. The bound
`OptionBufSize` is the part of the 1500 bytes that the longest message reaches, pointer included.
Three frames are a reply with another frame before it and one behind.

Fairness: the two loops of client.cpp go on by themselves (`usleep` returns, `recvfrom` returns
when something is there), so PeerDelivery has weak fairness for sending a key, receiving and
sending CONNECTED; users, kills and losses are free. VpnRoutes has it for the steps between two
returns of the process's own functions, not for starts, signals or I/O errors. StreamTunnel has it
for each end's loop and its `connect` and `accept`, not for starts, arriving packets or interrupts. DhcpDiscover has it for `main`, whose
calls return and whose `pcap_loop` hands over what was captured, not for what is captured.
VpnTunnel needs none: that neither direction starves is the safety property BoundedBypass.

Deadlock is not checked: every model has an end that is not an error (all lines typed, all
executions over, all packets delivered, the frame sent).

## What the code does not keep

- CaughtSignalCleans: vpnServer.cpp line 203 promises a clean route table after a caught signal.
  When `main` itself is cleaning up, the handler starts over, fails on the rule already deleted and
  leaves the others.
- SetupIsPossible: line 99 of vpnDev.cpp hands sed a script without its backslashes, so the host
  route cannot be added and the client build stops there.
- NeverBothBlocked: simpletun.cpp line 311 sets out to handle two descriptors at once, but writes
  block, and two ends with full buffers wait for each other forever.
- OnlyOfferEndsWait: dhcp.cpp line 430 is to listen "till the DHCP OFFER comes", but line 198 compares
  the opcode, which is that of every message of a server: a NAK or an ACK for somebody else ends the
  wait, and its address is printed. What the code does keep is that an OFFER ends the wait
  (OfferEndsWait) and that of several messages only the first counts (OneReplyTaken).

Four weaknesses are in the model without a property that fails for them, because the code promises
nothing there: the error branch of dhcp.cpp line 421 is never taken, since `dhcp_discovery` returns 0
whatever happens, and a lost DISCOVER is never sent again; with a tun device up, as the VPN programs of
this repository leave it while they run, `getifmacsWithIps` reads through a null pointer (dhcpfinal.c
line 29, the exception in InterfacesListed); a UDP checksum that comes out as zero goes out as zero,
which a receiver takes for none (FramesAccepted accepts it, as a receiver does); and after a restart
of a peer recLoop takes a late answer for a fresh one when the one-byte answers are equal, which
FreshChallenge names as the only way.

## The proofs

PeerHandshakeProofs proves, for any set of peers and keys, any function `Solve`, any positive
number of keys and any number of restarts, that `Spec` implies type correctness, the five safety
properties of PeerRestarts and `ImplementsPeerLink`. The assumptions are those of PeerHandshake:
`NoAddr` is no peer, `ZeroKey` is a key, `Solve` maps keys to answers.

None of the properties is inductive: that `finAddr[p]` is not `p` says nothing about a
KEY_SOLVED that p may have sent itself. `HandshakeInv` adds where every datagram comes from.
`Phases` relates the two threads and the typed address; `KeysKnown` says that a KEY carries a key
its sender drew, the present one if the sender is in its first execution; `SolutionsAnswer` that a
KEY_SOLVED answers a KEY that went the other way and whose key the solver did not hold itself;
`ConfirmationsFollow` that a CONNECTED or a line follows a solution between the two; `LinksFollow`
that `finAddr` and recLoop's unfinished confirmation do. `Provenance` is their conjunction. The
proof that each action preserves it has one step per action and one per conjunct it disturbs; TLC
checked the invariant before it was proved. The properties then follow by cases on `LinksFollow`. For
FreshChallenge the chain is followed to its end: the KEY_SOLVED that `LinksFollow` finds answers a KEY
that `SolutionsAnswer` finds, and `KeysKnown` says whose execution that key is of.
For `Implements`, KEYs between different peers are PeerLink's invitations: SendKey is an Invite,
RecKeySolved, RecConnected and RecText are Links, Kill is an Unlink, the rest are stutters.

VpnTunnelProofs proves, for any number of clients, restarts and packets and sockets of any size,
that `Spec` implies type correctness, RightEnds, StaysLearned and BoundedBypass. It assumes that
the server is no client and that the sizes of the queues are numbers. The lemmas AfterSend,
AfterReadUdp and AfterDelivery say what a step does to a queue. `Origins` adds to RightEnds where
every datagram, on its way or in a queue, comes from: a client only ever hears the server, and only
after the server has had a datagram of that client. `Bounded` adds to BoundedBypass the length of a
queue and that, when `select()` found the socket empty, nothing in the queue has been passed over.

PeerDeliveryProofs proves that every behaviour of PeerDelivery is one of PeerHandshake
(DeliveryIsHandshake), whatever the network loses, so that the theorems above hold of it too, and
that its network is a bag of datagrams that were sent. It assumes that `MaxLoss` is a number.

VpnRoutesProofs proves, for any set of programs among the three, any number of executions and of
commands that fail by themselves, type correctness, ServingIsRouted, SuccessIsClean and
DriftIsBounded. What a
function has done follows from how far it is, so the invariant has no history: `Ran(commands, c)`
says that a command is behind `next`, `Positions` how far each function can be, and `Accounts` what
that means for the kernel, function by function. `DuringSetup` counts the rules appended so far,
`Serving` has all of them, `AfterLoop` takes off those that `main` deleted, and `InHandler` those
that the handler deleted, with one more when a signal caught `main` between a rule and the next. The
properties follow at the points where an execution serves or ends. The lemmas SetupShape and
RuleNames say that each function has each of its commands once.

StreamTunnelProofs proves, for packets of any sizes, buffers of any capacity and any number of
packets, type correctness, InStep and ImplementsChannel, assuming that the ends differ, that
sizes are positive and that the bounds are numbers. The invariant `Aligned` follows the bytes from
one tap to the other. `Writer` says that packets are numbered as they enter and that `out` is the
end of the last one; `InFlight` that the bytes on their way belong to packets that entered, run on
within a packet, and go from the end of one to the beginning of the next; `Joined` that what the
writer holds follows the last of them; `Wants` that what the reader needs is the first of them, or
the writer's next byte when there are none; `Counted` and `Reading` that the reader holds the
beginning of the packet it wants and waits for the rest; `Delivered` that what it has written to the
tap is the packets that entered, in order. When an end stops, only `Joined` and half of `Wants` are
given up, which is why both ask whether the other end runs. `InFlight` describes a run of bytes from
any byte in it on, rather than from one byte to the next, so that no induction over the stream is
needed. A read that ends a packet then makes it the
next one of the channel; every other step enters a packet or is a stutter of FrameChannel.

NeverBothBlocked is false for some sizes and capacities (StreamBlocked), and RoomForThreeFrames proves
it where the code keeps it: when each tap delivers packets of one size, not necessarily the same at
both ends, and three frames of either end fit in one direction of the connection (`OneSizeEach`).
The invariant `Steady` counts. `Balance` says that the bytes of the packets that entered at an end are
those still to be written, those on their way, those read and those delivered. `Ahead` is by how many
packets an end will have read more from its tap than from the connection. Only `select` changes it:
an end that finds both descriptors ready serves both, so it gets further ahead only when there is
nothing to read, and then it has delivered all that the other has written, while what it has sent
itself fits in the stream. So the two leads together stay within the larger number of frames that
fit, plus two (`Bounded`). Two ends that are both blocked would have filled both directions, and
with three frames in each that is more. Three is the least: with two frames and a byte less than
three (capacity 8 in StreamFlow.cfg) TLC finds both ends blocked.

OctetsProofs is about byte strings of any length. A checksum is a fold over the words of a frame, so
what is said of it needs induction, and the induction theorems of the library take an operator as a
parameter, which the provers cannot instantiate. `Induction` says the same of a set of numbers, from
the library's theorem that a well-founded relation has least elements; the lemmas then apply it to
the set of lengths for which they hold. With it, SumFunction of a concatenation of words is the sum
of the sums, the words of two byte strings of which the first has even length are the words of
both, and FlattenSeq is what its name says. A word of the host is the word of the wire with its bytes
exchanged, x + 256y for 256x + y, and so are their sums over a frame; 256 times the one differs from
the other by a multiple of 2^16 - 1. From that follow the theorems: AcceptedFromHost, that a receiver of
the other byte order accepts exactly the bytes whose host words add up to a multiple of 2^16 - 1 other than zero,
and ChecksumAccepted, that a part holding in host order what completes the sum of the rest is.

DhcpFrameProofs proves type correctness, FramesAccepted, OptionsOnWire and InterfacesListed for any
links, any finite set of addresses, any hardware addresses of six bytes and any pointers of eight. It
assumes besides that a link is listed once. The loop `while (sum >> 16)` yields a word that is the sum
modulo 2^16 - 1 and not zero unless the sum is; the function that models it is recursive on numbers,
and that each round makes the sum smaller gives it its meaning. The invariant `FrameInv` says which
bytes are where: while options are added, the part of the buffer in use is the first j options of the
message (`Added`), although each of them was preceded by a pointer that may reach beyond it, and what
is built is a function of the message and the hardware address alone (`Built`), that is, the pointers
have left no trace. `Sound` gives the parts of such a frame with both sums completed; the three
messages differ only in how many bytes their options have, so the layout is proved once, with
positions that depend on that number. For the list of interfaces `LinksInv` says what `addrs` is made
of; `Picks` says that `Only` keeps the order and the places of what it keeps, so that a name is found
once if it is a link once.

DhcpDiscoverProofs proves OneReplyTaken for any frames on the segment, DiscoverOnWire for any
hardware address and any ten bytes of the stack, and type correctness. With the types of the
variables the loop works on, OneReplyTaken is inductive as it stands, because what is captured
later does not change what was handed over. `in_cksum` adds the carries twice and not in a loop;
that is enough because the header has ten words, whose sum is below 2^32. `SentInv` says that what was
sent is nothing or a frame with every part in its place (`Right`).

Only model-checked: NeverBothBlocked for taps that deliver packets of several sizes, where it depends
on how sizes and capacity fall together and StreamBlocked refutes it for one choice; and all liveness
(BothConnect, LinesRelink, SignalCleansUp, EventuallyDelivered, OfferEndsWait), which is out of
the prover's reach.

## Not modelled

- The main loop of vpnClient.cpp. At this commit it opens a raw socket, connects it to nothing and
  ignores that every `write()` to it fails: no packet leaves, and there is no tunnel to speak of.
  Its setup, signals and cleanup are in VpnRoutes.
- own.cpp, a variant of the VPN loop with the routes commented out. It binds nothing and sends to
  PORT of its own machine's address; the only program that could hear it there, a vpnServer, cannot
  run beside it, as both take tun0.
- mydhcp.cpp, which sends one constant frame and prints what arrives in an endless loop; checksum.c,
  which prints sums over a constant frame (the sums are those of DhcpFrame); gateWayTest1_1.cpp and
  gateWayTest1_2.cpp, one of which sends two bytes and the other prints them.
- test.cpp, test2.cpp, test3.cpp, test5.cpp, test6.c, ethsend.c, ethrec.c, ping.c, send.cpp, setip.c, setalias.c,
  testr.c: "learning and testing files" (src/README.md), straight-line code or a receive loop
  that keeps nothing.
- Within the programs that are modelled: the Windows branches of client.cpp and the branch of
  dhcp.cpp for systems other than Linux (the same calls under other names), the text of messages
  and prompts, option parsing, a second client that connects to the server of simpletun.cpp and is
  never accepted, and `encrypt` and `decrypt` of the VPN programs, which copy.

## Plan

The components with behaviour of their own are modelled, and the safety properties that can be
stated for every instance are proved. What is left is small: a condition for NeverBothBlocked when
packets of one tap differ in size, where the frames in a full stream are no longer a number that the
capacity gives, and own.cpp as a variant of VpnTunnel, should it one day bind a port.
