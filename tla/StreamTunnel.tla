---------------------------- MODULE StreamTunnel ----------------------------
(***************************************************************************)
(* The TCP tunnel of src/simpletun.cpp.  The server waits for one client;  *)
(* a client that comes before it is refused.  Then both ends run the same  *)
(* loop: select() on the tap device and the connection, copy one packet    *)
(* from the tap to the connection, preceded by its length in two bytes,    *)
(* then copy one packet from the connection to the tap.                    *)
(*                                                                         *)
(* TCP is a byte stream per direction that holds at most Capacity bytes    *)
(* (the buffers of both machines).  Reads return what has arrived, writes  *)
(* block while the stream is full: wherever a packet is cut, read_n() must *)
(* find its beginning again.                                               *)
(***************************************************************************)
EXTENDS Naturals, Sequences

CONSTANTS
    Client, Server, \* the two ends
    Sizes,          \* the packet sizes the tap of each end delivers
    Capacity,       \* how many bytes fit in one direction of the connection
    MaxPackets,     \* bound: how many packets each tap delivers
    Interruptible   \* bound: the ends that may be interrupted

Ends == {Client, Server}

ASSUME EndsAssumption == Client # Server
ASSUME SizesAssumption == Sizes \in [Ends -> SUBSET (Nat \ {0})]
ASSUME BoundsAssumption == Capacity \in Nat /\ MaxPackets \in Nat

Other(e) == IF e = Client THEN Server ELSE Client

VARIABLES
    pc,         \* where main() is at each end
    connected,  \* the kernels have set up a connection, accepted or not
    tap,        \* the packets waiting to be read from the tap
    netSet,     \* FD_ISSET(net_fd, &rd_set) of the current iteration
    out,        \* the bytes of the current packet not yet written
    buffer,     \* the bytes read_n() has read so far
    left,       \* the bytes read_n() still has to read
    stream,     \* the bytes on their way to each end
    entered,    \* history: the packets read from the tap
    delivered   \* history: the packets written to the tap

vars == <<pc, connected, tap, netSet, out, buffer, left, stream, entered, delivered>>

-----------------------------------------------------------------------------
(* A packet is known by its end, number and size, a byte on the wire by    *)
(* its packet and position: 1 and 2 are the length, the rest the contents. *)
Packet(e, n, size) == [from |-> e, number |-> n, size |-> size]
Frame(p) == [i \in 1..(p.size + 2) |-> [packet |-> p, position |-> i]]
Contents(p) == [i \in 1..p.size |-> [packet |-> p, position |-> i + 2]]

AllSizes == UNION {Sizes[e] : e \in Ends}
Packets == {Packet(e, n, s) : e \in Ends, n \in 1..MaxPackets, s \in AllSizes}

(* Mutant: the length is not in network byte order.                        *)
PacketLengthSwapped(bytes) == AllSizes

(* ntohs(plength): two bytes that are not the length field of one packet   *)
(* can give any number.                                                    *)
PacketLength(bytes) ==
    IF /\ bytes[1].packet = bytes[2].packet
       /\ bytes[1].position = 1 /\ bytes[2].position = 2
    THEN {bytes[1].packet.size}
    ELSE AllSizes

(* The other end of the connection, once there is one, is not closed.      *)
Running(e) == pc[e] # "ended"

(* The process runs and holds the tap.                                     *)
Attached(e) == pc[e] \notin {"start", "ended"}

Places == {"start", "connect", "accept", "select", "tap", "write", "length",
           "packet", "ended"}

TypeOK ==
    /\ pc \in [Ends -> Places]
    /\ connected \in BOOLEAN
    /\ netSet \in [Ends -> BOOLEAN]
    /\ \A e \in Ends :
          /\ \A i \in DOMAIN tap[e] : tap[e][i] \in Packets
          /\ Len(stream[e]) <= Capacity
          /\ pc[e] = "length" => Len(buffer[e]) + left[e] = 2
          /\ pc[e] = "packet" => Len(buffer[e]) + left[e] \in AllSizes
          /\ pc[e] = "write" <=> out[e] # <<>>

Init ==
    /\ pc = [e \in Ends |-> "start"]
    /\ connected = FALSE
    /\ tap = [e \in Ends |-> <<>>]
    /\ netSet = [e \in Ends |-> FALSE]
    /\ out = [e \in Ends |-> <<>>]
    /\ buffer = [e \in Ends |-> <<>>]
    /\ left = [e \in Ends |-> 0]
    /\ stream = [e \in Ends |-> <<>>]
    /\ entered = [e \in Ends |-> <<>>]
    /\ delivered = [e \in Ends |-> <<>>]

-----------------------------------------------------------------------------
(* The user starts the program: tun_alloc, socket and, at the server, bind *)
(* and listen; each of them may fail and end it.                           *)
Start(e) ==
    /\ pc[e] = "start"
    /\ \E next \in {IF e = Client THEN "connect" ELSE "accept", "ended"} :
          pc' = [pc EXCEPT ![e] = next]
    /\ UNCHANGED <<connected, tap, netSet, out, buffer, left, stream, entered, delivered>>

(* connect(): the server's kernel answers for it as soon as it listens, and *)
(* the client goes on before the server has called accept().               *)
Connect(e) ==
    /\ pc[e] = "connect"
    /\ connected' = (pc[Server] = "accept")
    /\ pc' = [pc EXCEPT ![e] = IF connected' THEN "select" ELSE "ended"]
    /\ UNCHANGED <<tap, netSet, out, buffer, left, stream, entered, delivered>>

(* accept(): the connection may have bytes in it, or be closed, already.   *)
Accept(e) ==
    /\ pc[e] = "accept"
    /\ connected
    /\ pc' = [pc EXCEPT ![e] = "select"]
    /\ UNCHANGED <<connected, tap, netSet, out, buffer, left, stream, entered, delivered>>

-----------------------------------------------------------------------------
(* The machine sends a packet into the tunnel interface.                   *)
Arrive(e) ==
    LET n == Len(entered[e]) + Len(tap[e]) + 1
    IN  /\ Attached(e)
        /\ n <= MaxPackets
        /\ \E s \in Sizes[e] : tap' = [tap EXCEPT ![e] = Append(@, Packet(e, n, s))]
        /\ UNCHANGED <<connected, pc, netSet, out, buffer, left, stream, entered, delivered>>

(* Whether a read from the connection would not block.                     *)
Readable(e) == stream[e] # <<>> \/ ~Running(Other(e))

(* read_n() starts with its n bytes ahead of it.                           *)
StartRead(e, n) ==
    /\ buffer' = [buffer EXCEPT ![e] = <<>>]
    /\ left' = [left EXCEPT ![e] = n]

(* Mutant: read_n() counts on where the last one stopped.                  *)
SelectKeepsCount(e) ==
    /\ pc[e] = "select"
    /\ tap[e] # <<>> \/ Readable(e)
    /\ netSet' = [netSet EXCEPT ![e] = Readable(e)]
    /\ pc' = [pc EXCEPT ![e] = IF tap[e] # <<>> THEN "tap" ELSE "length"]
    /\ UNCHANGED <<connected, tap, out, buffer, left, stream, entered, delivered>>

(* Mutant: maxfd is tap_fd, select() does not see the connection.          *)
SelectTapOnly(e) ==
    /\ pc[e] = "select"
    /\ tap[e] # <<>>
    /\ netSet' = [netSet EXCEPT ![e] = Readable(e)]
    /\ pc' = [pc EXCEPT ![e] = "tap"]
    /\ StartRead(e, 2)
    /\ UNCHANGED <<connected, tap, out, stream, entered, delivered>>

(* The tap is served first; net_fd is served only if it was ready now.     *)
Select(e) ==
    /\ pc[e] = "select"
    /\ tap[e] # <<>> \/ Readable(e)
    /\ netSet' = [netSet EXCEPT ![e] = Readable(e)]
    /\ pc' = [pc EXCEPT ![e] = IF tap[e] # <<>> THEN "tap" ELSE "length"]
    /\ StartRead(e, 2)
    /\ UNCHANGED <<connected, tap, out, stream, entered, delivered>>

(* cread(tap_fd) and the two cwrite(net_fd) that it leads to: the length   *)
(* and the packet, byte by byte as the stream has room.                    *)
ReadTap(e) ==
    /\ pc[e] = "tap"
    /\ entered' = [entered EXCEPT ![e] = Append(@, Head(tap[e]))]
    /\ tap' = [tap EXCEPT ![e] = Tail(@)]
    /\ out' = [out EXCEPT ![e] = Frame(Head(tap[e]))]
    /\ pc' = [pc EXCEPT ![e] = "write"]
    /\ UNCHANGED <<connected, netSet, buffer, left, stream, delivered>>

(* Mutant: the connection is not served in the same iteration.             *)
WriteNetContinues(e) ==
    /\ pc[e] = "write"
    /\ Running(Other(e))
    /\ Len(stream[Other(e)]) < Capacity
    /\ stream' = [stream EXCEPT ![Other(e)] = Append(@, Head(out[e]))]
    /\ out' = [out EXCEPT ![e] = Tail(@)]
    /\ pc' = [pc EXCEPT ![e] = IF Tail(out[e]) # <<>> THEN "write" ELSE "select"]
    /\ UNCHANGED <<connected, tap, netSet, buffer, left, entered, delivered>>

WriteNet(e) ==
    /\ pc[e] = "write"
    /\ Running(Other(e))
    /\ Len(stream[Other(e)]) < Capacity
    /\ stream' = [stream EXCEPT ![Other(e)] = Append(@, Head(out[e]))]
    /\ out' = [out EXCEPT ![e] = Tail(@)]
    /\ pc' = [pc EXCEPT ![e] = IF Tail(out[e]) # <<>> THEN "write"
                               ELSE IF netSet[e] THEN "length" ELSE "select"]
    /\ UNCHANGED <<connected, tap, netSet, buffer, left, entered, delivered>>

(* Mutant: the packet is read with one cread() instead of read_n().        *)
ReadNetOnce(e) ==
    /\ pc[e] \in {"length", "packet"}
    /\ \E k \in 1..left[e] :
          /\ k <= Len(stream[e])
          /\ LET bytes == buffer[e] \o SubSeq(stream[e], 1, k)
             IN  \/ /\ k < left[e] /\ pc[e] = "length"
                    /\ buffer' = [buffer EXCEPT ![e] = bytes]
                    /\ left' = [left EXCEPT ![e] = @ - k]
                    /\ UNCHANGED <<pc, delivered>>
                 \/ /\ k = left[e] /\ pc[e] = "length"
                    /\ \E n \in PacketLength(bytes) : StartRead(e, n)
                    /\ pc' = [pc EXCEPT ![e] = "packet"]
                    /\ UNCHANGED delivered
                 \/ /\ pc[e] = "packet"
                    /\ delivered' = [delivered EXCEPT ![e] = Append(@, bytes)]
                    /\ StartRead(e, 0)
                    /\ pc' = [pc EXCEPT ![e] = "select"]
          /\ stream' = [stream EXCEPT ![e] = SubSeq(@, k + 1, Len(@))]
    /\ UNCHANGED <<connected, tap, netSet, out, entered>>

(* One read() of read_n(): it returns some of the bytes that are there.    *)
ReadNet(e) ==
    /\ pc[e] \in {"length", "packet"}
    /\ \E k \in 1..left[e] :
          /\ k <= Len(stream[e])
          /\ LET bytes == buffer[e] \o SubSeq(stream[e], 1, k)
             IN  \/ /\ k < left[e]
                    /\ buffer' = [buffer EXCEPT ![e] = bytes]
                    /\ left' = [left EXCEPT ![e] = @ - k]
                    /\ UNCHANGED <<pc, delivered>>
                 \/ /\ k = left[e] /\ pc[e] = "length"
                    /\ \E n \in PacketLength(bytes) : StartRead(e, n)
                    /\ pc' = [pc EXCEPT ![e] = "packet"]
                    /\ UNCHANGED delivered
                 \/ /\ k = left[e] /\ pc[e] = "packet"
                    /\ delivered' = [delivered EXCEPT ![e] = Append(@, bytes)]
                    /\ StartRead(e, 0)
                    /\ pc' = [pc EXCEPT ![e] = "select"]
          /\ stream' = [stream EXCEPT ![e] = SubSeq(@, k + 1, Len(@))]
    /\ UNCHANGED <<connected, tap, netSet, out, entered>>

(* The process ends.                                                       *)
Leave(e) ==
    /\ pc' = [pc EXCEPT ![e] = "ended"]
    /\ out' = [out EXCEPT ![e] = <<>>]
    /\ UNCHANGED <<connected, tap, netSet, buffer, left, entered, delivered>>

(* End of file: break while the length is read, and within a packet        *)
(* read_n() returns 0, which the tap refuses to be written: exit(1).       *)
EndOfFile(e) ==
    /\ pc[e] \in {"length", "packet"}
    /\ stream[e] = <<>> /\ ~Running(Other(e))
    /\ Leave(e) /\ UNCHANGED stream

(* Writing to a connection whose other end is gone.                        *)
BrokenPipe(e) ==
    /\ pc[e] = "write"
    /\ ~Running(Other(e))
    /\ Leave(e) /\ UNCHANGED stream

(* Ctrl-C, or a read or write error.  The connection is reset when this    *)
(* end had bytes left to read: any suffix of the other's may be lost.      *)
Interrupt(e) ==
    /\ e \in Interruptible
    /\ Attached(e)
    /\ Leave(e)
    /\ \/ UNCHANGED stream
       \/ /\ stream[e] # <<>>
          /\ \E k \in 0..Len(stream[Other(e)]) :
                stream' = [stream EXCEPT ![Other(e)] = SubSeq(@, 1, k)]

Step(e) ==
    \/ Connect(e) \/ Accept(e)
    \/ Select(e) \/ ReadTap(e) \/ WriteNet(e) \/ ReadNet(e) \/ EndOfFile(e) \/ BrokenPipe(e)

Next == \E e \in Ends : Start(e) \/ Arrive(e) \/ Step(e) \/ Interrupt(e)

(* Both processes run once they are started; starts, packets and interrupts *)
(* are up to others.                                                       *)
Spec == Init /\ [][Next]_vars /\ \A e \in Ends : WF_vars(Step(e))

-----------------------------------------------------------------------------
(* However TCP cuts and joins the bytes, and wherever an end stops, what   *)
(* is written to a tap is the packets read from the other, whole and in    *)
(* order: the tunnel implements FrameChannel.  Anything but the contents   *)
(* of one packet stands for a packet that nobody sent, number 0.           *)
AsPacket(bytes) ==
    LET p == bytes[1].packet
    IN  IF bytes = Contents(p) THEN p ELSE Packet(p.from, 0, p.size)

DeliveredPackets ==
    [e \in Ends |-> [i \in DOMAIN delivered[e] |-> AsPacket(delivered[e][i])]]

Channel == INSTANCE FrameChannel WITH left <- DeliveredPackets

ImplementsChannel == Channel!ChannelSpec

(* A reader is never out of step with the writer: what lies ahead of the   *)
(* bytes it still needs is the beginning of a length field.                *)
InStep ==
    \A e \in Ends :
        LET needed == IF pc[e] \in {"length", "packet"} THEN left[e] ELSE 0
        IN  (Running(e) /\ Len(stream[e]) > needed)
              => stream[e][needed + 1].position = IF pc[e] = "length" THEN 3 ELSE 1

(* simpletun.cpp:311: "use select() to handle two descriptors at once".    *)
(* The loop must not stop reading because it cannot write: never are both  *)
(* ends blocked in a write that only the other could release.              *)
Blocked(e) == pc[e] = "write" /\ Running(Other(e)) /\ Len(stream[Other(e)]) = Capacity
NeverBothBlocked == ~(Blocked(Client) /\ Blocked(Server))

(* Every packet read from a tap comes out at the other end, unless one of  *)
(* the two processes ends.                                                 *)
EventuallyDelivered ==
    \A e \in Ends : \A n \in 1..MaxPackets :
        (Len(entered[e]) = n)
          ~> (Len(delivered[Other(e)]) >= n \/ ~Running(Client) \/ ~Running(Server))
=============================================================================
