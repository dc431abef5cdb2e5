---------------------------- MODULE PeerHandshake ----------------------------
(***************************************************************************)
(* The peer-to-peer handshake of src/client.cpp.                           *)
(*                                                                         *)
(* Every peer runs two threads.  main() binds UDP port 8080, draws a key   *)
(* <<a, b>>, asks its user for an address, starts recLoop(), sends its key *)
(* to that address KeySends times and then forwards every line the user    *)
(* types to finAddr.  recLoop() answers the keys of others with their      *)
(* solution and points finAddr at whoever solved its own key, confirmed a  *)
(* solution, or sent a line.  The threads share finAddr.                   *)
(*                                                                         *)
(* A peer is identified with its address: all of them bind the same port.  *)
(* A read of finAddr that races with recLoop's memcpy gets the old value   *)
(* or the new one, so finAddr is atomic: family, port and address are its  *)
(* first eight bytes, which a copy of the aligned global moves in one      *)
(* piece.  (A copy in smaller pieces could leave the new port beside the   *)
(* zero address, which is the peer's own socket.)                          *)
(*                                                                         *)
(* The network is UDP: msgs holds every datagram ever sent.  A datagram is *)
(* delivered late, repeatedly, out of order, or never.                     *)
(***************************************************************************)
EXTENDS Naturals

CONSTANTS
    Peers,      \* the machines that run the program, and their addresses
    NoAddr,     \* the zeroed sockaddr_in
    Keys,       \* the pairs <<a, b>> that the two rand() calls can give
    ZeroKey,    \* the zeroed Key
    Answers,    \* the values of a ^ b
    Solve,      \* the function from a key to a ^ b
    KeySends,   \* how often main() sends the key (5 in the code)
    MaxBoots    \* bound: how often each peer is started, a function

ASSUME NoAddrAssumption == NoAddr \notin Peers
ASSUME ZeroKeyAssumption == ZeroKey \in Keys
ASSUME SolveAssumption == Solve \in [Keys -> Answers]
ASSUME KeySendsAssumption == KeySends \in Nat \ {0}

VARIABLES
    mainPc,     \* where main() is
    recPc,      \* where recLoop() is
    boots,      \* how often the peer has been started
    myKey,      \* the key of the current (or last) execution
    index,      \* the loop variable of the key-sending loop
    conAddr,    \* the address the user typed
    finAddr,    \* the address typed lines are sent to
    msgs        \* the datagrams sent

mainVars == <<mainPc, boots, myKey, index, conAddr>>
vars == <<mainPc, recPc, boots, myKey, index, conAddr, finAddr, msgs>>

-----------------------------------------------------------------------------
(* The four datagrams of the protocol; src is the address recvfrom reports. *)
Key(p, q, k) == [type |-> "KEY", src |-> p, dst |-> q, key |-> k]
KeySolved(p, q, k) ==
    [type |-> "KEY_SOLVED", src |-> p, dst |-> q, key |-> k, c |-> Solve[k]]
Connected(p, q) == [type |-> "CONNECTED", src |-> p, dst |-> q]
Text(p, q) == [type |-> "MESSAGE", src |-> p, dst |-> q]

Message ==
    [type : {"KEY"}, src : Peers, dst : Peers, key : Keys]
      \cup [type : {"KEY_SOLVED"}, src : Peers, dst : Peers,
            key : Keys, c : Answers]
      \cup [type : {"CONNECTED", "MESSAGE"}, src : Peers, dst : Peers]

Running(p) == mainPc[p] \in {"keys", "input"}

TypeOK ==
    /\ mainPc \in [Peers -> {"off", "prompt", "keys", "input"}]
    /\ recPc \in [Peers -> {"none", "recv", "connected"}]
    /\ boots \in [Peers -> Nat]
    /\ myKey \in [Peers -> Keys]
    /\ index \in [Peers -> 0..KeySends]
    /\ conAddr \in [Peers -> Peers \cup {NoAddr}]
    /\ finAddr \in [Peers -> Peers \cup {NoAddr}]
    /\ msgs \subseteq Message

Init ==
    /\ mainPc = [p \in Peers |-> "off"]
    /\ recPc = [p \in Peers |-> "none"]
    /\ boots = [p \in Peers |-> 0]
    /\ myKey = [p \in Peers |-> ZeroKey]
    /\ index = [p \in Peers |-> 0]
    /\ conAddr = [p \in Peers |-> NoAddr]
    /\ finAddr = [p \in Peers |-> NoAddr]
    /\ msgs = {}

-----------------------------------------------------------------------------
(* main() *)

(* Open and bind the socket, draw the key, show the prompt.  (A failed     *)
(* socket() or bind() exits: the peer stays "off".)                        *)
Boot(p, k) ==
    /\ mainPc[p] = "off"
    /\ boots[p] < MaxBoots[p]
    /\ mainPc' = [mainPc EXCEPT ![p] = "prompt"]
    /\ boots' = [boots EXCEPT ![p] = @ + 1]
    /\ myKey' = [myKey EXCEPT ![p] = k]
    /\ UNCHANGED <<recPc, index, conAddr, finAddr, msgs>>

(* The user types an address, perhaps her own; recLoop starts.             *)
TypeAddress(p, q) ==
    /\ mainPc[p] = "prompt"
    /\ conAddr' = [conAddr EXCEPT ![p] = q]
    /\ recPc' = [recPc EXCEPT ![p] = "recv"]
    /\ mainPc' = [mainPc EXCEPT ![p] = "keys"]
    /\ UNCHANGED <<boots, myKey, index, finAddr, msgs>>

(* Mutant: i <= KeySends.                                                  *)
SendKeyTooOften(p) ==
    /\ mainPc[p] = "keys"
    /\ index' = [index EXCEPT ![p] = @ + 1]
    /\ mainPc' = [mainPc EXCEPT ![p] =
                    IF index[p] = KeySends THEN "input" ELSE "keys"]
    /\ msgs' = msgs \cup {Key(p, conAddr[p], myKey[p])}
    /\ UNCHANGED <<recPc, boots, myKey, conAddr, finAddr>>

(* Mutant: the loop ends after its first key.                              *)
SendKeyOnce(p) ==
    /\ mainPc[p] = "keys"
    /\ index' = [index EXCEPT ![p] = @ + 1]
    /\ mainPc' = [mainPc EXCEPT ![p] = "input"]
    /\ msgs' = msgs \cup {Key(p, conAddr[p], myKey[p])}
    /\ UNCHANGED <<recPc, boots, myKey, conAddr, finAddr>>

(* One iteration of the key-sending loop; the last one leaves the loop.    *)
SendKey(p) ==
    /\ mainPc[p] = "keys"
    /\ index' = [index EXCEPT ![p] = @ + 1]
    /\ mainPc' = [mainPc EXCEPT ![p] =
                    IF index[p] + 1 = KeySends THEN "input" ELSE "keys"]
    /\ msgs' = msgs \cup {Key(p, conAddr[p], myKey[p])}
    /\ UNCHANGED <<recPc, boots, myKey, conAddr, finAddr>>

(* Mutant: lines go to the typed address.                                  *)
LinesToTyped(p) == IF conAddr[p] = NoAddr THEN {} ELSE {Text(p, conAddr[p])}

(* One line of input.  Before a connection finAddr is zero and sendto()    *)
(* fails unnoticed.                                                        *)
Lines(p) == IF finAddr[p] = NoAddr THEN {} ELSE {Text(p, finAddr[p])}

SendText(p) ==
    /\ mainPc[p] = "input"
    /\ msgs' = msgs \cup Lines(p)
    /\ UNCHANGED <<mainVars, recPc, finAddr>>

(* The process ends.  What it had sent to its own address was queued in    *)
(* the socket that goes with it; datagrams to others are out of its hands. *)
Loopback(p) == {m \in msgs : m.src = p /\ m.dst = p}

Kill(p) ==
    /\ mainPc[p] # "off"
    /\ mainPc' = [mainPc EXCEPT ![p] = "off"]
    /\ recPc' = [recPc EXCEPT ![p] = "none"]
    /\ index' = [index EXCEPT ![p] = 0]
    /\ conAddr' = [conAddr EXCEPT ![p] = NoAddr]
    /\ finAddr' = [finAddr EXCEPT ![p] = NoAddr]
    /\ msgs' = msgs \ Loopback(p)
    /\ UNCHANGED <<boots, myKey>>

-----------------------------------------------------------------------------
(* recLoop() *)

Receives(p, m, type) ==
    /\ recPc[p] = "recv"
    /\ m \in msgs
    /\ m.dst = p
    /\ m.type = type

(* Mutant: one's own key is answered too.                                  *)
SolutionsToAnyKey(p, m) == {KeySolved(p, m.src, m.key)}

(* Mutant: the solution goes to the typed address.                         *)
SolutionsToTyped(p, m) ==
    IF m.key = myKey[p] THEN {} ELSE {KeySolved(p, conAddr[p], m.key)}

(* The replies to a key: none to a key equal to one's own.                 *)
Solutions(p, m) ==
    IF m.key = myKey[p] THEN {} ELSE {KeySolved(p, m.src, m.key)}

(* Mutant: a key is enough to be connected to its sender.                  *)
RecKeyConnects(p, m) ==
    /\ Receives(p, m, "KEY")
    /\ msgs' = msgs \cup Solutions(p, m)
    /\ finAddr' = [finAddr EXCEPT ![p] = m.src]
    /\ UNCHANGED <<mainVars, recPc>>

RecKey(p, m) ==
    /\ Receives(p, m, "KEY")
    /\ msgs' = msgs \cup Solutions(p, m)
    /\ UNCHANGED <<mainVars, recPc, finAddr>>

(* Mutant: the solution is not compared.                                   *)
AcceptsAnything(p, m) == TRUE

(* Only c is compared, not the key it answers.  finAddr is set before the  *)
(* confirmation is sent, so main() may use it in between.                  *)
Accepts(p, m) == m.c = Solve[myKey[p]]

RecKeySolved(p, m) ==
    /\ Receives(p, m, "KEY_SOLVED")
    /\ \/ /\ Accepts(p, m)
          /\ finAddr' = [finAddr EXCEPT ![p] = m.src]
          /\ recPc' = [recPc EXCEPT ![p] = "connected"]
       \/ /\ ~Accepts(p, m)
          /\ UNCHANGED <<finAddr, recPc>>
    /\ UNCHANGED <<mainVars, msgs>>

SendConnected(p) ==
    /\ recPc[p] = "connected"
    /\ msgs' = msgs \cup {Connected(p, finAddr[p])}
    /\ recPc' = [recPc EXCEPT ![p] = "recv"]
    /\ UNCHANGED <<mainVars, finAddr>>

(* Neither a CONNECTED nor a MESSAGE is checked against anything.          *)
RecConnected(p, m) ==
    /\ Receives(p, m, "CONNECTED")
    /\ finAddr' = [finAddr EXCEPT ![p] = m.src]
    /\ UNCHANGED <<mainVars, recPc, msgs>>

(* Mutant: a line does not change finAddr.                                 *)
RecTextOnly(p, m) ==
    /\ Receives(p, m, "MESSAGE")
    /\ UNCHANGED <<mainVars, recPc, finAddr, msgs>>

RecText(p, m) ==
    /\ Receives(p, m, "MESSAGE")
    /\ finAddr' = [finAddr EXCEPT ![p] = m.src]
    /\ UNCHANGED <<mainVars, recPc, msgs>>

Main(p) ==
    \/ \E k \in Keys : Boot(p, k)
    \/ \E q \in Peers : TypeAddress(p, q)
    \/ SendKey(p)
    \/ SendText(p)
    \/ Kill(p)

RecLoop(p) ==
    \/ \E m \in msgs : \/ RecKey(p, m)
                       \/ RecKeySolved(p, m)
                       \/ RecConnected(p, m)
                       \/ RecText(p, m)
    \/ SendConnected(p)

Next == \E p \in Peers : Main(p) \/ RecLoop(p)

Spec == Init /\ [][Next]_vars

-----------------------------------------------------------------------------
(* Properties *)

Invited(p, q) == \E m \in msgs : m.type = "KEY" /\ m.src = p /\ m.dst = q
Solved(p, q) == \E m \in msgs : m.type = "KEY_SOLVED" /\ m.src = p /\ m.dst = q

(* finAddr never becomes the peer's own address, whatever its user types   *)
(* and however often it is restarted: this is what the test for its own    *)
(* key in recLoop is for.                                                  *)
NeverSelfConnected == \A p \in Peers : finAddr[p] # p

(* Nobody is connected by accident: when p's lines go to q, the user of    *)
(* one of the two has typed the address of the other and one of them has   *)
(* solved the other's key.  CONNECTED and MESSAGE datagrams, accepted      *)
(* unchecked by recLoop, never connect peers that did not go through that. *)
ConnectedByHandshake ==
    \A p, q \in Peers :
        finAddr[p] = q => \/ Invited(p, q) /\ Solved(q, p)
                          \/ Invited(q, p) /\ Solved(p, q)

(* A typed line only ever travels between two peers of a handshake, even   *)
(* when main() reads finAddr before recLoop has confirmed the connection.  *)
LinesFollowHandshake ==
    \A m \in msgs : m.type = "MESSAGE" => Solved(m.src, m.dst) \/ Solved(m.dst, m.src)

(* What recLoop is about to confirm is an answer: its sender got a key of  *)
(* p, and solved that key.  In p's first execution it is the key that this *)
(* execution drew, sent to the address its user typed.  After a restart it *)
(* may be a key of an earlier execution, since recLoop compares nothing    *)
(* but the answer: a late solution passes if the two answers are equal,    *)
(* and never otherwise, whoever sends it.                                  *)
FreshChallenge ==
    \A p \in Peers :
        recPc[p] = "connected" =>
            \E k \in Keys :
                /\ Key(p, finAddr[p], k) \in msgs
                /\ KeySolved(finAddr[p], p, k) \in msgs
                /\ Solve[k] = Solve[myKey[p]]
                /\ \/ k = myKey[p] /\ conAddr[p] = finAddr[p]
                   \/ boots[p] > 1

(* Two peers that drew the same key (started in the same second: the seed  *)
(* is time(NULL)) take each other's keys for their own and never connect,  *)
(* until one of them is restarted.                                         *)
TwinsNeverConnect ==
    \A p, q \in Peers :
        /\ boots[p] = 1 /\ boots[q] = 1
        /\ myKey[p] = myKey[q]
        => finAddr[p] # q

(* The handshake implements PeerLink: whatever the network does, recLoop   *)
(* links two peers only after a key went from one to the other.            *)
Invitations ==
    {<<m.src, m.dst>> : m \in {n \in msgs : n.type = "KEY" /\ n.src # n.dst}}

Abstract == INSTANCE PeerLink WITH invited <- Invitations, link <- finAddr

ImplementsPeerLink == Abstract!LinkSpec
=============================================================================
