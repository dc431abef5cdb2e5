------------------------- MODULE PeerHandshakeProofs -------------------------
(***************************************************************************)
(* Proofs about PeerHandshake, for any number of peers, keys, restarts and *)
(* datagrams.  Phases makes the type invariant inductive; the parts of     *)
(* Provenance say what the presence of each kind of datagram tells of the  *)
(* datagrams and executions before it.                                     *)
(***************************************************************************)
EXTENDS PeerHandshake, TLAPS

(* What the control state of a peer says of its variables.                 *)
Phases ==
    \A p \in Peers :
        /\ recPc[p] = "none" <=> ~Running(p)
        /\ ~Running(p) => finAddr[p] = NoAddr /\ index[p] = 0
        /\ Running(p) => conAddr[p] \in Peers
        /\ mainPc[p] # "off" => boots[p] >= 1
        /\ mainPc[p] = "keys" => index[p] < KeySends
        /\ recPc[p] = "connected" => finAddr[p] \in Peers

TypeInv == TypeOK /\ Phases

(* A key is the sender's own, and of its only execution if there was one.  *)
KeysKnown ==
    \A m \in msgs :
        m.type = "KEY" =>
            /\ boots[m.src] >= 1
            /\ boots[m.src] = 1 =>
                  /\ m.key = myKey[m.src]
                  /\ mainPc[m.src] # "prompt"
                  /\ Running(m.src) => conAddr[m.src] = m.dst
            /\ m.src = m.dst => Running(m.src) /\ m.key = myKey[m.src]

(* A solution answers a key of its destination, which the solver did not   *)
(* take for its own.                                                       *)
SolutionsAnswer ==
    \A m \in msgs :
        m.type = "KEY_SOLVED" =>
            /\ m.src # m.dst
            /\ m.c = Solve[m.key]
            /\ Key(m.dst, m.src, m.key) \in msgs
            /\ boots[m.src] >= 1
            /\ boots[m.src] = 1 => m.key # myKey[m.src]

Handshaken(p, q) == Solved(p, q) \/ Solved(q, p)

ConfirmationsFollow ==
    \A m \in msgs :
        m.type \in {"CONNECTED", "MESSAGE"} => Handshaken(m.src, m.dst)

LinksFollow ==
    \A p \in Peers :
        /\ finAddr[p] # NoAddr => Handshaken(p, finAddr[p])
        /\ recPc[p] = "connected" =>
              \E m \in msgs : /\ m.type = "KEY_SOLVED"
                              /\ m.src = finAddr[p]
                              /\ m.dst = p
                              /\ m.c = Solve[myKey[p]]

Provenance == KeysKnown /\ SolutionsAnswer /\ ConfirmationsFollow /\ LinksFollow

HandshakeInv == TypeInv /\ Provenance
-----------------------------------------------------------------------------
(* Type correctness *)

LEMMA TypeInit == Init => TypeInv
  BY NoAddrAssumption, ZeroKeyAssumption, KeySendsAssumption
  DEF Init, TypeInv, TypeOK, Phases, Running

LEMMA MessageTypes ==
  ASSUME NEW p \in Peers, NEW q \in Peers, NEW k \in Keys
  PROVE  /\ Key(p, q, k) \in Message
         /\ KeySolved(p, q, k) \in Message
         /\ Connected(p, q) \in Message
         /\ Text(p, q) \in Message
  BY SolveAssumption DEF Message, Key, KeySolved, Connected, Text

LEMMA MessageFields ==
  ASSUME NEW m \in Message
  PROVE  /\ m.src \in Peers
         /\ m.dst \in Peers
         /\ m.type \in {"KEY", "KEY_SOLVED", "CONNECTED", "MESSAGE"}
         /\ m.type = "KEY" => m.key \in Keys
         /\ m.type = "KEY_SOLVED" => m.key \in Keys /\ m.c \in Answers
  BY DEF Message

LEMMA TypeStep == TypeInv /\ [Next]_vars => TypeInv'
<1> SUFFICES ASSUME TypeInv, [Next]_vars PROVE TypeInv'
  OBVIOUS
<1> USE NoAddrAssumption, KeySendsAssumption
<1>u. CASE UNCHANGED vars
  BY <1>u DEF TypeInv, TypeOK, Phases, Running, vars
<1>1. CASE \E p \in Peers, k \in Keys : Boot(p, k)
  BY <1>1 DEF TypeInv, TypeOK, Phases, Running, Boot
<1>2. CASE \E p, q \in Peers : TypeAddress(p, q)
  BY <1>2 DEF TypeInv, TypeOK, Phases, Running, TypeAddress
<1>3. CASE \E p \in Peers : SendKey(p)
  <2>1. PICK p \in Peers : SendKey(p)
    BY <1>3
  <2>2. msgs' \subseteq Message
    BY <2>1, MessageTypes DEF TypeInv, TypeOK, Phases, Running, SendKey
  <2>3. QED
    BY <2>1, <2>2 DEF TypeInv, TypeOK, Phases, Running, SendKey
<1>4. CASE \E p \in Peers : SendText(p)
  <2>1. PICK p \in Peers : SendText(p)
    BY <1>4
  <2>2. Lines(p) \subseteq Message
    <3>1. CASE finAddr[p] = NoAddr
      BY <3>1 DEF Lines
    <3>2. CASE finAddr[p] # NoAddr
      BY <3>2, ZeroKeyAssumption, MessageTypes DEF Lines, TypeInv, TypeOK
    <3>3. QED
      BY <3>1, <3>2
  <2>3. QED
    BY <2>1, <2>2 DEF TypeInv, TypeOK, Phases, Running, SendText, mainVars
<1>5. CASE \E p \in Peers : Kill(p)
  BY <1>5 DEF TypeInv, TypeOK, Phases, Running, Kill
<1>6. CASE \E p \in Peers, m \in msgs : RecKey(p, m)
  <2>1. PICK p \in Peers, m \in msgs : RecKey(p, m)
    BY <1>6
  <2>2. m \in Message /\ m.type = "KEY"
    BY <2>1 DEF RecKey, Receives, TypeInv, TypeOK
  <2>3. Solutions(p, m) \subseteq Message
    BY <2>2, MessageFields, MessageTypes DEF Solutions
  <2>4. QED
    BY <2>1, <2>3 DEF TypeInv, TypeOK, Phases, Running, RecKey, mainVars
<1>7. CASE \E p \in Peers, m \in msgs : RecKeySolved(p, m)
  <2>1. PICK p \in Peers, m \in msgs : RecKeySolved(p, m)
    BY <1>7
  <2>2. m.src \in Peers
    BY MessageFields DEF TypeInv, TypeOK
  <2>3. QED
    BY <2>1, <2>2
    DEF TypeInv, TypeOK, Phases, Running, RecKeySolved, Receives, mainVars
<1>8. CASE \E p \in Peers : SendConnected(p)
  <2>1. PICK p \in Peers : SendConnected(p)
    BY <1>8
  <2>2. Connected(p, finAddr[p]) \in Message
    BY <2>1, ZeroKeyAssumption, MessageTypes DEF SendConnected, TypeInv, Phases
  <2>3. QED
    BY <2>1, <2>2 DEF TypeInv, TypeOK, Phases, Running, SendConnected, mainVars
<1>9. CASE \E p \in Peers, m \in msgs : RecConnected(p, m) \/ RecText(p, m)
  <2>1. PICK p \in Peers, m \in msgs : RecConnected(p, m) \/ RecText(p, m)
    BY <1>9
  <2>2. m.src \in Peers
    BY MessageFields DEF TypeInv, TypeOK
  <2>3. QED
    BY <2>1, <2>2
    DEF TypeInv, TypeOK, Phases, Running, RecConnected, RecText, Receives, mainVars
<1>10. QED
  BY <1>u, <1>1, <1>2, <1>3, <1>4, <1>5, <1>6, <1>7, <1>8, <1>9
  DEF Next, Main, RecLoop

(* Every variable of client.cpp keeps its type: main() in particular never *)
(* sends its key without an address nor more often than KeySends times.    *)
THEOREM TypeCorrect == Spec => []TypeOK
<1>1. TypeInv => TypeOK
  BY DEF TypeInv
<1>2. QED
  BY <1>1, TypeInit, TypeStep, PTL DEF Spec

-----------------------------------------------------------------------------
-----------------------------------------------------------------------------
(* Provenance *)

LEMMA ProvenanceInit == Init => Provenance
  BY NoAddrAssumption
  DEF Init, Provenance, KeysKnown, SolutionsAnswer, ConfirmationsFollow, LinksFollow

(* Datagrams are only added, and nobody boots, changes its key or leaves a *)
(* phase: the facts about old datagrams remain.                            *)
LEMMA KeysKnownGrows ==
  ASSUME HandshakeInv, UNCHANGED mainVars, msgs \subseteq msgs',
         \A m \in msgs' \ msgs : m.type # "KEY"
  PROVE  KeysKnown'
<1>1. \A m \in msgs' : m.type = "KEY" => m \in msgs /\ m.src \in Peers
  BY MessageFields DEF HandshakeInv, TypeInv, TypeOK
<1>2. QED
  BY <1>1 DEF HandshakeInv, Provenance, KeysKnown, Running, mainVars

LEMMA SolutionsAnswerGrows ==
  ASSUME HandshakeInv, UNCHANGED <<boots, myKey>>, msgs \subseteq msgs',
         \A m \in msgs' \ msgs : m.type # "KEY_SOLVED"
  PROVE  SolutionsAnswer'
<1>1. \A m \in msgs' : m.type = "KEY_SOLVED" => m \in msgs
  OBVIOUS
<1>2. QED
  BY <1>1 DEF HandshakeInv, Provenance, SolutionsAnswer

LEMMA HandshakenGrows ==
  ASSUME NEW p, NEW q, Handshaken(p, q),
         \A m \in msgs : m.type = "KEY_SOLVED" => m \in msgs'
  PROVE  Handshaken(p, q)'
  BY DEF Handshaken, Solved

LEMMA ProvenanceStep ==
  HandshakeInv /\ TypeInv' /\ [Next]_vars => Provenance'
<1> SUFFICES ASSUME HandshakeInv, TypeInv', [Next]_vars PROVE Provenance'
  OBVIOUS
<1>u. CASE UNCHANGED vars
  BY <1>u
  DEF HandshakeInv, Provenance, KeysKnown, SolutionsAnswer, ConfirmationsFollow,
      LinksFollow, Handshaken, Solved, Running, vars
<1>1. CASE \E p \in Peers, k \in Keys : Boot(p, k)
  <2>1. PICK p \in Peers, k \in Keys : Boot(p, k)
    BY <1>1
  <2> USE <2>1 DEF Boot
  <2>2. /\ boots[p] \in Nat
        /\ boots'[p] = boots[p] + 1
        /\ \A q \in Peers \ {p} : boots'[q] = boots[q] /\ myKey'[q] = myKey[q]
        /\ \A q \in Peers : Running(q)' <=> Running(q)
        /\ ~Running(p) /\ recPc[p] = "none"
    BY DEF HandshakeInv, TypeInv, TypeOK, Phases, Running
  <2>3. \A m \in msgs : m.src \in Peers
    BY MessageFields DEF HandshakeInv, TypeInv, TypeOK
  <2>4. KeysKnown'
    BY <2>2, <2>3 DEF HandshakeInv, Provenance, KeysKnown
  <2>5. SolutionsAnswer'
    BY <2>2, <2>3 DEF HandshakeInv, Provenance, SolutionsAnswer
  <2>6. ConfirmationsFollow'
    BY DEF HandshakeInv, Provenance, ConfirmationsFollow, Handshaken, Solved
  <2>7. LinksFollow'
    BY <2>2 DEF HandshakeInv, Provenance, LinksFollow, Handshaken, Solved
  <2>8. QED
    BY <2>4, <2>5, <2>6, <2>7 DEF Provenance
<1>2. CASE \E p, q \in Peers : TypeAddress(p, q)
  <2>1. PICK p \in Peers, q \in Peers : TypeAddress(p, q)
    BY <1>2
  <2> USE <2>1 DEF TypeAddress
  <2>2. /\ ~Running(p) /\ finAddr[p] = NoAddr
        /\ recPc'[p] = "recv"
        /\ \A r \in Peers \ {p} : /\ Running(r)' <=> Running(r)
                                  /\ conAddr'[r] = conAddr[r]
                                  /\ recPc'[r] = recPc[r]
    BY DEF HandshakeInv, TypeInv, TypeOK, Phases, Running
  <2>3. \A m \in msgs : m.src \in Peers
    BY MessageFields DEF HandshakeInv, TypeInv, TypeOK
  <2>4. KeysKnown'
    <3>1. mainPc[p] = "prompt" /\ mainPc' = [mainPc EXCEPT ![p] = "keys"]
      OBVIOUS
    <3>2. QED
      BY <2>2, <2>3, <3>1 DEF HandshakeInv, TypeInv, TypeOK, Provenance, KeysKnown
  <2>5. SolutionsAnswer'
    BY DEF HandshakeInv, Provenance, SolutionsAnswer
  <2>6. ConfirmationsFollow'
    BY DEF HandshakeInv, Provenance, ConfirmationsFollow, Handshaken, Solved
  <2>7. LinksFollow'
    BY <2>2 DEF HandshakeInv, Provenance, LinksFollow, Handshaken, Solved
  <2>8. QED
    BY <2>4, <2>5, <2>6, <2>7 DEF Provenance
<1>3. CASE \E p \in Peers : SendKey(p)
  <2>1. PICK p \in Peers : SendKey(p)
    BY <1>3
  <2> DEFINE new == Key(p, conAddr[p], myKey[p])
  <2> USE <2>1 DEF SendKey
  <2>2. /\ Running(p) /\ boots[p] >= 1
        /\ \A q \in Peers : Running(q)' <=> Running(q)
        /\ \A q \in Peers : mainPc'[q] = "prompt" <=> mainPc[q] = "prompt"
    BY DEF HandshakeInv, TypeInv, TypeOK, Phases, Running
  <2>3. /\ new.type = "KEY" /\ new.src = p
        /\ new.key = myKey[p] /\ new.dst = conAddr[p]
        /\ mainPc[p] # "prompt"
    BY DEF Key
  <2>4. \A m \in msgs : m.src \in Peers
    BY MessageFields DEF HandshakeInv, TypeInv, TypeOK
  <2>5. msgs' = msgs \cup {new}
    OBVIOUS
  <2> HIDE DEF new
  <2>6. KeysKnown'
    <3>1. ASSUME NEW m \in msgs', m.type = "KEY"
          PROVE  /\ boots[m.src] >= 1
                 /\ boots[m.src] = 1 =>
                       /\ m.key = myKey[m.src]
                       /\ mainPc'[m.src] # "prompt"
                       /\ Running(m.src) => conAddr[m.src] = m.dst
                 /\ m.src = m.dst => Running(m.src) /\ m.key = myKey[m.src]
      <4>1. CASE m = new
        BY <2>2, <2>3, <4>1
      <4>2. CASE m \in msgs
        BY <2>2, <2>4, <3>1, <4>2 DEF HandshakeInv, Provenance, KeysKnown
      <4>3. QED
        BY <2>5, <4>1, <4>2
    <3>2. \A m \in msgs' : m.type = "KEY" => m.src \in Peers
      BY <2>3, <2>4, <2>5
    <3>3. QED
      BY <2>2, <3>1, <3>2 DEF KeysKnown
  <2>7. SolutionsAnswer'
    BY <2>3, <2>5, SolutionsAnswerGrows
  <2>8. ConfirmationsFollow'
    BY <2>3, <2>5
    DEF HandshakeInv, Provenance, ConfirmationsFollow, Handshaken, Solved
  <2>9. LinksFollow'
    BY <2>5 DEF HandshakeInv, Provenance, LinksFollow, Handshaken, Solved
  <2>10. QED
    BY <2>6, <2>7, <2>8, <2>9 DEF Provenance
<1>4. CASE \E p \in Peers : SendText(p)
  <2>1. PICK p \in Peers : SendText(p)
    BY <1>4
  <2> USE <2>1 DEF SendText
  <2>2. \A m \in Lines(p) : /\ m.type = "MESSAGE" /\ m.src = p
                            /\ m.dst = finAddr[p] /\ finAddr[p] # NoAddr
    BY DEF Lines, Text
  <2>3. KeysKnown'
    BY <2>2, KeysKnownGrows
  <2>4. SolutionsAnswer'
    BY <2>2, SolutionsAnswerGrows DEF mainVars
  <2>5. ConfirmationsFollow'
    BY <2>2
    DEF HandshakeInv, Provenance, ConfirmationsFollow, LinksFollow, Handshaken, Solved
  <2>6. LinksFollow'
    BY DEF HandshakeInv, Provenance, LinksFollow, Handshaken, Solved, mainVars
  <2>7. QED
    BY <2>3, <2>4, <2>5, <2>6 DEF Provenance
<1>5. CASE \E p \in Peers : Kill(p)
  <2>1. PICK p \in Peers : Kill(p)
    BY <1>5
  <2> USE <2>1 DEF Kill
  <2>2. /\ ~Running(p)' /\ mainPc'[p] = "off"
        /\ recPc'[p] = "none" /\ finAddr'[p] = NoAddr
        /\ \A q \in Peers \ {p} : /\ Running(q)' <=> Running(q)
                                  /\ conAddr'[q] = conAddr[q]
                                  /\ mainPc'[q] = mainPc[q]
                                  /\ recPc'[q] = recPc[q]
                                  /\ finAddr'[q] = finAddr[q]
    BY DEF HandshakeInv, TypeInv, TypeOK, Phases, Running
  <2>3. \A m \in msgs : m.src \in Peers
    BY MessageFields DEF HandshakeInv, TypeInv, TypeOK
  <2>4. \A m \in msgs : m.src # m.dst => m \in msgs'
    BY DEF Loopback
  <2>5. \A m \in msgs' : m \in msgs /\ (m.src = p => m.dst # p)
    BY DEF Loopback
  <2>6. KeysKnown'
    BY <2>2, <2>3, <2>5 DEF HandshakeInv, Provenance, KeysKnown
  <2>7. SolutionsAnswer'
    <3>1. \A m \in msgs : m.type = "KEY_SOLVED" =>
              Key(m.dst, m.src, m.key).src # Key(m.dst, m.src, m.key).dst
      BY DEF HandshakeInv, Provenance, SolutionsAnswer, Key
    <3>2. QED
      BY <2>4, <2>5, <3>1 DEF HandshakeInv, Provenance, SolutionsAnswer
  <2>8. \A m \in msgs : m.type = "KEY_SOLVED" => m \in msgs'
    BY <2>4 DEF HandshakeInv, Provenance, SolutionsAnswer
  <2>9. ConfirmationsFollow'
    BY <2>5, <2>8
    DEF HandshakeInv, Provenance, ConfirmationsFollow, Handshaken, Solved
  <2>10. LinksFollow'
    BY <2>2, <2>8 DEF HandshakeInv, Provenance, LinksFollow, Handshaken, Solved
  <2>11. QED
    BY <2>6, <2>7, <2>9, <2>10 DEF Provenance
<1>6. CASE \E p \in Peers, m \in msgs : RecKey(p, m)
  <2>1. PICK p \in Peers, m \in msgs : RecKey(p, m)
    BY <1>6
  <2> USE <2>1 DEF RecKey
  <2>2. m.type = "KEY" /\ m.dst = p /\ m \in Message /\ boots[p] >= 1
    BY DEF Receives, HandshakeInv, TypeInv, TypeOK, Phases, Running
  <2>3. \A s \in Solutions(p, m) : s = KeySolved(p, m.src, m.key) /\ m.key # myKey[p]
    BY DEF Solutions
  <2>4. \A s \in Solutions(p, m) :
            /\ s.type = "KEY_SOLVED" /\ s.src = p /\ s.dst = m.src
            /\ s.key = m.key /\ s.c = Solve[m.key] /\ m.key # myKey[p]
    BY <2>3 DEF KeySolved
  <2>5. Key(m.src, p, m.key) = m
    BY <2>2 DEF Message, Key
  <2>6. KeysKnown'
    BY <2>4, KeysKnownGrows
  <2>7. SolutionsAnswer'
    <3>1. ASSUME NEW s \in Solutions(p, m)
          PROVE  /\ s.src # s.dst
                 /\ s.c = Solve[s.key]
                 /\ Key(s.dst, s.src, s.key) \in msgs'
                 /\ boots[s.src] >= 1
                 /\ s.key # myKey[s.src]
      BY <2>2, <2>4, <2>5 DEF HandshakeInv, Provenance, KeysKnown
    <3>2. QED
      BY <3>1 DEF HandshakeInv, Provenance, SolutionsAnswer, mainVars
  <2>8. ConfirmationsFollow'
    BY <2>4 DEF HandshakeInv, Provenance, ConfirmationsFollow, Handshaken, Solved
  <2>9. LinksFollow'
    BY DEF HandshakeInv, Provenance, LinksFollow, Handshaken, Solved, mainVars
  <2>10. QED
    BY <2>6, <2>7, <2>8, <2>9 DEF Provenance
<1>7. CASE \E p \in Peers, m \in msgs : RecKeySolved(p, m)
  <2>1. PICK p \in Peers, m \in msgs : RecKeySolved(p, m)
    BY <1>7
  <2> USE <2>1 DEF RecKeySolved
  <2>2. KeysKnown'
    BY KeysKnownGrows
  <2>3. SolutionsAnswer'
    BY SolutionsAnswerGrows DEF mainVars
  <2>4. ConfirmationsFollow'
    BY DEF HandshakeInv, Provenance, ConfirmationsFollow, Handshaken, Solved
  <2>5. LinksFollow'
    <3>1. CASE Accepts(p, m)
      <4>1. Handshaken(p, m.src)
        BY DEF Receives, Handshaken, Solved
      <4>2. QED
        BY <3>1, <4>1
        DEF Receives, Accepts, HandshakeInv, TypeInv, TypeOK, Provenance,
            LinksFollow, Handshaken, Solved, mainVars
    <3>2. CASE ~Accepts(p, m)
      BY <3>2
      DEF HandshakeInv, Provenance, LinksFollow, Handshaken, Solved, mainVars
    <3>3. QED
      BY <3>1, <3>2
  <2>6. QED
    BY <2>2, <2>3, <2>4, <2>5 DEF Provenance
<1>8. CASE \E p \in Peers : SendConnected(p)
  <2>1. PICK p \in Peers : SendConnected(p)
    BY <1>8
  <2> USE <2>1 DEF SendConnected
  <2> DEFINE new == Connected(p, finAddr[p])
  <2>2. /\ new.type = "CONNECTED" /\ new.src = p /\ new.dst = finAddr[p]
        /\ msgs' = msgs \cup {new}
    BY DEF Connected
  <2> HIDE DEF new
  <2>3. KeysKnown'
    BY <2>2, KeysKnownGrows
  <2>4. SolutionsAnswer'
    BY <2>2, SolutionsAnswerGrows DEF mainVars
  <2>5. ConfirmationsFollow'
    BY <2>2
    DEF HandshakeInv, Provenance, ConfirmationsFollow, LinksFollow, Handshaken, Solved
  <2>6. LinksFollow'
    BY <2>2
    DEF HandshakeInv, TypeInv, TypeOK, Provenance, LinksFollow, Handshaken, Solved,
        mainVars
  <2>7. QED
    BY <2>3, <2>4, <2>5, <2>6 DEF Provenance
<1>9. CASE \E p \in Peers, m \in msgs : RecConnected(p, m) \/ RecText(p, m)
  <2>1. PICK p \in Peers, m \in msgs : RecConnected(p, m) \/ RecText(p, m)
    BY <1>9
  <2>2. /\ m.type \in {"CONNECTED", "MESSAGE"} /\ m.dst = p /\ recPc[p] = "recv"
        /\ finAddr' = [finAddr EXCEPT ![p] = m.src]
        /\ UNCHANGED <<mainVars, recPc, msgs>>
    BY <2>1 DEF RecConnected, RecText, Receives
  <2>3. KeysKnown'
    BY <2>2, KeysKnownGrows
  <2>4. SolutionsAnswer'
    BY <2>2, SolutionsAnswerGrows DEF mainVars
  <2>5. ConfirmationsFollow'
    BY <2>2 DEF HandshakeInv, Provenance, ConfirmationsFollow, Handshaken, Solved
  <2>6. LinksFollow'
    <3>1. Handshaken(p, m.src)
      BY <2>2 DEF HandshakeInv, Provenance, ConfirmationsFollow, Handshaken
    <3>2. QED
      BY <2>2, <3>1
      DEF HandshakeInv, TypeInv, TypeOK, Provenance, LinksFollow, Handshaken, Solved,
          mainVars
  <2>7. QED
    BY <2>3, <2>4, <2>5, <2>6 DEF Provenance
<1>10. QED
  BY <1>u, <1>1, <1>2, <1>3, <1>4, <1>5, <1>6, <1>7, <1>8, <1>9
  DEF Next, Main, RecLoop

(* Each kind of datagram of client.cpp is explained by one before it.      *)
THEOREM ProvenanceCorrect == Spec => []HandshakeInv
<1>1. Init => HandshakeInv
  BY TypeInit, ProvenanceInit DEF HandshakeInv
<1>2. HandshakeInv /\ [Next]_vars => HandshakeInv'
  BY TypeStep, ProvenanceStep DEF HandshakeInv
<1>3. QED
  BY <1>1, <1>2, PTL DEF Spec

-----------------------------------------------------------------------------
(* The properties *)

(* What a handshake tells of the peers of a link.                          *)
LEMMA HandshakenMeans ==
  ASSUME HandshakeInv, NEW p \in Peers, NEW q \in Peers, Solved(q, p)
  PROVE  p # q /\ Invited(p, q)
<1>1. PICK m \in msgs : m.type = "KEY_SOLVED" /\ m.src = q /\ m.dst = p
  BY DEF Solved
<1>2. p # q /\ Key(p, q, m.key) \in msgs
  BY <1>1 DEF HandshakeInv, Provenance, SolutionsAnswer
<1>3. QED
  BY <1>2 DEF Invited, Key

(* client.cpp never points finAddr at its own address.                     *)
THEOREM NeverSelf == Spec => []NeverSelfConnected
<1>1. HandshakeInv => NeverSelfConnected
  <2> SUFFICES ASSUME HandshakeInv, NEW p \in Peers, finAddr[p] = p
               PROVE  FALSE
    BY DEF NeverSelfConnected
  <2>1. Handshaken(p, p)
    BY NoAddrAssumption DEF HandshakeInv, Provenance, LinksFollow
  <2>2. QED
    BY <2>1, HandshakenMeans DEF Handshaken
<1>2. QED
  BY <1>1, ProvenanceCorrect, PTL

(* finAddr only ever holds the other side of a solved invitation.          *)
THEOREM ByHandshake == Spec => []ConnectedByHandshake
<1>1. HandshakeInv => ConnectedByHandshake
  BY NoAddrAssumption, HandshakenMeans
  DEF ConnectedByHandshake, HandshakeInv, Provenance, LinksFollow, Handshaken
<1>2. QED
  BY <1>1, ProvenanceCorrect, PTL

(* Typed lines only travel between peers of a handshake.                   *)
THEOREM LinesBetweenPeers == Spec => []LinesFollowHandshake
<1>1. HandshakeInv => LinesFollowHandshake
  BY DEF LinesFollowHandshake, HandshakeInv, Provenance, ConfirmationsFollow, Handshaken
<1>2. QED
  BY <1>1, ProvenanceCorrect, PTL

(* recLoop confirms whoever solved a key it was sent by this execution, or *)
(* by an earlier one whose key has the same one-byte answer.               *)
THEOREM Fresh == Spec => []FreshChallenge
<1>1. HandshakeInv => FreshChallenge
  <2> SUFFICES ASSUME HandshakeInv, NEW p \in Peers, recPc[p] = "connected"
               PROVE  \E k \in Keys :
                         /\ Key(p, finAddr[p], k) \in msgs
                         /\ KeySolved(finAddr[p], p, k) \in msgs
                         /\ Solve[k] = Solve[myKey[p]]
                         /\ \/ k = myKey[p] /\ conAddr[p] = finAddr[p]
                            \/ boots[p] > 1
    BY DEF FreshChallenge
  <2>1. PICK m \in msgs : /\ m.type = "KEY_SOLVED"
                          /\ m.src = finAddr[p]
                          /\ m.dst = p
                          /\ m.c = Solve[myKey[p]]
    BY DEF HandshakeInv, Provenance, LinksFollow
  <2>2. /\ Key(p, finAddr[p], m.key) \in msgs
        /\ m.c = Solve[m.key]
    BY <2>1 DEF HandshakeInv, Provenance, SolutionsAnswer
  <2>3. m.key \in Keys /\ KeySolved(finAddr[p], p, m.key) = m
    BY <2>1, <2>2 DEF HandshakeInv, TypeInv, TypeOK, Message, KeySolved
  <2>4. Running(p) /\ boots[p] \in Nat
    BY DEF HandshakeInv, TypeInv, TypeOK, Phases
  <2> DEFINE asked == Key(p, finAddr[p], m.key)
  <2>5. /\ asked.type = "KEY" /\ asked.src = p
        /\ asked.dst = finAddr[p] /\ asked.key = m.key
    BY DEF Key
  <2>6. asked \in msgs
    BY <2>2
  <2> HIDE DEF asked
  <2>7. /\ boots[p] >= 1
        /\ boots[p] = 1 => m.key = myKey[p] /\ conAddr[p] = finAddr[p]
    BY <2>4, <2>5, <2>6 DEF HandshakeInv, Provenance, KeysKnown
  <2>8. boots[p] = 1 \/ boots[p] > 1
    BY <2>4, <2>7
  <2>9. QED
    BY <2>1, <2>2, <2>3, <2>7, <2>8
<1>2. QED
  BY <1>1, ProvenanceCorrect, PTL

LEMMA TwinsUnsolved ==
  ASSUME HandshakeInv, NEW p \in Peers, NEW q \in Peers, Solved(q, p),
         boots[p] = 1, boots[q] = 1
  PROVE  myKey[p] # myKey[q]
<1>1. PICK m \in msgs : m.type = "KEY_SOLVED" /\ m.src = q /\ m.dst = p
  BY DEF Solved
<1>2. Key(p, q, m.key) \in msgs /\ m.key # myKey[q]
  BY <1>1 DEF HandshakeInv, Provenance, SolutionsAnswer
<1>3. m.key = myKey[p]
  <2>1. /\ Key(p, q, m.key).type = "KEY" /\ Key(p, q, m.key).src = p
        /\ Key(p, q, m.key).key = m.key
    BY DEF Key
  <2>2. QED
    BY <1>2, <2>1 DEF HandshakeInv, Provenance, KeysKnown
<1>4. QED
  BY <1>2, <1>3

(* Peers with the same key never connect while neither is restarted.       *)
THEOREM Twins == Spec => []TwinsNeverConnect
<1>1. HandshakeInv => TwinsNeverConnect
  BY NoAddrAssumption, TwinsUnsolved
  DEF TwinsNeverConnect, HandshakeInv, Provenance, LinksFollow, Handshaken
<1>2. QED
  BY <1>1, ProvenanceCorrect, PTL

-----------------------------------------------------------------------------
(* Refinement of PeerLink *)

LEMMA LinkInitMaps == Init => Abstract!LinkInit
  BY DEF Init, Abstract!LinkInit, Invitations

(* A handler that sets finAddr links two peers one of which invited the    *)
(* other.                                                                  *)
LEMMA LinkMaps ==
  ASSUME HandshakeInv, NEW p \in Peers, NEW q \in Peers, Handshaken(p, q),
         finAddr' = [finAddr EXCEPT ![p] = q], UNCHANGED msgs
  PROVE  Abstract!LinkNext
<1>1. p # q /\ (Invited(p, q) \/ Invited(q, p))
  BY HandshakenMeans DEF Handshaken
<1>2. <<p, q>> \in Invitations \/ <<q, p>> \in Invitations
  BY <1>1 DEF Invited, Invitations
<1>3. UNCHANGED Invitations
  BY DEF Invitations
<1>4. Abstract!Link(p, q)
  BY <1>2, <1>3 DEF Abstract!Link
<1>5. QED
  BY <1>4 DEF Abstract!LinkNext

(* Datagrams other than keys leave the invitations as they are.            *)
LEMMA InvitationsRemain ==
  ASSUME NEW new, msgs' = msgs \cup new, \A m \in new : m.type # "KEY"
  PROVE  UNCHANGED Invitations
  BY DEF Invitations

LEMMA LinkStepMaps ==
  HandshakeInv /\ [Next]_vars => [Abstract!LinkNext]_(Abstract!linkVars)
<1> SUFFICES ASSUME HandshakeInv, [Next]_vars
             PROVE  [Abstract!LinkNext]_(Abstract!linkVars)
  OBVIOUS
<1> USE DEF Abstract!linkVars
<1>u. CASE UNCHANGED vars
  BY <1>u DEF vars, Invitations
<1>1. CASE \E p \in Peers, k \in Keys : Boot(p, k)
  BY <1>1 DEF Boot, Invitations
<1>2. CASE \E p, q \in Peers : TypeAddress(p, q)
  BY <1>2 DEF TypeAddress, Invitations
<1>3. CASE \E p \in Peers : SendKey(p)
  <2>1. PICK p \in Peers : SendKey(p)
    BY <1>3
  <2>2. conAddr[p] \in Peers
    BY <2>1 DEF SendKey, HandshakeInv, TypeInv, Phases, Running
  <2>3. UNCHANGED finAddr /\ msgs' = msgs \cup {Key(p, conAddr[p], myKey[p])}
    BY <2>1 DEF SendKey
  <2>4. CASE conAddr[p] = p
    BY <2>3, <2>4 DEF Invitations, Key
  <2>5. CASE conAddr[p] # p
    <3> DEFINE new == Key(p, conAddr[p], myKey[p])
    <3>0. new.type = "KEY" /\ new.src = p /\ new.dst = conAddr[p]
      BY DEF Key
    <3>1. Invitations' = Invitations \cup {<<p, conAddr[p]>>}
      <4>1. msgs' = msgs \cup {new}
        BY <2>3
      <4> HIDE DEF new
      <4>2. <<p, conAddr[p]>> \in Invitations'
        BY <2>5, <3>0, <4>1 DEF Invitations
      <4>3. Invitations \subseteq Invitations'
        BY <4>1 DEF Invitations
      <4>4. Invitations' \subseteq Invitations \cup {<<p, conAddr[p]>>}
        BY <3>0, <4>1 DEF Invitations
      <4>5. QED
        BY <4>2, <4>3, <4>4
    <3>2. Abstract!Invite(p, conAddr[p])
      BY <2>3, <2>5, <3>1 DEF Abstract!Invite
    <3>3. QED
      BY <2>2, <3>2 DEF Abstract!LinkNext
  <2>6. QED
    BY <2>4, <2>5
<1>4. CASE \E p \in Peers : SendText(p)
  <2>1. PICK p \in Peers : SendText(p)
    BY <1>4
  <2>2. \A m \in Lines(p) : m.type # "KEY"
    BY DEF Lines, Text
  <2>3. QED
    BY <2>1, <2>2, InvitationsRemain DEF SendText
<1>5. CASE \E p \in Peers : Kill(p)
  <2>1. PICK p \in Peers : Kill(p)
    BY <1>5
  <2>2. UNCHANGED Invitations
    BY <2>1 DEF Kill, Loopback, Invitations
  <2>3. Abstract!Unlink(p)
    BY <2>1, <2>2 DEF Kill, Abstract!Unlink
  <2>4. QED
    BY <2>3 DEF Abstract!LinkNext
<1>6. CASE \E p \in Peers, m \in msgs : RecKey(p, m)
  <2>1. PICK p \in Peers, m \in msgs : RecKey(p, m)
    BY <1>6
  <2>2. \A s \in Solutions(p, m) : s.type # "KEY"
    BY DEF Solutions, KeySolved
  <2>3. QED
    BY <2>1, <2>2, InvitationsRemain DEF RecKey
<1>7. CASE \E p \in Peers, m \in msgs : RecKeySolved(p, m)
  <2>1. PICK p \in Peers, m \in msgs : RecKeySolved(p, m)
    BY <1>7
  <2>2. m.src \in Peers /\ m.dst = p /\ m.type = "KEY_SOLVED" /\ UNCHANGED msgs
    BY <2>1, MessageFields DEF RecKeySolved, Receives, HandshakeInv, TypeInv, TypeOK
  <2>3. CASE Accepts(p, m)
    <3>1. Handshaken(p, m.src)
      BY <2>2 DEF Handshaken, Solved
    <3>2. QED
      BY <2>1, <2>2, <2>3, <3>1, LinkMaps DEF RecKeySolved
  <2>4. CASE ~Accepts(p, m)
    BY <2>1, <2>2, <2>4 DEF RecKeySolved, Invitations
  <2>5. QED
    BY <2>3, <2>4
<1>8. CASE \E p \in Peers : SendConnected(p)
  <2>1. PICK p \in Peers : SendConnected(p)
    BY <1>8
  <2> DEFINE new == {Connected(p, finAddr[p])}
  <2>2. \A m \in new : m.type # "KEY"
    BY DEF Connected
  <2>3. UNCHANGED finAddr /\ msgs' = msgs \cup new
    BY <2>1 DEF SendConnected
  <2> HIDE DEF new
  <2>4. UNCHANGED Invitations
    BY <2>2, <2>3, InvitationsRemain
  <2>5. QED
    BY <2>3, <2>4
<1>9. CASE \E p \in Peers, m \in msgs : RecConnected(p, m) \/ RecText(p, m)
  <2>1. PICK p \in Peers, m \in msgs : RecConnected(p, m) \/ RecText(p, m)
    BY <1>9
  <2>2. /\ m.src \in Peers /\ m.dst = p /\ m.type \in {"CONNECTED", "MESSAGE"}
        /\ finAddr' = [finAddr EXCEPT ![p] = m.src] /\ UNCHANGED msgs
    BY <2>1, MessageFields
    DEF RecConnected, RecText, Receives, HandshakeInv, TypeInv, TypeOK
  <2>3. Handshaken(p, m.src)
    BY <2>2 DEF HandshakeInv, Provenance, ConfirmationsFollow, Handshaken
  <2>4. QED
    BY <2>2, <2>3, LinkMaps
<1>10. QED
  BY <1>u, <1>1, <1>2, <1>3, <1>4, <1>5, <1>6, <1>7, <1>8, <1>9
  DEF Next, Main, RecLoop

(* Every behaviour of the handshake is one of PeerLink.                    *)
THEOREM Implements == Spec => ImplementsPeerLink
<1>1. Spec => Abstract!LinkSpec
  BY LinkInitMaps, LinkStepMaps, ProvenanceCorrect, PTL
  DEF Spec, Abstract!LinkSpec
<1>2. QED
  BY <1>1 DEF ImplementsPeerLink
=============================================================================
