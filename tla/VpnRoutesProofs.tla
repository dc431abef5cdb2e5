---------------------------- MODULE VpnRoutesProofs ----------------------------
(***************************************************************************)
(* Proofs about VpnRoutes, for any number of executions and of commands    *)
(* that fail.  Positions says how far a function can be; Accounts what the *)
(* part of it that has run did to the kernel.                              *)
(***************************************************************************)
EXTENDS VpnRoutes, TLAPS

Functions == {"cleanup_route_table", "cleanup"}

(* The commands up to the next one include c.                              *)
Ran(commands, c) == \E i \in 1..(next - 1) : commands[i] = c

Own(r) == IF r \in OwnRules THEN 1 ELSE 0
Appended(r) == IF Ran(Setup, <<"append", r>>) THEN 1 ELSE 0
Deleted(r) == IF Ran(Cleanup, <<"delete", r>>) THEN 1 ELSE 0

Positions ==
    /\ pc \in {"off", "udp_bind", "loop"} => next = 1
    /\ pc = "sigaction" => next <= 3
    /\ pc \in Functions => next <= Len(Cleanup) + 1

DuringSetup ==
    /\ \A r \in Rules : rules[r] = before[r] + Appended(r)
    /\ \A x \in Routes : x \in routes <=> Ran(Setup, <<"add", x>>)
    /\ Ran(Setup, <<"up", "tun0">>) => tun = "up"
    /\ Ran(Setup, <<"sysctl", "ip_forward">>) => forward

Serving ==
    /\ tun = "up" /\ forward
    /\ routes = OwnRoutes
    /\ \A r \in Rules : rules[r] = before[r] + Own(r)

(* The fourth command of a client deletes a route that is gone.            *)
AfterLoop ==
    /\ forward /\ routes = {}
    /\ asClient => next <= 4
    /\ \A r \in Rules : rules[r] = before[r] + Own(r) - Deleted(r)

(* main() may have deleted a rule that the handler has yet to come to.     *)
InHandler ==
    /\ forward /\ caught
    /\ \A r \in Rules :
          \/ rules[r] = before[r] + Own(r) - Deleted(r)
          \/ r \in OwnRules /\ rules[r] = before[r] + Own(r) - Deleted(r) - 1

Accounts ==
    /\ pc = "off" => DriftIsBounded /\ SuccessIsClean
    /\ pc # "off" => status = "none"
    /\ pc \in {"off", "setup"} => handled = {}
    /\ pc = "setup" => DuringSetup
    /\ pc \in {"sigaction", "udp_bind", "loop"} => Serving
    /\ pc = "cleanup_route_table" => AfterLoop
    /\ pc = "cleanup" => InHandler

-----------------------------------------------------------------------------
(* What the functions consist of *)

LEMMA RuleNames ==
  ASSUME asClient \in BOOLEAN
  PROVE  \E r1, r2, r3 :
            /\ OwnRules = {r1, r2, r3} /\ r1 # r2 /\ r1 # r3 /\ r2 # r3
            /\ ForRules("append") = << <<"append", r1>>, <<"append", r2>>, <<"append", r3>> >>
            /\ ForRules("delete") = << <<"delete", r1>>, <<"delete", r2>>, <<"delete", r3>> >>
<1>1. CASE asClient
  BY <1>1 DEF OwnRules, ClientRules, ForRules
<1>2. CASE ~asClient
  BY <1>2 DEF OwnRules, ServerRules, ForRules
<1>3. QED
  BY <1>1, <1>2

(* A function runs each of these commands once and no others.              *)
ConsistsOf(commands, known) ==
    /\ \A i \in 1..Len(commands) : commands[i] \in known
    /\ \A i, j \in 1..Len(commands) : commands[i] = commands[j] => i = j
    /\ \A c \in known : \E i \in 1..Len(commands) : commands[i] = c

LEMMA SetupShape ==
  ASSUME asClient \in BOOLEAN, program \in {"vpnServer", "vpnClient", "vpnDev"}
  PROVE  /\ Len(Setup) \in 5..8
         /\ asClient => Len(Setup) >= 7
         /\ ConsistsOf(Setup, { <<"up", "tun0">>, <<"sysctl", "ip_forward">> }
                              \cup { <<"append", r>> : r \in OwnRules }
                              \cup { <<"add", x>> : x \in OwnRoutes }
                              \cup (IF asClient /\ program = "vpnDev"
                                    THEN { <<"add host", "SERVER_HOST">> } ELSE {}))
<1> DEFINE up == <<"up", "tun0">>
           fw == <<"sysctl", "ip_forward">>
           p == IF program = "vpnClient" THEN fw ELSE up
           q == IF program = "vpnClient" THEN up ELSE fw
           ho == <<"add host", "SERVER_HOST">>
           lo == <<"add", "0/1">>
           hi == <<"add", "128/1">>
<1>1. PICK r1, r2, r3 :
            /\ OwnRules = {r1, r2, r3} /\ r1 # r2 /\ r1 # r3 /\ r2 # r3
            /\ ForRules("append") = << <<"append", r1>>, <<"append", r2>>, <<"append", r3>> >>
  BY RuleNames
<1> DEFINE c1 == <<"append", r1>>
           c2 == <<"append", r2>>
           c3 == <<"append", r3>>
<1>2. {p, q} = {up, fw}
  OBVIOUS
<1>3. /\ p \notin {q, c1, c2, c3, ho, lo, hi}
      /\ q \notin {c1, c2, c3, ho, lo, hi}
      /\ c1 \notin {c2, c3, ho, lo, hi}
      /\ c2 \notin {c3, ho, lo, hi}
      /\ c3 \notin {ho, lo, hi}
      /\ ho \notin {lo, hi}
      /\ lo # hi
  BY <1>1
<1>4. { <<"append", r>> : r \in OwnRules } = {c1, c2, c3}
  BY <1>1
<1>5. { <<"add", x>> : x \in OwnRoutes } = IF asClient THEN {lo, hi} ELSE {}
  BY DEF OwnRoutes, Routes
<1>6. CASE ~asClient
  <2>1. \/ Setup = <<p, q>> \o <<c1, c2, c3>> \o <<>>
        \/ Setup = <<p, q>> \o <<c1, c2, c3>> \o <<>> \o <<>>
    BY <1>1, <1>6 DEF Setup, ServerSetup, ClientSetup, DevSetup, ForHost, ForRoutes
  <2> HIDE DEF up, fw, c1, c2, c3, ho, lo, hi, p, q
  <2>2. /\ Len(Setup) = 5 /\ Setup[1] = p /\ Setup[2] = q
        /\ Setup[3] = c1 /\ Setup[4] = c2 /\ Setup[5] = c3
    BY <2>1
  <2>3. ConsistsOf(Setup, {up, fw, c1, c2, c3})
    BY <1>2, <1>3, <2>2 DEF ConsistsOf
  <2>4. QED
    BY <1>4, <1>5, <1>6, <2>2, <2>3 DEF up, fw
<1>7. CASE asClient /\ program # "vpnDev"
  <2>1. Setup = <<p, q>> \o <<c1, c2, c3>> \o <<lo, hi>>
    BY <1>1, <1>7 DEF Setup, ServerSetup, ClientSetup, ForRoutes
  <2> HIDE DEF up, fw, c1, c2, c3, ho, lo, hi, p, q
  <2>2. /\ Len(Setup) = 7 /\ Setup[1] = p /\ Setup[2] = q
        /\ Setup[3] = c1 /\ Setup[4] = c2 /\ Setup[5] = c3
        /\ Setup[6] = lo /\ Setup[7] = hi
    BY <2>1
  <2>3. ConsistsOf(Setup, {up, fw, c1, c2, c3, lo, hi})
    <3>1. \A i \in 1..Len(Setup) : i \in {1, 2, 3, 4, 5, 6, 7}
      BY <2>2
    <3>2. \A i \in 1..Len(Setup) : Setup[i] \in {up, fw, c1, c2, c3, lo, hi}
      BY <1>2, <2>2, <3>1
    <3>3. \A i, j \in 1..Len(Setup) : Setup[i] = Setup[j] => i = j
      BY <1>3, <2>2, <3>1
    <3>4. \A c \in {up, fw, c1, c2, c3, lo, hi} : \E i \in 1..Len(Setup) : Setup[i] = c
      BY <1>2, <2>2
    <3>5. QED
      BY <3>2, <3>3, <3>4 DEF ConsistsOf
  <2>4. QED
    BY <1>4, <1>5, <1>7, <2>2, <2>3 DEF up, fw
<1>8. CASE asClient /\ program = "vpnDev"
  <2>1. Setup = <<p, q>> \o <<c1, c2, c3>> \o <<ho>> \o <<lo, hi>>
    BY <1>1, <1>8 DEF Setup, DevSetup, ForHost, ForRoutes
  <2> HIDE DEF up, fw, c1, c2, c3, ho, lo, hi, p, q
  <2>2. /\ Len(Setup) = 8 /\ Setup[1] = p /\ Setup[2] = q
        /\ Setup[3] = c1 /\ Setup[4] = c2 /\ Setup[5] = c3
        /\ Setup[6] = ho /\ Setup[7] = lo /\ Setup[8] = hi
    BY <2>1
  <2>3. ConsistsOf(Setup, {up, fw, c1, c2, c3, ho, lo, hi})
    <3>1. \A i \in 1..Len(Setup) : i \in {1, 2, 3, 4, 5, 6, 7, 8}
      BY <2>2
    <3>2. \A i \in 1..Len(Setup) : Setup[i] \in {up, fw, c1, c2, c3, ho, lo, hi}
      BY <1>2, <2>2, <3>1
    <3>3. \A i, j \in 1..Len(Setup) : Setup[i] = Setup[j] => i = j
      BY <1>3, <2>2, <3>1
    <3>4. \A c \in {up, fw, c1, c2, c3, ho, lo, hi} : \E i \in 1..Len(Setup) : Setup[i] = c
      BY <1>2, <2>2
    <3>5. QED
      BY <3>2, <3>3, <3>4 DEF ConsistsOf
  <2>4. (IF asClient /\ program = "vpnDev" THEN {ho} ELSE {}) = {ho}
    BY <1>8
  <2>5. {up, fw} \cup {c1, c2, c3} \cup {lo, hi} \cup {ho} = {up, fw, c1, c2, c3, ho, lo, hi}
    OBVIOUS
  <2>6. { <<"add", x>> : x \in OwnRoutes } = {lo, hi}
    BY <1>5, <1>8
  <2>7. ConsistsOf(Setup, {up, fw} \cup { <<"append", r>> : r \in OwnRules }
                                 \cup { <<"add", x>> : x \in OwnRoutes }
                                 \cup (IF asClient /\ program = "vpnDev" THEN {ho} ELSE {}))
    BY <1>4, <2>3, <2>4, <2>5, <2>6
  <2>8. Len(Setup) \in 5..8 /\ Len(Setup) >= 7
    BY <2>2
  <2>9. QED
    BY <2>7, <2>8, Zenon DEF up, fw, ho
<1>9. QED
  BY <1>6, <1>7, <1>8

LEMMA CleanupShape ==
  ASSUME asClient \in BOOLEAN, program \in {"vpnServer", "vpnClient", "vpnDev"}
  PROVE  /\ Len(Cleanup) \in 3..6
         /\ ~asClient => Len(Cleanup) = 3
         /\ \A i \in 1..Len(Cleanup) :
               \/ Cleanup[i] = <<"del host", "SERVER_HOST">>
               \/ \E r \in OwnRules : Cleanup[i] = <<"delete", r>>
               \/ \E x \in OwnRoutes : Cleanup[i] = <<"del", x>>
         /\ \A i, j \in 1..Len(Cleanup) :
               \A r \in OwnRules :
                  Cleanup[i] = <<"delete", r>> /\ Cleanup[j] = <<"delete", r>> => i = j
         /\ \A r \in OwnRules : \E i \in 1..Len(Cleanup) : Cleanup[i] = <<"delete", r>>
         /\ asClient =>
               Len(Cleanup) >= 4 /\ \A r \in OwnRules : Cleanup[4] # <<"delete", r>>
<1> DEFINE ho == <<"del host", "SERVER_HOST">>
           lo == <<"del", "0/1">>
           hi == <<"del", "128/1">>
<1>1. PICK r1, r2, r3 :
            /\ OwnRules = {r1, r2, r3} /\ r1 # r2 /\ r1 # r3 /\ r2 # r3
            /\ ForRules("delete") = << <<"delete", r1>>, <<"delete", r2>>, <<"delete", r3>> >>
  BY RuleNames
<1> DEFINE c1 == <<"delete", r1>>
           c2 == <<"delete", r2>>
           c3 == <<"delete", r3>>
<1>2. c1 # c2 /\ c1 # c3 /\ c2 # c3
  BY <1>1
<1>3. /\ \A r : ho # <<"delete", r>> /\ lo # <<"delete", r>> /\ hi # <<"delete", r>>
      /\ \A r : c1 = <<"delete", r>> <=> r = r1
      /\ \A r : c2 = <<"delete", r>> <=> r = r2
      /\ \A r : c3 = <<"delete", r>> <=> r = r3
  OBVIOUS
<1>4. asClient => OwnRoutes = {"0/1", "128/1"}
  BY DEF OwnRoutes, Routes
<1>5. /\ Len(Cleanup) \in 3..6
      /\ ~asClient => Len(Cleanup) = 3
      /\ asClient => Len(Cleanup) >= 4
      /\ Cleanup[1] = c1 /\ Cleanup[2] = c2 /\ Cleanup[3] = c3
      /\ \A i \in 4..Len(Cleanup) : asClient /\ Cleanup[i] \in {ho, lo, hi}
  <2>1. CASE ~asClient
    <3>1. \/ Cleanup = <<c1, c2, c3>> \o <<>>
          \/ Cleanup = <<c1, c2, c3>> \o <<>> \o <<>>
      BY <1>1, <2>1 DEF Cleanup, PlainCleanup, DevCleanup, ForHost, ForRoutes
    <3> HIDE DEF c1, c2, c3, ho, lo, hi
    <3>2. Len(Cleanup) = 3 /\ Cleanup[1] = c1 /\ Cleanup[2] = c2 /\ Cleanup[3] = c3
      BY <3>1
    <3>3. QED
      BY <2>1, <3>2
  <2>2. CASE asClient /\ program # "vpnDev"
    <3>1. Cleanup = <<c1, c2, c3>> \o <<lo, hi>>
      BY <1>1, <2>2 DEF Cleanup, PlainCleanup, ForRoutes
    <3> HIDE DEF c1, c2, c3, ho, lo, hi
    <3>2. /\ Len(Cleanup) = 5 /\ Cleanup[1] = c1 /\ Cleanup[2] = c2 /\ Cleanup[3] = c3
          /\ Cleanup[4] = lo /\ Cleanup[5] = hi
      BY <3>1
    <3>3. \A i \in 4..5 : i \in {4, 5}
      OBVIOUS
    <3>4. QED
      BY <2>2, <3>2, <3>3
  <2>3. CASE asClient /\ program = "vpnDev"
    <3>1. Cleanup = <<c1, c2, c3>> \o <<ho>> \o <<lo, hi>>
      BY <1>1, <2>3 DEF Cleanup, DevCleanup, ForHost, ForRoutes
    <3> HIDE DEF c1, c2, c3, ho, lo, hi
    <3>2. /\ Len(Cleanup) = 6 /\ Cleanup[1] = c1 /\ Cleanup[2] = c2 /\ Cleanup[3] = c3
          /\ Cleanup[4] = ho /\ Cleanup[5] = lo /\ Cleanup[6] = hi
      BY <3>1
    <3>3. \A i \in 4..6 : i \in {4, 5, 6}
      OBVIOUS
    <3>4. QED
      BY <2>3, <3>2, <3>3
  <2>4. QED
    BY <2>1, <2>2, <2>3
<1> HIDE DEF c1, c2, c3, ho, lo, hi
<1>6. \A i \in 1..Len(Cleanup) : \/ i = 1 \/ i = 2 \/ i = 3 \/ i \in 4..Len(Cleanup)
  BY <1>5
<1>7. \A i \in 1..Len(Cleanup) :
               \/ Cleanup[i] = <<"del host", "SERVER_HOST">>
               \/ \E r \in OwnRules : Cleanup[i] = <<"delete", r>>
               \/ \E x \in OwnRoutes : Cleanup[i] = <<"del", x>>
  BY <1>1, <1>4, <1>5, <1>6 DEF c1, c2, c3, ho, lo, hi
<1>8. \A i, j \in 1..Len(Cleanup) : \A r \in OwnRules :
         Cleanup[i] = <<"delete", r>> /\ Cleanup[j] = <<"delete", r>> => i = j
  <2> SUFFICES ASSUME NEW r \in OwnRules
               PROVE  \E k \in 1..3 : \A i \in 1..Len(Cleanup) :
                         Cleanup[i] = <<"delete", r>> => i = k
    OBVIOUS
  <2>1. CASE r = r1
    BY <1>1, <1>3, <1>5, <1>6, <2>1
  <2>2. CASE r = r2
    BY <1>1, <1>3, <1>5, <1>6, <2>2
  <2>3. CASE r = r3
    BY <1>1, <1>3, <1>5, <1>6, <2>3
  <2>4. QED
    BY <1>1, <2>1, <2>2, <2>3
<1>9. \A r \in OwnRules : \E i \in 1..Len(Cleanup) : Cleanup[i] = <<"delete", r>>
  <2>1. 1 \in 1..Len(Cleanup) /\ 2 \in 1..Len(Cleanup) /\ 3 \in 1..Len(Cleanup)
    BY <1>5
  <2>2. QED
    BY <1>1, <1>5, <2>1 DEF c1, c2, c3
<1>10. asClient => Len(Cleanup) >= 4 /\ \A r \in OwnRules : Cleanup[4] # <<"delete", r>>
  <2>1. asClient => 4 \in 4..Len(Cleanup)
    BY <1>5
  <2>2. QED
    BY <1>3, <1>5, <2>1
<1>11. QED
  BY <1>5, <1>7, <1>8, <1>9, <1>10

-----------------------------------------------------------------------------
(* Type correctness *)

Known(c) ==
    \/ c \in {<<"up", "tun0">>, <<"sysctl", "ip_forward">>,
              <<"add host", "SERVER_HOST">>, <<"del host", "SERVER_HOST">>}
    \/ \E r \in Rules : c = <<"append", r>> \/ c = <<"delete", r>>
    \/ \E x \in Routes : c = <<"add", x>> \/ c = <<"del", x>>

LEMMA OwnTypes == OwnRules \subseteq Rules /\ OwnRoutes \subseteq Routes
  BY DEF OwnRules, OwnRoutes, Rules, Routes

LEMMA ProgramTypes ==
  ASSUME TypeOK
  PROVE  asClient \in BOOLEAN /\ program \in {"vpnServer", "vpnClient", "vpnDev"}
  BY ProgramsAssumption DEF TypeOK

LEMMA Lengths ==
  ASSUME TypeOK
  PROVE  /\ Len(Setup) \in Nat /\ Len(Cleanup) \in Nat
         /\ Len(Setup) >= 5 /\ Len(Cleanup) <= Len(Setup)
<1>1. Len(Setup) \in 5..8 /\ (asClient => Len(Setup) >= 7)
  BY ProgramTypes, SetupShape
<1>2. Len(Cleanup) \in 3..6 /\ (~asClient => Len(Cleanup) = 3)
  BY ProgramTypes, CleanupShape
<1>3. CASE asClient
  BY <1>1, <1>2, <1>3
<1>4. CASE ~asClient
  <2>1. Len(Cleanup) = 3
    BY <1>2, <1>4, Zenon
  <2>2. Len(Setup) \in 5..8
    BY <1>1, Zenon
  <2>3. \A m, n : m = 3 /\ n \in 5..8 => m \in Nat /\ n \in Nat /\ n >= 5 /\ m <= n
    OBVIOUS
  <2>4. QED
    BY <2>1, <2>2, <2>3, Zenon
<1>5. QED
  BY <1>3, <1>4

LEMMA SetupKnown ==
  ASSUME TypeOK
  PROVE  \A i \in 1..Len(Setup) : Known(Setup[i])
<1>1. SUFFICES ASSUME NEW i \in 1..Len(Setup)
               PROVE  Known(Setup[i])
  OBVIOUS
<1>2. \/ Setup[i] \in {<<"up", "tun0">>, <<"sysctl", "ip_forward">>, <<"add host", "SERVER_HOST">>}
      \/ \E r \in OwnRules : Setup[i] = <<"append", r>>
      \/ \E x \in OwnRoutes : Setup[i] = <<"add", x>>
  BY ProgramTypes, SetupShape, Zenon DEF ConsistsOf
<1>3. QED
  BY <1>2, OwnTypes DEF Known

LEMMA CleanupKnown ==
  ASSUME TypeOK
  PROVE  \A i \in 1..Len(Cleanup) : Known(Cleanup[i])
  BY ProgramTypes, CleanupShape, OwnTypes DEF Known

(* A function runs in one program, compiled in one way.                    *)
LEMMA SameFunctions ==
  ASSUME UNCHANGED binaryVars
  PROVE  Setup' = Setup /\ Cleanup' = Cleanup /\ OwnRules' = OwnRules /\ OwnRoutes' = OwnRoutes
  BY DEF binaryVars, Setup, ServerSetup, ClientSetup, DevSetup, Cleanup, PlainCleanup, DevCleanup,
         ForRules, ForRoutes, ForHost, OwnRules, OwnRoutes

(* What each command changes *)
LEMMA UpEffect ==
  ASSUME TypeOK, Execute(<<"up", "tun0">>)
  PROVE  tun' = "up" /\ UNCHANGED <<rules, routes, forward>>
  BY DEF Execute, Possible, TypeOK

LEMMA SysctlEffect ==
  ASSUME TypeOK, Execute(<<"sysctl", "ip_forward">>)
  PROVE  forward' /\ forward' \in BOOLEAN /\ UNCHANGED <<rules, routes, tun>>
  BY DEF Execute, Possible, TypeOK

LEMMA AppendEffect ==
  ASSUME TypeOK, NEW r \in Rules, Execute(<<"append", r>>)
  PROVE  rules' = [rules EXCEPT ![r] = @ + 1] /\ UNCHANGED <<routes, forward, tun>>
  BY DEF Execute, Possible, TypeOK

LEMMA DeleteEffect ==
  ASSUME TypeOK, NEW r \in Rules, Execute(<<"delete", r>>)
  PROVE  /\ rules[r] > 0
         /\ rules' = [rules EXCEPT ![r] = @ - 1] /\ UNCHANGED <<routes, forward, tun>>
  BY DEF Execute, Possible, TypeOK

LEMMA AddEffect ==
  ASSUME TypeOK, NEW x \in Routes, Execute(<<"add", x>>)
  PROVE  tun = "up" /\ routes' = routes \cup {x} /\ UNCHANGED <<rules, forward, tun>>
  BY DEF Execute, Possible, TypeOK

LEMMA DelEffect ==
  ASSUME TypeOK, NEW x \in Routes, Execute(<<"del", x>>)
  PROVE  x \in routes /\ routes' = routes \ {x} /\ UNCHANGED <<rules, forward, tun>>
  BY DEF Execute, Possible, TypeOK

LEMMA HostImpossible ==
  ~Execute(<<"add host", "SERVER_HOST">>) /\ ~Execute(<<"del host", "SERVER_HOST">>)
  BY DEF Execute, Possible

LEMMA ExecuteTypes ==
  ASSUME TypeOK, NEW c, Known(c), Execute(c)
  PROVE  /\ tun' \in {"none", "down", "up"} /\ rules' \in [Rules -> Nat]
         /\ routes' \subseteq Routes /\ forward' \in BOOLEAN
         /\ tun' = "none" => routes' = {}
<1>1. CASE c = <<"up", "tun0">>
  BY <1>1, UpEffect DEF TypeOK
<1>2. CASE c = <<"sysctl", "ip_forward">>
  BY <1>2, SysctlEffect DEF TypeOK
<1>3. ASSUME NEW r \in Rules, c = <<"append", r>>
      PROVE  UNCHANGED <<tun, routes, forward>> /\ rules' \in [Rules -> Nat]
  <2>1. rules' = [rules EXCEPT ![r] = @ + 1] /\ UNCHANGED <<routes, forward, tun>>
    BY <1>3, AppendEffect
  <2>2. QED
    BY <2>1 DEF TypeOK
<1>4. ASSUME NEW r \in Rules, c = <<"delete", r>>
      PROVE  UNCHANGED <<tun, routes, forward>> /\ rules' \in [Rules -> Nat]
  <2>1. /\ rules[r] > 0
        /\ rules' = [rules EXCEPT ![r] = @ - 1] /\ UNCHANGED <<routes, forward, tun>>
    BY <1>4, DeleteEffect
  <2>2. QED
    BY <2>1 DEF TypeOK
<1>5. ASSUME NEW x \in Routes, c = <<"add", x>>
      PROVE  UNCHANGED <<tun, rules, forward>> /\ tun = "up" /\ routes' \subseteq Routes
  BY <1>5, AddEffect DEF TypeOK
<1>6. ASSUME NEW x \in Routes, c = <<"del", x>>
      PROVE  UNCHANGED <<tun, rules, forward>> /\ routes' \subseteq routes
  BY <1>6, DelEffect DEF TypeOK
<1>7. c \notin {<<"add host", "SERVER_HOST">>, <<"del host", "SERVER_HOST">>}
  BY HostImpossible
<1>8. QED
  BY <1>1, <1>2, <1>3, <1>4, <1>5, <1>6, <1>7 DEF Known, TypeOK

TypeInv == TypeOK /\ Positions

LEMMA ExitTypes ==
  ASSUME TypeInv, NEW how \in {"success", "failure", "signalled", "killed"}, Exit(how),
         failures' \in 0..MaxFailures, caught' \in BOOLEAN
  PROVE  TypeInv'
<1>1. TypeOK /\ Len(Setup) >= 5 /\ Len(Setup) \in Nat /\ Setup' = Setup
  BY Lengths, SameFunctions DEF TypeInv, Exit
<1>2. TypeOK'
  BY <1>1 DEF TypeOK, Exit, CloseTun, binaryVars
<1>3. Positions'
  BY DEF Positions, Functions, Exit
<1>4. QED
  BY <1>2, <1>3 DEF TypeInv

LEMMA RunTypes ==
  ASSUME TypeInv, NEW commands, Run(commands),
         \/ pc = "setup" /\ commands = Setup
         \/ pc \in Functions /\ commands = Cleanup
  PROVE  TypeInv'
<1>1. TypeOK
  BY DEF TypeInv
<1>2. CASE Execute(commands[next]) /\ next' = next + 1
           /\ UNCHANGED <<binaryVars, pc, handled, status, starts, failures, before, caught>>
  <2>1. next \in 1..Len(commands)
    BY <1>1, Lengths DEF Run, TypeOK
  <2>2. Known(commands[next])
    BY <1>1, <2>1, SetupKnown, CleanupKnown
  <2>3. /\ tun' \in {"none", "down", "up"} /\ rules' \in [Rules -> Nat]
        /\ routes' \subseteq Routes /\ forward' \in BOOLEAN
        /\ tun' = "none" => routes' = {}
    BY <1>1, <1>2, <2>2, ExecuteTypes
  <2>4. /\ next' \in 1..Len(Setup) + 1
        /\ pc \in Functions => next' <= Len(Cleanup) + 1
    BY <1>1, <1>2, <2>1, Lengths DEF Functions
  <2>5. Setup' = Setup /\ Cleanup' = Cleanup
    BY <1>2, SameFunctions
  <2>6. pc # "off" /\ pc' = pc
    BY <1>2 DEF Functions
  <2>7. TypeOK'
    BY <1>1, <1>2, <2>3, <2>4, <2>5, <2>6 DEF TypeOK, binaryVars
  <2>8. Positions'
    BY <1>2, <2>4, <2>5 DEF Positions, Functions
  <2>9. QED
    BY <2>7, <2>8 DEF TypeInv
<1>3. CASE Exit("failure") /\ failures' \in 0..MaxFailures /\ UNCHANGED caught
  BY <1>1, <1>3, ExitTypes DEF TypeOK
<1>4. QED
  BY <1>1, <1>2, <1>3, BoundsAssumption DEF Run, TypeOK

SetupIsFinite ==
    asClient \in BOOLEAN /\ program \in {"vpnServer", "vpnClient", "vpnDev"} => Len(Setup) \in Nat

LEMMA SetupHasLength == SetupIsFinite
<1>1. SUFFICES ASSUME asClient \in BOOLEAN, program \in {"vpnServer", "vpnClient", "vpnDev"}
               PROVE  Len(Setup) \in Nat
  BY Zenon DEF SetupIsFinite
<1>2. Len(Setup) \in 5..8
  BY <1>1, SetupShape, Zenon
<1>3. QED
  BY <1>2

LEMMA NextSetupHasLength == SetupIsFinite'
  BY SetupHasLength, PTL

LEMMA StartTypes ==
  ASSUME TypeInv, NEW p \in Programs, NEW client \in BOOLEAN, Start(p, client)
  PROVE  TypeInv'
<1>1. program' = p /\ asClient' = client
  BY DEF Start
<1>2. asClient' \in BOOLEAN /\ program' \in {"vpnServer", "vpnClient", "vpnDev"}
  BY <1>1, ProgramsAssumption
<1>3. SetupIsFinite'
  BY NextSetupHasLength
<1>4. Len(Setup)' \in Nat
  BY <1>2, <1>3 DEF SetupIsFinite
<1>5. next' \in 1..Len(Setup)' + 1
  BY <1>4 DEF Start
<1>6. asClient' \in BOOLEAN /\ forward' \in BOOLEAN /\ caught' \in BOOLEAN
  BY <1>1, Zenon DEF TypeInv, TypeOK, Start
<1>7. starts' \in 0..MaxStarts
  BY BoundsAssumption DEF TypeInv, TypeOK, Start
<1>8. TypeOK'
  BY <1>1, <1>5, <1>6, <1>7 DEF TypeInv, TypeOK, Start
<1>9. Positions'
  BY DEF Positions, Functions, Start
<1>10. QED
  BY <1>8, <1>9 DEF TypeInv

LEMMA GoToTypes ==
  ASSUME TypeInv, NEW f \in {"sigaction", "loop", "cleanup_route_table", "cleanup"}, GoTo(f),
         caught' \in BOOLEAN, UNCHANGED <<tun, routes>> \/ CloseTun
  PROVE  TypeInv'
<1>1. /\ TypeOK /\ Setup' = Setup /\ Cleanup' = Cleanup
      /\ Len(Setup) \in Nat /\ Len(Cleanup) \in Nat /\ Len(Setup) >= 5
  BY Lengths, SameFunctions DEF TypeInv, GoTo
<1>2. /\ tun' \in {"none", "down", "up"} /\ routes' \subseteq Routes
      /\ tun' = "none" => routes' = {}
  BY <1>1 DEF TypeOK, CloseTun
<1>3. next' \in 1..Len(Setup)' + 1
  BY <1>1 DEF GoTo
<1>4. TypeOK'
  BY <1>1, <1>2, <1>3 DEF TypeOK, GoTo, binaryVars
<1>5. Positions'
  BY <1>1 DEF Positions, Functions, GoTo
<1>6. QED
  BY <1>4, <1>5 DEF TypeInv

LEMMA SigactionTypes ==
  ASSUME TypeInv, CleanupWhenSigExit
  PROVE  TypeInv'
<1>1. /\ TypeOK /\ Setup' = Setup /\ Cleanup' = Cleanup
      /\ Len(Setup) \in Nat /\ Len(Cleanup) \in Nat /\ Len(Setup) >= 5
  BY Lengths, SameFunctions DEF TypeInv, CleanupWhenSigExit
<1>2. next \in {1, 2, 3}
  BY <1>1 DEF TypeInv, TypeOK, Positions, CleanupWhenSigExit
<1>3. <<"HUP", "INT", "TERM">>[next] \in Signals
  BY <1>2 DEF Signals
<1>4. /\ next' \in 1..3
      /\ pc' \in {"sigaction", "udp_bind"} /\ (pc' = "udp_bind" => next' = 1)
  BY <1>2 DEF CleanupWhenSigExit
<1>5. handled' \subseteq Signals
  BY <1>1, <1>3 DEF TypeOK, CleanupWhenSigExit
<1>6. next' \in 1..Len(Setup) + 1
  BY <1>1, <1>4
<1>7. TypeOK'
  BY <1>1, <1>4, <1>5, <1>6 DEF TypeOK, CleanupWhenSigExit, binaryVars, kernelVars
<1>8. Positions'
  BY <1>4 DEF Positions, Functions
<1>9. QED
  BY <1>7, <1>8 DEF TypeInv

LEMMA TypeInvCorrect == Spec => []TypeInv
<1>1. Init => TypeInv
  <2> SUFFICES ASSUME Init
               PROVE  TypeInv
    OBVIOUS
  <2>1. asClient \in BOOLEAN /\ program \in {"vpnServer", "vpnClient", "vpnDev"}
    BY ProgramsAssumption DEF Init
  <2>2. Len(Setup) \in Nat
    BY <2>1, SetupHasLength DEF SetupIsFinite
  <2>3. rules \in [Rules -> Nat] /\ before \in [Rules -> Nat]
    BY DEF Init
  <2>4. next \in 1..Len(Setup) + 1
    BY <2>2 DEF Init
  <2>5. TypeOK
    <3>1. starts \in 0..MaxStarts /\ failures \in 0..MaxFailures
      BY BoundsAssumption DEF Init
    <3>2. forward \in BOOLEAN /\ caught \in BOOLEAN
      BY Zenon DEF Init
    <3>3. QED
      BY <2>1, <2>3, <2>4, <3>1, <3>2 DEF TypeOK, Init
  <2>6. Positions
    BY DEF Positions, Functions, Init
  <2>7. QED
    BY <2>5, <2>6 DEF TypeInv
<1>2. TypeInv /\ [Next]_vars => TypeInv'
  <2> SUFFICES ASSUME TypeInv, [Next]_vars
               PROVE  TypeInv'
    OBVIOUS
  <2>1. ASSUME NEW p \in Programs, NEW client \in BOOLEAN, Start(p, client)
        PROVE  TypeInv'
    BY <2>1, StartTypes
  <2>2. CASE SetupRouteTable
    BY <2>2, RunTypes, GoToTypes DEF SetupRouteTable, TypeInv, TypeOK
  <2>3. CASE CleanupWhenSigExit
    BY <2>3, SigactionTypes
  <2>4. CASE UdpBind
    BY <2>4, GoToTypes, ExitTypes DEF UdpBind, TypeInv, TypeOK
  <2>5. CASE CleanupRouteTable
    BY <2>5, RunTypes, ExitTypes DEF CleanupRouteTable, Functions, TypeInv, TypeOK
  <2>6. CASE LoopBreaks
    BY <2>6, GoToTypes DEF LoopBreaks, TypeInv, TypeOK
  <2>7. ASSUME NEW s \in Signals, Signal(s)
        PROVE  TypeInv'
    BY <2>7, GoToTypes, ExitTypes DEF Signal, TypeInv, TypeOK
  <2>8. CASE Kill
    BY <2>8, ExitTypes DEF Kill, TypeInv, TypeOK
  <2>9. CASE UNCHANGED vars
    <3>1. UNCHANGED <<program, asClient, pc, next, handled, status, caught, tun, rules, routes,
                      forward, starts, failures, before>>
      BY <2>9 DEF vars, binaryVars, processVars, kernelVars
    <3>2. Setup' = Setup /\ Cleanup' = Cleanup
      BY <3>1, SameFunctions DEF binaryVars
    <3>3. QED
      BY <3>1, <3>2 DEF TypeInv, TypeOK, Positions
  <2>10. QED
    BY <2>1, <2>2, <2>3, <2>4, <2>5, <2>6, <2>7, <2>8, <2>9 DEF Next, Step
<1>3. QED
  BY <1>1, <1>2, PTL DEF Spec

(* Every variable keeps its type, for any number of executions and of      *)
(* failing commands (TypeOK of the run VpnRoutes).                         *)
THEOREM TypeCorrect == Spec => []TypeOK
<1>1. TypeInv => TypeOK
  BY DEF TypeInv
<1>2. QED
  BY <1>1, TypeInvCorrect, PTL

-----------------------------------------------------------------------------
(* What the functions have done so far *)

LEMMA SetupFacts ==
  ASSUME TypeOK
  PROVE  /\ \A i \in 1..Len(Setup) : \A r : Setup[i] = <<"append", r>> => r \in OwnRules
         /\ \A i \in 1..Len(Setup) : \A x : Setup[i] = <<"add", x>> => x \in OwnRoutes
         /\ \A i, j \in 1..Len(Setup) : Setup[i] = Setup[j] => i = j
         /\ \A i \in 1..Len(Setup) :
               \/ Setup[i] \in {<<"up", "tun0">>, <<"sysctl", "ip_forward">>, <<"add host", "SERVER_HOST">>}
               \/ \E r \in OwnRules : Setup[i] = <<"append", r>>
               \/ \E x \in OwnRoutes : Setup[i] = <<"add", x>>
         /\ \E i \in 1..Len(Setup) : Setup[i] = <<"up", "tun0">>
         /\ \E i \in 1..Len(Setup) : Setup[i] = <<"sysctl", "ip_forward">>
         /\ \A r \in OwnRules : \E i \in 1..Len(Setup) : Setup[i] = <<"append", r>>
         /\ \A x \in OwnRoutes : \E i \in 1..Len(Setup) : Setup[i] = <<"add", x>>
<1> DEFINE known == { <<"up", "tun0">>, <<"sysctl", "ip_forward">> }
                      \cup { <<"append", r>> : r \in OwnRules }
                      \cup { <<"add", x>> : x \in OwnRoutes }
                      \cup (IF asClient /\ program = "vpnDev"
                            THEN { <<"add host", "SERVER_HOST">> } ELSE {})
<1>1. ConsistsOf(Setup, known)
  BY ProgramTypes, SetupShape, Zenon
<1>2. /\ \A r : <<"append", r>> \in known => r \in OwnRules
      /\ \A x : <<"add", x>> \in known => x \in OwnRoutes
  OBVIOUS
<1>3. /\ <<"up", "tun0">> \in known /\ <<"sysctl", "ip_forward">> \in known
      /\ \A r \in OwnRules : <<"append", r>> \in known
      /\ \A x \in OwnRoutes : <<"add", x>> \in known
  OBVIOUS
<1>4. \A c \in known :
         \/ c \in {<<"up", "tun0">>, <<"sysctl", "ip_forward">>, <<"add host", "SERVER_HOST">>}
         \/ \E r \in OwnRules : c = <<"append", r>>
         \/ \E x \in OwnRoutes : c = <<"add", x>>
  BY Zenon
<1> HIDE DEF known
<1>5. QED
  BY <1>1, <1>2, <1>3, <1>4, Zenon DEF ConsistsOf

(* One more command has run.                                               *)
LEMMA RanOneMore ==
  ASSUME next \in Nat \ {0}, next' = next + 1, NEW s, NEW c
  PROVE  (\E i \in 1..(next' - 1) : s[i] = c) <=> (Ran(s, c) \/ s[next] = c)
  BY DEF Ran

LEMMA SetupRuns ==
  ASSUME TypeOK, DuringSetup, next \in 1..Len(Setup), Execute(Setup[next]), next' = next + 1,
         UNCHANGED <<binaryVars, before>>
  PROVE  DuringSetup'
<1> DEFINE c == Setup[next]
<1>1. Setup' = Setup /\ Len(Setup) \in Nat /\ next \in Nat \ {0}
  BY Lengths, SameFunctions
<1>2. \A d : Ran(Setup, d)' <=> Ran(Setup, d) \/ c = d
  BY <1>1, RanOneMore DEF Ran
<1>3. rules \in [Rules -> Nat] /\ before \in [Rules -> Nat] /\ routes \subseteq Routes
  BY DEF TypeOK
<1>4. CASE c = <<"up", "tun0">>
  <2>1. tun' = "up" /\ UNCHANGED <<rules, routes, forward>>
    BY <1>4, UpEffect
  <2>2. /\ \A r : Ran(Setup, <<"append", r>>)' <=> Ran(Setup, <<"append", r>>)
        /\ \A x : Ran(Setup, <<"add", x>>)' <=> Ran(Setup, <<"add", x>>)
        /\ Ran(Setup, <<"sysctl", "ip_forward">>)' <=> Ran(Setup, <<"sysctl", "ip_forward">>)
    BY <1>2, <1>4
  <2>3. QED
    BY <2>1, <2>2 DEF DuringSetup, Appended
<1>5. CASE c = <<"sysctl", "ip_forward">>
  <2>1. forward' /\ UNCHANGED <<rules, routes, tun>>
    BY <1>5, SysctlEffect
  <2>2. /\ \A r : Ran(Setup, <<"append", r>>)' <=> Ran(Setup, <<"append", r>>)
        /\ \A x : Ran(Setup, <<"add", x>>)' <=> Ran(Setup, <<"add", x>>)
        /\ Ran(Setup, <<"up", "tun0">>)' <=> Ran(Setup, <<"up", "tun0">>)
    BY <1>2, <1>5
  <2>3. QED
    BY <2>1, <2>2 DEF DuringSetup, Appended
<1>6. ASSUME NEW r \in Rules, c = <<"append", r>>
      PROVE  DuringSetup'
  <2>1. rules' = [rules EXCEPT ![r] = @ + 1] /\ UNCHANGED <<routes, forward, tun>>
    BY <1>6, AppendEffect
  <2>2. ~Ran(Setup, <<"append", r>>)
    <3>1. \A i \in 1..(next - 1) : i \in 1..Len(Setup) /\ i # next
      BY <1>1
    <3>2. \A i \in 1..(next - 1) : Setup[i] # Setup[next]
      BY <3>1, SetupFacts
    <3>3. QED
      BY <1>6, <3>2 DEF Ran
  <2>3. /\ Ran(Setup, <<"append", r>>)'
        /\ \A s : s # r => (Ran(Setup, <<"append", s>>)' <=> Ran(Setup, <<"append", s>>))
        /\ \A x : Ran(Setup, <<"add", x>>)' <=> Ran(Setup, <<"add", x>>)
        /\ Ran(Setup, <<"up", "tun0">>)' <=> Ran(Setup, <<"up", "tun0">>)
        /\ Ran(Setup, <<"sysctl", "ip_forward">>)' <=> Ran(Setup, <<"sysctl", "ip_forward">>)
    BY <1>2, <1>6
  <2>4. \A s \in Rules : rules'[s] = before'[s] + Appended(s)'
    <3>1. ASSUME NEW s \in Rules, s # r
          PROVE  rules'[s] = rules[s] /\ Appended(s)' = Appended(s)
      BY <1>3, <2>1, <2>3, <3>1 DEF Appended
    <3>2. rules'[r] = rules[r] + 1 /\ Appended(r)' = 1 /\ Appended(r) = 0
      BY <1>3, <2>1, <2>2, <2>3 DEF Appended
    <3>3. before' = before /\ \A s \in Rules : rules[s] = before[s] + Appended(s)
      BY DEF DuringSetup
    <3>4. QED
      BY <1>3, <3>1, <3>2, <3>3
  <2>5. QED
    BY <2>1, <2>3, <2>4 DEF DuringSetup
<1>7. ASSUME NEW x \in Routes, c = <<"add", x>>
      PROVE  DuringSetup'
  <2>1. tun = "up" /\ routes' = routes \cup {x} /\ UNCHANGED <<rules, forward, tun>>
    BY <1>7, AddEffect
  <2>2. /\ Ran(Setup, <<"add", x>>)'
        /\ \A y : y # x => (Ran(Setup, <<"add", y>>)' <=> Ran(Setup, <<"add", y>>))
        /\ \A r : Ran(Setup, <<"append", r>>)' <=> Ran(Setup, <<"append", r>>)
        /\ Ran(Setup, <<"sysctl", "ip_forward">>)' <=> Ran(Setup, <<"sysctl", "ip_forward">>)
    BY <1>2, <1>7
  <2>3. QED
    BY <2>1, <2>2 DEF DuringSetup, Appended
<1>8. c # <<"add host", "SERVER_HOST">>
  BY HostImpossible
<1>9. QED
  BY <1>4, <1>5, <1>6, <1>7, <1>8, SetupFacts, OwnTypes

LEMMA CleanupFacts ==
  ASSUME TypeOK
  PROVE  /\ \A i \in 1..Len(Cleanup) :
               \/ Cleanup[i] = <<"del host", "SERVER_HOST">>
               \/ \E r \in OwnRules : Cleanup[i] = <<"delete", r>>
               \/ \E x \in OwnRoutes : Cleanup[i] = <<"del", x>>
         /\ \A i, j \in 1..Len(Cleanup) :
               \A r \in OwnRules :
                  Cleanup[i] = <<"delete", r>> /\ Cleanup[j] = <<"delete", r>> => i = j
         /\ \A r \in OwnRules : \E i \in 1..Len(Cleanup) : Cleanup[i] = <<"delete", r>>
         /\ asClient =>
               Len(Cleanup) >= 4 /\ \A r \in OwnRules : Cleanup[4] # <<"delete", r>>
  BY ProgramTypes, CleanupShape, Zenon

LEMMA DeletedBounds ==
  ASSUME TypeOK, next <= Len(Cleanup) + 1
  PROVE  /\ \A r \in OwnRules : Deleted(r) \in {0, 1} /\ Own(r) = 1
         /\ \A r \in Rules \ OwnRules : Deleted(r) = 0 /\ Own(r) = 0
         /\ next > Len(Cleanup) => \A r \in OwnRules : Deleted(r) = 1
<1>1. next \in Nat \ {0} /\ Len(Cleanup) \in Nat
  BY Lengths DEF TypeOK
<1>2. \A i \in 1..(next - 1) : i \in 1..Len(Cleanup)
  BY <1>1
<1>3. \A r \in Rules \ OwnRules : ~Ran(Cleanup, <<"delete", r>>)
  <2>1. \A i \in 1..Len(Cleanup) : \A r : Cleanup[i] = <<"delete", r>> => r \in OwnRules
    <3> SUFFICES ASSUME NEW i \in 1..Len(Cleanup), NEW r, Cleanup[i] = <<"delete", r>>
                 PROVE  r \in OwnRules
      OBVIOUS
    <3>1. Cleanup[i] # <<"del host", "SERVER_HOST">> /\ \A x : Cleanup[i] # <<"del", x>>
      OBVIOUS
    <3>2. PICK s \in OwnRules : Cleanup[i] = <<"delete", s>>
      BY <3>1, CleanupFacts
    <3>3. QED
      BY <3>2
  <2>2. QED
    BY <1>2, <2>1 DEF Ran
<1>4. next > Len(Cleanup) => \A r \in OwnRules : Ran(Cleanup, <<"delete", r>>)
  <2>1. next > Len(Cleanup) => 1..(next - 1) = 1..Len(Cleanup)
    BY <1>1
  <2>2. QED
    BY <2>1, CleanupFacts DEF Ran
<1>5. QED
  BY <1>3, <1>4 DEF Deleted, Own

(* Whatever has been added and deleted before, a command of                *)
(* cleanup_route_table takes away what it accounts for.                    *)
LEMMA CleanupRuns ==
  ASSUME TypeOK, next \in 1..Len(Cleanup), Execute(Cleanup[next]), next' = next + 1,
         UNCHANGED binaryVars
  PROVE  /\ routes' \subseteq routes /\ UNCHANGED <<forward, tun>>
         /\ \A r \in Rules : rules'[r] = rules[r] + Deleted(r) - Deleted(r)'
<1> DEFINE c == Cleanup[next]
<1>1. Cleanup' = Cleanup /\ Len(Cleanup) \in Nat /\ next \in Nat \ {0}
  BY Lengths, SameFunctions
<1>2. \A d : Ran(Cleanup, d)' <=> Ran(Cleanup, d) \/ c = d
  BY <1>1, RanOneMore DEF Ran
<1>3. rules \in [Rules -> Nat]
  BY DEF TypeOK
<1>4. \A r : Deleted(r) \in {0, 1}
  BY DEF Deleted
<1>5. ASSUME NEW r \in OwnRules, c = <<"delete", r>>
      PROVE  /\ UNCHANGED <<routes, forward, tun>>
             /\ \A s \in Rules : rules'[s] = rules[s] + Deleted(s) - Deleted(s)'
  <2>1. rules' = [rules EXCEPT ![r] = @ - 1] /\ UNCHANGED <<routes, forward, tun>>
    BY <1>5, DeleteEffect, OwnTypes
  <2>2. ~Ran(Cleanup, <<"delete", r>>)
    <3>1. \A i \in 1..(next - 1) : i \in 1..Len(Cleanup) /\ i # next
      BY <1>1
    <3>2. QED
      BY <1>5, <3>1, CleanupFacts DEF Ran
  <2>3. /\ Ran(Cleanup, <<"delete", r>>)'
        /\ \A s : s # r => (Ran(Cleanup, <<"delete", s>>)' <=> Ran(Cleanup, <<"delete", s>>))
    BY <1>2, <1>5
  <2>4. ASSUME NEW s \in Rules, s # r
        PROVE  rules'[s] = rules[s] /\ Deleted(s)' = Deleted(s)
    BY <1>3, <2>1, <2>3, <2>4 DEF Deleted
  <2>5. rules'[r] = rules[r] - 1 /\ Deleted(r)' = 1 /\ Deleted(r) = 0
    BY <1>3, <2>1, <2>2, <2>3, OwnTypes DEF Deleted
  <2>6. QED
    BY <1>3, <1>4, <2>1, <2>4, <2>5
<1>6. ASSUME NEW x \in OwnRoutes, c = <<"del", x>>
      PROVE  /\ routes' \subseteq routes /\ UNCHANGED <<forward, tun>>
             /\ \A s \in Rules : rules'[s] = rules[s] + Deleted(s) - Deleted(s)'
  <2>1. routes' = routes \ {x} /\ UNCHANGED <<rules, forward, tun>>
    BY <1>6, DelEffect, OwnTypes
  <2>2. \A s : Ran(Cleanup, <<"delete", s>>)' <=> Ran(Cleanup, <<"delete", s>>)
    BY <1>2, <1>6
  <2>3. \A s : Deleted(s)' = Deleted(s)
    BY <2>2 DEF Deleted
  <2>4. QED
    BY <1>3, <1>4, <2>1, <2>3
<1>7. c # <<"del host", "SERVER_HOST">>
  BY HostImpossible
<1>8. QED
  BY <1>5, <1>6, <1>7, CleanupFacts

LEMMA AppendedBounds ==
  ASSUME TypeOK
  PROVE  /\ \A r \in OwnRules : Appended(r) \in {0, 1} /\ Own(r) = 1
         /\ \A r \in Rules \ OwnRules : Appended(r) = 0 /\ Own(r) = 0
         /\ next > Len(Setup) =>
               /\ \A r \in OwnRules : Appended(r) = 1
               /\ \A x \in Routes : Ran(Setup, <<"add", x>>) <=> x \in OwnRoutes
               /\ Ran(Setup, <<"up", "tun0">>) /\ Ran(Setup, <<"sysctl", "ip_forward">>)
<1>1. next \in Nat \ {0} /\ Len(Setup) \in Nat /\ next <= Len(Setup) + 1
  BY Lengths DEF TypeOK
<1>2. \A i \in 1..(next - 1) : i \in 1..Len(Setup)
  BY <1>1
<1>3. \A r \in Rules \ OwnRules : ~Ran(Setup, <<"append", r>>)
  BY <1>2, SetupFacts DEF Ran
<1>4. ASSUME next > Len(Setup)
      PROVE  /\ \A r \in OwnRules : Ran(Setup, <<"append", r>>)
             /\ \A x \in Routes : Ran(Setup, <<"add", x>>) <=> x \in OwnRoutes
             /\ Ran(Setup, <<"up", "tun0">>) /\ Ran(Setup, <<"sysctl", "ip_forward">>)
  <2>1. 1..(next - 1) = 1..Len(Setup)
    BY <1>1, <1>4
  <2>2. QED
    BY <2>1, SetupFacts DEF Ran
<1>5. QED
  BY <1>3, <1>4 DEF Appended, Own

LEMMA DriftAlways ==
  ASSUME TypeInv, Accounts
  PROVE  DriftIsBounded
<1>1. /\ TypeOK
      /\ rules \in [Rules -> Nat] /\ before \in [Rules -> Nat] /\ OwnRules \subseteq Rules
  BY OwnTypes DEF TypeInv, TypeOK
<1>2. CASE pc = "off"
  BY <1>2 DEF Accounts
<1>3. CASE pc = "setup"
  BY <1>1, <1>3, AppendedBounds DEF Accounts, DuringSetup, DriftIsBounded
<1>4. CASE pc \in {"sigaction", "udp_bind", "loop"}
  BY <1>1, <1>4, AppendedBounds DEF Accounts, Serving, DriftIsBounded
<1>5. CASE pc \in Functions
  <2>1. /\ \A r \in OwnRules : Deleted(r) \in {0, 1} /\ Own(r) = 1
        /\ \A r \in Rules \ OwnRules : Deleted(r) = 0 /\ Own(r) = 0
    BY <1>1, <1>5, DeletedBounds DEF TypeInv, Positions
  <2>2. \A r \in Rules :
          \/ rules[r] = before[r] + Own(r) - Deleted(r)
          \/ r \in OwnRules /\ rules[r] = before[r] + Own(r) - Deleted(r) - 1
    BY <1>5 DEF Accounts, AfterLoop, InHandler, Functions
  <2>3. QED
    BY <1>1, <2>1, <2>2 DEF DriftIsBounded
<1>6. QED
  BY <1>1, <1>2, <1>3, <1>4, <1>5 DEF TypeOK, Functions

LEMMA ExitAccounts ==
  ASSUME TypeInv, Accounts, NEW how \in {"failure", "signalled", "killed"}, Exit(how)
  PROVE  Accounts'
<1>1. DriftIsBounded'
  BY DriftAlways, SameFunctions DEF DriftIsBounded, Exit
<1>2. pc' = "off" /\ status' # "success" /\ handled' = {}
  BY DEF Exit
<1>3. QED
  BY <1>1, <1>2 DEF Accounts, SuccessIsClean

(* A client that reaches the end of cleanup_route_table was interrupted.   *)
LEMMA SuccessAccounts ==
  ASSUME TypeInv, Accounts, pc \in Functions, next > Len(Cleanup), Exit("success"),
         UNCHANGED caught
  PROVE  Accounts'
<1>1. /\ TypeOK /\ next \in Nat /\ Len(Cleanup) \in Nat
      /\ rules \in [Rules -> Nat] /\ before \in [Rules -> Nat] /\ OwnRules \subseteq Rules
  BY OwnTypes, Lengths DEF TypeInv, TypeOK
<1>2. DriftIsBounded'
  BY DriftAlways, SameFunctions DEF DriftIsBounded, Exit
<1>3. /\ \A r \in OwnRules : Deleted(r) = 1 /\ Own(r) = 1
      /\ \A r \in Rules \ OwnRules : Deleted(r) = 0 /\ Own(r) = 0
  BY <1>1, DeletedBounds DEF TypeInv, Positions
<1>4. \A r \in Rules : rules[r] = before[r] \/ rules[r] = before[r] - 1
  BY <1>1, <1>3 DEF Accounts, AfterLoop, InHandler, Functions
<1>5. ~caught => ~asClient /\ \A r \in Rules : rules[r] = before[r]
  <2>1. CASE pc = "cleanup_route_table"
    <3>1. AfterLoop
      BY <2>1 DEF Accounts
    <3>2. asClient => next <= 4 /\ Len(Cleanup) >= 4
      BY <1>1, <3>1, CleanupFacts, Zenon DEF AfterLoop
    <3>3. ~(next <= 4 /\ Len(Cleanup) >= 4)
      BY <1>1
    <3>4. \A r \in Rules : rules[r] = before[r]
      BY <1>1, <1>3, <3>1 DEF AfterLoop
    <3>5. QED
      BY <3>2, <3>3, <3>4, Zenon
  <2>2. CASE pc = "cleanup"
    BY <2>2 DEF Accounts, InHandler
  <2>3. QED
    BY <2>1, <2>2 DEF Functions
<1>6. SuccessIsClean'
  <2>1. \A r \in Rules : rules'[r] <= before'[r]
    BY <1>1, <1>4 DEF Exit
  <2>2. ~caught' => ~asClient' /\ \A r \in Rules : rules'[r] = before'[r]
    BY <1>5 DEF Exit, binaryVars
  <2>3. QED
    BY <2>1, <2>2, Zenon DEF SuccessIsClean
<1>7. QED
  BY <1>2, <1>6 DEF Accounts, Exit

LEMMA RunAccounts ==
  ASSUME TypeInv, Accounts, NEW commands, Run(commands),
         \/ pc = "setup" /\ commands = Setup
         \/ pc \in Functions /\ commands = Cleanup
  PROVE  Accounts'
<1>1. TypeOK /\ Len(Setup) \in Nat /\ Len(Cleanup) \in Nat /\ next \in Nat \ {0}
  BY Lengths DEF TypeInv, TypeOK
<1>2. CASE Execute(commands[next]) /\ next' = next + 1
           /\ UNCHANGED <<binaryVars, pc, handled, status, starts, failures, before, caught>>
  <2>1. next \in 1..Len(commands)
    BY <1>1 DEF Run
  <2>2. ASSUME pc = "setup", commands = Setup
        PROVE  Accounts'
    <3>1. DuringSetup'
      BY <1>1, <1>2, <2>1, <2>2, SetupRuns DEF Accounts
    <3>2. QED
      BY <1>2, <2>2, <3>1 DEF Accounts
  <2>3. ASSUME pc \in Functions, commands = Cleanup
        PROVE  /\ routes' \subseteq routes /\ UNCHANGED <<forward, tun>>
               /\ \A r \in Rules : rules'[r] = rules[r] + Deleted(r) - Deleted(r)'
               /\ \A r \in Rules : Own(r)' = Own(r) /\ before'[r] = before[r]
    <3>1. OwnRules' = OwnRules
      BY <1>2, SameFunctions
    <3>2. QED
      BY <1>1, <1>2, <2>1, <2>3, <3>1, CleanupRuns DEF Own
  <2>4. rules \in [Rules -> Nat] /\ before \in [Rules -> Nat]
        /\ \A r : Deleted(r) \in {0, 1} /\ Deleted(r)' \in {0, 1} /\ Own(r) \in {0, 1}
    BY <1>1 DEF TypeOK, Deleted, Own
  <2>5. ASSUME pc = "cleanup_route_table", commands = Cleanup
        PROVE  Accounts'
    <3>1. forward /\ routes = {} /\ \A r \in Rules : rules[r] = before[r] + Own(r) - Deleted(r)
      BY <2>5 DEF Accounts, AfterLoop
    <3>2. asClient => next <= 4
      BY <2>5, Zenon DEF Accounts, AfterLoop
    <3>3. asClient => next # 4
      <4> SUFFICES ASSUME asClient, next = 4
                   PROVE  FALSE
        BY Zenon
      <4>1. 4 \in 1..Len(Cleanup) /\ Execute(Cleanup[4])
        BY <1>2, <2>1, <2>5
      <4>2. \A r \in OwnRules : Cleanup[4] # <<"delete", r>>
        BY <1>1, CleanupFacts, Zenon
      <4>3. PICK x \in OwnRoutes : Cleanup[4] = <<"del", x>>
        BY <1>1, <4>1, <4>2, CleanupFacts, HostImpossible
      <4>4. QED
        BY <1>1, <3>1, <4>1, <4>3, DelEffect, OwnTypes
    <3>4. asClient' => next' <= 4
      <4>1. ~(next' <= 4) => ~(next <= 4) \/ next = 4
        BY <1>1, <1>2
      <4>2. QED
        BY <1>2, <3>2, <3>3, <4>1, Zenon DEF binaryVars
    <3>5. \A r \in Rules : rules'[r] = before'[r] + Own(r)' - Deleted(r)'
      BY <2>3, <2>4, <2>5, <3>1 DEF Functions
    <3>6. AfterLoop'
      BY <2>3, <2>5, <3>1, <3>4, <3>5 DEF AfterLoop, Functions
    <3>7. QED
      BY <1>2, <2>5, <3>6 DEF Accounts
  <2>6. ASSUME pc = "cleanup", commands = Cleanup
        PROVE  Accounts'
    <3>1. /\ forward /\ caught
          /\ \A r \in Rules :
                \/ rules[r] = before[r] + Own(r) - Deleted(r)
                \/ r \in OwnRules /\ rules[r] = before[r] + Own(r) - Deleted(r) - 1
      BY <2>6 DEF Accounts, InHandler
    <3>2. OwnRules' = OwnRules
      BY <1>2, SameFunctions
    <3>3. \A r \in Rules :
             \/ rules'[r] = before'[r] + Own(r)' - Deleted(r)'
             \/ r \in OwnRules' /\ rules'[r] = before'[r] + Own(r)' - Deleted(r)' - 1
      BY <2>3, <2>4, <2>6, <3>1, <3>2 DEF Functions
    <3>4. InHandler'
      BY <1>2, <2>3, <2>6, <3>1, <3>3 DEF InHandler, Functions
    <3>5. QED
      BY <1>2, <2>6, <3>4 DEF Accounts
  <2>7. QED
    BY <2>2, <2>5, <2>6 DEF Functions
<1>3. CASE Exit("failure")
  BY <1>3, ExitAccounts
<1>4. QED
  BY <1>2, <1>3 DEF Run

LEMMA StartAccounts ==
  ASSUME TypeInv, Accounts, NEW p \in Programs, NEW client \in BOOLEAN, Start(p, client)
  PROVE  Accounts'
<1>1. rules \in [Rules -> Nat] /\ routes = {} /\ handled = {}
  BY DEF TypeInv, TypeOK, Accounts, Start
<1>2. /\ pc' = "setup" /\ next' = 1 /\ status' = "none" /\ before' = rules
      /\ rules' = rules /\ routes' = routes /\ handled' = handled
  BY DEF Start
<1>3. \A s, c : ~(\E i \in 1..(next' - 1) : s[i] = c)
  BY <1>2
<1>4. \A c : ~Ran(Setup, c)'
  BY <1>3 DEF Ran
<1>5. DuringSetup'
  BY <1>1, <1>2, <1>4 DEF DuringSetup, Appended
<1>6. QED
  BY <1>1, <1>2, <1>5 DEF Accounts

LEMMA NothingDeleted ==
  ASSUME next' = 1
  PROVE  \A r : Deleted(r)' = 0
<1>1. \A s, c : ~(\E i \in 1..(next' - 1) : s[i] = c)
  OBVIOUS
<1>2. QED
  BY <1>1 DEF Ran, Deleted

LEMMA ServingKept ==
  ASSUME Serving, UNCHANGED <<kernelVars, binaryVars, before>>
  PROVE  Serving'
  BY SameFunctions DEF Serving, Own, kernelVars

(* A signal is only handled once the setup is complete.                    *)
LEMMA SignalAccounts ==
  ASSUME TypeInv, Accounts, NEW s \in Signals, Signal(s)
  PROVE  Accounts'
<1>1. CASE s \notin handled
  BY <1>1, ExitAccounts DEF Signal
<1>2. CASE s \in handled
  <2>1. /\ GoTo("cleanup") /\ caught' = TRUE /\ UNCHANGED <<tun, routes>>
        /\ pc \in {"sigaction", "udp_bind", "loop", "cleanup_route_table"}
    BY <1>2 DEF Signal, Accounts, TypeInv, TypeOK
  <2>2. /\ OwnRules' = OwnRules /\ rules' = rules /\ before' = before /\ forward' = forward
        /\ \A r : Deleted(r)' = 0 /\ Own(r)' = Own(r)
    BY <2>1, SameFunctions, NothingDeleted DEF GoTo, Own
  <2>3. /\ TypeOK /\ rules \in [Rules -> Nat] /\ before \in [Rules -> Nat]
    BY DEF TypeInv, TypeOK
  <2>4. /\ forward
        /\ \A r \in Rules :
             \/ rules[r] = before[r] + Own(r)
             \/ r \in OwnRules /\ rules[r] = before[r] + Own(r) - 1
    <3>1. CASE pc = "cleanup_route_table"
      <4>1. /\ \A r \in OwnRules : Deleted(r) \in {0, 1} /\ Own(r) = 1
            /\ \A r \in Rules \ OwnRules : Deleted(r) = 0 /\ Own(r) = 0
        BY <2>3, <3>1, DeletedBounds DEF TypeInv, Positions, Functions
      <4>2. QED
        BY <2>3, <3>1, <4>1 DEF Accounts, AfterLoop
    <3>2. CASE pc # "cleanup_route_table"
      BY <2>1, <3>2 DEF Accounts, Serving
    <3>3. QED
      BY <3>1, <3>2
  <2>5. \A r \in Rules : Own(r) \in {0, 1}
    BY DEF Own
  <2>6. InHandler'
    BY <2>1, <2>2, <2>3, <2>4, <2>5 DEF InHandler
  <2>7. QED
    BY <2>1, <2>6 DEF Accounts, GoTo
<1>3. QED
  BY <1>1, <1>2

LEMMA LoopBreaksAccounts ==
  ASSUME TypeInv, Accounts, LoopBreaks
  PROVE  Accounts'
<1>1. /\ Serving /\ GoTo("cleanup_route_table") /\ CloseTun
      /\ rules \in [Rules -> Nat] /\ before \in [Rules -> Nat]
  BY DEF Accounts, LoopBreaks, TypeInv, TypeOK
<1>2. \A r : Deleted(r)' = 0 /\ Own(r)' = Own(r)
  BY <1>1, NothingDeleted, SameFunctions DEF GoTo, Own
<1>3. \A r \in Rules : Own(r) \in {0, 1}
  BY DEF Own
<1>4. \A r \in Rules : rules'[r] = before'[r] + Own(r)' - Deleted(r)'
  BY <1>1, <1>2, <1>3 DEF Serving, GoTo
<1>5. AfterLoop'
  BY <1>1, <1>4 DEF AfterLoop, Serving, GoTo, CloseTun
<1>6. QED
  BY <1>1, <1>5 DEF Accounts, GoTo, LoopBreaks

(* What the functions of the running execution have done accounts for the  *)
(* kernel's state.                                                         *)
THEOREM AccountsCorrect == Spec => []Accounts
<1>1. Init => Accounts
  <2> SUFFICES ASSUME Init
               PROVE  Accounts
    OBVIOUS
  <2>1. rules \in [Rules -> Nat] /\ before = rules /\ OwnRules \subseteq Rules
    BY OwnTypes DEF Init
  <2>2. DriftIsBounded
    BY <2>1 DEF DriftIsBounded
  <2>3. QED
    BY <2>2 DEF Accounts, SuccessIsClean, Init
<1>2. TypeInv /\ Accounts /\ [Next]_vars => Accounts'
  <2> SUFFICES ASSUME TypeInv, Accounts, [Next]_vars
               PROVE  Accounts'
    OBVIOUS
  <2>1. ASSUME NEW p \in Programs, NEW client \in BOOLEAN, Start(p, client)
        PROVE  Accounts'
    BY <2>1, StartAccounts
  <2>2. CASE SetupRouteTable
    <3>1. CASE Run(Setup)
      BY <2>2, <3>1, RunAccounts DEF SetupRouteTable
    <3>2. CASE next > Len(Setup) /\ GoTo("sigaction") /\ UNCHANGED <<tun, routes, caught>>
      <4>1. Serving
        <5>1. TypeOK /\ DuringSetup
          BY <2>2 DEF SetupRouteTable, TypeInv, Accounts
        <5>2. /\ \A r \in OwnRules : Appended(r) = 1 /\ Own(r) = 1
              /\ \A r \in Rules \ OwnRules : Appended(r) = 0 /\ Own(r) = 0
              /\ \A x \in Routes : Ran(Setup, <<"add", x>>) <=> x \in OwnRoutes
              /\ Ran(Setup, <<"up", "tun0">>) /\ Ran(Setup, <<"sysctl", "ip_forward">>)
          BY <3>2, <5>1, AppendedBounds
        <5>3. routes = OwnRoutes
          BY <5>1, <5>2, OwnTypes DEF DuringSetup, TypeOK
        <5>4. QED
          BY <5>1, <5>2, <5>3 DEF DuringSetup, Serving
      <4>2. Serving'
        BY <3>2, <4>1, ServingKept DEF GoTo, kernelVars
      <4>3. QED
        BY <2>2, <3>2, <4>2 DEF Accounts, GoTo, SetupRouteTable
    <3>3. QED
      BY <2>2, <3>1, <3>2 DEF SetupRouteTable
  <2>3. CASE CleanupWhenSigExit
    <3>1. Serving'
      BY <2>3, ServingKept DEF CleanupWhenSigExit, Accounts
    <3>2. pc' \in {"sigaction", "udp_bind"} /\ status' = status /\ pc = "sigaction"
      BY <2>3 DEF CleanupWhenSigExit
    <3>3. QED
      BY <3>1, <3>2 DEF Accounts
  <2>4. CASE UdpBind
    <3>1. CASE GoTo("loop") /\ UNCHANGED <<tun, routes, caught>>
      <4>1. Serving'
        BY <2>4, <3>1, ServingKept DEF UdpBind, GoTo, Accounts, kernelVars
      <4>2. QED
        BY <2>4, <3>1, <4>1 DEF Accounts, GoTo, UdpBind
    <3>2. CASE Exit("failure")
      BY <3>2, ExitAccounts
    <3>3. QED
      BY <2>4, <3>1, <3>2 DEF UdpBind
  <2>5. CASE CleanupRouteTable
    BY <2>5, RunAccounts, SuccessAccounts DEF CleanupRouteTable, Functions
  <2>6. CASE LoopBreaks
    BY <2>6, LoopBreaksAccounts
  <2>7. ASSUME NEW s \in Signals, Signal(s)
        PROVE  Accounts'
    BY <2>7, SignalAccounts
  <2>8. CASE Kill
    BY <2>8, ExitAccounts DEF Kill
  <2>9. CASE UNCHANGED vars
    <3>1. UNCHANGED <<program, asClient, pc, next, handled, status, caught, tun, rules, routes,
                      forward, starts, failures, before>>
      BY <2>9 DEF vars, binaryVars, processVars, kernelVars
    <3>2. Setup' = Setup /\ Cleanup' = Cleanup /\ OwnRules' = OwnRules /\ OwnRoutes' = OwnRoutes
      BY <3>1, SameFunctions DEF binaryVars
    <3>3. QED
      BY <3>1, <3>2 DEF Accounts, DriftIsBounded, SuccessIsClean, DuringSetup, Serving, AfterLoop,
                        InHandler, Own, Appended, Deleted, Ran
  <2>10. QED
    BY <2>1, <2>2, <2>3, <2>4, <2>5, <2>6, <2>7, <2>8, <2>9 DEF Next, Step
<1>3. QED
  BY <1>1, <1>2, TypeInvCorrect, PTL DEF Spec

(* While the main loop forwards packets every route and rule of the setup  *)
(* is in place (ServingIsRouted of the run VpnRoutes).                     *)
THEOREM Routed == Spec => []ServingIsRouted
<1>1. Accounts => ServingIsRouted
  BY DEF Accounts, Serving, ServingIsRouted, Own
<1>2. QED
  BY <1>1, AccountsCorrect, PTL

(* An exit status of zero means that no rule of this execution is left,    *)
(* and without a signal that the rules are as they were found              *)
(* (SuccessIsClean of the run VpnRoutes).                                  *)
THEOREM CleanExit == Spec => []SuccessIsClean
<1>1. TypeInv /\ Accounts => SuccessIsClean
  BY DEF Accounts, SuccessIsClean
<1>2. QED
  BY <1>1, TypeInvCorrect, AccountsCorrect, PTL

(* No execution leaves or takes more than one copy of a rule               *)
(* (DriftIsBounded of the run VpnRoutes).                                  *)
THEOREM BoundedDrift == Spec => []DriftIsBounded
<1>1. TypeInv /\ Accounts => DriftIsBounded
  BY DriftAlways
<1>2. QED
  BY <1>1, TypeInvCorrect, AccountsCorrect, PTL
=============================================================================
