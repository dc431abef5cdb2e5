------------------------------ MODULE VpnRoutes ------------------------------
(***************************************************************************)
(* The life of the VPN programs (src/vpnServer.cpp, src/vpnClient.cpp and  *)
(* src/vpnDev.cpp), started one after the other on a machine, and what     *)
(* they leave behind in its kernel: the interface tun0, the routes through *)
(* it, the iptables rules and net.ipv4.ip_forward.  tun0 and its routes go *)
(* away with the descriptor; iptables rules stay until something deletes   *)
(* them, and ip_forward, which nothing resets, stays on.                   *)
(*                                                                         *)
(* Each program can be compiled as a client (as it is, with AS_CLIENT) or  *)
(* as a server (without that line).  The programs change the kernel        *)
(* through run(), which calls system() and exits when the command fails.   *)
(* The data path of the main loop, modelled in VpnTunnel, is abstracted to *)
(* what matters here: select(), read(), sendto(), recvfrom() or write()    *)
(* may fail, which ends the loop.                                          *)
(***************************************************************************)
EXTENDS Naturals, Sequences

CONSTANTS
    Programs,       \* those of "vpnServer", "vpnClient" and "vpnDev" in use
    MaxFailures,    \* bound: how many commands fail for reasons of their own
    MaxStarts       \* bound: how often a program is started

ASSUME ProgramsAssumption == Programs \subseteq {"vpnServer", "vpnClient", "vpnDev"}
ASSUME BoundsAssumption == MaxFailures \in Nat /\ MaxStarts \in Nat

VARIABLES
    program,    \* the program that runs or ran last
    asClient,   \* whether it was compiled with AS_CLIENT
    pc,         \* the function the process is in
    next,       \* the next command of that function, or the next sigaction()
    handled,    \* the signals whose handler is cleanup()
    tun,        \* tun0: "none", "down" or "up"
    rules,      \* how many copies of each iptables rule there are
    routes,     \* the routes through tun0
    forward,    \* net.ipv4.ip_forward
    starts,     \* how often a program has been started
    failures,   \* how many commands have failed for reasons of their own
    status,     \* how the last execution ended
    caught,     \* whether cleanup() ran in this (or the last) execution
    before      \* rules when this (or the last) execution started

binaryVars == <<program, asClient>>
processVars == <<pc, next, handled, status, caught>>
kernelVars == <<tun, rules, routes, forward>>
vars == <<binaryVars, processVars, kernelVars, starts, failures, before>>

-----------------------------------------------------------------------------
(* The commands, in the order the functions run them: what they do and to  *)
(* what.  The iptables rules are known by their table or chain and by what *)
(* they match.                                                             *)
ClientRules == {"POSTROUTING -o tun0", "FORWARD -i tun0", "FORWARD -o tun0"}
ServerRules == {"POSTROUTING -s 10.8", "FORWARD -s 10.8", "FORWARD -d 10.8"}
Rules == ClientRules \cup ServerRules
Routes == {"0/1", "128/1"}
Signals == {"HUP", "INT", "TERM"}

OwnRules == IF asClient THEN ClientRules ELSE ServerRules
OwnRoutes == IF asClient THEN Routes ELSE {}

ForRules(what) ==
    IF asClient
    THEN << <<what, "POSTROUTING -o tun0">>, <<what, "FORWARD -i tun0">>,
            <<what, "FORWARD -o tun0">> >>
    ELSE << <<what, "POSTROUTING -s 10.8">>, <<what, "FORWARD -s 10.8">>,
            <<what, "FORWARD -d 10.8">> >>

ForRoutes(what) ==
    IF asClient THEN << <<what, "0/1">>, <<what, "128/1">> >> ELSE <<>>

(* vpnDev also routes SERVER_HOST past the tunnel.                         *)
ForHost(what) == IF asClient THEN << <<what, "SERVER_HOST">> >> ELSE <<>>

(* ifconfig() and setup_route_table() of each program.  The ifconfig() of  *)
(* vpnClient does not run its command; setup_route_table() brings tun0 up  *)
(* instead.                                                                *)
ServerSetup ==
    << <<"up", "tun0">>, <<"sysctl", "ip_forward">> >>
      \o ForRules("append") \o ForRoutes("add")

ClientSetup ==
    << <<"sysctl", "ip_forward">>, <<"up", "tun0">> >>
      \o ForRules("append") \o ForRoutes("add")

DevSetup ==
    << <<"up", "tun0">>, <<"sysctl", "ip_forward">> >>
      \o ForRules("append") \o ForHost("add host") \o ForRoutes("add")

Setup ==
    CASE program = "vpnServer" -> ServerSetup
      [] program = "vpnClient" -> ClientSetup
      [] program = "vpnDev" -> DevSetup

(* cleanup_route_table(), the same in vpnServer and vpnClient.             *)
PlainCleanup == ForRules("delete") \o ForRoutes("del")
DevCleanup == ForRules("delete") \o ForHost("del host") \o ForRoutes("del")

(* Mutant: a rule is forgotten.                                            *)
CleanupForgetsRule == Tail(ForRules("delete")) \o ForRoutes("del")

(* Mutant: every program deletes the host route that none has.             *)
CleanupDeletesHost == DevCleanup

Cleanup == IF program = "vpnDev" THEN DevCleanup ELSE PlainCleanup

(* Whether a command can do its work.  In vpnDev's "add host" command the  *)
(* compiler takes the backslashes of the sed script for escapes, sed finds *)
(* nothing to replace, and ip is given "via default via ...", which it     *)
(* rejects; so there is never a host route to delete.                      *)
Possible(c) ==
    CASE c[1] = "delete" -> rules[c[2]] > 0
      [] c[1] = "add" -> tun = "up" /\ c[2] \notin routes
      [] c[1] = "del" -> c[2] \in routes
      [] c[1] \in {"add host", "del host"} -> FALSE
      [] OTHER -> TRUE

Execute(c) ==
    /\ Possible(c)
    /\ rules' = CASE c[1] = "append" -> [rules EXCEPT ![c[2]] = @ + 1]
                  [] c[1] = "delete" -> [rules EXCEPT ![c[2]] = @ - 1]
                  [] OTHER -> rules
    /\ routes' = CASE c[1] = "add" -> routes \cup {c[2]}
                   [] c[1] = "del" -> routes \ {c[2]}
                   [] OTHER -> routes
    /\ tun' = IF c[1] = "up" THEN "up" ELSE tun
    /\ forward' = (forward \/ c[1] = "sysctl")

(* The kernel destroys tun0 and its routes when its descriptor is closed.  *)
CloseTun == tun' = "none" /\ routes' = {}

(* Mutant: tun0 was made persistent.                                       *)
ExitKeepsTun(how) ==
    /\ pc' = "off"
    /\ next' = 1
    /\ handled' = {}
    /\ status' = how
    /\ UNCHANGED <<binaryVars, kernelVars, starts, before>>

(* The process ends: exit(), return from main() or a fatal signal.         *)
Exit(how) ==
    /\ pc' = "off"
    /\ next' = 1
    /\ handled' = {}
    /\ status' = how
    /\ CloseTun
    /\ UNCHANGED <<binaryVars, rules, forward, starts, before>>

-----------------------------------------------------------------------------
TypeOK ==
    /\ program \in Programs
    /\ asClient \in BOOLEAN
    /\ pc \in {"off", "setup", "sigaction", "udp_bind", "loop",
               "cleanup_route_table", "cleanup"}
    /\ next \in 1..Len(Setup) + 1
    /\ handled \subseteq Signals
    /\ tun \in {"none", "down", "up"}
    /\ rules \in [Rules -> Nat]
    /\ routes \subseteq Routes
    /\ forward \in BOOLEAN
    /\ starts \in 0..MaxStarts
    /\ failures \in 0..MaxFailures
    /\ status \in {"none", "success", "failure", "signalled", "killed"}
    /\ caught \in BOOLEAN
    /\ before \in [Rules -> Nat]
    /\ tun = "none" => routes = {}
    /\ pc = "off" => tun = "none"

Init ==
    /\ program \in Programs /\ asClient = TRUE
    /\ pc = "off" /\ next = 1 /\ handled = {}
    /\ tun = "none" /\ routes = {}
    /\ rules = [r \in Rules |-> 0] /\ before = rules
    /\ forward \in BOOLEAN
    /\ starts = 0 /\ failures = 0 /\ status = "none" /\ caught = FALSE

(* main() up to tun_alloc(); when that fails nothing has changed.          *)
Start(p, client) ==
    /\ pc = "off"
    /\ starts < MaxStarts
    /\ program' = p /\ asClient' = client
    /\ starts' = starts + 1
    /\ pc' = "setup" /\ next' = 1
    /\ tun' = "down"
    /\ status' = "none" /\ caught' = FALSE
    /\ before' = rules
    /\ UNCHANGED <<handled, rules, routes, forward, failures>>

(* Mutant: run() goes on after a command that failed.                      *)
RunOn(commands) ==
    /\ next <= Len(commands)
    /\ \/ /\ Execute(commands[next])
          /\ UNCHANGED failures
       \/ /\ ~Possible(commands[next])
          /\ UNCHANGED <<kernelVars, failures>>
       \/ /\ failures < MaxFailures
          /\ failures' = failures + 1
          /\ UNCHANGED kernelVars
    /\ next' = next + 1
    /\ UNCHANGED <<binaryVars, pc, handled, status, starts, before, caught>>

(* One run() of a function that runs these commands.                       *)
Run(commands) ==
    /\ next <= Len(commands)
    /\ \/ /\ Execute(commands[next])
          /\ next' = next + 1
          /\ UNCHANGED <<binaryVars, pc, handled, status, starts, failures, before>>
       \/ /\ ~Possible(commands[next])
          /\ Exit("failure")
          /\ UNCHANGED failures
       \/ /\ failures < MaxFailures
          /\ failures' = failures + 1
          /\ Exit("failure")
    /\ UNCHANGED caught

(* Going on in another function, with the kernel as it is.                 *)
GoTo(function) ==
    /\ pc' = function /\ next' = 1
    /\ UNCHANGED <<binaryVars, handled, status, rules, forward, starts, failures, before>>

SetupRouteTable ==
    /\ pc = "setup"
    /\ \/ Run(Setup)
       \/ next > Len(Setup) /\ GoTo("sigaction") /\ UNCHANGED <<tun, routes, caught>>

(* cleanup_when_sig_exit(): one sigaction() after the other.               *)
CleanupWhenSigExit ==
    /\ pc = "sigaction"
    /\ handled' = handled \cup {<<"HUP", "INT", "TERM">>[next]}
    /\ IF next < 3 THEN next' = next + 1 /\ pc' = pc
                   ELSE next' = 1 /\ pc' = "udp_bind"
    /\ UNCHANGED <<binaryVars, status, caught, kernelVars, starts, failures, before>>

(* udp_bind(); main() returns at once when it fails.                       *)
UdpBind ==
    /\ pc = "udp_bind"
    /\ \/ GoTo("loop") /\ UNCHANGED <<tun, routes, caught>>
       \/ Exit("failure") /\ UNCHANGED <<failures, caught>>

(* An error ends the loop, and main() closes tun_fd before it cleans up.   *)
LoopBreaks ==
    /\ pc = "loop"
    /\ GoTo("cleanup_route_table")
    /\ CloseTun
    /\ UNCHANGED caught

(* cleanup_route_table(), called by main() or by the handler, and the exit *)
(* with status zero that follows it in both.                               *)
CleanupRouteTable ==
    /\ pc \in {"cleanup_route_table", "cleanup"}
    /\ \/ Run(Cleanup)
       \/ /\ next > Len(Cleanup)
          /\ Exit("success")
          /\ UNCHANGED <<failures, caught>>

(* Mutant: the handler does not block the signals.                         *)
SignalAnytime(s) ==
    /\ pc # "off"
    /\ \/ /\ s \in handled
          /\ GoTo("cleanup")
          /\ caught' = TRUE
          /\ UNCHANGED <<tun, routes>>
       \/ /\ s \notin handled
          /\ Exit("signalled")
          /\ UNCHANGED <<failures, caught>>

(* A signal: the handler runs cleanup_route_table() from its beginning,    *)
(* whatever it interrupts, with all signals blocked.  A signal that comes  *)
(* during system() leaves that command running beside the handler, which   *)
(* ends like a signal just before the command or just after it.            *)
Signal(s) ==
    /\ pc \notin {"off", "cleanup"}
    /\ \/ /\ s \in handled
          /\ GoTo("cleanup")
          /\ caught' = TRUE
          /\ UNCHANGED <<tun, routes>>
       \/ /\ s \notin handled
          /\ Exit("signalled")
          /\ UNCHANGED <<failures, caught>>

Kill ==
    /\ pc # "off"
    /\ Exit("killed")
    /\ UNCHANGED <<failures, caught>>

Step == SetupRouteTable \/ CleanupWhenSigExit \/ UdpBind \/ CleanupRouteTable

Next ==
    \/ \E p \in Programs, client \in BOOLEAN : Start(p, client)
    \/ Step
    \/ LoopBreaks
    \/ \E s \in Signals : Signal(s)
    \/ Kill

(* The process runs; starts, signals and I/O errors are up to others.      *)
Spec == Init /\ [][Next]_vars /\ WF_vars(Step)

-----------------------------------------------------------------------------
(* While the main loop forwards packets, every route and rule of           *)
(* setup_route_table is in place, once more than before the start: an      *)
(* earlier execution that left its rules behind does not prevent it.  The  *)
(* kernel forwards, too.                                                   *)
ServingIsRouted ==
    pc = "loop" =>
        /\ tun = "up" /\ forward
        /\ routes = OwnRoutes
        /\ \A r \in Rules : rules[r] = before[r] + (IF r \in OwnRules THEN 1 ELSE 0)

(* An exit status of zero means that no rule of this execution is left.    *)
(* Without a signal the rules are exactly those found at the start, and    *)
(* the program is a server: when the main loop of a client breaks,         *)
(* cleanup_route_table fails on routes that went with tun_fd.  After a     *)
(* signal there may be fewer: the handler may delete a rule that an        *)
(* earlier execution left (DriftIsBounded says how many).                  *)
SuccessIsClean ==
    status = "success" =>
        /\ \A r \in Rules : rules[r] <= before[r]
        /\ ~caught => ~asClient /\ \A r \in Rules : rules[r] = before[r]

(* However an execution ends, it leaves at most one copy of each of its    *)
(* rules, and takes away at most one it did not add itself: the handler    *)
(* that interrupts cleanup_route_table deletes a rule a second time when   *)
(* an earlier execution has left a copy.                                   *)
DriftIsBounded ==
    /\ \A r \in OwnRules : rules[r] <= before[r] + 1 /\ before[r] <= rules[r] + 1
    /\ \A r \in Rules \ OwnRules : rules[r] = before[r]

(* A signal that arrives in the main loop is answered by a complete        *)
(* cleanup, rules as before and exit status zero, unless a command fails   *)
(* for reasons of its own or kill -9 gets in.                              *)
SignalCleansUp ==
    (pc = "cleanup" /\ tun = "up" /\ next = 1 /\ failures = MaxFailures)
      ~> \/ status = "success" /\ rules = before
         \/ status = "killed"

(* vpnServer.cpp:203: "Catch Ctrl-C and `kill`s, make sure route table     *)
(* gets cleaned before this process exit".  Not so: a signal caught while  *)
(* main() itself cleans up makes the handler start over, delete a rule     *)
(* that is gone, and exit with the other rules still there.                *)
CaughtSignalCleans ==
    pc = "off" /\ caught /\ status # "killed" =>
        \A r \in Rules : rules[r] <= before[r]

(* vpnDev.cpp:89: "Setup route table via `iptables` & `ip route`": no      *)
(* command of the setup is bound to fail.  The one that adds the route to  *)
(* SERVER_HOST is.                                                         *)
SetupIsPossible ==
    pc = "setup" /\ next <= Len(Setup) => Possible(Setup[next])
=============================================================================
