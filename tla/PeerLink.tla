------------------------------- MODULE PeerLink -------------------------------
(***************************************************************************)
(* What the handshake of src/client.cpp promises, without datagrams: a     *)
(* user invites another peer by typing its address; a peer may be linked   *)
(* to, or relinked to, a peer it invited or was invited by and to no       *)
(* other; a peer that is stopped loses its link, never its invitations.    *)
(***************************************************************************)
CONSTANTS
    Peers,
    NoAddr

VARIABLES
    invited,    \* the pairs <<p, q>> such that p's user invited q
    link        \* the peer that each peer's lines go to

linkVars == <<invited, link>>

LinkInit ==
    /\ invited = {}
    /\ link = [p \in Peers |-> NoAddr]

Invite(p, q) ==
    /\ p # q
    /\ invited' = invited \cup {<<p, q>>}
    /\ UNCHANGED link

Link(p, q) ==
    /\ <<p, q>> \in invited \/ <<q, p>> \in invited
    /\ link' = [link EXCEPT ![p] = q]
    /\ UNCHANGED invited

Unlink(p) ==
    /\ link' = [link EXCEPT ![p] = NoAddr]
    /\ UNCHANGED invited

LinkNext ==
    \E p \in Peers :
        \/ Unlink(p)
        \/ \E q \in Peers : Invite(p, q) \/ Link(p, q)

LinkSpec == LinkInit /\ [][LinkNext]_linkVars
=============================================================================
