----------------------------- MODULE FrameChannel -----------------------------
(***************************************************************************)
(* What the tunnel of src/simpletun.cpp promises: the packets that leave   *)
(* at one end are packets that entered at the other, whole, in order and   *)
(* without repetition, up to the point where the tunnel breaks.            *)
(***************************************************************************)
EXTENDS Naturals, Sequences

CONSTANTS Ends, Packets

VARIABLES
    entered,    \* the packets that entered at each end
    left        \* the packets that left at each end

channelVars == <<entered, left>>

Other(e) == CHOOSE f \in Ends : f # e

ChannelInit ==
    /\ entered = [e \in Ends |-> <<>>]
    /\ left = [e \in Ends |-> <<>>]

Enter(e, p) ==
    /\ entered' = [entered EXCEPT ![e] = Append(@, p)]
    /\ UNCHANGED left

Leave(e) ==
    /\ Len(left[e]) < Len(entered[Other(e)])
    /\ left' = [left EXCEPT ![e] =
                    Append(@, entered[Other(e)][Len(left[e]) + 1])]
    /\ UNCHANGED entered

ChannelNext == \E e \in Ends : Leave(e) \/ \E p \in Packets : Enter(e, p)

ChannelSpec == ChannelInit /\ [][ChannelNext]_channelVars
=============================================================================
