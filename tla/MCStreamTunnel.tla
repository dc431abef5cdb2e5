--------------------------- MODULE MCStreamTunnel ---------------------------
(* Packet sizes for small instances of StreamTunnel.                        *)
EXTENDS StreamTunnel

None == {}
OneSize == [e \in Ends |-> {1}]
TwoSizes == [e \in Ends |-> {1, 2}]
SmallAndLarge == [e \in Ends |-> {1, 4}]
=============================================================================
