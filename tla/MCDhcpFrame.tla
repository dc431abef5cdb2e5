---------------------------- MODULE MCDhcpFrame ----------------------------
(* Two network cards and a tun device, with the hardware addresses of       *)
(* dhcpfinal.h and addresses of which some are private.                     *)
EXTENDS DhcpFrame

MCLinks == <<"enp0s31f6", "wlan0", "tun0">>
MCTuns == {"tun0"}
MCIps == {<<10, 0>>, <<192, 168>>, <<192, 0>>}

(* ETHER_ENP, ETHER_WLAN0, ETHER_TEST_ADDR, and an address for which the    *)
(* UDP sum of a DISCOVER is all ones and its checksum therefore zero.       *)
MCMacs ==
    {<<64, 141, 92, 225, 210, 216>>, <<192, 181, 215, 9, 246, 250>>,
     <<64, 141, 83, 225, 210, 210>>, <<2, 0, 0, 0, 146, 3>>}

MCPointers == {<<64, 225, 255, 255, 255, 127, 0, 0>>, <<255, 1, 6, 255, 252, 127, 0, 0>>}
=============================================================================
