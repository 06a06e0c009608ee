------------------------------- MODULE MCUpnp -------------------------------
\* Upnp for TLC: model values for the devices and the addresses.
EXTENDS Upnp, TLC

CONSTANTS d1, d2, eth, wifi, lo

MCUDN == {d1, d2}
MCOneUDN == {d1}

MCIP == {eth, wifi, lo}
MCTwoIP == {eth, lo}
MCEthernet == {eth, wifi}

MCLoopback == {lo}
MCNoLoopback == {}

\* Devices are interchangeable, and so are addresses other than loopback.
Symmetry == Permutations({d1, d2}) \cup Permutations({eth, wifi})
=============================================================================
