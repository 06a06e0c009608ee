---------------------------- MODULE MCSubDevices ----------------------------
\* SubDevices for TLC: every forest of up to four devices on two networks.
EXTENDS SubDevices, TLC

CONSTANTS eth, wifi

MCIP == {eth, wifi}
Symmetry == Permutations(MCIP)
=============================================================================
