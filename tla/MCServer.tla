------------------------------ MODULE MCServer ------------------------------
\* Server for TLC: model values for the clients, the sinks and the devices.
EXTENDS Server

CONSTANTS c1, c2, d1

MCClient == {c1, c2}
MCOneClient == {c1}
MCDevice == {d1}

=============================================================================
