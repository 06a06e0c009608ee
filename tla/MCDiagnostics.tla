--------------------------- MODULE MCDiagnostics ---------------------------
\* Diagnostics for TLC: one device on two networks and one client.
EXTENDS Diagnostics

CONSTANTS d1, eth, lo, c1

MCUDN == {d1}
MCIP == {eth, lo}
MCLoopback == {lo}
MCClient == {c1}
=============================================================================
