---------------------------- MODULE MCClientWatch ----------------------------
\* ClientWatch for TLC: model values for the clients.
EXTENDS ClientWatch

CONSTANTS c1, c2, c3, c4

MCClient == {c1, c2, c3, c4}
=============================================================================
