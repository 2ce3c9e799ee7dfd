----------------------------- MODULE MCUdpRelay -----------------------------
EXTENDS UdpRelay, TLC
=============================================================================
