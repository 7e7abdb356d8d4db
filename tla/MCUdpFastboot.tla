--------------------------- MODULE MCUdpFastboot ---------------------------
EXTENDS UdpFastboot
=============================================================================
