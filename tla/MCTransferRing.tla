---------------------------- MODULE MCTransferRing ----------------------------
EXTENDS TransferRing
=============================================================================
