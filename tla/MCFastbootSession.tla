------------------------- MODULE MCFastbootSession -------------------------
EXTENDS FastbootSession
=============================================================================
