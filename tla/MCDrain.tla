------------------------------- MODULE MCDrain -------------------------------
EXTENDS Drain
==============================================================================
