---------------------------- MODULE MCModelExchange ----------------------------
EXTENDS ModelExchange
CONSTANTS m1, m2
=============================================================================
