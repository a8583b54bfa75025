------------------------------ MODULE MCHealth ------------------------------
EXTENDS Health, TLC
=============================================================================
