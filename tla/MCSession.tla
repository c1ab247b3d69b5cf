------------------------------ MODULE MCSession ------------------------------
EXTENDS SessionProperties
=============================================================================
