-------------------------------- MODULE MCFlow --------------------------------
EXTENDS FlowProperties

MCIncrements == {-1, 2}
=============================================================================
