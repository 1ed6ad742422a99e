------------------------------ MODULE MCTokens ------------------------------
EXTENDS Tokens

CONSTANTS p1, p2
=============================================================================
