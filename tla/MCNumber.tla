------------------------------ MODULE MCNumber ------------------------------
EXTENDS Mp32Number
=============================================================================
