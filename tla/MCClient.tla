------------------------------- MODULE MCClient -------------------------------
EXTENDS Client
===============================================================================
