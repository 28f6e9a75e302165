------------------------------- MODULE MCQueue -------------------------------
(* Small instances of Queue for TLC.                                          *)
EXTENDS Queue
===============================================================================
