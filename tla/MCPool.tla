-------------------------------- MODULE MCPool --------------------------------
(* A small instance of Pool for TLC.                                          *)
EXTENDS Pool
===============================================================================
