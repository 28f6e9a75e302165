------------------------------- MODULE MCThread -------------------------------
(* A small instance of Thread for TLC.                                        *)
EXTENDS Thread
===============================================================================
