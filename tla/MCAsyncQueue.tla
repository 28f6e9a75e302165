----------------------------- MODULE MCAsyncQueue -----------------------------
(* A small instance of AsyncQueue for TLC.                                    *)
EXTENDS AsyncQueue
===============================================================================
