---------------------------- MODULE MCShutdown ----------------------------
(***************************************************************************)
(* Shutdown with two inputs: one may leave while the other still reads.    *)
(***************************************************************************)
EXTENDS Shutdown
=============================================================================
