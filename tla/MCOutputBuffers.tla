-------------------------- MODULE MCOutputBuffers --------------------------
(***************************************************************************)
(* OutputBuffers on two buffers of Frames frames.  Two contents are enough *)
(* to tell an old frame from a new one and two frames of a batch apart.    *)
(***************************************************************************)
EXTENDS OutputBuffers
=============================================================================
