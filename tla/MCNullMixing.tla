---------------------------- MODULE MCNullMixing ----------------------------
(***************************************************************************)
(* Mix with one input without PCRs and a buffer large enough for every     *)
(* ratio of nulls to data packets, and for roundings of either to matter.  *)
(***************************************************************************)
EXTENDS Mix

NoGaps == {}
=============================================================================
