---------------------------- MODULE MCPcrSpacing ----------------------------
(***************************************************************************)
(* PcrSpacing on two inputs: PCRs that are late, due within a buffer, or   *)
(* beyond the boundary.                                                    *)
(***************************************************************************)
EXTENDS PcrSpacing

GapsToCheck == {2, 9}
=============================================================================
