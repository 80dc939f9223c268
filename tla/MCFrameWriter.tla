--------------------------- MODULE MCFrameWriter ---------------------------
(***************************************************************************)
(* FrameWriter with frames of two packets and PCRs of two PIDs that may    *)
(* stop or go back.  A packet takes 3/2 of a tick, so PCRs are cut off;    *)
(* the header is half a packet.                                            *)
(***************************************************************************)
EXTENDS FrameWriter

TwoPids == {"a", "b"}
FewPcrs == {0, 1, 2}
=============================================================================
