--------------------------- MODULE MCInputStream ---------------------------
(***************************************************************************)
(* One input with two sources, one of them RTP, whose PAT or PMT changes.  *)
(***************************************************************************)
EXTENDS InputStream

\* The PMTs of the first PAT fit a packet, that of the second does not.
SomeContent == {[pat |-> 1, pmt |-> 1], [pat |-> 1, pmt |-> 2], [pat |-> 2, pmt |-> 3]}
=============================================================================
