---------------------------- MODULE MCPidRewrite ----------------------------
(***************************************************************************)
(* PidRewrite with two channels of five PIDs, 5..9 and 10..14.  The PIDs   *)
(* of the sources lie in these ranges too.                                 *)
(***************************************************************************)
EXTENDS PidRewrite

Prg(n, p) == [program |-> n, pid |-> p]

\* One program with the PCR in its video, a second stream, and a NIT.
Plain == [pat |-> <<Prg(0, 3), Prg(1, 11)>>, pcr |-> 6, streams |-> <<6, 5>>, sends |-> {3, 5, 6}]

\* Two programs with one PMT PID; the PCR is on its own.
Two == [pat |-> <<Prg(1, 5), Prg(2, 5)>>, pcr |-> 10, streams |-> <<11>>, sends |-> {5, 10, 11}]

\* More streams than the channel has PIDs and the map has entries.
Large == [pat |-> <<Prg(1, 7)>>, pcr |-> 5, streams |-> <<10, 11, 12, 13>>, sends |-> {5, 13}]

SomeSources == {Plain, Two, Large}
TwoInputs   == {1, 2}
=============================================================================
