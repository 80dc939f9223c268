----------------------------- MODULE NullMixing -----------------------------
(***************************************************************************)
(* How output_handle_mix spreads null packets between the data of one      *)
(* output buffer (output_mix.c:82-90, 229-236): slots places, packets of   *)
(* them for data.  C computes with doubles and rounds halves away from     *)
(* zero; here the quotients are exact.                                     *)
(***************************************************************************)
EXTENDS Integers

\* round(a / b)
Round(a, b) == (2 * a + b) \div (2 * b)

\* Mutant: data_per_null is taken to be one.
DataForOne(slots, packets, k) == k

\* round(nulls * data_per_null): the data packets that k nulls are worth.
DataFor(slots, packets, k) ==
  IF packets = slots THEN 0
  ELSE IF packets < slots - packets THEN k ELSE Round(k * packets, slots - packets)

\* round(data_packets * null_per_data): what is due before data packet d.
DueBefore(slots, packets, d) ==
  IF packets < slots - packets THEN Round(d * (slots - packets), packets) ELSE d

\* Mutant: nulls = ... for nulls += ...
NullsBeforeAssigns(slots, packets, d, k) ==
  LET left == slots - packets
      more == DueBefore(slots, packets, d) - DataFor(slots, packets, k)
      next == IF more > 0 THEN more ELSE k
  IN  IF k >= left THEN k ELSE IF next > left THEN left ELSE next

\* The nulls left out before data packet d, when k have been left out so far.
NullsBefore(slots, packets, d, k) ==
  LET left == slots - packets
      more == DueBefore(slots, packets, d) - DataFor(slots, packets, k)
      next == IF more > 0 THEN k + more ELSE k
  IN  IF k >= left THEN k ELSE IF next > left THEN left ELSE next
=============================================================================
