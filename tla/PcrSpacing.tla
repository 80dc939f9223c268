----------------------------- MODULE PcrSpacing -----------------------------
(***************************************************************************)
(* How far apart the PCR packets of an input leave, measured in places of  *)
(* the output stream, next to what the mixing round counts                 *)
(* (outputed_packets) and asks for (output_pcr_packets_needed).            *)
(***************************************************************************)
EXTENDS Mix

CONSTANT Far   \* bound: distances are told apart up to here

ASSUME FarAssumption == Far \in Nat /\ Far > Slots + 1

\* History: for each input the places of the output from that of its last PCR
\* packet (included) on, as far as the output has been mixed.
VARIABLE gone

svars == <<vars, gone>>

Mixed == data_packets + nulls

\* The places a step settles.
Settled == IF round /\ round' THEN Mixed' - Mixed
           ELSE IF round /\ ~round' THEN Slots - Mixed
           ELSE IF outputed' # outputed THEN Slots   \* NullBatch
           ELSE 0

ReleasesPcr(r) == Moves /\ HasPcr(r) /\ Takes(r)

SInit == Init /\ gone = [r \in Inputs |-> 0]

Measure == gone' = [r \in Inputs |->
                      IF ReleasesPcr(r) THEN 1
                      ELSE IF gone[r] + Settled > Far THEN Far
                      ELSE gone[r] + Settled]

SNext == Next /\ Measure

SSpec == SInit /\ [][SNext]_svars

\* The MIX thread is scheduled.
SFairSpec == SSpec /\ WF_svars(Mixing /\ Measure)

-----------------------------------------------------------------------------
\* The places strictly between input r's last PCR packet and the one that the
\* step releases.
Between(r) == gone[r] - 1 + (nulls' - nulls)

NotEarly ==
  \A r \in Inputs : ReleasesPcr(r) /\ seen[r] => Between(r) >= Required(r) - 1

\* Whatever the other inputs, the PSI and the null packets do in the meantime, a
\* PCR packet is never more than one place ahead of the distance that lines 158-167
\* ask for: the one line 160 computes, cut to the number of places in a buffer.
AtMostOneEarly == [][NotEarly]_svars
=============================================================================
