-------------------------------- MODULE Mix --------------------------------
(***************************************************************************)
(* One mixing round of output_handle_mix (output_mix.c:57-257) after the   *)
(* other: which packet goes into which place of the output buffer, whose   *)
(* turn it is, when a PCR packet is held back and how null packets are     *)
(* spread between the data.  Waiting for an empty output buffer is in      *)
(* OutputBuffers.                                                          *)
(*                                                                         *)
(* A step is one pass of the loop over data_packets.  Input threads add    *)
(* packets between any two steps; a pass is one step because this thread   *)
(* alone takes packets out, so a packet added during the pass is as good   *)
(* as one added before or after it.  A packet is elementary stream, PCR or *)
(* padding; a PCR packet carries the result of line 160, its distance in   *)
(* packets from the PCR before it.                                         *)
(***************************************************************************)
EXTENDS NullMixing, Sequences, FiniteSets

CONSTANTS N,       \* inputs on CONFIG.inputs
          Slots,   \* o_maxpackets, places for packets in one output buffer
          Gaps,    \* values of line 160, before the boundary check
          Moves,   \* pcr_mode is 1 or 3: PCR packets are held back
          IntMax,  \* INT_MAX of the type of outputed_packets
          MaxBuf,  \* bound: packets waiting in one input buffer
          MaxPsi   \* bound: PSI packets waiting

ASSUME MixAssumption == /\ N \in Nat \ {0}
                        /\ Slots \in Nat \ {0}
                        /\ Gaps \subseteq Int
                        /\ Moves \in BOOLEAN
                        /\ IntMax \in Nat \ {0}
                        /\ MaxBuf \in Nat /\ MaxPsi \in Nat

VARIABLES
  buf,        \* INPUT.buf of each input
  psi,        \* packets in OUTPUT.psibuf
  inpt,       \* the last used input
  seen,       \* INPUT.output_last_pcr # 0
  needed,     \* INPUT.output_pcr_packets_needed
  outputed,   \* INPUT.outputed_packets
  round,      \* is a round under way?
  packets,    \* data packets this round will read
  data_packets, nulls,  \* passes made, null packets left out so far
  place,      \* where the last packet of the round was put, -1 if nowhere
  overtaken,  \* history: for a ready input, who was served before it
  dienow      \* OUTPUT.dienow # 0

pcrVars   == <<seen, needed, outputed>>
roundVars == <<round, packets, data_packets, nulls, place>>
vars == <<buf, psi, inpt, pcrVars, roundVars, overtaken, dienow>>

Inputs == 1..N
Es     == [kind |-> "es",  gap |-> 0]
Pad    == [kind |-> "pad", gap |-> 0]
Pcr(g) == [kind |-> "pcr", gap |-> g]

\* What an input thread can add: input_stream has removed padding.
Packet == {Es} \cup {Pcr(g) : g \in Gaps}

\* int arithmetic of the build: wraps around.
Int32(x) == ((x + IntMax + 1) % (2 * (IntMax + 1))) - (IntMax + 1)

TypeOK ==
  /\ buf \in [Inputs -> Seq(Packet)]
  /\ \A r \in Inputs : Len(buf[r]) <= MaxBuf
  /\ psi \in 0..MaxPsi
  /\ inpt \in Inputs
  /\ seen \in [Inputs -> BOOLEAN]
  /\ needed \in [Inputs -> 0..Slots]
  /\ outputed \in [Inputs -> -(IntMax + 1)..IntMax]
  /\ round \in BOOLEAN
  /\ packets \in 0..Slots /\ data_packets \in 0..packets
  /\ nulls \in 0..(Slots - packets)
  /\ place \in -1..(Slots - 1)
  /\ overtaken \in [Inputs -> SUBSET Inputs]
  /\ dienow \in BOOLEAN

Init == /\ buf = [r \in Inputs |-> <<>>]
        /\ psi = 0
        /\ inpt = N
        /\ seen = [r \in Inputs |-> FALSE]
        /\ needed = [r \in Inputs |-> 0]
        /\ outputed = [r \in Inputs |-> 0]
        /\ round = FALSE
        /\ packets = 0 /\ data_packets = 0 /\ nulls = 0 /\ place = -1
        /\ overtaken = [r \in Inputs |-> {}]
        /\ dienow = FALSE

-----------------------------------------------------------------------------
(* Whose turn it is.                                                       *)

HasPcr(r) == buf[r] # <<>> /\ Head(buf[r]).kind = "pcr"

\* Mutant: the upper boundary is not checked.
RequiredUnbounded(r) == LET g == Head(buf[r]).gap IN
                        IF seen[r] /\ needed[r] = 0
                        THEN IF g < 0 THEN 0 ELSE g
                        ELSE needed[r]

\* Lines 158-167: the distance is computed once per PCR packet, and bounded.
Required(r) == LET g == Head(buf[r]).gap IN
               IF seen[r] /\ needed[r] = 0
               THEN IF g > Slots THEN Slots ELSE IF g < 0 THEN 0 ELSE g
               ELSE needed[r]

\* Mutant: a PCR packet is let go one packet earlier.
HeldTooShort(r) == /\ Moves /\ HasPcr(r)
                   /\ Required(r) > 0
                   /\ outputed[r] + 1 < Required(r)

\* Lines 169-174: its turn has not come, the packet stays in the buffer.
Held(r) == /\ Moves /\ HasPcr(r)
           /\ Required(r) > 0
           /\ outputed[r] < Required(r)

Ready(r)  == buf[r] # <<>> /\ ~Held(r)
Serves(r) == Ready(r) /\ Head(buf[r]) # Pad

\* Mutant: the search starts at the first input every time.
DistanceFromFirst(r) == r

\* How many inputs after the last used one r comes: 1..N.
Distance(r) == IF r > inpt THEN r - inpt ELSE r - inpt + N

\* The input that ends the search, if any: the first one that has a packet.
Server == {r \in Inputs : /\ Serves(r)
                          /\ \A q \in Inputs : Serves(q) => Distance(r) <= Distance(q)}

\* Mutant: the search goes on behind the packet it has found.
VisitedAll == Inputs

\* The inputs looked at: up to the server, or all of them.
Visited == {q \in Inputs : \A r \in Server : Distance(q) <= Distance(r)}

-----------------------------------------------------------------------------
(* The actions.                                                            *)

\* input_buffer_add, called from the input's own thread.  (What comes after
\* dienow is never read: it is left out.  A packet that is refused because
\* the input is disabled or its buffer full is a step not taken.)
InputAdd(r, p) == /\ ~dienow
                  /\ Len(buf[r]) < MaxBuf
                  /\ buf' = [buf EXCEPT ![r] = Append(@, p)]
                  /\ UNCHANGED <<psi, inpt, pcrVars, roundVars, overtaken, dienow>>

\* The PSI thread adds a packet of a table that is due.
PsiAdd == /\ ~dienow
          /\ psi < MaxPsi
          /\ psi' = psi + 1
          /\ UNCHANGED <<buf, inpt, pcrVars, roundVars, overtaken, dienow>>

\* The places of the input buffers that hold a packet.
Queued == {w \in Inputs \X (1..MaxBuf) : w[2] <= Len(buf[w[1]])}

\* Packets in all buffers together.
Waiting == psi + Cardinality(Queued)

\* Mutant: one packet more than there is.
SnapshotOneMore == /\ ~round /\ ~dienow
                   /\ \E p \in 1..Slots : /\ p = IF Waiting < Slots THEN Waiting + 1 ELSE Slots
                                         /\ packets' = p
                   /\ round' = TRUE
                   /\ data_packets' = 0 /\ nulls' = 0 /\ place' = -1
                   /\ UNCHANGED <<buf, psi, inpt, pcrVars, overtaken, dienow>>

\* Lines 71-124: take stock of what there is to send.
Snapshot == /\ ~round /\ ~dienow
            /\ \E p \in 1..Slots : /\ p = IF Waiting < Slots THEN Waiting ELSE Slots
                                  /\ packets' = p
            /\ round' = TRUE
            /\ data_packets' = 0 /\ nulls' = 0 /\ place' = -1
            /\ UNCHANGED <<buf, psi, inpt, pcrVars, overtaken, dienow>>

\* Lines 115-122: with nothing to send the buffer goes out as it is.
NullBatch == /\ ~round /\ ~dienow
             /\ Waiting = 0
             /\ outputed' = [r \in Inputs |-> Int32(outputed[r] + Slots)]
             /\ UNCHANGED <<buf, psi, inpt, seen, needed, roundVars, overtaken, dienow>>

\* Mutant: the count of sent packets is kept per packet read, not per pass.
EndPassCountsReads(read, counted) ==
  LET k == IF read THEN NullsBefore(Slots, packets, data_packets, nulls) ELSE nulls IN
  /\ nulls' = k
  /\ IF read /\ data_packets + k >= Slots
     THEN /\ data_packets' = packets
          /\ outputed' = counted
          /\ UNCHANGED place
     ELSE /\ data_packets' = data_packets + 1
          /\ place' = IF read THEN data_packets + k ELSE place
          /\ outputed' = IF read THEN [r \in Inputs |-> Int32(counted[r] + 1)] ELSE counted
  /\ UNCHANGED <<round, packets, dienow>>

(***************************************************************************)
(* The end of a pass: a packet read is copied to its place and every input *)
(* counts one packet sent, also when no packet was read and the place      *)
(* stays null.  A place beyond the buffer would end the round.             *)
(***************************************************************************)
EndPass(read, counted) ==
  LET k == IF read THEN NullsBefore(Slots, packets, data_packets, nulls) ELSE nulls IN
  /\ nulls' = k
  /\ IF read /\ data_packets + k >= Slots
     THEN /\ data_packets' = packets
          /\ outputed' = counted
          /\ UNCHANGED place
     ELSE /\ data_packets' = data_packets + 1
          /\ place' = IF read THEN data_packets + k ELSE place
          /\ outputed' = [r \in Inputs |-> Int32(counted[r] + 1)]
  /\ UNCHANGED <<round, packets, dienow>>

\* Lines 131-134: PSI goes before everything else.
PassPsi == /\ round /\ ~dienow
           /\ data_packets < packets
           /\ psi > 0
           /\ psi' = psi - 1
           /\ EndPass(TRUE, outputed)
           /\ UNCHANGED <<buf, inpt, seen, needed, overtaken>>

\* Lines 137-217: the next input that has a packet to send, if there is one.
PassInputs ==
  LET took == {r \in Visited : Ready(r)}
      pcrs == {r \in took : Moves /\ HasPcr(r)} IN
  /\ round /\ ~dienow
  /\ data_packets < packets
  /\ psi = 0
  /\ Moves => \E r \in Inputs : buf[r] # <<>>   \* otherwise the pass is repeated
  /\ buf' = [r \in Inputs |-> IF r \in took THEN Tail(buf[r]) ELSE buf[r]]
  /\ inpt' = IF Server = {} THEN inpt ELSE CHOOSE r \in Server : TRUE
  /\ seen' = [r \in Inputs |-> seen[r] \/ r \in pcrs]
  /\ needed' = [r \in Inputs |-> IF r \in pcrs THEN 0
                                 ELSE IF r \in Visited /\ Held(r) THEN Required(r)
                                 ELSE needed[r]]
  /\ overtaken' = [r \in Inputs |-> IF Ready(r) /\ r \notin Server
                                    THEN overtaken[r] \cup Server ELSE {}]
  /\ EndPass(Server # {}, [r \in Inputs |-> IF r \in pcrs THEN 0 ELSE outputed[r]])
  /\ UNCHANGED psi

\* The round is over, or dienow broke it off; its local variables are gone.
EndRound == /\ round
            /\ data_packets = packets \/ dienow
            /\ round' = FALSE
            /\ packets' = 0 /\ data_packets' = 0 /\ nulls' = 0 /\ place' = -1
            /\ UNCHANGED <<buf, psi, inpt, pcrVars, overtaken, dienow>>

\* kill_threads
Kill == /\ ~dienow
        /\ dienow' = TRUE
        /\ UNCHANGED <<buf, psi, inpt, pcrVars, roundVars, overtaken>>

Mixing == Snapshot \/ NullBatch \/ PassPsi \/ PassInputs \/ EndRound

Stopped == dienow /\ ~round /\ UNCHANGED vars

Next == \/ \E r \in Inputs, p \in Packet : InputAdd(r, p)
        \/ PsiAdd
        \/ Mixing
        \/ Kill
        \/ Stopped

Spec == Init /\ [][Next]_vars

\* The MIX thread is scheduled; inputs, PSI and signals owe nothing.
FairSpec == Spec /\ WF_vars(Mixing)
-----------------------------------------------------------------------------
(* Properties.                                                             *)

\* As long as a round has data packets to read there is one in some buffer:
\* the retry of line 219, which keeps the list of inputs locked, is never due.
NothingToReadNever ==
  round /\ data_packets < packets => psi > 0 \/ \E r \in Inputs : buf[r] # <<>>

Takes(r) == Len(buf'[r]) < Len(buf[r])
Reads    == psi' < psi \/ \E r \in Inputs : Takes(r)

\* Packets leave their buffers one at a time, and each gets a place of its own in
\* the output buffer, behind those read before it: none is lost or overwritten.
PlacesWhatItReads ==
  /\ Reads => place' > place /\ place' < Slots
  /\ psi' < psi => \A r \in Inputs : ~Takes(r)
  /\ \A q, r \in Inputs : Takes(q) /\ Takes(r) => q = r

EveryPacketReadIsPlaced == [][PlacesWhatItReads]_vars

\* The last pass has read a packet, and placed it.
LastPassRead == data_packets > 0 /\ place = data_packets - 1 + nulls

\* Nulls and data are mixed in proportion.  Before a data packet the nulls are never
\* short of their share by more than half a packet's, so data comes in no bursts;
\* nor do nulls, if they are the majority.  The minority exceeds its share by less
\* than one if no PCR packet is held; and what held passes leave to be caught up
\* at once is never more than the passes made (output_mix.c:229-236).
MixedInProportion ==
  LET left == Slots - packets
      over == nulls * packets - (data_packets - 1) * left IN
  LastPassRead =>
    /\ 2 * over >= -packets
    /\ packets < left => 2 * over <= packets
    /\ ~Moves => over < packets
    /\ left <= packets => nulls < data_packets

NotTwice ==
  \A q, r \in Inputs :
    (Takes(q) /\ q # r /\ Ready(r) /\ ~Takes(r)) => q \notin overtaken[r]

\* An input with a packet to send is overtaken by another input at most once
\* before its own turn, across rounds too.
FairTurns == [][NotTwice]_vars

\* An input that has packets keeps sending: no PCR packet is held for ever,
\* whatever its distance says and although outputed_packets wraps around.
\* (PSI goes first and could starve the inputs, were it not a trickle.)
EveryInputIsServed ==
  \A r \in Inputs :
    <>[](buf[r] # <<>> /\ psi = 0 /\ ~dienow) => []<><<Takes(r)>>_vars
=============================================================================
