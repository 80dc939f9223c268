---------------------------- MODULE FrameWriter ----------------------------
(***************************************************************************)
(* What WRITE does with a frame: ts_frame_process (output_write.c:50-104)  *)
(* rewrites the PCRs in it, packet by packet; ts_frame_write or            *)
(* ts_frame_write_rtp (lines 107-180) gives it to the socket and to the    *)
(* output file and counts what went out.  After the frames of a buffer the *)
(* results are looked at together (lines 281-287).  How the buffers come   *)
(* here is told by OutputBuffers.  PCR modes 2 and 3: the others touch no  *)
(* PCR here.  Statistics and sleeps are left out.                          *)
(*                                                                         *)
(* The bytes of the output are counted from its start.  PCRs are stamped   *)
(* in ticks of 27 MHz: OUTPUT.output_bitrate bits, or an eighth of it in   *)
(* bytes, take TickRate ticks.                                             *)
(***************************************************************************)
EXTENDS Integers

CONSTANTS Pids,          \* PIDs that carry PCRs
          Pcrs,          \* PCR values in the packets MIX delivers
          PacketSize,    \* TS_PACKET_SIZE
          FramePackets,  \* FRAME_PACKET_SIZE / TS_PACKET_SIZE
          RtpHeader,     \* RTP_HEADER_SIZE
          BufFrames,     \* frames of an output buffer
          TickRate,      \* 8 * 27000000
          Bitrate,       \* OUTPUT.output_bitrate
          Width,         \* 2^64, for uint64_t
          SeqMod,        \* 2^16, for rtp_sequence_number
          MaxFrames      \* bound: frames written in all

FrameSize == FramePackets * PacketSize

ASSUME WriterAssumption ==
  /\ Pcrs \subseteq Nat
  /\ PacketSize \in Nat \ {0} /\ FramePackets \in Nat \ {0} /\ RtpHeader \in Nat \ {0}
  /\ BufFrames \in Nat \ {0}
  /\ TickRate \in Nat \ {0} /\ Bitrate \in Nat \ {0}
  /\ SeqMod \in Nat \ {0, 1}
  /\ MaxFrames \in Nat
  /\ Width \in Nat \ {0}

VARIABLES
  rtp,           \* OUTPUT.rtp_ssrc # 0
  ofd,           \* OUTPUT.ofd # 0: there is an output file
  pc,            \* what WRITE does next
  i,             \* ts_frame_process: packets of the frame done
  sum, count,    \* results of the frames of this buffer, and their number
  last_pcr, last_org_pcr, last_traffic,  \* as in OUTPUT
  traffic,       \* OUTPUT.traffic
  seq,           \* OUTPUT.rtp_sequence_number
  \* history
  frames,        \* frames written in all
  delivered,     \* payload bytes that reached socket or file
  base,          \* of each PID: the PCR its line starts from, how many followed on it
  stamp,         \* of each PID: the last PCR and its place in the output
  lost,          \* PIDs that left their line: a PCR of theirs got lost, or a long pause
  present,       \* PIDs with a PCR in the present frame
  took           \* the socket took a frame of this buffer

pcrVars  == <<last_pcr, last_org_pcr, last_traffic>>
lineVars == <<base, stamp>>
sumVars  == <<sum, count, took>>
vars == <<rtp, ofd, pc, i, pcrVars, traffic, seq, sumVars, frames, delivered,
          lineVars, lost, present>>

TypeOK ==
  /\ rtp \in BOOLEAN /\ ofd \in BOOLEAN
  /\ pc \in {"process", "write", "end", "recover", "done"}
  /\ i \in 0..FramePackets
  /\ sum \in Int /\ count \in 0..BufFrames /\ took \in BOOLEAN
  /\ last_pcr \in [Pids -> Nat] /\ last_org_pcr \in [Pids -> Nat]
  /\ last_traffic \in [Pids -> Nat]
  /\ traffic \in Nat /\ seq \in 0..SeqMod - 1
  /\ frames \in 0..MaxFrames /\ delivered \in 0..frames * FrameSize
  /\ base \in [Pids -> [pcr : Nat, pos : Nat, n : Nat]]
  /\ stamp \in [Pids -> [pcr : Nat, pos : Nat]]
  /\ lost \subseteq Pids /\ present \subseteq Pids

\* output_new, and config.c:464.
Init ==
  /\ rtp \in BOOLEAN /\ ofd \in BOOLEAN
  /\ pc = "process" /\ i = 0
  /\ sum = 0 /\ count = 0 /\ took = FALSE
  /\ last_pcr = [p \in Pids |-> 0]
  /\ last_org_pcr = [p \in Pids |-> 0]
  /\ last_traffic = [p \in Pids |-> 0]
  /\ traffic = 0 /\ seq = 1
  /\ frames = 0 /\ delivered = 0
  /\ base = [p \in Pids |-> [pcr |-> 0, pos |-> 0, n |-> 0]]
  /\ stamp = [p \in Pids |-> [pcr |-> 0, pos |-> 0]]
  /\ lost = {} /\ present = {}

-----------------------------------------------------------------------------
(* ts_frame_process.                                                       *)

\* o->traffic + i
Bytes == traffic + i * PacketSize

\* Line 73: unsigned arithmetic, and the double is cut off when it is stored.
Restamped(p) ==
  last_pcr[p] + ((TickRate * (Bytes - last_traffic[p])) % Width) \div Bitrate

\* A PCR follows the last one of its PID unless there is none (0) or the source's
\* PCRs have gone back.
Follows(p, pcr) == last_pcr[p] # 0 /\ last_org_pcr[p] < pcr

\* So many bytes after the last PCR that the product of line 73 exceeds 64 bits.
TooLate(p) == TickRate * (Bytes - last_traffic[p]) >= Width

NewPcr(p, pcr) == IF Follows(p, pcr) THEN Restamped(p) ELSE pcr

ProcessPcr(p, pcr) ==
  LET place == delivered + i * PacketSize IN
  /\ pc = "process" /\ i < FramePackets /\ frames < MaxFrames
  /\ i' = i + 1
  /\ last_pcr' = [last_pcr EXCEPT ![p] = NewPcr(p, pcr)]
  /\ last_org_pcr' = [last_org_pcr EXCEPT ![p] = pcr]
  /\ last_traffic' = [last_traffic EXCEPT ![p] = Bytes]
  /\ stamp' = [stamp EXCEPT ![p] = [pcr |-> NewPcr(p, pcr), pos |-> place]]
  /\ IF Follows(p, pcr)
     THEN /\ base' = [base EXCEPT ![p].n = @ + 1]
          /\ lost' = IF TooLate(p) THEN lost \cup {p} ELSE lost
     ELSE base' = [base EXCEPT ![p] = [pcr |-> pcr, pos |-> place, n |-> 0]]
          /\ lost' = lost \ {p}
  /\ present' = present \cup {p}
  /\ UNCHANGED <<rtp, ofd, pc, sumVars, traffic, seq, frames, delivered>>

\* A packet without PCR.
ProcessOther ==
  /\ pc = "process" /\ i < FramePackets /\ frames < MaxFrames
  /\ i' = i + 1
  /\ UNCHANGED <<rtp, ofd, pc, pcrVars, sumVars, traffic, seq, frames, delivered,
                 lineVars, lost, present>>

Processed ==
  /\ pc = "process" /\ i = FramePackets
  /\ pc' = "write"
  /\ UNCHANGED <<rtp, ofd, i, pcrVars, sumVars, traffic, seq, frames, delivered,
                 lineVars, lost, present>>

-----------------------------------------------------------------------------
(* ts_frame_write and ts_frame_write_rtp.  net and file say whether socket *)
(* and file take the frame; both take it whole or not at all.              *)

\* written2 of either function: without a file nothing is refused.
FileResult(file) == IF ~ofd THEN 0 ELSE IF file THEN FrameSize ELSE -1

Larger(a, b) == IF b > a THEN b ELSE a

UdpResult(net, file) == Larger(IF net THEN FrameSize ELSE -1, FileResult(file))

\* Mutant: the header is counted as traffic.
RtpResultWithHeader(net, file) ==
  IF net THEN FrameSize + RtpHeader ELSE FileResult(file)

\* The header is no traffic; the file gets the payload alone.
RtpResult(net, file) ==
  LET sent    == IF net THEN FrameSize + RtpHeader ELSE -1
      written == IF FileResult(file) > sent THEN FileResult(file) + RtpHeader ELSE sent
  IN  IF written >= RtpHeader THEN written - RtpHeader ELSE written

Result(net, file) == IF rtp THEN RtpResult(net, file) ELSE UdpResult(net, file)

\* Mutant: the sequence number is wider than in the header.
NextSeqWide == IF rtp THEN seq + 1 ELSE seq

\* Every frame uses up a sequence number, also one that is refused.
NextSeq == IF rtp THEN (seq + 1) % SeqMod ELSE seq

\* What socket and receiver make of it (history).
Delivery(net, file) ==
  LET out == net \/ (ofd /\ file) IN
  /\ delivered' = IF out THEN delivered + FrameSize ELSE delivered
  /\ lost' = IF out THEN lost ELSE lost \cup present
  /\ present' = {}
  /\ took' = (took \/ net)

WriteFrame(net, file) ==
  /\ pc = "write"
  /\ traffic' = IF Result(net, file) < 0 THEN traffic ELSE traffic + Result(net, file)
  /\ seq' = NextSeq
  /\ sum' = sum + Result(net, file)
  /\ count' = count + 1
  /\ frames' = frames + 1
  /\ Delivery(net, file)
  /\ pc' = IF count + 1 < BufFrames THEN "process" ELSE "end"
  /\ i' = 0
  /\ UNCHANGED <<rtp, ofd, pcrVars, lineVars>>

\* The buffer is reset; a negative sum calls for a new connection.
EndBuffer ==
  /\ pc = "end"
  /\ pc' = IF sum < 0 THEN "recover" ELSE "process"
  /\ sum' = 0 /\ count' = 0 /\ took' = FALSE
  /\ UNCHANGED <<rtp, ofd, i, pcrVars, traffic, seq, frames, delivered,
                 lineVars, lost, present>>

\* connect_output, which ends the process when it fails.
Recover ==
  /\ pc = "recover"
  /\ pc' \in {"process", "done"}
  /\ UNCHANGED <<rtp, ofd, i, pcrVars, sumVars, traffic, seq, frames, delivered,
                 lineVars, lost, present>>

\* dienow is looked at before each frame.
Stop ==
  /\ pc = "process" /\ i = 0
  /\ pc' = "done"
  /\ UNCHANGED <<rtp, ofd, i, pcrVars, sumVars, traffic, seq, frames, delivered,
                 lineVars, lost, present>>

Stopped == pc = "done" /\ UNCHANGED vars

Next == \/ \E p \in Pids, pcr \in Pcrs : ProcessPcr(p, pcr)
        \/ ProcessOther
        \/ Processed
        \/ \E net, file \in BOOLEAN : WriteFrame(net, file)
        \/ EndBuffer
        \/ Recover
        \/ Stop
        \/ Stopped

Spec == Init /\ [][Next]_vars

-----------------------------------------------------------------------------
(* Properties.                                                             *)

\* How far the last PCR of a PID lags behind the line through its base, in ticks
\* times Bitrate: the line PCRs lie on when TickRate ticks take Bitrate/8 bytes.
Lag(p) == TickRate * (stamp[p].pos - base[p].pos) - Bitrate * (stamp[p].pcr - base[p].pcr)

\* Each rewritten PCR is cut off to whole ticks, so it may lose a part of a tick.
OnLine(p) == 0 <= Lag(p) /\ Lag(p) <= base[p].n * (Bitrate - 1)

\* PCRs rewritten in modes 2 and 3 tell the time their bytes take at the output
\* bitrate (output_write.c:73), whatever the source's PCRs say, over RTP as over
\* UDP, also when frames are refused: for a PID none of whose PCRs was lost so or
\* came 2^64 / (8 * 27000000) bytes (five hours at 38 Mbps) after the one before.
RestampFollowsPosition == \A p \in Pids \ lost : OnLine(p)

\* "Perfect PCR restamping" (README:38): so do those of every other PID.
PerfectRestamping == \A p \in Pids : OnLine(p)

\* A buffer none of whose frames the socket took makes WRITE say "Error writing
\* into output socket" and connect again (output_write.c:281-287).
SocketErrorsAreNoticed == [][pc = "end" /\ ~took => pc' = "recover"]_vars
=============================================================================
