------------------------- MODULE FrameWriterProofs -------------------------
(***************************************************************************)
(* Proofs about the frame writer, for any sizes of packets, frames,        *)
(* buffers and integers, any bitrate and any number of frames.             *)
(***************************************************************************)
EXTENDS FrameWriter, Arithmetic, TLAPS

-----------------------------------------------------------------------------
(* The constants.                                                          *)

LEMMA Constants ==
  /\ Pcrs \subseteq Nat
  /\ PacketSize \in Nat \ {0} /\ FramePackets \in Nat \ {0} /\ RtpHeader \in Nat \ {0}
  /\ BufFrames \in Nat \ {0}
  /\ TickRate \in Nat \ {0} /\ Bitrate \in Nat \ {0}
  /\ SeqMod \in Nat \ {0, 1}
  /\ MaxFrames \in Nat
  /\ Width \in Nat \ {0}
  BY WriterAssumption

LEMMA FrameSizeIsNat == FrameSize \in Nat \ {0}
  BY Constants DEF FrameSize

-----------------------------------------------------------------------------
(* Types, and the counters that go with them.                              *)

Counters == /\ pc \in {"process", "write"} => count < BufFrames
            /\ pc = "recover" => count = 0
            /\ i > 0 => frames < MaxFrames
            /\ pc = "write" => i = FramePackets
            /\ pc \notin {"process", "write"} => i = 0

LEMMA Places ==
  ASSUME TypeOK PROVE Bytes \in Nat /\ delivered \in Nat /\ delivered + i * PacketSize \in Nat
<1>1. i \in Nat /\ frames \in Nat /\ traffic \in Nat /\ delivered \in 0..frames * FrameSize
  BY Constants DEF TypeOK
<1>2. i * PacketSize \in Nat /\ frames * FrameSize \in Nat
  BY <1>1, Constants, FrameSizeIsNat, ProductIsNat
<1>3. delivered \in Nat
  BY <1>1, <1>2
<1>4. QED
  BY <1>1, <1>2, <1>3 DEF Bytes

LEMMA Results ==
  ASSUME TypeOK, NEW net \in BOOLEAN, NEW file \in BOOLEAN
  PROVE  /\ Result(net, file) \in Int
         /\ net \/ (ofd /\ file) => Result(net, file) = FrameSize
         /\ ~(net \/ (ofd /\ file)) => Result(net, file) \in {0, -1}
  BY Constants, FrameSizeIsNat DEF TypeOK, Result, UdpResult, RtpResult, FileResult, Larger

LEMMA TypeInductive ==
  ASSUME TypeOK, Counters, [Next]_vars PROVE TypeOK' /\ Counters'
<1> USE Constants, FrameSizeIsNat DEF TypeOK, Counters
<1>1. ASSUME NEW p \in Pids, NEW pcr \in Pcrs, ProcessPcr(p, pcr) PROVE TypeOK' /\ Counters'
  <2>1. Bytes \in Nat /\ delivered + i * PacketSize \in Nat
    BY Places
  <2>2. NewPcr(p, pcr) \in Nat
    <3>1. TickRate * (Bytes - last_traffic[p]) \in Int
      BY <2>1
    <3>2. Width \in Nat \ {0}
      <4>1. TickRate * ((MaxFrames + 1) * FrameSize) \in Nat
        BY ProductIsNat
      <4>2. QED
        BY <4>1, WriterAssumption
    <3>3. (TickRate * (Bytes - last_traffic[p])) % Width \in Nat
      BY <3>1, <3>2
    <3>4. ((TickRate * (Bytes - last_traffic[p])) % Width) \div Bitrate \in Nat
      BY <3>3, Division
    <3>5. QED
      BY <3>4 DEF NewPcr, Restamped
  <2>3. i' \in 0..FramePackets /\ pcr \in Nat
    BY <1>1 DEF ProcessPcr
  <2>4. /\ last_pcr' \in [Pids -> Nat] /\ last_org_pcr' \in [Pids -> Nat]
        /\ last_traffic' \in [Pids -> Nat]
        /\ stamp' \in [Pids -> [pcr : Nat, pos : Nat]]
    BY <1>1, <2>1, <2>2, <2>3 DEF ProcessPcr
  <2>5. base' \in [Pids -> [pcr : Nat, pos : Nat, n : Nat]]
    <3>1. CASE Follows(p, pcr)
      BY <1>1, <3>1 DEF ProcessPcr
    <3>2. CASE ~Follows(p, pcr)
      BY <1>1, <2>1, <2>3, <3>2 DEF ProcessPcr
    <3>3. QED
      BY <3>1, <3>2
  <2>6. lost' \subseteq Pids /\ present' \subseteq Pids
    BY <1>1 DEF ProcessPcr
  <2>7. QED
    BY <1>1, <2>3, <2>4, <2>5, <2>6 DEF ProcessPcr, sumVars
<1>2. CASE ProcessOther
  BY <1>2 DEF ProcessOther, pcrVars, sumVars, lineVars
<1>3. CASE Processed
  BY <1>3 DEF Processed, pcrVars, sumVars, lineVars
<1>4. ASSUME NEW net \in BOOLEAN, NEW file \in BOOLEAN, WriteFrame(net, file)
      PROVE  TypeOK' /\ Counters'
  <2>1. traffic' \in Nat /\ sum' \in Int
    BY <1>4, Results DEF WriteFrame
  <2>2. seq' \in 0..SeqMod - 1
    BY <1>4 DEF WriteFrame, NextSeq
  <2>3. frames' \in 0..MaxFrames /\ frames' = frames + 1
    BY <1>4 DEF WriteFrame
  <2>4. delivered' \in 0..frames' * FrameSize
    <3>1. (frames + 1) * FrameSize = frames * FrameSize + FrameSize
      BY <2>3
    <3>2. delivered' = delivered \/ delivered' = delivered + FrameSize
      BY <1>4 DEF WriteFrame, Delivery
    <3>3. frames * FrameSize \in Nat
      BY ProductIsNat
    <3>4. QED
      BY <2>3, <3>1, <3>2, <3>3
  <2>5. lost' \subseteq Pids /\ present' \subseteq Pids /\ took' \in BOOLEAN
    BY <1>4 DEF WriteFrame, Delivery
  <2>7. count' \in 0..BufFrames /\ (pc' = "process" => count' < BufFrames)
    BY <1>4 DEF WriteFrame
  <2>8. QED
    BY <1>4, <2>1, <2>2, <2>3, <2>4, <2>5, <2>7 DEF WriteFrame, pcrVars, lineVars
<1>5. CASE EndBuffer
  <2>1. /\ sum' = 0 /\ count' = 0 /\ took' = FALSE /\ pc' \in {"recover", "process"}
        /\ 0 < BufFrames /\ i = 0
    BY <1>5 DEF EndBuffer
  <2>2. sum' \in Int /\ count' \in 0..BufFrames
    BY <2>1
  <2>6. took' \in BOOLEAN
    BY <1>5, Zenon DEF EndBuffer
  <2>3. UNCHANGED <<rtp, ofd, i, last_pcr, last_org_pcr, last_traffic, traffic, seq,
                    frames, delivered, base, stamp, lost, present>>
    BY <1>5 DEF EndBuffer, pcrVars, lineVars
  <2>4. Counters'
    BY <2>1, <2>3
  <2>5. QED
    BY <2>1, <2>2, <2>3, <2>4, <2>6
<1>6. CASE Recover
  BY <1>6 DEF Recover, pcrVars, sumVars, lineVars
<1>7. CASE Stop
  BY <1>7 DEF Stop, pcrVars, sumVars, lineVars
<1>8. CASE Stopped \/ UNCHANGED vars
  BY <1>8 DEF Stopped, vars, pcrVars, sumVars, lineVars
<1>9. QED
  BY <1>1, <1>2, <1>3, <1>4, <1>5, <1>6, <1>7, <1>8 DEF Next

LEMMA TypeInitially == ASSUME Init PROVE TypeOK /\ Counters
<1>1. 0 * FrameSize = 0
  BY FrameSizeIsNat
<1>2. /\ 0 \in 0..FramePackets /\ 0 \in 0..BufFrames /\ 0 \in 0..MaxFrames
      /\ 1 \in 0..SeqMod - 1 /\ 0 \in 0..0 * FrameSize /\ 0 < BufFrames
  BY <1>1, Constants
<1>3. /\ [p \in Pids |-> 0] \in [Pids -> Nat]
      /\ [p \in Pids |-> [pcr |-> 0, pos |-> 0, n |-> 0]]
           \in [Pids -> [pcr : Nat, pos : Nat, n : Nat]]
      /\ [p \in Pids |-> [pcr |-> 0, pos |-> 0]] \in [Pids -> [pcr : Nat, pos : Nat]]
  OBVIOUS
<1>4. TypeOK
  <2>1. took \in BOOLEAN /\ rtp \in BOOLEAN /\ ofd \in BOOLEAN /\ lost \subseteq Pids /\ present \subseteq Pids
    BY DEF Init
  <2>2. pc \in {"process", "write", "end", "recover", "done"}
    BY DEF Init
  <2>3. sum \in Int /\ count \in 0..BufFrames /\ i \in 0..FramePackets /\ traffic \in Nat
        /\ seq \in 0..SeqMod - 1 /\ frames \in 0..MaxFrames
    BY <1>2 DEF Init
  <2>4. delivered \in 0..frames * FrameSize
    BY <1>2 DEF Init
  <2>5. QED
    BY <1>3, <2>1, <2>2, <2>3, <2>4 DEF Init, TypeOK
<1>5. Counters
  BY <1>2 DEF Init, Counters
<1>6. QED
  BY <1>4, <1>5

\* Every variable of the frame writer keeps its type, over any number of wraps of
\* the sequence number and refused frames.
THEOREM TypeCorrect == Spec => []TypeOK
<1>1. ASSUME Init PROVE TypeOK /\ Counters
  BY <1>1, TypeInitially
<1>2. ASSUME TypeOK /\ Counters, [Next]_vars PROVE (TypeOK /\ Counters)'
  BY <1>2, TypeInductive
<1>3. QED
  BY <1>1, <1>2, PTL DEF Spec

-----------------------------------------------------------------------------
(* The restamped PCRs.                                                     *)

\* OUTPUT.traffic is what has been delivered, and of a PID that lost no PCR the
\* writer knows the last one and its place, which is behind the present packet.
Known(p)  == /\ last_pcr[p] = stamp[p].pcr /\ last_traffic[p] = stamp[p].pos
             /\ last_traffic[p] <= IF p \in present THEN Bytes ELSE traffic
Positions == /\ traffic = delivered
             /\ \A p \in Pids \ lost : Known(p) /\ OnLine(p)

\* A PCR that follows another stays on the line of its PID.
LEMMA FollowerOnLine ==
  ASSUME TypeOK, Counters, Positions,
         NEW p \in Pids \ lost, NEW pcr \in Pcrs, ProcessPcr(p, pcr), Follows(p, pcr), ~TooLate(p)
  PROVE  OnLine(p)'
<1> DEFINE d == Bytes - last_traffic[p]
           q == (TickRate * d) \div Bitrate
           b == base[p]
           s == stamp[p]
<1>1. /\ s.pcr \in Nat /\ s.pos \in Nat /\ b.pcr \in Nat /\ b.pos \in Nat /\ b.n \in Nat
      /\ last_pcr[p] = s.pcr /\ last_traffic[p] = s.pos
  BY DEF TypeOK, Positions, Known
<1>2. Bytes \in Nat /\ s.pos <= Bytes
  <2>1. Bytes \in Nat /\ i * PacketSize \in Nat /\ traffic \in Nat
    <3>1. i \in Nat /\ traffic \in Nat
      BY Constants DEF TypeOK
    <3>2. QED
      BY <3>1, Places, Constants, ProductIsNat
  <2>2. traffic <= Bytes
    BY <2>1 DEF Bytes
  <2>3. s.pos <= IF p \in present THEN Bytes ELSE traffic
    BY DEF Positions, Known
  <2>4. QED
    BY <1>1, <2>1, <2>2, <2>3
<1>3. d \in Nat /\ d <= Bytes /\ d = Bytes - s.pos
  BY <1>1, <1>2
<1>4. TickRate * d \in Nat /\ TickRate * d < Width
  <2>1. TickRate * d \in Nat
    BY <1>3, Constants, ProductIsNat
  <2>2. QED
    BY <2>1, Constants DEF TooLate
<1>5. NewPcr(p, pcr) = s.pcr + q
  <2>1. (TickRate * d) % Width = TickRate * d
    BY <1>4, Constants, ModOfSmall
  <2>2. QED
    BY <1>1, <2>1 DEF NewPcr, Restamped
<1>6. q \in Nat /\ TickRate * d - Bitrate * q \in 0..Bitrate - 1
  BY <1>3, Constants, CutOff
<1>7. stamp'[p] = [pcr |-> s.pcr + q, pos |-> Bytes]
  BY <1>5 DEF ProcessPcr, Positions, Bytes, TypeOK
<1>8. base'[p] = [b EXCEPT !.n = @ + 1]
  BY DEF ProcessPcr, TypeOK
<1>9. base'[p].pcr = b.pcr /\ base'[p].pos = b.pos /\ base'[p].n = b.n + 1
  <2>1. b \in [pcr : Nat, pos : Nat, n : Nat]
    BY DEF TypeOK
  <2>2. QED
    BY <1>8, <2>1
<1>10. Lag(p) = TickRate * (s.pos - b.pos) - Bitrate * (s.pcr - b.pcr)
  BY DEF Lag
<1>11. Lag(p)' = TickRate * (Bytes - b.pos) - Bitrate * (s.pcr + q - b.pcr)
  <2>1. Lag(p)' = TickRate * (stamp'[p].pos - base'[p].pos) - Bitrate * (stamp'[p].pcr - base'[p].pcr)
    BY DEF Lag
  <2>2. stamp'[p].pos = Bytes /\ stamp'[p].pcr = s.pcr + q
    BY <1>7
  <2>3. QED
    BY <1>1, <1>2, <1>6, <1>9, <2>1, <2>2, Constants
<1>12. TickRate * (Bytes - b.pos) = TickRate * (s.pos - b.pos) + TickRate * d
  BY <1>1, <1>2, <1>3, Constants
<1>13. Bitrate * (s.pcr + q - b.pcr) = Bitrate * (s.pcr - b.pcr) + Bitrate * q
  BY <1>1, <1>6, Constants
<1>14. (b.n + 1) * (Bitrate - 1) = b.n * (Bitrate - 1) + (Bitrate - 1)
  BY <1>1, Constants
<1>15. /\ TickRate * (s.pos - b.pos) \in Int /\ Bitrate * (s.pcr - b.pcr) \in Int
       /\ Bitrate * q \in Int /\ b.n * (Bitrate - 1) \in Int
  BY <1>1, <1>6, Constants
<1>16. 0 <= Lag(p) /\ Lag(p) <= b.n * (Bitrate - 1)
  BY DEF Positions, OnLine
<1>17. 0 <= Lag(p)' /\ Lag(p)' <= (b.n + 1) * (Bitrate - 1)
  BY <1>4, <1>6, <1>10, <1>11, <1>12, <1>13, <1>14, <1>15, <1>16, Constants
<1>18. QED
  BY <1>9, <1>17 DEF OnLine

LEMMA PositionsInductive ==
  ASSUME TypeOK, Counters, Positions, [Next]_vars PROVE Positions'
<1>1. ASSUME NEW p \in Pids, NEW pcr \in Pcrs, ProcessPcr(p, pcr) PROVE Positions'
  <2>1. /\ i * PacketSize \in Nat /\ (i + 1) * PacketSize = i * PacketSize + PacketSize
        /\ traffic \in Nat /\ Bytes \in Nat
    <3>1. i \in Nat /\ traffic \in Nat
      BY Constants DEF TypeOK
    <3>2. QED
      BY <3>1, Constants, ProductIsNat, Places
  <2>2. Bytes' = Bytes + PacketSize /\ traffic' = delivered' /\ traffic' = traffic
    BY <1>1, <2>1, Constants DEF ProcessPcr, Bytes, Positions
  <2>3. /\ last_pcr'[p] = stamp'[p].pcr /\ last_traffic'[p] = stamp'[p].pos
        /\ last_traffic'[p] = Bytes /\ p \in present'
    BY <1>1 DEF ProcessPcr, TypeOK, Positions, Bytes
  <2>4. Known(p)'
    BY <2>1, <2>2, <2>3, Constants DEF Known
  <2>5. p \notin lost' => OnLine(p)'
    <3>1. CASE Follows(p, pcr)
      <4>1. SUFFICES ASSUME p \notin lost' PROVE OnLine(p)'
        OBVIOUS
      <4>2. p \notin lost /\ ~TooLate(p)
        BY <1>1, <3>1, <4>1 DEF ProcessPcr
      <4>3. QED
        BY <1>1, <3>1, <4>2, FollowerOnLine
    <3>2. CASE ~Follows(p, pcr)
      <4>1. /\ base'[p].pcr = stamp'[p].pcr /\ base'[p].pos = stamp'[p].pos /\ base'[p].n = 0
            /\ stamp'[p].pcr \in Nat /\ stamp'[p].pos \in Nat
        <5>1. delivered + i * PacketSize \in Nat /\ pcr \in Nat
          BY Places, Constants
        <5>2. QED
          BY <1>1, <3>2, <5>1 DEF ProcessPcr, NewPcr, TypeOK
      <4>2. Lag(p)' = TickRate * 0 - Bitrate * 0
        BY <4>1 DEF Lag
      <4>3. Lag(p)' = 0
        BY <4>2, Constants
      <4>4. 0 * (Bitrate - 1) = 0
        BY Constants
      <4>5. QED
        BY <4>1, <4>3, <4>4 DEF OnLine
    <3>3. QED
      BY <3>1, <3>2
  <2>6. ASSUME NEW r \in Pids \ lost', r # p PROVE Known(r)' /\ OnLine(r)'
    <3>1. /\ r \notin lost /\ (r \in present' <=> r \in present)
          /\ last_pcr'[r] = last_pcr[r] /\ last_traffic'[r] = last_traffic[r]
          /\ stamp'[r] = stamp[r] /\ base'[r] = base[r]
      <4>1. base'[r] = base[r]
        BY <1>1, <2>6 DEF ProcessPcr, TypeOK
      <4>2. r \notin lost
        BY <1>1, <2>6 DEF ProcessPcr
      <4>3. QED
        BY <1>1, <2>6, <4>1, <4>2 DEF ProcessPcr, TypeOK
    <3>2. Known(r) /\ OnLine(r) /\ last_traffic[r] \in Nat
      BY <3>1 DEF Positions, TypeOK
    <3>3. OnLine(r)'
      BY <3>1, <3>2 DEF OnLine, Lag
    <3>4. Known(r)'
      BY <2>1, <2>2, <3>1, <3>2, Constants DEF Known
    <3>5. QED
      BY <3>3, <3>4
  <2>7. QED
    BY <2>2, <2>4, <2>5, <2>6 DEF Positions
<1>2. ASSUME ProcessOther PROVE Positions'
  <2>1. /\ i * PacketSize \in Nat /\ (i + 1) * PacketSize = i * PacketSize + PacketSize
        /\ traffic \in Nat
    <3>1. i \in Nat /\ traffic \in Nat
      BY Constants DEF TypeOK
    <3>2. QED
      BY <3>1, Constants, ProductIsNat
  <2>2. /\ UNCHANGED <<last_pcr, last_org_pcr, last_traffic, base, stamp, lost, present,
                       traffic, delivered>>
        /\ Bytes' = Bytes + PacketSize
    BY <1>2, <2>1, Constants DEF ProcessOther, pcrVars, lineVars, Bytes
  <2>3. ASSUME NEW r \in Pids \ lost' PROVE Known(r)' /\ OnLine(r)'
    <3>1. Known(r) /\ OnLine(r) /\ last_traffic[r] \in Nat
      BY <2>2, <2>3 DEF Positions, TypeOK
    <3>2. QED
      BY <2>1, <2>2, <3>1, Constants, Places DEF Known, OnLine, Lag
  <2>4. QED
    BY <2>2, <2>3 DEF Positions
<1>3. ASSUME NEW net \in BOOLEAN, NEW file \in BOOLEAN, WriteFrame(net, file) PROVE Positions'
  <2>1. UNCHANGED <<last_pcr, last_traffic, base, stamp>> /\ present' = {}
    BY <1>3 DEF WriteFrame, pcrVars, lineVars, Delivery
  <2>2. i = FramePackets /\ Bytes = traffic + FrameSize /\ traffic \in Nat
    BY <1>3 DEF WriteFrame, Counters, Bytes, FrameSize, TypeOK
  <2>3. CASE net \/ (ofd /\ file)
    <3>1. lost' = lost /\ delivered' = delivered + FrameSize
      BY <1>3, <2>3 DEF WriteFrame, Delivery
    <3>2. traffic' = traffic + FrameSize
      <4>1. Result(net, file) = FrameSize
        BY <2>3, Results
      <4>2. QED
        BY <1>3, <4>1, FrameSizeIsNat DEF WriteFrame
    <3>3. ASSUME NEW r \in Pids \ lost' PROVE Known(r)' /\ OnLine(r)'
      <4>1. Known(r) /\ OnLine(r) /\ last_traffic[r] \in Nat
        BY <3>1, <3>3 DEF Positions, TypeOK
      <4>2. QED
        BY <2>1, <2>2, <3>2, <4>1, FrameSizeIsNat DEF Known, OnLine, Lag
    <3>4. QED
      BY <3>1, <3>2, <3>3 DEF Positions
  <2>4. CASE ~(net \/ (ofd /\ file))
    <3>1. lost' = lost \cup present /\ delivered' = delivered
      BY <1>3, <2>4 DEF WriteFrame, Delivery
    <3>2. traffic' = traffic
      <4>1. Result(net, file) \in {0, -1}
        BY <2>4, Results
      <4>2. QED
        BY <1>3, <2>2, <4>1 DEF WriteFrame
    <3>3. ASSUME NEW r \in Pids \ lost' PROVE Known(r)' /\ OnLine(r)'
      <4>1. Known(r) /\ OnLine(r) /\ r \notin present
        BY <3>1, <3>3 DEF Positions
      <4>2. QED
        BY <2>1, <3>2, <4>1 DEF Known, OnLine, Lag
    <3>4. QED
      BY <3>1, <3>2, <3>3 DEF Positions
  <2>5. QED
    BY <2>3, <2>4
<1>4. CASE Processed \/ EndBuffer \/ Recover \/ Stop \/ Stopped \/ UNCHANGED vars
  <2>1. UNCHANGED <<i, last_pcr, last_traffic, base, stamp, lost, present, traffic, delivered>>
    BY <1>4 DEF Processed, EndBuffer, Recover, Stop, Stopped, vars, pcrVars, lineVars
  <2>2. QED
    BY <2>1 DEF Positions, Known, OnLine, Lag, Bytes
<1>5. QED
  BY <1>1, <1>2, <1>3, <1>4 DEF Next

LEMMA PositionsInitially == ASSUME Init PROVE Positions
<1>1. TickRate * 0 - Bitrate * 0 = 0 /\ 0 * (Bitrate - 1) = 0
  BY Constants
<1>2. ASSUME NEW p \in Pids PROVE Known(p) /\ OnLine(p)
  <2>1. /\ base[p] = [pcr |-> 0, pos |-> 0, n |-> 0] /\ stamp[p] = [pcr |-> 0, pos |-> 0]
        /\ last_pcr[p] = 0 /\ last_traffic[p] = 0 /\ present = {} /\ traffic = 0
    BY DEF Init
  <2>2. Lag(p) = TickRate * 0 - Bitrate * 0
    BY <2>1 DEF Lag
  <2>3. QED
    BY <1>1, <2>1, <2>2 DEF Known, OnLine
<1>3. QED
  BY <1>2 DEF Init, Positions

\* For any packet and frame size and any bitrate, the PCRs of a PID that lost none
\* to a refused frame and made no pause of hours lie on the line of the output bitrate, less than a tick
\* short for each PCR since the line began (output_write.c:66-75).
THEOREM PcrsFollowPosition == Spec => []RestampFollowsPosition
<1>1. ASSUME Init PROVE TypeOK /\ Counters /\ Positions
  BY <1>1, TypeInitially, PositionsInitially
<1>2. ASSUME TypeOK /\ Counters /\ Positions, [Next]_vars PROVE (TypeOK /\ Counters /\ Positions)'
  BY <1>2, TypeInductive, PositionsInductive
<1>3. ASSUME Positions PROVE RestampFollowsPosition
  BY <1>3 DEF Positions, RestampFollowsPosition
<1>4. QED
  BY <1>1, <1>2, <1>3, PTL DEF Spec

=============================================================================
