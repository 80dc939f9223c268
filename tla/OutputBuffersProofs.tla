------------------------ MODULE OutputBuffersProofs ------------------------
(***************************************************************************)
(* Proofs about the output buffers, for every buffer size, every set of    *)
(* contents and both settings of write_output_network.                     *)
(***************************************************************************)
EXTENDS OutputBuffers, SequenceTheorems, TLAPS

USE FramesAssumption, NetworkAssumption

\* Each state a status announces is the doing of the thread that is there.
StatusMatchesPlaces ==
  \A b \in Buf :
    /\ status[b] = "filling"
         <=> (mixPc \in {"fill", "publish"} /\ mixBuf = b)
    /\ status[b] = "emptying"
         => (writePc \in {"send", "release", "done"} /\ writeBuf = b)
    /\ (writePc \in {"send", "release"} /\ writeBuf = b)
         => status[b] = "emptying"
    /\ (mixPc = "mark" /\ mixBuf = b) => status[b] = "empty"
    /\ (writePc = "mark" /\ writeBuf = b) => status[b] = "full"

ForWrite(b) == status[b] \in {"full", "emptying"}

\* MIX is at most two buffers ahead of WRITE, and never behind: at the same
\* buffer either both buffers are to be sent or none is.
Turns ==
  IF mixBuf = writeBuf
  THEN \/ ForWrite(writeBuf) /\ status[Other(writeBuf)] = "full"
       \/ ~ForWrite(writeBuf) /\ status[Other(writeBuf)] = "empty"
  ELSE ForWrite(writeBuf) /\ ~ForWrite(mixBuf)

\* What a buffer holds besides the payload of the current batch.
Leftovers ==
  /\ \A b \in Buf : status[b] = "empty" => frame[b] = Wiped
  /\ \A b \in Buf : status[b] # "emptying" => written[b] = 0
  /\ writePc = "release" => frame[writeBuf] = Wiped

\* How many refusals in a row there can be: fewer than a buffer's frames left over
\* from the buffer before, and those of the buffer being sent, of which only an
\* unbroken row since its first frame goes on with the old ones.
RefusedSoFar ==
  LET sent == written[writeBuf] IN
  /\ refused \in Nat
  /\ ~Network => refused = 0
  /\ refused < 2 * Frames
  /\ ~exited /\ writePc \in {"top", "wait", "mark"} => refused < Frames
  /\ writePc = "send" /\ accepted  => refused < sent
  /\ writePc = "send" /\ ~accepted => refused < Frames + sent
  /\ writePc = "release" /\ accepted => refused < Frames

IInv == TypeOK /\ StatusMatchesPlaces /\ Turns /\ Leftovers /\ RefusedSoFar

-----------------------------------------------------------------------------
\* The types are inductive by themselves.
LEMMA TypeStep == TypeOK /\ [Next]_vars => TypeOK'
<1> SUFFICES ASSUME TypeOK, [Next]_vars PROVE TypeOK'
  OBVIOUS
<1> USE DEF TypeOK, Buf, Status, MixPc, WritePc, Content, mixVars, writeVars, vars
<1>1. ASSUME Mix PROVE TypeOK'
  <2>1. CASE MixTop \/ MixWait \/ MixStop \/ MixRoundEnds
    BY <2>1 DEF MixTop, MixWait, MixStop, MixRoundEnds, MixGoto
  <2>2. CASE MixMark
    BY <2>2 DEF MixMark
  <2>3. CASE MixPublish
    BY <2>3 DEF MixPublish, Other
  <2>4. ASSUME NEW k \in 1..Frames, NEW p \in Payload, MixPut(k, p) PROVE TypeOK'
    BY <2>4 DEF MixPut
  <2>5. QED
    BY <1>1, <2>1, <2>2, <2>3, <2>4 DEF Mix
<1>2. ASSUME Write PROVE TypeOK'
  <2>1. CASE WriteTop \/ WriteWait \/ WriteStop
    BY <2>1 DEF WriteTop, WriteWait, WriteStop, WriteGoto
  <2>2. CASE WriteMark
    BY <2>2 DEF WriteMark
  <2>3. CASE WriteWipe
    BY <2>3 DEF WriteWipe, Wiped
  <2>4. CASE WriteRelease
    BY <2>4 DEF WriteRelease, Other
  <2>5. CASE WriteRecover
    <3>1. sock' \in {"open", "closed"} /\ refused' \in Nat /\ writePc' \in WritePc
      BY <2>5 DEF WriteRecover
    <3>2. exited' \in BOOLEAN
      BY <2>5, Zenon DEF WriteRecover
    <3>3. UNCHANGED <<status, written, frame, mixVars, writeBuf, accepted, wire, dienow>>
      BY <2>5 DEF WriteRecover
    <3>4. QED
      BY <3>1, <3>2, <3>3
  <2>6. ASSUME NEW ok \in BOOLEAN, WriteFrame(ok) PROVE TypeOK'
    <3>1. /\ written[writeBuf] + 1 \in 1..Frames
          /\ frame[writeBuf][written[writeBuf] + 1] \in Payload \cup {Null}
      BY <2>6 DEF WriteFrame
    <3>2. accepted' \in BOOLEAN
      BY <2>6 DEF WriteFrame
    <3>3. QED
      BY <2>6, <3>1, <3>2 DEF WriteFrame
  <2>7. QED
    BY <1>2, <2>1, <2>2, <2>3, <2>4, <2>5, <2>6 DEF Write
<1>3. CASE Kill
  BY <1>3 DEF Kill
<1>4. CASE UNCHANGED vars
  BY <1>4
<1>5. QED
  BY <1>1, <1>2, <1>3, <1>4 DEF Next, Terminated

LEMMA InitIInv == Init => IInv
<1> SUFFICES ASSUME Init PROVE IInv
  OBVIOUS
<1> USE DEF Init, Buf
<1>1. TypeOK
  <2>1. frame \in [Buf -> [1..Frames -> Content]]
    BY DEF Wiped, Content
  <2>2. written \in [Buf -> 0..Frames] /\ wire \in [pos : 0..Frames, frame : Content]
    BY DEF Content
  <2>3. status \in [Buf -> Status] /\ mixPc \in MixPc /\ writePc \in WritePc
    BY DEF Status, MixPc, WritePc
  <2>4. QED
    BY <2>1, <2>2, <2>3 DEF TypeOK
<1>2. StatusMatchesPlaces /\ Turns /\ RefusedSoFar
  BY DEF StatusMatchesPlaces, Turns, ForWrite, RefusedSoFar, Other
<1>3. Leftovers
  BY DEF Leftovers
<1>4. QED
  BY <1>1, <1>2, <1>3 DEF IInv

-----------------------------------------------------------------------------
\* A step of MIX keeps the invariant: it acts on an empty or filling buffer.
LEMMA MixStep == IInv /\ Mix /\ ~exited => StatusMatchesPlaces' /\ Turns' /\ Leftovers'
<1> SUFFICES ASSUME IInv, Mix, ~exited
             PROVE  StatusMatchesPlaces' /\ Turns' /\ Leftovers'
  OBVIOUS
<1> USE DEF IInv, TypeOK, Buf, Other, mixVars, writeVars
<1>1. CASE MixTop \/ MixStop \/ MixRoundEnds
  BY <1>1 DEF MixTop, MixStop, MixRoundEnds, MixGoto, StatusMatchesPlaces,
              Turns, ForWrite, Leftovers
<1>2. CASE MixWait
  BY <1>2 DEF MixWait, MixGoto, StatusMatchesPlaces, Turns, ForWrite,
              Leftovers
<1>3. CASE MixMark
  <2>1. StatusMatchesPlaces' /\ Turns'
    BY <1>3 DEF MixMark, StatusMatchesPlaces, Turns, ForWrite
  <2>2. Leftovers'
    BY <1>3 DEF MixMark, StatusMatchesPlaces, Leftovers, Wiped
  <2>3. QED
    BY <2>1, <2>2
<1>4. ASSUME NEW k \in 1..Frames, NEW p \in Payload, MixPut(k, p)
      PROVE  StatusMatchesPlaces' /\ Turns' /\ Leftovers'
  <2>1. StatusMatchesPlaces' /\ Turns'
    BY <1>4 DEF MixPut, StatusMatchesPlaces, Turns, ForWrite
  <2>2. status[mixBuf] = "filling" /\ (writePc = "release" => writeBuf # mixBuf)
    BY <1>4 DEF MixPut, StatusMatchesPlaces
  <2>3. \A b \in Buf : b # mixBuf => frame'[b] = frame[b]
    BY <1>4 DEF MixPut
  <2>4. Leftovers'
    BY <1>4, <2>2, <2>3 DEF MixPut, Leftovers, Wiped
  <2>5. QED
    BY <2>1, <2>4
<1>5. CASE MixPublish
  <2>1. StatusMatchesPlaces' /\ Turns'
    BY <1>5 DEF MixPublish, StatusMatchesPlaces, Turns, ForWrite
  <2>2. Leftovers'
    BY <1>5 DEF MixPublish, StatusMatchesPlaces, Leftovers, Wiped
  <2>3. QED
    BY <2>1, <2>2
<1>6. QED
  BY <1>1, <1>2, <1>3, <1>4, <1>5 DEF Mix

\* A step of WRITE keeps the invariant: it acts on a full or emptying buffer.
LEMMA WriteStep == IInv /\ Write /\ ~exited => StatusMatchesPlaces' /\ Turns' /\ Leftovers'
<1> SUFFICES ASSUME IInv, Write, ~exited
             PROVE  StatusMatchesPlaces' /\ Turns' /\ Leftovers'
  OBVIOUS
<1> USE DEF IInv, TypeOK, Buf, Other, mixVars, writeVars
<1>1. CASE WriteTop \/ WriteWait \/ WriteStop
  BY <1>1 DEF WriteTop, WriteWait, WriteStop, WriteGoto, StatusMatchesPlaces,
              Turns, ForWrite, Leftovers
<1>2. CASE WriteMark
  <2>1. StatusMatchesPlaces' /\ Turns'
    BY <1>2 DEF WriteMark, StatusMatchesPlaces, Turns, ForWrite
  <2>2. Leftovers'
    BY <1>2 DEF WriteMark, StatusMatchesPlaces, Leftovers, Wiped
  <2>3. QED
    BY <2>1, <2>2
<1>3. ASSUME NEW ok \in BOOLEAN, WriteFrame(ok)
      PROVE  StatusMatchesPlaces' /\ Turns' /\ Leftovers'
  <2>1. StatusMatchesPlaces' /\ Turns'
    BY <1>3 DEF WriteFrame, StatusMatchesPlaces, Turns, ForWrite
  <2>2. Leftovers'
    BY <1>3 DEF WriteFrame, StatusMatchesPlaces, Leftovers, Wiped
  <2>3. QED
    BY <2>1, <2>2
<1>4. CASE WriteWipe
  <2>1. StatusMatchesPlaces' /\ Turns'
    BY <1>4 DEF WriteWipe, StatusMatchesPlaces, Turns, ForWrite
  <2>2. Wiped' = Wiped
    BY DEF Wiped
  <2>3. Leftovers'
    BY <1>4, <2>2 DEF WriteWipe, Leftovers
  <2>4. QED
    BY <2>1, <2>3
<1>5. CASE WriteRelease
  <2>1. StatusMatchesPlaces' /\ Turns'
    BY <1>5 DEF WriteRelease, StatusMatchesPlaces, Turns, ForWrite
  <2>2. Leftovers'
    BY <1>5 DEF WriteRelease, StatusMatchesPlaces, Leftovers, Wiped
  <2>3. QED
    BY <2>1, <2>2
<1>6. CASE WriteRecover
  BY <1>6 DEF WriteRecover, StatusMatchesPlaces, Turns, ForWrite, Leftovers,
              Wiped
<1>7. QED
  BY <1>1, <1>2, <1>3, <1>4, <1>5, <1>6 DEF Write

\* Only a frame, the switch to the next buffer and a new connection count.
LEMMA RefusalStep == IInv /\ [Next]_vars => RefusedSoFar'
<1> SUFFICES ASSUME IInv, [Next]_vars PROVE RefusedSoFar'
  OBVIOUS
<1> USE DEF IInv, RefusedSoFar
<1>0. writeBuf \in Buf /\ accepted \in BOOLEAN /\ written \in [Buf -> 0..Frames]
  BY DEF TypeOK
<1>1. CASE ~exited /\ Mix
  <2>1. UNCHANGED <<writePc, writeBuf, accepted, refused, exited, written>>
    BY <1>1 DEF Mix, MixTop, MixWait, MixStop, MixRoundEnds, MixGoto, MixMark, MixPut,
                MixPublish, writeVars
  <2>2. QED
    BY <2>1
<1>2. CASE ~exited /\ (WriteTop \/ WriteWait \/ WriteStop)
  BY <1>2, <1>0 DEF WriteTop, WriteWait, WriteStop, WriteGoto
<1>3. CASE ~exited /\ WriteMark
  <2>1. written[writeBuf] = 0
    BY <1>0, <1>3 DEF WriteMark, StatusMatchesPlaces, Leftovers
  <2>2. QED
    BY <1>0, <1>3, <2>1 DEF WriteMark
<1>4. ASSUME ~exited, NEW ok \in BOOLEAN, WriteFrame(ok) PROVE RefusedSoFar'
  <2>1. /\ written'[writeBuf] = written[writeBuf] + 1 /\ writeBuf' = writeBuf
        /\ written[writeBuf] \in 0..Frames /\ written[writeBuf] + 1 <= Frames
    BY <1>0, <1>4 DEF WriteFrame
  <2>2. accepted' <=> (ok \/ accepted)
    BY <1>4, Zenon DEF WriteFrame
  <2>3. /\ writePc = "send" /\ writePc' = "send"
        /\ refused' = IF Network /\ ~ok THEN refused + 1 ELSE 0
    BY <1>4 DEF WriteFrame
  <2>4. QED
    BY <2>1, <2>2, <2>3
<1>5. CASE ~exited /\ WriteWipe
  BY <1>0, <1>5 DEF WriteWipe
<1>6. CASE ~exited /\ WriteRelease
  BY <1>0, <1>6 DEF WriteRelease
<1>7. CASE ~exited /\ WriteRecover
  BY <1>0, <1>7 DEF WriteRecover
<1>8. CASE Kill \/ UNCHANGED vars
  BY <1>8 DEF Kill, vars, writeVars
<1>9. QED
  BY <1>1, <1>2, <1>3, <1>4, <1>5, <1>6, <1>7, <1>8 DEF Next, Write, Terminated

LEMMA IndStep == IInv /\ [Next]_vars => IInv'
<1> SUFFICES ASSUME IInv, [Next]_vars PROVE IInv'
  OBVIOUS
<1>1. TypeOK'
  BY TypeStep DEF IInv
<1>2. CASE Kill \/ UNCHANGED vars
  BY <1>1, <1>2 DEF Kill, IInv, vars, mixVars, writeVars, StatusMatchesPlaces,
                    Turns, ForWrite, Leftovers, Wiped, RefusedSoFar
<1>3. QED
  BY <1>1, <1>2, MixStep, WriteStep, RefusalStep DEF Next, Terminated, IInv

THEOREM Invariance == Spec => []IInv
  BY InitIInv, IndStep, PTL DEF Spec

-----------------------------------------------------------------------------
\* The type invariant, for every buffer size and set of contents.
THEOREM TypeCorrect == Spec => []TypeOK
<1>1. IInv => TypeOK
  BY DEF IInv
<1>2. QED
  BY <1>1, Invariance, PTL

\* MIX and WRITE never work on the same obuf, although only the status field
\* keeps them apart.
THEOREM BuffersAreNotShared == Spec => []NoSharedBuffer
<1>1. IInv => NoSharedBuffer
  BY DEF IInv, TypeOK, StatusMatchesPlaces, NoSharedBuffer, MixUses, WriteUses
<1>2. QED
  BY <1>1, Invariance, PTL

\* A buffer handed back to MIX holds null packets only.
THEOREM EmptyBuffersAreWiped == Spec => []EmptyIsWiped
<1>1. IInv => EmptyIsWiped
  BY DEF IInv, Leftovers, EmptyIsWiped
<1>2. QED
  BY <1>1, Invariance, PTL

\* A dead connection is given up before it has refused two buffers' worth of frames
\* in a row, for every size of the buffers and every pattern of refusals.
THEOREM DeadSocketIsNoticed == Spec => []DeadSocketIsReplaced
<1>1. IInv => DeadSocketIsReplaced
  BY DEF IInv, RefusedSoFar, DeadSocketIsReplaced
<1>2. QED
  BY <1>1, Invariance, PTL
-----------------------------------------------------------------------------
(* Short sequences.                                                        *)

LEMMA PairEqual ==
  ASSUME NEW x, NEW y, NEW t \in Seq({x, y}), Len(t) = 2, t[1] = x, t[2] = y
  PROVE  t = <<x, y>>
<1>1. /\ <<x, y>> \in Seq({x, y})
      /\ Len(<<x, y>>) = 2 /\ <<x, y>>[1] = x /\ <<x, y>>[2] = y
  OBVIOUS
<1>2. \A i \in 1..Len(t) : i = 1 \/ i = 2
  OBVIOUS
<1>3. \A i \in 1..Len(t) : t[i] = <<x, y>>[i]
  BY <1>1, <1>2
<1>4. QED
  BY <1>1, <1>3, SeqEqual

LEMMA AppendSecond ==
  ASSUME NEW x, NEW y
  PROVE  Append(<<x>>, y) = <<x, y>>
<1> DEFINE S == {x, y}
<1>1. <<x>> \in Seq(S) /\ y \in S
  OBVIOUS
<1> HIDE DEF S
<1>2. PICK t : t = Append(<<x>>, y)
  OBVIOUS
<1>3. t \in Seq(S) /\ Len(t) = 2 /\ t[1] = x /\ t[2] = y
  BY <1>1, <1>2, AppendProperties
<1>4. QED
  BY <1>2, <1>3, PairEqual DEF S

LEMMA ShortTails ==
  ASSUME NEW x, NEW y
  PROVE  Tail(<<x>>) = <<>> /\ Tail(<<x, y>>) = <<y>> /\ <<x>> # <<>> /\ <<x, y>> # <<>>
  OBVIOUS

-----------------------------------------------------------------------------
(* The two buffers implement the queue of batches.                         *)

LEMMA RefinementStep == IInv /\ [Next]_vars => [FQ!Next]_(FQ!vars)
<1> SUFFICES ASSUME IInv, [Next]_vars PROVE FQ!Next \/ UNCHANGED FQ!vars
  OBVIOUS
<1> USE DEF IInv, TypeOK, Buf, Other, mixVars, writeVars
<1>1. CASE UNCHANGED vars \/ Kill
  BY <1>1 DEF vars, Kill, Queue, Sent, Outstanding, FQ!vars
<1>2. CASE MixTop \/ MixWait \/ MixStop \/ MixRoundEnds
  BY <1>2 DEF MixTop, MixWait, MixStop, MixRoundEnds, MixGoto, Queue, Sent,
              Outstanding, FQ!vars
<1>3. CASE MixMark
  BY <1>3 DEF MixMark, Queue, Sent, Outstanding, StatusMatchesPlaces, FQ!vars
<1>4. ASSUME NEW k \in 1..Frames, NEW p \in Payload, MixPut(k, p) PROVE UNCHANGED FQ!vars
  BY <1>4 DEF MixPut, Queue, Sent, Outstanding, StatusMatchesPlaces, FQ!vars
<1>5. CASE MixPublish
  <2>1. PICK m \in Buf : m = mixBuf
    OBVIOUS
  <2>2. frame[m] \in FQ!Batch
    BY <2>1 DEF FQ!Batch, FQ!Content, Content
  <2>3. /\ status[m] = "filling" /\ (writePc = "release" => writeBuf # m)
        /\ status' = [status EXCEPT ![m] = "full"]
        /\ UNCHANGED <<frame, written, writePc, writeBuf, wire>>
    BY <1>5, <2>1 DEF MixPublish, StatusMatchesPlaces
  <2>4. UNCHANGED Sent
    BY <2>3 DEF Sent
  <2>5. CASE m = writeBuf
    <3>1. Queue = <<>> /\ Queue' = <<frame[m]>>
      BY <2>1, <2>3, <2>5 DEF Queue, Outstanding, Turns, ForWrite
    <3>2. QED
      BY <2>2, <2>3, <2>4, <3>1 DEF FQ!Next, FQ!Publish, FQ!Capacity
  <2>6. CASE m = 1 - writeBuf /\ writePc = "release"
    <3>1. Queue = <<>> /\ Queue' = <<frame[m]>>
      BY <2>3, <2>6 DEF Queue, Outstanding
    <3>2. QED
      BY <2>2, <2>3, <2>4, <3>1 DEF FQ!Next, FQ!Publish, FQ!Capacity
  <2>7. CASE m = 1 - writeBuf /\ writePc # "release"
    <3>1. status[writeBuf] \in {"full", "emptying"}
      BY <2>1, <2>7 DEF Turns, ForWrite
    <3>2. Queue = <<frame[writeBuf]>> /\ Queue' = <<frame[writeBuf], frame[m]>>
      BY <2>3, <2>7, <3>1 DEF Queue, Outstanding
    <3>3. Queue' = Append(Queue, frame[m]) /\ Len(Queue) = 1
      BY <3>2, AppendSecond
    <3>4. QED
      BY <2>2, <2>3, <2>4, <3>3 DEF FQ!Next, FQ!Publish, FQ!Capacity
  <2>8. QED
    BY <2>5, <2>6, <2>7
<1>6. CASE WriteTop \/ WriteWait \/ WriteStop
  BY <1>6 DEF WriteTop, WriteWait, WriteStop, WriteGoto, Queue, Sent, Outstanding, FQ!vars
<1>7. CASE WriteMark
  BY <1>7 DEF WriteMark, Queue, Sent, Outstanding, StatusMatchesPlaces, FQ!vars
<1>8. ASSUME NEW ok \in BOOLEAN, WriteFrame(ok) PROVE FQ!Next
  <2>1. status[writeBuf] = "emptying" /\ writePc = "send"
    BY <1>8 DEF WriteFrame, StatusMatchesPlaces
  <2>2. Queue # <<>> /\ Queue[1] = frame[writeBuf] /\ UNCHANGED Queue
    <3>1. \/ Queue = <<frame[writeBuf]>>
          \/ Queue = <<frame[writeBuf], frame[Other(writeBuf)]>>
      BY <2>1 DEF Queue, Outstanding
    <3>2. UNCHANGED Queue
      BY <1>8 DEF WriteFrame, Queue, Outstanding
    <3>3. QED
      BY <3>1, <3>2
  <2>3. Sent < Frames /\ Sent' = Sent + 1 /\ Sent = written[writeBuf]
    BY <1>8 DEF WriteFrame, Sent
  <2>4. wire' = [pos |-> Sent + 1, frame |-> Queue[1][Sent + 1]]
    BY <1>8, <2>2, <2>3 DEF WriteFrame
  <2>5. QED
    BY <2>2, <2>3, <2>4 DEF FQ!Next, FQ!Send
<1>9. CASE WriteWipe
  <2>1. PICK x, y : x = frame[writeBuf] /\ y = frame[Other(writeBuf)]
    OBVIOUS
  <2>2. Queue # <<>> /\ Queue' = Tail(Queue)
    <3>1. \/ Queue = <<x>> /\ Queue' = <<>>
          \/ Queue = <<x, y>> /\ Queue' = <<y>>
      BY <1>9, <2>1 DEF WriteWipe, Queue, Outstanding, StatusMatchesPlaces
    <3>2. Tail(<<x>>) = <<>> /\ Tail(<<x, y>>) = <<y>> /\ <<x>> # <<>> /\ <<x, y>> # <<>>
      BY ShortTails
    <3>3. QED
      BY <3>1, <3>2, Zenon
  <2>3. Sent = Frames /\ Sent' = 0 /\ UNCHANGED wire
    BY <1>9 DEF WriteWipe, Sent
  <2>4. QED
    BY <2>2, <2>3 DEF FQ!Next, FQ!Retire
<1>10. CASE WriteRelease
  <2>1. /\ status[writeBuf] = "emptying"
        /\ status[Other(writeBuf)] # "emptying"
        /\ status'[writeBuf] = "empty"
        /\ status'[Other(writeBuf)] = status[Other(writeBuf)]
        /\ writeBuf' = Other(writeBuf) /\ Other(writeBuf') = writeBuf
        /\ writePc' # "release"
    BY <1>10 DEF WriteRelease, StatusMatchesPlaces
  <2>2. UNCHANGED Queue
    BY <1>10, <2>1 DEF WriteRelease, Queue, Outstanding
  <2>3. UNCHANGED Sent
    BY <1>10, <2>1 DEF WriteRelease, Leftovers, Sent
  <2>4. QED
    BY <1>10, <2>2, <2>3 DEF WriteRelease, FQ!vars
<1>11. CASE WriteRecover
  BY <1>11 DEF WriteRecover, Queue, Sent, Outstanding, FQ!vars
<1>12. QED
  BY <1>1, <1>2, <1>3, <1>4, <1>5, <1>6, <1>7, <1>8, <1>9, <1>10, <1>11
     DEF Next, Mix, Write, Terminated

\* Every frame MIX published leaves exactly once, in order and unchanged.
THEOREM BuffersAreAQueue == Spec => SendsWhatWasMixed
<1>1. Init => FQ!Init
  BY DEF Init, FQ!Init, Queue, Sent, Outstanding, Other, Buf
<1>2. QED
  BY <1>1, RefinementStep, Invariance, PTL DEF Spec, SendsWhatWasMixed, FQ!Spec
=============================================================================
