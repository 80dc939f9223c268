--------------------------- MODULE OutputBuffers ---------------------------
(***************************************************************************)
(* The hand-over of the two output buffers (OUTPUT.obuf[2], data.h:160-183)*)
(* between the MIX thread (output_handle_mix, output_mix.c) and the WRITE  *)
(* thread (output_handle_write, output_write.c).  No lock protects a       *)
(* buffer: its status field alone says whose turn it is.                   *)
(*                                                                         *)
(* One step is one access to what the threads share.  A buffer is Frames   *)
(* frames of seven packets; MIX writes packets at increasing places, so a  *)
(* frame is either left Null or filled once, after the frames before it.   *)
(* A store becomes visible in program order (the x86 the program is built  *)
(* for).                                                                   *)
(***************************************************************************)
EXTENDS Naturals, Sequences

CONSTANTS Frames,   \* OBUF.size / FRAME_PACKET_SIZE
          Payload,  \* contents of a frame that carries data
          Null,     \* contents of a frame as obuf_reset leaves it
          Network   \* CONFIG.write_output_network

ASSUME FramesAssumption  == Frames \in Nat \ {0}
ASSUME NetworkAssumption == Network \in BOOLEAN

VARIABLES
  status,   \* OBUF.status of each buffer
  written,  \* OBUF.written of each buffer, in frames
  frame,    \* OBUF.buf of each buffer
  mixPc, mixBuf, fillPos,       \* MIX: its place, buf_in_use, last frame filled
  writePc, writeBuf, accepted,  \* WRITE: its place, buf_in_use, written >= 0 so far
  wire,     \* history: the last frame given to ts_frame_write, with its place
  sock,     \* OUTPUT.out_sock
  refused,  \* history: frames the connection has refused one after the other
  dienow,   \* OUTPUT.dienow # 0
  exited    \* the process has called exit(1)

mixVars   == <<mixPc, mixBuf, fillPos>>
writeVars == <<writePc, writeBuf, accepted, wire, sock, refused, exited>>
vars == <<status, written, frame, mixVars, writeVars, dienow>>

Buf     == {0, 1}
Content == Payload \cup {Null}
Status  == {"empty", "filling", "full", "emptying"}
MixPc   == {"top", "wait", "mark", "fill", "publish", "done"}
WritePc == {"top", "wait", "mark", "send", "release", "recover", "done"}

\* Mutant: the switch counts up instead of toggling.
OtherCountsUp(b) == b + 1

\* buf_in_use ? 0 : 1
Other(b) == 1 - b

TypeOK ==
  /\ status  \in [Buf -> Status]
  /\ written \in [Buf -> 0..Frames]
  /\ frame   \in [Buf -> [1..Frames -> Content]]
  /\ mixPc \in MixPc /\ mixBuf \in Buf /\ fillPos \in 0..Frames
  /\ writePc \in WritePc /\ writeBuf \in Buf /\ accepted \in BOOLEAN
  /\ wire \in [pos : 0..Frames, frame : Content]
  /\ sock \in {"open", "closed"} /\ refused \in Nat
  /\ dienow \in BOOLEAN /\ exited \in BOOLEAN

\* The buffer contents obuf_reset leaves behind: null packets only.
Wiped == [i \in 1..Frames |-> Null]

\* output_buffer_alloc has reset both buffers, main has connected the output.
Init ==
  /\ status  = [b \in Buf |-> "empty"]
  /\ written = [b \in Buf |-> 0]
  /\ frame   = [b \in Buf |-> Wiped]
  /\ mixPc = "top" /\ mixBuf = 0 /\ fillPos = 0
  /\ writePc = "top" /\ writeBuf = 0 /\ accepted = FALSE
  /\ wire = [pos |-> 0, frame |-> Null]
  /\ sock = "open" /\ refused = 0
  /\ dienow = FALSE /\ exited = FALSE

-----------------------------------------------------------------------------
(* The MIX thread.                                                         *)

MixGoto(pc) == /\ mixPc' = pc
               /\ UNCHANGED <<status, written, frame, mixBuf, fillPos, writeVars, dienow>>

MixTop == /\ mixPc = "top"
          /\ ~dienow
          /\ MixGoto("wait")

\* while (curbuf->status != obuf_empty): the loop is left on an empty buffer.
MixWait == /\ mixPc = "wait"
           /\ status[mixBuf] = "empty"
           /\ MixGoto("mark")

\* Either loop is left for OUT once dienow is seen.
MixStop == /\ dienow
           /\ mixPc = "top" \/ (mixPc = "wait" /\ status[mixBuf] # "empty")
           /\ MixGoto("done")

MixMark == /\ mixPc = "mark"
           /\ status' = [status EXCEPT ![mixBuf] = "filling"]
           /\ mixPc' = "fill"
           /\ fillPos' = 0
           /\ UNCHANGED <<written, frame, mixBuf, writeVars, dienow>>

\* memcpy of packets into the buffer, at the places the null mixing picked.
MixPut(k, p) == /\ mixPc = "fill"
                /\ k > fillPos
                /\ frame' = [frame EXCEPT ![mixBuf][k] = p]
                /\ fillPos' = k
                /\ UNCHANGED <<status, written, mixPc, mixBuf, writeVars, dienow>>

\* The round has no more packets, or dienow broke it off.
MixRoundEnds == /\ mixPc = "fill"
                /\ MixGoto("publish")

\* Mutant: MIX goes on with the buffer it has just published.
MixPublishForgetsSwitch == /\ mixPc = "publish"
                           /\ status' = [status EXCEPT ![mixBuf] = "full"]
                           /\ mixPc' = "top"
                           /\ UNCHANGED <<written, frame, mixBuf, fillPos, writeVars, dienow>>

MixPublish == /\ mixPc = "publish"
              /\ status' = [status EXCEPT ![mixBuf] = "full"]
              /\ mixBuf' = Other(mixBuf)
              /\ mixPc' = "top"
              /\ UNCHANGED <<written, frame, fillPos, writeVars, dienow>>

Mix == \/ MixTop \/ MixWait \/ MixStop \/ MixMark \/ MixRoundEnds \/ MixPublish
       \/ \E k \in 1..Frames, p \in Payload : MixPut(k, p)

-----------------------------------------------------------------------------
(* The WRITE thread.                                                       *)

WriteGoto(pc) == /\ writePc' = pc
                 /\ UNCHANGED <<status, written, frame, mixVars, writeBuf,
                                accepted, wire, sock, refused, dienow, exited>>

WriteTop == /\ writePc = "top"
            /\ ~dienow
            /\ WriteGoto("wait")

\* Mutant: WRITE takes any buffer that is not empty.
WriteWaitTakesFilling == /\ writePc = "wait"
                         /\ status[writeBuf] # "empty"
                         /\ WriteGoto("mark")

\* while (curbuf->status != obuf_full)
WriteWait == /\ writePc = "wait"
             /\ status[writeBuf] = "full"
             /\ WriteGoto("mark")

\* Mutant: the wait for a full buffer does not look at dienow.
WriteStopNotInWait == /\ dienow
                      /\ \/ writePc = "top"
                         \/ writePc = "send" /\ written[writeBuf] < Frames
                      /\ WriteGoto("done")

\* Each of the three loops is left for OUT once dienow is seen.
WriteStop == /\ dienow
             /\ \/ writePc = "top"
                \/ writePc = "wait" /\ status[writeBuf] # "full"
                \/ writePc = "send" /\ written[writeBuf] < Frames
             /\ WriteGoto("done")

\* Mutant: the sum of the results is not set back for a new buffer.
WriteMarkKeepsSum ==
  /\ writePc = "mark"
  /\ status' = [status EXCEPT ![writeBuf] = "emptying"]
  /\ writePc' = "send"
  /\ UNCHANGED <<written, frame, mixVars, writeBuf, accepted, wire, sock, refused, dienow, exited>>

\* curbuf->status = obuf_emptying, written = 0
WriteMark == /\ writePc = "mark"
             /\ status' = [status EXCEPT ![writeBuf] = "emptying"]
             /\ accepted' = FALSE
             /\ writePc' = "send"
             /\ UNCHANGED <<written, frame, mixVars, writeBuf, wire, sock, refused, dienow, exited>>

(***************************************************************************)
(* One frame goes to the socket and to the output file.  The sum `written' *)
(* of the results is negative at the end only when every frame of the      *)
(* buffer was refused (a refusal counts -1, a frame 1316; up to 138 Mbit/s *)
(* a buffer has fewer frames than that): one accepted frame hides the      *)
(* refusals.  A frame is refused only if socket and file both do so (lines *)
(* 113-116); without a file it counts 0, as FrameWriter tells.             *)
(***************************************************************************)
WriteFrame(ok) ==
  LET k == written[writeBuf] + 1 IN
  /\ writePc = "send"
  /\ ~dienow
  /\ k <= Frames
  /\ wire' = [pos |-> k, frame |-> frame[writeBuf][k]]
  /\ written' = [written EXCEPT ![writeBuf] = k]
  /\ accepted' = (ok \/ accepted)
  /\ refused' = IF Network /\ ~ok THEN refused + 1 ELSE 0
  /\ UNCHANGED <<status, frame, mixVars, writePc, writeBuf, sock, dienow, exited>>

\* Mutant: obuf_reset sets the status before it wipes the buffer.
WriteWipeStatusFirst ==
  /\ writePc = "send"
  /\ written[writeBuf] = Frames
  /\ frame' = [frame EXCEPT ![writeBuf] = Wiped]
  /\ status' = [status EXCEPT ![writeBuf] = "empty"]
  /\ writePc' = "release"
  /\ UNCHANGED <<written, mixVars, writeBuf, accepted, wire, sock, refused, dienow, exited>>

\* Mutant: obuf_reset leaves the packets in the buffer.
WriteWipeKeepsFrames ==
  /\ writePc = "send"
  /\ written[writeBuf] = Frames
  /\ writePc' = "release"
  /\ UNCHANGED <<status, frame, written, mixVars, writeBuf, accepted, wire, sock, refused, dienow, exited>>

\* obuf_reset, first part: the buffer becomes null packets again.
WriteWipe == /\ writePc = "send"
             /\ written[writeBuf] = Frames
             /\ frame' = [frame EXCEPT ![writeBuf] = Wiped]
             /\ writePc' = "release"
             /\ UNCHANGED <<status, written, mixVars, writeBuf, accepted, wire, sock, refused, dienow, exited>>

\* obuf_reset, second part, and the switch to the other buffer.
WriteRelease ==
  /\ writePc = "release"
  /\ written' = [written EXCEPT ![writeBuf] = 0]
  /\ status' = [status EXCEPT ![writeBuf] = "empty"]
  /\ writeBuf' = Other(writeBuf)
  /\ writePc' = IF accepted THEN "top" ELSE "recover"
  /\ UNCHANGED <<frame, mixVars, accepted, wire, sock, refused, dienow, exited>>

\* shutdown_fd(&o->out_sock), and connect_output, which exits when it fails.
WriteRecover ==
  /\ writePc = "recover"
  /\ writePc' = "top"
  /\ \/ Network /\ sock' = "open" /\ refused' = 0 /\ UNCHANGED exited
     \/ Network /\ sock' = "closed" /\ exited' = TRUE /\ UNCHANGED refused
     \/ ~Network /\ sock' = "closed" /\ UNCHANGED <<refused, exited>>
  /\ UNCHANGED <<status, written, frame, mixVars, writeBuf, accepted, wire, dienow>>

Write == \/ WriteTop \/ WriteWait \/ WriteStop \/ WriteMark \/ WriteWipe
         \/ WriteRelease \/ WriteRecover
         \/ \E ok \in BOOLEAN : WriteFrame(ok)

-----------------------------------------------------------------------------
\* kill_threads: conf->output->dienow = 1, after a signal.
Kill == /\ ~dienow
        /\ dienow' = TRUE
        /\ UNCHANGED <<status, written, frame, mixVars, writeVars>>

Stopped == exited \/ (mixPc = "done" /\ writePc = "done")

\* Nothing is left to do: the process is gone, or both threads have returned.
Terminated == Stopped /\ UNCHANGED vars

Next == \/ ~exited /\ Mix
        \/ ~exited /\ Write
        \/ ~exited /\ Kill
        \/ Terminated

Spec == Init /\ [][Next]_vars

(***************************************************************************)
(* A thread that can take a step takes one: the kernel schedules both, and *)
(* neither makes a call that blocks for ever (the mixing round is finite). *)
(* Nothing obliges a signal to arrive.                                     *)
(***************************************************************************)
Fairness == WF_vars(~exited /\ Mix) /\ WF_vars(~exited /\ Write)

FairSpec == Spec /\ Fairness

-----------------------------------------------------------------------------
(* Properties.                                                             *)

MixUses(b)   == mixPc \in {"mark", "fill", "publish"} /\ mixBuf = b
WriteUses(b) == writePc \in {"mark", "send", "release"} /\ writeBuf = b

\* From the moment a thread has seen its status until it has passed the buffer
\* on, MIX and WRITE are never at work on the same obuf, although each reads
\* and writes status without a lock.
NoSharedBuffer == \A b \in Buf : ~(MixUses(b) /\ WriteUses(b))

\* A buffer that says empty holds null packets only: the places MIX leaves out
\* never carry frames of the batch before the last one out again.
EmptyIsWiped == \A b \in Buf : status[b] = "empty" => frame[b] = Wiped

\* A connection that no longer takes frames is given up in time.  Only the sum
\* over a buffer tells, and one frame taken hides all refusals beside it; yet
\* never are two buffers' worth of frames refused one after the other before
\* output_handle_write closes the socket and connects anew (or exits).
DeadSocketIsReplaced == refused < 2 * Frames

(***************************************************************************)
(* The queue the two buffers stand for: WRITE's own buffer first, then the *)
(* other one.  A buffer is in it from obuf_full until it is wiped.         *)
(***************************************************************************)
Outstanding(b) == /\ status[b] \in {"full", "emptying"}
                  /\ ~(writePc = "release" /\ writeBuf = b)

Queue == LET first  == frame[writeBuf]
             second == frame[Other(writeBuf)]
         IN  IF Outstanding(writeBuf)
             THEN IF Outstanding(Other(writeBuf)) THEN <<first, second>> ELSE <<first>>
             ELSE IF Outstanding(Other(writeBuf)) THEN <<second>> ELSE <<>>

Sent == IF writePc = "release" THEN 0 ELSE written[writeBuf]

FQ == INSTANCE FrameQueue WITH queue <- Queue, pos <- Sent

\* Every frame MIX published leaves exactly once, in order and unchanged; a
\* buffer is reused only when all its frames have left.
SendsWhatWasMixed == FQ!Spec

\* The output never dries up by itself: as long as nobody stops the program,
\* WRITE again and again has a buffer to send (null packets if nothing else).
KeepsSending == []<>(writePc = "send" \/ dienow \/ exited)

\* Once kill_threads has set dienow both threads leave their loops, wherever
\* they were waiting for each other.
StopsWhenKilled == dienow ~> Stopped
=============================================================================
