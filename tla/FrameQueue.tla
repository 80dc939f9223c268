----------------------------- MODULE FrameQueue -----------------------------
(***************************************************************************)
(* What the two output buffers of mptsd promise together: a queue of at    *)
(* most two published batches.  A batch is one output buffer worth of      *)
(* 1316-byte frames; its frames leave in order, each exactly once, a batch *)
(* makes room only when its last frame has left, and no batch is sent      *)
(* before it is complete.                                                  *)
(***************************************************************************)
EXTENDS Naturals, Sequences

CONSTANTS Frames,   \* frames in one output buffer
          Payload,  \* contents of a frame that carries data
          Null      \* contents of a frame of null packets only

Content == Payload \cup {Null}
Batch   == [1..Frames -> Content]
Wire    == [pos : 0..Frames, frame : Content]

VARIABLES queue,   \* published batches, the oldest first
          pos,     \* frames of the oldest batch already sent
          wire     \* the last frame handed to the socket, with its place

vars == <<queue, pos, wire>>

Capacity == 2

Init == /\ queue = <<>>
        /\ pos = 0
        /\ wire = [pos |-> 0, frame |-> Null]

Publish == /\ Len(queue) < Capacity
           /\ \E b \in Batch : queue' = Append(queue, b)
           /\ UNCHANGED <<pos, wire>>

Send == /\ queue # <<>>
        /\ pos < Frames
        /\ pos' = pos + 1
        /\ wire' = [pos |-> pos + 1, frame |-> queue[1][pos + 1]]
        /\ UNCHANGED queue

Retire == /\ queue # <<>>
          /\ pos = Frames
          /\ queue' = Tail(queue)
          /\ pos' = 0
          /\ UNCHANGED wire

Next == Publish \/ Send \/ Retire

Spec == Init /\ [][Next]_vars
=============================================================================
