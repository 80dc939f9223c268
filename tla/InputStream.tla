----------------------------- MODULE InputStream -----------------------------
(***************************************************************************)
(* One input thread (input_stream in input.c, with connect_source,         *)
(* mpeg_sync and chansrc_next): it connects to one of the channel's        *)
(* sources, reads frames, takes PAT and PMT out of them, sends its own     *)
(* tables and the packets of the programme to the input buffer, and goes   *)
(* on to the next source when something is wrong.                          *)
(*                                                                         *)
(* A source sends a PAT and a PMT of some version.  A PID is named by the  *)
(* version of the table that announces it: the PMT of a source has the PID *)
(* its PAT gives, the PCR the PID its PMT gives.  Tables are assembled by  *)
(* libtsfuncs, as input.c uses it: the first packet of a table starts it   *)
(* again, a later one without its first is of no use.  r->reconnect is     *)
(* never set while the program runs, and a PAT always names a programme.   *)
(***************************************************************************)
EXTENDS Integers

CONSTANTS
  NumSrc,       \* sources of the channel, at most MAX_CHANNEL_SOURCES - 1
  Rtp,          \* those that are RTP
  Versions,     \* versions of a table
  Content,      \* the PAT and PMT a source may send
  TwoPackets,   \* the versions of the PMT that need two packets
  MaxZeroReads, \* MAX_ZERO_READS
  FramePackets, \* packets in a frame that is read, at most
  EitMode       \* channel->eit_mode # 0

Sources == 0..NumSrc-1
None    == 0        \* no version
NoSock  == -1
Empty   == [v |-> None, got |-> 0]

ASSUME InputStreamAssumption ==
  /\ NumSrc \in 1..7 /\ Rtp \subseteq Sources
  /\ Versions \subseteq Nat \ {None} /\ TwoPackets \subseteq Versions
  /\ Content \subseteq [pat : Versions, pmt : Versions] /\ Content # {}
  /\ MaxZeroReads \in Nat \ {0} /\ FramePackets \in Nat \ {0}
  /\ EitMode \in BOOLEAN

VARIABLES
  keepGoing, dienow,          \* set by main and MIX
  open,                       \* in_worktime
  up,                         \* the sources that can be reached and send
  air,                        \* what the current one sends
  part,                       \* packet of the PMT the current one sends next
  pc,                         \* place of the thread
  working, currSrc, sock,     \* INPUT.working, CHANNEL.curr_src, INPUT.sock
  zeroReads,                  \* max_zero_reads
  left,                       \* packets of the frame not yet looked at
  pmtPid, pcrPid, inputPcr,   \* fields of INPUT_STREAM; inputPcr: is it not 0
  lastPat, pmt, lastPmt,      \* tables coming in
  pmtRewritten,               \* the version pmt_rewritten was made from
  inputReady,                 \* INPUT.input_ready
  sent,                       \* what the last step gave to input_buffer_add
  taken, pmtsIn               \* history: what has been taken since connecting,
                              \* the versions of the PMT packets among it

world  == <<keepGoing, dienow, open, up, air>>
place  == <<pc, working, currSrc, sock, zeroReads>>
tables == <<pmtPid, pcrPid, lastPat, pmt, lastPmt, pmtRewritten, taken, pmtsIn>>
stream == <<tables, inputPcr>>
vars   == <<world, part, place, left, stream, inputReady, sent>>

Known == Versions \cup {None}
Table == [v : Known, got : 0..2]

WorldOK ==
  /\ keepGoing \in BOOLEAN /\ dienow \in BOOLEAN /\ open \in BOOLEAN
  /\ up \in SUBSET Sources /\ air \in Content /\ part \in 1..2
PlaceOK ==
  /\ pc \in {"outer", "sleep", "connect", "failed", "sync", "check", "read", "packets",
             "closed"}
  /\ working \in BOOLEAN /\ currSrc \in Sources /\ sock \in Sources \cup {NoSock}
  /\ zeroReads \in 1..MaxZeroReads /\ left \in 0..FramePackets
StreamOK ==
  /\ pmtPid \in Known /\ pcrPid \in Known /\ lastPat \in Known /\ pmtRewritten \in Known
  /\ pmt \in Table /\ lastPmt \in Table
  /\ inputPcr \in BOOLEAN
  /\ taken \in SUBSET {"pat", "pmt", "pcr"} /\ pmtsIn \in SUBSET Versions
SentOK == sent \in {"nothing", "pmt", "eit", "es"} /\ inputReady \in BOOLEAN

TypeOK == WorldOK /\ PlaceOK /\ StreamOK /\ SentOK

Init ==
  /\ keepGoing = TRUE /\ dienow = FALSE /\ open \in BOOLEAN
  /\ up \in SUBSET Sources /\ air \in Content /\ part = 1
  /\ pc = "outer" /\ working = open /\ currSrc = 0 /\ sock = NoSock
  /\ zeroReads = MaxZeroReads /\ left = 0
  /\ pmtPid = None /\ pcrPid = None /\ inputPcr = FALSE
  /\ lastPat = None /\ pmt = Empty /\ lastPmt = Empty /\ pmtRewritten = None
  /\ inputReady = FALSE /\ sent = "nothing"
  /\ taken = {} /\ pmtsIn = {}

-----------------------------------------------------------------------------
(* Going to a source and leaving it.                                       *)

\* Mutant: the last source is never tried.
NextSourceButLast(s) == IF s + 1 >= NumSrc - 1 THEN 0 ELSE s + 1

\* Mutant: no way back to the first source.
NextSourceRunsOff(s) == s + 1

\* chansrc_next
NextSource(s) == IF s + 1 >= NumSrc THEN 0 ELSE s + 1

Quiet == sent' = "nothing" /\ UNCHANGED <<world, part, inputReady>>

\* Mutant: only a socket that was in use is shut down, not that of a failed connect.
ReconnectIfConnected == /\ sock' = IF pc = "failed" THEN sock ELSE NoSock
                        /\ currSrc' = NextSource(currSrc)
                        /\ pc' = "outer"
                        /\ left' = 0
                        /\ UNCHANGED <<working, zeroReads>>

\* The label RECONNECT.
Reconnect == /\ sock' = NoSock
             /\ currSrc' = NextSource(currSrc)
             /\ pc' = "outer"
             /\ left' = 0
             /\ UNCHANGED <<working, zeroReads>>

\* The label STOP.
Stop == /\ sock' = NoSock
        /\ pc' = "outer"
        /\ UNCHANGED <<currSrc, zeroReads>>

\* The label QUIT, and proxy_close, which closes the socket.
Quit == /\ sock' = NoSock
        /\ pc' = "closed"
        /\ left' = 0
        /\ UNCHANGED <<currSrc, zeroReads, working>>

\* while (keep_going), and the test of dienow behind it.
Leave == /\ pc = "outer" /\ (~keepGoing \/ dienow)
         /\ Quit /\ Quiet /\ UNCHANGED stream

Enter == /\ pc = "outer" /\ keepGoing /\ ~dienow
         /\ IF working THEN pc' = "connect" /\ working' = open
                       ELSE pc' = "sleep" /\ UNCHANGED working
         /\ Quiet /\ UNCHANGED <<currSrc, sock, zeroReads, left, stream>>

\* One turn of while (!r->working): dienow is not looked at.
Sleep == /\ pc = "sleep"
         /\ IF keepGoing
            THEN /\ working' = open
                 /\ pc' = IF open THEN "connect" ELSE "sleep"
                 /\ UNCHANGED <<currSrc, sock, zeroReads, left>>
            ELSE Quit
         /\ Quiet /\ UNCHANGED stream

\* connect_source: a UDP socket is bound whether or not anybody sends.
Connect == /\ pc = "connect"
           /\ sock' = currSrc
           /\ pc' = "sync"
           /\ taken' = {} /\ pmtsIn' = {}
           /\ air' \in Content /\ part' = 1 /\ sent' = "nothing"
           /\ UNCHANGED <<keepGoing, dienow, open, up, inputReady, working, currSrc, zeroReads, left, pmtPid, pcrPid, inputPcr,
                          lastPat, pmt, lastPmt, pmtRewritten>>

\* connect_source gives up: before it has a socket (no such host), or with one, which
\* it leaves open (no connection, no valid answer, bind or membership refused).
ConnectFails == /\ pc = "connect" /\ currSrc \notin up
                /\ sock' \in {sock, currSrc}
                /\ pc' = "failed"
                /\ Quiet /\ UNCHANGED <<working, currSrc, zeroReads, left, stream>>

\* The caller takes every result but 0 alike.
NotConnected == /\ pc = "failed"
                /\ Reconnect /\ Quiet /\ UNCHANGED stream

SyncFails == /\ pc = "sync" /\ currSrc \notin Rtp /\ (currSrc \notin up \/ dienow)
             /\ Reconnect /\ Quiet /\ UNCHANGED stream

\* Mutant: input_pcr is not cleared.
StreamResetKeepsPcr ==
  /\ pmtPid' = None /\ pcrPid' = None
  /\ lastPat' = None /\ pmt' = Empty /\ lastPmt' = Empty /\ pmtRewritten' = None
  /\ UNCHANGED inputPcr

\* input_stream_reset
StreamReset ==
  /\ pmtPid' = None /\ pcrPid' = None /\ inputPcr' = FALSE
  /\ lastPat' = None /\ pmt' = Empty /\ lastPmt' = Empty /\ pmtRewritten' = None

\* In step with the source (RTP needs no mpeg_sync).
Synced == /\ pc = "sync"
          /\ currSrc \in Rtp \cup up
          /\ StreamReset
          /\ zeroReads' = MaxZeroReads
          /\ pc' = "check"
          /\ Quiet /\ UNCHANGED <<working, currSrc, sock, left, taken, pmtsIn>>

-----------------------------------------------------------------------------
(* The reading loop.                                                       *)

Check == /\ pc = "check"
         /\ IF ~open
            THEN Stop /\ working' = FALSE
            ELSE IF dienow
            THEN Quit
            ELSE pc' = "read" /\ working' = TRUE /\ UNCHANGED <<currSrc, sock, zeroReads>>
         /\ left' = 0
         /\ Quiet /\ UNCHANGED stream

Read == /\ pc = "read" /\ currSrc \in up
        /\ left' \in 1..FramePackets
        /\ pc' = "packets"
        /\ Quiet /\ UNCHANGED <<working, currSrc, sock, zeroReads, stream>>

ReadNothing == /\ pc = "read" /\ currSrc \notin up
               /\ IF zeroReads = 1
                  THEN Reconnect
                  ELSE /\ zeroReads' = zeroReads - 1
                       /\ pc' = "check"
                       /\ UNCHANGED <<working, currSrc, sock, left>>
               /\ Quiet /\ UNCHANGED stream

ReadFails == /\ pc = "read" /\ currSrc \notin up
             /\ Reconnect /\ Quiet /\ UNCHANGED stream

FrameDone == /\ pc = "packets" /\ left = 0
             /\ zeroReads' = MaxZeroReads
             /\ pc' = "check"
             /\ Quiet /\ UNCHANGED <<working, currSrc, sock, left, stream>>

-----------------------------------------------------------------------------
(* One packet of the frame.                                                *)

PacketQuits == /\ pc = "packets" /\ left > 0 /\ dienow
               /\ Quit /\ Quiet /\ UNCHANGED stream

Packet   == pc = "packets" /\ left > 0 /\ ~dienow
Consumed == left' = left - 1 /\ UNCHANGED place

\* input_buffer_add: a full buffer or a disabled input drops the packet.
Add(what) == sent' \in {what, "nothing"}

\* A packet of the PAT (process_pat); what is left of it is a null packet.
PacketPat ==
  LET now == air.pat
  IN /\ Packet /\ Quiet
     /\ UNCHANGED <<pcrPid, inputPcr, pmt, lastPmt, pmtRewritten, pmtsIn>>
     /\ IF lastPat \notin {None, now}
        THEN Reconnect /\ UNCHANGED <<lastPat, pmtPid, taken>>
        ELSE /\ Consumed
             /\ lastPat' = now
             /\ pmtPid' = IF pmtPid = None THEN now ELSE pmtPid
             /\ taken' = taken \cup {"pat"}

Needs(v) == IF v \in TwoPackets THEN 2 ELSE 1
Whole(t) == t.v # None /\ t.got = Needs(t.v)

\* ts_pmt_push_packet: packet n of version v comes behind what t has.
Push(t, n, v) == IF n = 1 THEN [v |-> v, got |-> 1]
                 ELSE IF t = [v |-> v, got |-> n - 1] THEN [t EXCEPT !.got = n]
                 ELSE t

NextPart == part' = IF part = Needs(air.pmt) THEN 1 ELSE part + 1

\* A packet of the source's PMT, if its PID is the one looked for.
PmtPacket == Packet /\ pmtPid = air.pat

PmtNow == Push(pmt, part, air.pmt)

\* process_pmt: the table has changed, or is not yet whole.
PacketPmtRefused ==
  /\ PmtPacket /\ Whole(lastPmt)
  /\ pmt' = PmtNow
  /\ IF Whole(PmtNow)
     THEN PmtNow.v # lastPmt.v /\ Reconnect
     ELSE Consumed
  /\ pmtsIn' = pmtsIn \cup {air.pmt}
  /\ sent' = "nothing" /\ NextPart
  /\ UNCHANGED <<world, pmtPid, pcrPid, inputPcr, lastPat, lastPmt, pmtRewritten, inputReady, taken>>

\* Mutant: the table is not compared with the last one.
PmtAcceptedUnseen == PmtPacket /\ (Whole(lastPmt) => Whole(PmtNow))

PmtAccepted == PmtPacket /\ (Whole(lastPmt) => Whole(PmtNow) /\ PmtNow.v = lastPmt.v)

\* process_pmt: last_pmt starts again, a whole table is rewritten (once per
\* connection, input_rewrite_pmt) and sent.
PacketPmt ==
  /\ PmtAccepted
  /\ pmt' = PmtNow
  /\ lastPmt' = Push(IF Whole(lastPmt) THEN Empty ELSE lastPmt, part, air.pmt)
  /\ pmtsIn' = pmtsIn \cup {air.pmt}
  /\ Consumed /\ NextPart
  /\ IF Whole(PmtNow)
     THEN LET made == IF pmtRewritten = None THEN PmtNow.v ELSE pmtRewritten
          IN /\ pmtRewritten' = made /\ pcrPid' = made
             /\ taken' = taken \cup {"pmt"}
             /\ Add("pmt") /\ UNCHANGED inputReady
     ELSE \* a first packet passes for one of the programme
          /\ IF inputPcr THEN Add("es") /\ inputReady' = TRUE
                         ELSE sent' = "nothing" /\ UNCHANGED inputReady
          /\ UNCHANGED <<pmtRewritten, pcrPid, taken>>
  /\ UNCHANGED <<world, pmtPid, inputPcr, lastPat>>

\* process_eit: the EIT of this service goes on, others do not.
PacketEit == /\ Packet /\ EitMode
             /\ Add("eit")
             /\ Consumed
             /\ UNCHANGED <<world, part, stream, inputReady>>

\* NIT, SDT, RST, TDT, TOT, null packets, and EIT that is not wanted.
PacketDropped == Packet /\ Consumed /\ Quiet /\ UNCHANGED stream

\* A packet of the PMT is lost on the way.
PacketLost == /\ pc = "packets"
              /\ sent' = "nothing" /\ NextPart
              /\ UNCHANGED <<world, place, left, stream, inputReady>>

\* Does this packet have the PCR of the stream?
CarriesPcr == pmtRewritten # None /\ pcrPid = air.pmt

\* Any other packet, with a PCR that may be 0 or without.
PacketEs ==
  /\ Packet
  /\ \/ UNCHANGED <<inputPcr, taken>>
     \/ CarriesPcr /\ inputPcr' \in BOOLEAN /\ taken' = taken \cup {"pcr"}
  /\ IF inputPcr' THEN Add("es") /\ inputReady' = TRUE
                  ELSE sent' = "nothing" /\ UNCHANGED inputReady
  /\ Consumed
  /\ UNCHANGED <<world, part, pmtPid, pcrPid, lastPat, pmt, lastPmt, pmtRewritten, pmtsIn>>

-----------------------------------------------------------------------------
(* The world outside.                                                      *)

Inside  == <<place, left, stream, inputReady, sent>>
Outside == UNCHANGED <<part, Inside>>

SourceUp   == \E s \in Sources \ up : up' = up \cup {s} /\ UNCHANGED <<keepGoing, dienow, open, air>> /\ Outside
SourceDown == \E s \in up : up' = up \ {s} /\ UNCHANGED <<keepGoing, dienow, open, air>> /\ Outside

\* The source sends other tables from now on.
ContentChanges == /\ air' \in Content \ {air}
                  /\ part' = 1
                  /\ UNCHANGED <<keepGoing, dienow, open, up, Inside>>

WorktimeTurns == open' = ~open /\ UNCHANGED <<keepGoing, dienow, up, air>> /\ Outside
Signal        == keepGoing /\ keepGoing' = FALSE /\ UNCHANGED <<dienow, open, up, air>> /\ Outside
Die           == ~keepGoing /\ ~dienow /\ dienow' = TRUE /\ UNCHANGED <<keepGoing, open, up, air>> /\ Outside

World == SourceUp \/ SourceDown \/ ContentChanges \/ WorktimeTurns \/ Signal \/ Die

Closed == pc = "closed" /\ UNCHANGED vars

Process == \/ PacketQuits \/ PacketPat \/ PacketPmtRefused \/ PacketPmt
           \/ PacketEit \/ PacketDropped \/ PacketEs
Thread  == \/ Leave \/ Enter \/ Sleep \/ Connect \/ ConnectFails \/ NotConnected
           \/ SyncFails \/ Synced
           \/ Check \/ Read \/ ReadNothing \/ ReadFails \/ FrameDone \/ Process

Next     == Thread \/ PacketLost \/ World \/ Closed
Spec     == Init /\ [][Next]_vars
FairSpec == Spec /\ WF_vars(Thread)

-----------------------------------------------------------------------------
(* Properties.                                                             *)

\* Nothing of the programme goes out before PAT, PMT and a PCR of this very
\* connection have come in: what was known of another source is forgotten.
EsOnlyWhenKnown == sent = "es" => taken = {"pat", "pmt", "pcr"}

\* While connected, the PMT sent is made from the PMT the source sends, if its
\* tables fit a packet: a change leads to a new connection.
PmtIsCurrent == pc \in {"check", "read", "packets"} /\ pmtsIn \cap TwoPackets = {}
                  => pmtsIn \subseteq {pmtRewritten}

\* There is no socket when connect_source makes one: it overwrites r->sock, so
\* one that is still open there - left by a failed connect, a lost source or the
\* end of the worktime - would stay open for ever.
NoSocketLeaks == pc = "connect" => sock = NoSock

\* If in the end just one source sends, always the same and the same tables,
\* in the worktime, the input ends up with it, whatever came before.
OnlyOneUp(s) == up = {s} /\ open /\ keepGoing
FindsTheSource ==
  \A s \in Sources :
    <>[]OnlyOneUp(s) /\ <>[][air' = air]_air => <>[](sock = s)

\* The last incoming PMT (data.h:120): a PMT that has come in whole is kept
\* whole, for the next to be compared with.
LastPmtIsLast == Whole(pmt) => Whole(lastPmt)
=============================================================================
