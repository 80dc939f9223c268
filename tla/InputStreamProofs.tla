-------------------------- MODULE InputStreamProofs --------------------------
(***************************************************************************)
(* Theorems about InputStream, for any number of sources, versions and     *)
(* packets, with proofs.                                                   *)
(***************************************************************************)
EXTENDS InputStream, TLAPS

Connected == pc \in {"check", "read", "packets"}

(***************************************************************************)
(* What is known of a stream has been taken from it, one thing after the   *)
(* other: the PID of the PMT from a PAT, the map from a PMT, then a PCR.   *)
(***************************************************************************)
KnownWasTaken ==
  Connected => /\ pmtPid # None => "pat" \in taken
               /\ pmtRewritten # None => {"pat", "pmt"} \subseteq taken
               /\ inputPcr => {"pat", "pmt", "pcr"} \subseteq taken

\* The thread has no socket while it is not with a source.
NoSockOutside == pc \in {"outer", "sleep", "connect", "closed"} => sock = NoSock

\* Only the parts a table has are sent.
PartsInTable == part <= Needs(air.pmt)

\* With tables of one packet, last_pmt is the one the map was made from.
LastPmtIsMapped ==
  /\ pc = "sync" => pmtsIn = {}
  /\ Connected /\ pmtsIn \cap TwoPackets = {} =>
      \/ pmtsIn = {} /\ lastPmt = Empty /\ pmtRewritten = None
      \/ /\ pmtRewritten # None /\ pmtsIn = {pmtRewritten}
         /\ lastPmt = [v |-> pmtRewritten, got |-> 1]

IInv == TypeOK /\ KnownWasTaken /\ EsOnlyWhenKnown /\ NoSockOutside

PInv == TypeOK /\ PartsInTable /\ LastPmtIsMapped

-----------------------------------------------------------------------------

\* The next source is one of the channel's (chansrc_next).
LEMMA NextSourceType == \A s \in Sources : NextSource(s) \in Sources
  BY InputStreamAssumption DEF NextSource, Sources

\* A packet pushed to a table leaves a table.
LEMMA PushType ==
  ASSUME NEW t \in Table, NEW n \in 1..2, NEW v \in Versions
  PROVE  Push(t, n, v) \in Table
  BY DEF Push, Table, Known

\* A step that leaves the stream or the world alone keeps their types.
LEMMA SameTypes ==
  /\ WorldOK /\ UNCHANGED <<world, part>> => WorldOK'
  /\ PlaceOK /\ UNCHANGED <<place, left>> => PlaceOK'
  /\ PlaceOK /\ Consumed /\ left > 0 => PlaceOK'
  /\ StreamOK /\ UNCHANGED stream => StreamOK'
  /\ WorldOK /\ SentOK /\ Quiet => WorldOK' /\ SentOK'
<1>1. WorldOK /\ UNCHANGED <<world, part>> => WorldOK'
  BY DEF WorldOK, world
<1>2. PlaceOK /\ UNCHANGED <<place, left>> => PlaceOK'
  BY DEF PlaceOK, place
<1>3. PlaceOK /\ Consumed /\ left > 0 => PlaceOK'
  BY InputStreamAssumption DEF PlaceOK, place, Consumed
<1>4. StreamOK /\ UNCHANGED stream => StreamOK'
  BY DEF StreamOK, stream, tables
<1>5. WorldOK /\ SentOK /\ Quiet => WorldOK' /\ SentOK'
  BY <1>1 DEF SentOK, Quiet
<1> QED
  BY <1>1, <1>2, <1>3, <1>4, <1>5

\* So do the ways out of the loops.
LEMMA LeavingTypes ==
  ASSUME PlaceOK
  PROVE  /\ Reconnect => PlaceOK'
         /\ Stop /\ working' \in BOOLEAN /\ left' = 0 => PlaceOK'
         /\ Quit => PlaceOK'
<1>1. Reconnect => PlaceOK'
  BY NextSourceType, InputStreamAssumption DEF Reconnect, PlaceOK
<1>2. Stop /\ working' \in BOOLEAN /\ left' = 0 => PlaceOK'
  BY InputStreamAssumption DEF Stop, PlaceOK
<1>3. Quit => PlaceOK'
  BY InputStreamAssumption DEF Quit, PlaceOK
<1> QED
  BY <1>1, <1>2, <1>3

\* The next part of a table is one of its parts.
LEMMA NextPartType ==
  ASSUME air \in Content, part \in 1..2, PartsInTable, NextPart
  PROVE  part' \in 1..2 /\ part' <= Needs(air.pmt)
  BY DEF PartsInTable, NextPart, Needs

\* What a packet of the PMT makes of the tables.
LEMMA PmtTypes ==
  ASSUME WorldOK, StreamOK
  PROVE  /\ air.pat \in Versions /\ air.pmt \in Versions
         /\ PmtNow \in Table /\ PmtNow.v \in Known
         /\ Push(IF Whole(lastPmt) THEN Empty ELSE lastPmt, part, air.pmt) \in Table
<1>1. air.pat \in Versions /\ air.pmt \in Versions /\ part \in 1..2
  BY InputStreamAssumption DEF WorldOK
<1>2. Empty \in Table /\ pmt \in Table /\ lastPmt \in Table
  BY DEF Empty, Table, Known, StreamOK
<1>3. PmtNow \in Table
  BY <1>1, <1>2, PushType DEF PmtNow
<1>4. Push(IF Whole(lastPmt) THEN Empty ELSE lastPmt, part, air.pmt) \in Table
  BY <1>1, <1>2, PushType
<1> QED
  BY <1>1, <1>3, <1>4 DEF Table

\* The variables keep their types, and the parts of a table are sent in turn.
LEMMA TypeStep == TypeOK /\ PartsInTable /\ [Next]_vars => TypeOK' /\ PartsInTable'
<1> SUFFICES ASSUME WorldOK, PlaceOK, StreamOK, SentOK, PartsInTable, [Next]_vars
             PROVE  WorldOK' /\ PlaceOK' /\ StreamOK' /\ SentOK' /\ PartsInTable'
  BY DEF TypeOK
<1> USE InputStreamAssumption
<1>0. UNCHANGED <<air, part>> => PartsInTable'
  BY DEF PartsInTable
<1>1. CASE Leave
  <2>1. WorldOK' /\ SentOK' /\ StreamOK' /\ PartsInTable'
    BY <1>0, <1>1, SameTypes DEF Leave, Quiet, world
  <2>2. PlaceOK'
    BY <1>1, LeavingTypes DEF Leave, PlaceOK
  <2> QED
    BY <2>1, <2>2
<1>2. CASE Enter
  <2>1. WorldOK' /\ SentOK' /\ StreamOK' /\ PartsInTable'
    BY <1>0, <1>2, SameTypes DEF Enter, Quiet, world
  <2>2. PlaceOK'
    BY <1>2 DEF Enter, PlaceOK, WorldOK
  <2> QED
    BY <2>1, <2>2
<1>3. CASE Sleep
  <2>1. WorldOK' /\ SentOK' /\ StreamOK' /\ PartsInTable'
    BY <1>0, <1>3, SameTypes DEF Sleep, Quiet, world
  <2>2. PlaceOK'
    BY <1>3, LeavingTypes DEF Sleep, PlaceOK, WorldOK
  <2> QED
    BY <2>1, <2>2
<1>4. CASE Connect
  <2>1. WorldOK' /\ SentOK' /\ PartsInTable'
    BY <1>4 DEF Connect, WorldOK, SentOK, PartsInTable, Needs
  <2>2. PlaceOK' /\ StreamOK'
    BY <1>4 DEF Connect, PlaceOK, StreamOK
  <2> QED
    BY <2>1, <2>2
<1>5. CASE ConnectFails
  <2>1. WorldOK' /\ SentOK' /\ StreamOK' /\ PartsInTable'
    BY <1>0, <1>5, SameTypes DEF ConnectFails, Quiet, world
  <2>2. PlaceOK'
    BY <1>5 DEF ConnectFails, PlaceOK
  <2> QED
    BY <2>1, <2>2
<1>23. CASE NotConnected
  <2>1. WorldOK' /\ SentOK' /\ StreamOK' /\ PartsInTable'
    BY <1>0, <1>23, SameTypes DEF NotConnected, Quiet, world
  <2>2. PlaceOK'
    BY <1>23, LeavingTypes DEF NotConnected, PlaceOK
  <2> QED
    BY <2>1, <2>2
<1>6. CASE SyncFails
  <2>1. WorldOK' /\ SentOK' /\ StreamOK' /\ PartsInTable'
    BY <1>0, <1>6, SameTypes DEF SyncFails, Quiet, world
  <2>2. PlaceOK'
    BY <1>6, LeavingTypes DEF SyncFails, PlaceOK
  <2> QED
    BY <2>1, <2>2
<1>7. CASE ReadFails
  <2>1. WorldOK' /\ SentOK' /\ StreamOK' /\ PartsInTable'
    BY <1>0, <1>7, SameTypes DEF ReadFails, Quiet, world
  <2>2. PlaceOK'
    BY <1>7, LeavingTypes DEF ReadFails, PlaceOK
  <2> QED
    BY <2>1, <2>2
<1>8. CASE Synced
  <2>1. WorldOK' /\ SentOK' /\ PartsInTable'
    BY <1>0, <1>8, SameTypes DEF Synced, Quiet, world
  <2>2. StreamOK'
    <3>1. Empty \in Table /\ None \in Known
      BY DEF Empty, Table, Known
    <3> QED
      BY <3>1, <1>8 DEF Synced, StreamReset, StreamOK
  <2>3. PlaceOK'
    BY <1>8 DEF Synced, PlaceOK
  <2> QED
    BY <2>1, <2>2, <2>3
<1>9. CASE Check
  <2>1. WorldOK' /\ SentOK' /\ StreamOK' /\ PartsInTable'
    BY <1>0, <1>9, SameTypes DEF Check, Quiet, world
  <2>2. PlaceOK'
    <3>1. CASE ~open
      BY <1>9, <3>1, LeavingTypes DEF Check
    <3>2. CASE open /\ dienow
      BY <1>9, <3>2, LeavingTypes DEF Check
    <3>3. CASE open /\ ~dienow
      BY <1>9, <3>3 DEF Check, PlaceOK
    <3> QED
      BY <3>1, <3>2, <3>3 DEF WorldOK
  <2> QED
    BY <2>1, <2>2
<1>10. CASE Read
  <2>1. WorldOK' /\ SentOK' /\ StreamOK' /\ PartsInTable'
    BY <1>0, <1>10, SameTypes DEF Read, Quiet, world
  <2>2. PlaceOK'
    BY <1>10 DEF Read, PlaceOK
  <2> QED
    BY <2>1, <2>2
<1>11. CASE ReadNothing
  <2>1. WorldOK' /\ SentOK' /\ StreamOK' /\ PartsInTable'
    BY <1>0, <1>11, SameTypes DEF ReadNothing, Quiet, world
  <2>2. PlaceOK'
    BY <1>11, LeavingTypes DEF ReadNothing, PlaceOK
  <2> QED
    BY <2>1, <2>2
<1>12. CASE FrameDone
  <2>1. WorldOK' /\ SentOK' /\ StreamOK' /\ PartsInTable'
    BY <1>0, <1>12, SameTypes DEF FrameDone, Quiet, world
  <2>2. PlaceOK'
    BY <1>12 DEF FrameDone, PlaceOK
  <2> QED
    BY <2>1, <2>2
<1>13. CASE PacketQuits
  <2>1. WorldOK' /\ SentOK' /\ StreamOK' /\ PartsInTable'
    BY <1>0, <1>13, SameTypes DEF PacketQuits, Quiet, world
  <2>2. PlaceOK'
    BY <1>13, LeavingTypes DEF PacketQuits, PlaceOK
  <2> QED
    BY <2>1, <2>2
<1>14. CASE PacketPat
  <2>1. WorldOK' /\ SentOK' /\ PartsInTable'
    BY <1>0, <1>14, SameTypes DEF PacketPat, Quiet, world
  <2>2. StreamOK'
    BY <1>14, PmtTypes DEF PacketPat, StreamOK, Known
  <2>3. PlaceOK'
    BY <1>14, SameTypes, LeavingTypes DEF PacketPat, Packet
  <2> QED
    BY <2>1, <2>2, <2>3
<1>15. CASE PacketPmtRefused
  <2>1. WorldOK' /\ SentOK' /\ PartsInTable'
    BY <1>15, NextPartType DEF PacketPmtRefused, WorldOK, SentOK, PartsInTable, world
  <2>2. StreamOK'
    BY <1>15, PmtTypes DEF PacketPmtRefused, StreamOK
  <2>3. PlaceOK'
    BY <1>15, SameTypes, LeavingTypes DEF PacketPmtRefused, PmtPacket, Packet
  <2> QED
    BY <2>1, <2>2, <2>3
<1>16. CASE PacketPmt
  <2>1. WorldOK' /\ PartsInTable'
    BY <1>16, NextPartType DEF PacketPmt, WorldOK, PartsInTable, world
  <2>2. StreamOK' /\ SentOK'
    BY <1>16, PmtTypes DEF PacketPmt, Add, StreamOK, SentOK
  <2>3. PlaceOK'
    BY <1>16, SameTypes DEF PacketPmt, PmtAccepted, PmtPacket, Packet
  <2> QED
    BY <2>1, <2>2, <2>3
<1>17. CASE PacketEit
  <2>1. WorldOK' /\ StreamOK' /\ PlaceOK'
    BY <1>17, SameTypes DEF PacketEit, Packet
  <2>2. SentOK' /\ PartsInTable'
    BY <1>0, <1>17 DEF PacketEit, Add, SentOK, world
  <2> QED
    BY <2>1, <2>2
<1>18. CASE PacketDropped
  BY <1>0, <1>18, SameTypes DEF PacketDropped, Packet, Quiet, world
<1>19. CASE PacketEs
  <2>1. WorldOK' /\ PlaceOK'
    BY <1>19, SameTypes DEF PacketEs, Packet
  <2>2. StreamOK' /\ SentOK'
    BY <1>19 DEF PacketEs, Add, StreamOK, SentOK
  <2>3. PartsInTable'
    BY <1>0, <1>19 DEF PacketEs, world
  <2> QED
    BY <2>1, <2>2, <2>3
<1>20. CASE PacketLost
  <2>1. WorldOK' /\ PartsInTable'
    BY <1>20, NextPartType DEF PacketLost, WorldOK, PartsInTable, world
  <2>2. StreamOK' /\ SentOK' /\ PlaceOK'
    BY <1>20, SameTypes DEF PacketLost, SentOK
  <2> QED
    BY <2>1, <2>2
<1>21. CASE World
  <2>1. StreamOK' /\ SentOK' /\ PlaceOK'
    BY <1>21, SameTypes DEF World, SourceUp, SourceDown, ContentChanges, WorktimeTurns, Signal, Die,
                            Outside, Inside, SentOK
  <2>2. CASE ContentChanges
    BY <2>1, <2>2 DEF ContentChanges, WorldOK, PartsInTable, Needs
  <2>3. CASE SourceUp \/ SourceDown \/ WorktimeTurns \/ Signal \/ Die
    <3>1. WorldOK'
      BY <2>3 DEF SourceUp, SourceDown, WorktimeTurns, Signal, Die, Outside, WorldOK
    <3>2. PartsInTable'
      BY <1>0, <2>3 DEF SourceUp, SourceDown, WorktimeTurns, Signal, Die, Outside
    <3> QED
      BY <2>1, <3>1, <3>2
  <2> QED
    BY <1>21, <2>2, <2>3 DEF World
<1>22. CASE UNCHANGED vars
  BY <1>0, <1>22, SameTypes DEF vars, world, SentOK
<1> QED
  BY <1>1, <1>2, <1>3, <1>4, <1>5, <1>6, <1>7, <1>8, <1>9, <1>10, <1>11, <1>12, <1>13, <1>14, <1>15,
     <1>16, <1>17, <1>18, <1>19, <1>20, <1>21, <1>22, <1>23 DEF Next, Thread, Process, Closed

-----------------------------------------------------------------------------

\* The strengthened invariant holds at first.
LEMMA InitHolds == Init => IInv /\ PInv
<1> SUFFICES ASSUME Init
             PROVE  IInv /\ PInv
  OBVIOUS
<1>1. WorldOK /\ PartsInTable
  <2>1. WorldOK
    <3>1. part \in 1..2
      BY DEF Init
    <3> QED
      BY <3>1, Zenon DEF Init, WorldOK
  <2>2. PartsInTable
    BY DEF Init, PartsInTable, Needs
  <2> QED
    BY <2>1, <2>2
<1>2. PlaceOK
  BY InputStreamAssumption DEF Init, PlaceOK, Sources
<1>3. StreamOK /\ SentOK
  <2>1. Empty \in Table /\ None \in Known
    BY DEF Empty, Table, Known
  <2> QED
    BY <2>1 DEF Init, StreamOK, SentOK
<1>4. KnownWasTaken /\ EsOnlyWhenKnown /\ NoSockOutside /\ LastPmtIsMapped
  BY DEF Init, KnownWasTaken, EsOnlyWhenKnown, NoSockOutside, LastPmtIsMapped, Connected
<1> QED
  BY <1>1, <1>2, <1>3, <1>4 DEF IInv, PInv, TypeOK

\* There is a socket only with a source: every way back to the top of the loop
\* closes it.
LEMMA NoSockStep == NoSockOutside /\ [Next]_vars => NoSockOutside'
<1> SUFFICES ASSUME NoSockOutside, [Next]_vars
             PROVE  NoSockOutside'
  OBVIOUS
<1> USE DEF NoSockOutside
<1>1. UNCHANGED <<pc, sock>> => NoSockOutside'
  OBVIOUS
<1>2. CASE Leave \/ Enter \/ Sleep \/ PacketQuits
  BY <1>2 DEF Leave, Enter, Sleep, PacketQuits, Quit
<1>3. CASE ConnectFails \/ NotConnected \/ SyncFails \/ ReadFails
  BY <1>3 DEF ConnectFails, NotConnected, SyncFails, ReadFails, Reconnect
<1>4. CASE Connect \/ Synced \/ Read \/ FrameDone
  BY <1>4 DEF Connect, Synced, Read, FrameDone
<1>5. CASE Check
  BY <1>5 DEF Check, Stop, Quit
<1>6. CASE ReadNothing
  BY <1>6 DEF ReadNothing, Reconnect
<1>7. CASE PacketPat \/ PacketPmtRefused
  BY <1>1, <1>7 DEF PacketPat, PacketPmtRefused, Reconnect, Consumed, place
<1>8. CASE PacketPmt \/ PacketEit \/ PacketDropped \/ PacketEs
  BY <1>1, <1>8 DEF PacketPmt, PacketEit, PacketDropped, PacketEs, Consumed, place
<1>9. CASE PacketLost \/ World \/ UNCHANGED vars
  BY <1>1, <1>9 DEF PacketLost, World, SourceUp, SourceDown, ContentChanges, WorktimeTurns,
                    Signal, Die, Outside, Inside, vars, place
<1> QED
  BY <1>2, <1>3, <1>4, <1>5, <1>6, <1>7, <1>8, <1>9 DEF Next, Thread, Process, Closed

\* Only processing a packet adds to what is known, and only a new connection
\* takes away from what has been taken.
LEMMA KnownStep ==
  TypeOK /\ KnownWasTaken /\ EsOnlyWhenKnown /\ [Next]_vars
    => KnownWasTaken' /\ EsOnlyWhenKnown'
<1> SUFFICES ASSUME TypeOK, KnownWasTaken, EsOnlyWhenKnown, [Next]_vars
             PROVE  KnownWasTaken' /\ EsOnlyWhenKnown'
  OBVIOUS
<1>0. WorldOK /\ StreamOK /\ air.pat # None
  BY PmtTypes, InputStreamAssumption DEF TypeOK
<1>2. (Connected' => Connected) /\ UNCHANGED stream => KnownWasTaken'
  BY DEF KnownWasTaken, stream, tables
<1>3. sent' # "es" => EsOnlyWhenKnown'
  BY DEF EsOnlyWhenKnown
<1>4. UNCHANGED <<sent, stream>> => EsOnlyWhenKnown'
  BY DEF EsOnlyWhenKnown, stream, tables
<1>5. CASE Leave \/ Enter \/ Sleep \/ PacketQuits
  BY <1>2, <1>3, <1>5 DEF Leave, Enter, Sleep, PacketQuits, Quit, Quiet, Connected
<1>6. CASE ConnectFails \/ NotConnected \/ SyncFails \/ ReadFails
  BY <1>2, <1>3, <1>6 DEF ConnectFails, NotConnected, SyncFails, ReadFails, Reconnect, Quiet, Connected
<1>7. CASE Connect
  BY <1>3, <1>7 DEF Connect, KnownWasTaken, Connected
<1>8. CASE Synced
  BY <1>3, <1>8 DEF Synced, StreamReset, Quiet, KnownWasTaken
<1>9. CASE Check \/ Read \/ ReadNothing \/ FrameDone
  BY <1>2, <1>3, <1>9 DEF Check, Read, ReadNothing, FrameDone, Quiet, Connected
<1>10. CASE PacketPat
  <2>1. CASE Reconnect
    BY <1>3, <1>10, <2>1 DEF PacketPat, Reconnect, Quiet, KnownWasTaken, Connected
  <2>2. CASE ~Reconnect
    BY <1>3, <1>10, <2>2 DEF PacketPat, Packet, Consumed, place, Quiet, KnownWasTaken, Connected
  <2> QED
    BY <2>1, <2>2
<1>11. CASE PacketPmtRefused
  BY <1>3, <1>11 DEF PacketPmtRefused, PmtPacket, Packet, KnownWasTaken, Connected
<1>12. CASE PacketPmt
  <2>1. Connected /\ "pat" \in taken
    BY <1>0, <1>12 DEF PacketPmt, PmtAccepted, PmtPacket, Packet, KnownWasTaken, Connected
  <2>2. CASE Whole(PmtNow)
    BY <1>3, <1>12, <2>1, <2>2 DEF PacketPmt, Add, KnownWasTaken
  <2>3. CASE ~Whole(PmtNow)
    BY <1>0, <1>12, <2>1, <2>3 DEF PacketPmt, Add, KnownWasTaken, EsOnlyWhenKnown, StreamOK
  <2> QED
    BY <2>2, <2>3
<1>13. CASE PacketEit \/ PacketDropped
  BY <1>2, <1>3, <1>13 DEF PacketEit, PacketDropped, Add, Consumed, place, Quiet, Connected
<1>14. CASE PacketEs
  <2>1. Connected /\ Connected' /\ UNCHANGED <<pmtPid, pmtRewritten>>
    BY <1>14 DEF PacketEs, Packet, Consumed, place, Connected
  <2>2. /\ taken \subseteq taken'
        /\ taken' \subseteq {"pat", "pmt", "pcr"}
        /\ inputPcr' => {"pat", "pmt", "pcr"} \subseteq taken'
    <3>1. CASE UNCHANGED <<inputPcr, taken>>
      BY <1>0, <2>1, <3>1 DEF KnownWasTaken, StreamOK
    <3>2. CASE CarriesPcr /\ taken' = taken \cup {"pcr"}
      BY <1>0, <2>1, <3>2 DEF CarriesPcr, KnownWasTaken, StreamOK
    <3> QED
      BY <1>14, <3>1, <3>2 DEF PacketEs
  <2>3. KnownWasTaken'
    BY <2>1, <2>2 DEF KnownWasTaken
  <2>4. EsOnlyWhenKnown'
    BY <1>14, <2>2 DEF PacketEs, Add, EsOnlyWhenKnown
  <2> QED
    BY <2>3, <2>4
<1>15. CASE PacketLost \/ World \/ UNCHANGED vars
  BY <1>2, <1>3, <1>4, <1>15 DEF PacketLost, World, SourceUp, SourceDown, ContentChanges, WorktimeTurns,
                    Signal, Die, Outside, Inside, vars, place, Connected
<1> QED
  BY <1>5, <1>6, <1>7, <1>8, <1>9, <1>10, <1>11, <1>12, <1>13, <1>14, <1>15
     DEF Next, Thread, Process, Closed

\* With tables of one packet, the table that came last was compared with the
\* one the map is made from: one that differs ends the connection.
LEMMA LastPmtStep == PInv /\ [Next]_vars => LastPmtIsMapped'
<1> SUFFICES ASSUME TypeOK, PartsInTable, LastPmtIsMapped, [Next]_vars
             PROVE  LastPmtIsMapped'
  BY DEF PInv
<1>0. WorldOK /\ StreamOK /\ air.pmt \in Versions /\ air.pmt # None /\ part \in 1..2
  BY PmtTypes, InputStreamAssumption DEF TypeOK, WorldOK
<1>1. /\ Connected' => Connected
      /\ pc' = "sync" => pc = "sync"
      /\ UNCHANGED <<pmtsIn, lastPmt, pmtRewritten>>
      => LastPmtIsMapped'
  BY DEF LastPmtIsMapped
<1>2. CASE Leave \/ Enter \/ Sleep \/ PacketQuits
  BY <1>1, <1>2 DEF Leave, Enter, Sleep, PacketQuits, Quit, stream, tables, Connected
<1>3. CASE ConnectFails \/ NotConnected \/ SyncFails \/ ReadFails
  BY <1>1, <1>3 DEF ConnectFails, NotConnected, SyncFails, ReadFails, Reconnect, stream, tables, Connected
<1>4. CASE Connect
  BY <1>4 DEF Connect, LastPmtIsMapped, Connected
<1>5. CASE Synced
  BY <1>5 DEF Synced, StreamReset, LastPmtIsMapped, Connected
<1>6. CASE Check \/ Read \/ FrameDone
  BY <1>1, <1>6 DEF Check, Read, FrameDone, Stop, Quit, stream, tables, Connected
<1>7. CASE ReadNothing
  BY <1>1, <1>7 DEF ReadNothing, Reconnect, stream, tables, Connected
<1>8. CASE PacketPat
  BY <1>1, <1>8 DEF PacketPat, Packet, Reconnect, Consumed, place, Connected
<1>9. air.pmt \notin TwoPackets => PmtNow = [v |-> air.pmt, got |-> 1] /\ Whole(PmtNow)
  <2>1. air.pmt \notin TwoPackets => part = 1
    BY <1>0 DEF PartsInTable, Needs
  <2> QED
    BY <1>0, <2>1 DEF PmtNow, Push, Whole, Needs
<1>10. CASE PacketPmtRefused
  <2>1. CASE Whole(PmtNow)
    BY <1>10, <2>1 DEF PacketPmtRefused, Reconnect, LastPmtIsMapped, Connected
  <2>2. CASE ~Whole(PmtNow)
    <3>1. air.pmt \in pmtsIn' /\ air.pmt \in TwoPackets
      BY <1>9, <1>10, <2>2 DEF PacketPmtRefused
    <3>2. pc' = "packets"
      BY <1>10, <2>2 DEF PacketPmtRefused, PmtPacket, Packet, Consumed, place
    <3> QED
      BY <3>1, <3>2 DEF LastPmtIsMapped
  <2> QED
    BY <2>1, <2>2
<1>11. CASE PacketPmt
  <2>1. Connected /\ pc' = "packets" /\ pmtsIn' = pmtsIn \cup {air.pmt}
    BY <1>11 DEF PacketPmt, PmtAccepted, PmtPacket, Packet, Consumed, place, Connected
  <2>2. SUFFICES ASSUME pmtsIn' \cap TwoPackets = {}
                 PROVE  /\ pmtRewritten' # None /\ pmtsIn' = {pmtRewritten'}
                        /\ lastPmt' = [v |-> pmtRewritten', got |-> 1]
    BY <2>1 DEF LastPmtIsMapped
  <2>3. air.pmt \notin TwoPackets /\ pmtsIn \cap TwoPackets = {} /\ part = 1
    BY <1>0, <2>1, <2>2 DEF PartsInTable, Needs
  <2>4. lastPmt' = [v |-> air.pmt, got |-> 1]
    BY <1>11, <2>3 DEF PacketPmt, Push
  <2>5. pmtRewritten' = IF pmtRewritten = None THEN air.pmt ELSE pmtRewritten
    BY <1>9, <1>11, <2>3 DEF PacketPmt
  <2>6. CASE pmtsIn = {} /\ lastPmt = Empty /\ pmtRewritten = None
    BY <1>0, <2>1, <2>4, <2>5, <2>6
  <2>7. CASE /\ pmtRewritten # None /\ pmtsIn = {pmtRewritten}
             /\ lastPmt = [v |-> pmtRewritten, got |-> 1]
    <3>1. Whole(lastPmt) /\ lastPmt.v = pmtRewritten
      BY <2>3, <2>7 DEF Whole, Needs
    <3>2. air.pmt = pmtRewritten
      BY <1>9, <1>11, <2>3, <3>1 DEF PacketPmt, PmtAccepted
    <3> QED
      BY <2>1, <2>4, <2>5, <2>7, <3>2
  <2> QED
    BY <2>1, <2>3, <2>6, <2>7 DEF LastPmtIsMapped
<1>12. CASE PacketEit \/ PacketDropped \/ PacketEs
  BY <1>1, <1>12 DEF PacketEit, PacketDropped, PacketEs, Consumed, place, stream, tables, Connected
<1>13. CASE PacketLost \/ World \/ UNCHANGED vars
  BY <1>1, <1>13 DEF PacketLost, World, SourceUp, SourceDown, ContentChanges, WorktimeTurns,
                     Signal, Die, Outside, Inside, vars, place, stream, tables, Connected
<1> QED
  BY <1>2, <1>3, <1>4, <1>5, <1>6, <1>7, <1>8, <1>10, <1>11, <1>12, <1>13
     DEF Next, Thread, Process, Closed

-----------------------------------------------------------------------------

\* The invariants hold in every state that can be reached.
LEMMA Invariants == Spec => [](IInv /\ PInv)
<1>1. IInv /\ PInv /\ [Next]_vars => IInv' /\ PInv'
  BY TypeStep, NoSockStep, KnownStep, LastPmtStep DEF IInv, PInv
<1> QED
  BY InitHolds, <1>1, PTL DEF Spec

\* Every variable of the input thread keeps its type.
THEOREM TypeCorrect == Spec => []TypeOK
BY Invariants, PTL DEF PInv

\* Nothing of a programme leaves before PAT, PMT and PCR of this connection
\* have come in (input.c:463-502, input_stream_reset).
THEOREM StreamIsForgotten == Spec => []EsOnlyWhenKnown
BY Invariants, PTL DEF IInv

\* With tables of one packet the PMT sent is that of the source, whatever is
\* lost on the way (process_pmt).
THEOREM PmtStaysCurrent == Spec => []PmtIsCurrent
<1>1. PInv => PmtIsCurrent
  BY DEF PInv, LastPmtIsMapped, PmtIsCurrent, Connected
<1> QED
  BY Invariants, <1>1, PTL

\* No socket is left open behind a new one, whatever way the reading loop is
\* left (the labels RECONNECT, STOP and QUIT).
THEOREM SocketsAreClosed == Spec => []NoSocketLeaks
<1>1. IInv => NoSocketLeaks
  BY DEF IInv, NoSockOutside, NoSocketLeaks
<1> QED
  BY Invariants, <1>1, PTL
=============================================================================
