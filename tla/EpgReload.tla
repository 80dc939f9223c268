----------------------------- MODULE EpgReload -----------------------------
(***************************************************************************)
(* The EPG file and what config_load_epg (config.c:371-408) makes of it:   *)
(* the entries of every channel, the version of its EIT and the two EITs   *)
(* of the event now and the next one.  An editor writes, spoils or removes *)
(* the file at any moment, also between stat and the parse; the file's     *)
(* time has a resolution of one second.                                    *)
(***************************************************************************)
EXTENDS Integers

CONSTANTS Channels,   \* conf->channels
          Entries,    \* what an [id-now] or [id-next] section can say
          NoEntry,    \* no such section, or one that is incomplete
          Contents,   \* what the file can say: for each channel, two entries
          Bad,        \* a file iniparser_load refuses
          Absent,     \* no file
          NoEit,      \* CHANNEL.eit_now = eit_next = NULL
          VersionMod, \* 2^5, the values of CHANNEL.epg_version
          MaxClock    \* bound: seconds in which the editor is active

Pair == [now : Entries \cup {NoEntry}, next : Entries \cup {NoEntry}]

ASSUME EpgAssumption == /\ NoEntry \notin Entries
                        /\ Contents \subseteq [Channels -> Pair]
                        /\ Bad \notin Contents /\ Absent \notin Contents \cup {Bad}
                        /\ NoEit \notin [version : 0..VersionMod - 1, pair : Pair]
                        /\ VersionMod \in Nat \ {0}
                        /\ MaxClock \in Nat \ {0}

VARIABLES
  clock,     \* the second it is, 1 at the start
  content,   \* what the file says
  fileTime,  \* its modification time
  hurried,   \* history: the last write left no later time than the one loaded
  mtime,     \* conf->epg_conf_mtime
  loading,   \* config_load_epg has seen a new file, but not read it yet
  epg,       \* CHANNEL.epg_now, epg_next
  version,   \* CHANNEL.epg_version
  eit        \* CHANNEL.eit_now, eit_next: their version and what they tell

fileVars == <<clock, content, fileTime, hurried>>
epgVars  == <<mtime, loading, epg, version, eit>>

Nothing == [now |-> NoEntry, next |-> NoEntry]
Eit     == [version : 0..VersionMod - 1, pair : Pair]

EpgTypeOK ==
  /\ clock \in 1..MaxClock
  /\ content \in Contents \cup {Bad, Absent}
  /\ fileTime \in 1..MaxClock
  /\ hurried \in BOOLEAN
  /\ mtime \in 0..MaxClock
  /\ loading \in BOOLEAN
  /\ epg \in [Channels -> Pair]
  /\ version \in [Channels -> 0..VersionMod - 1]
  /\ eit \in [Channels -> Eit \cup {NoEit}]

\* What a channel is told by a file, none if there is no good one.
ToldBy(f, c) == IF f \in Contents THEN f[c] ELSE Nothing

\* epg_version++ in five bits.
Bump(v) == IF v = VersionMod - 1 THEN 0 ELSE v + 1

\* config_load has read the file once before the threads start (config.c:674).
EpgInit == /\ clock = 1
           /\ content \in Contents \cup {Bad, Absent}
           /\ fileTime = 1
           /\ hurried = FALSE
           /\ mtime = IF content \in Contents THEN 1 ELSE 0
           /\ loading = FALSE
           /\ epg = [c \in Channels |-> ToldBy(content, c)]
           /\ version = [c \in Channels |-> IF epg[c] = Nothing THEN 0 ELSE Bump(0)]
           /\ eit = [c \in Channels |-> IF epg[c] = Nothing THEN NoEit
                                        ELSE [version |-> version[c], pair |-> epg[c]]]

-----------------------------------------------------------------------------
(* The editor and the clock.                                               *)

Tick == /\ clock < MaxClock
        /\ clock' = clock + 1
        /\ UNCHANGED <<content, fileTime, hurried, epgVars>>

\* Writing the file gives it the time of the day; a file put there by rename
\* or restored from elsewhere brings an earlier one.
WriteFile(new, time) == /\ new # content
                        /\ time <= clock
                        /\ content' = new
                        /\ fileTime' = time
                        /\ hurried' = (new # Absent /\ time <= mtime)
                        /\ UNCHANGED <<clock, epgVars>>

Editor == Tick \/ \E new \in Contents \cup {Bad, Absent}, time \in 1..MaxClock :
                    WriteFile(new, time)

-----------------------------------------------------------------------------
(* config_load_epg, one step per look at the file.                         *)

\* config_reset_channels_epg: all entries go, the next file is news.
ResetEpg == /\ epg' = [c \in Channels |-> Nothing]
            /\ eit' = [c \in Channels |-> NoEit]
            /\ mtime' = 0
            /\ UNCHANGED version

\* stat: a file of a later time is to be read.
StatNewer == /\ ~loading
             /\ content # Absent
             /\ fileTime > mtime
             /\ mtime' = fileTime
             /\ loading' = TRUE
             /\ UNCHANGED <<epg, version, eit>>

StatNotNewer == /\ ~loading
                /\ content # Absent
                /\ fileTime <= mtime
                /\ UNCHANGED epgVars

StatMissing == /\ ~loading
               /\ content = Absent
               /\ ResetEpg
               /\ UNCHANGED loading

\* Mutant: only the entry of the event now is compared.
UpdatedNowOnly(c, new) == new[c].now # epg[c].now

\* epg_changed of either entry.
Updated(c, new) == new[c] # epg[c]

\* iniparser_load fails: the file is bad, or gone since stat.
LoadFails == /\ loading
             /\ content \in {Bad, Absent}
             /\ loading' = FALSE
             /\ ResetEpg

\* Mutant: a new EIT keeps the version of the old one.
InitEpgKeepsVersion(new) ==
  /\ version' = version
  /\ epg' = [c \in Channels |-> IF Updated(c, new) THEN new[c] ELSE epg[c]]
  /\ eit' = [c \in Channels |->
               IF ~Updated(c, new) THEN eit[c]
               ELSE IF new[c] = Nothing THEN NoEit
               ELSE [version |-> version'[c], pair |-> new[c]]]

\* config_channel_init_epg for every channel.
InitEpg(new) ==
  /\ version' = [c \in Channels |-> IF Updated(c, new) THEN Bump(version[c]) ELSE version[c]]
  /\ epg' = [c \in Channels |-> IF Updated(c, new) THEN new[c] ELSE epg[c]]
  /\ eit' = [c \in Channels |->
               IF ~Updated(c, new) THEN eit[c]
               ELSE IF new[c] = Nothing THEN NoEit
               ELSE [version |-> version'[c], pair |-> new[c]]]

LoadWorks == /\ loading
             /\ content \in Contents
             /\ loading' = FALSE
             /\ InitEpg(content)
             /\ UNCHANGED mtime

\* The channels say what the file does; without a (good) file, nothing.
EpgIsTheFile == \A c \in Channels : epg[c] = ToldBy(content, c)

\* The EITs that are sent tell just that, each under its channel's last version.
EitsTellTheFile ==
  \A c \in Channels :
    eit[c] = IF ToldBy(content, c) = Nothing THEN NoEit
             ELSE [version |-> version[c], pair |-> ToldBy(content, c)]

\* A file that stat finds no newer (config.c:371-381) needs no second look: after any
\* writes, removals, failed and overtaken loads it is what the EITs tell already,
\* provided its last write gave it a later time than the one loaded.
NotNewerIsOnAir ==
  ~loading /\ content # Absent /\ ~hurried /\ fileTime <= mtime =>
    EpgIsTheFile /\ EitsTellTheFile
=============================================================================
