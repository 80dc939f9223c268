----------------------------- MODULE PsiTables -----------------------------
(***************************************************************************)
(* The PSI thread (output_psi.c:198-345): every 10 ms each table whose     *)
(* time has come gets its continuity counters and goes to psibuf, which    *)
(* MIX empties at the same time.  A table that does not fit is lost as a   *)
(* whole; nobody looks at what cbuf_fill returns.                          *)
(*                                                                         *)
(* A table is its number of packets.  The EITs of the channels come from   *)
(* EpgReload, which this thread runs before it sends them.                 *)
(***************************************************************************)
EXTENDS EpgReload, Sequences

CONSTANTS Size,       \* packets of each table but the EITs, 0: there is none
          EitSize,    \* packets of an EIT
          Timeout,    \* conf->timeouts, in polls
          MaxLate,    \* bound: polls that one sleep may take
          PsiMax,     \* packets psibuf holds
          ContMod,    \* 2^4, the values of a continuity counter
          NC,         \* inputs on conf->inputs: channel r->channel is the r-th
          Watched     \* the EITs of which history is kept: channel and side

Order  == <<"pat", "nit", "sdt", "tdt", "tot">>
Tables == {"pat", "nit", "sdt", "tdt", "tot"}
Pids   == {"pat", "nit", "sdt", "tdt", "eit"}
Sides  == {"now", "next"}

ASSUME PsiAssumption == /\ NC \in Nat /\ Channels = 1..NC
                        /\ Size \in [Tables -> Nat] /\ EitSize \in Nat \ {0}
                        /\ Timeout \in [Tables \cup {"eit"} -> Nat]
                        /\ MaxLate \in Nat \ {0}
                        /\ PsiMax \in Nat
                        /\ ContMod \in Nat \ {0}
                        /\ Watched \subseteq Channels \X Sides

VARIABLES
  pc,      \* where output_handle_psi is
  next,    \* the table or EIT to be looked at next
  age,     \* polls since OUTPUT.x_ts, up to the time-out
  cont,    \* OUTPUT.pid_x_cont
  psibuf,  \* packets in OUTPUT.psibuf
  heard,   \* history: the last counter of each PID in psibuf, -1 after a loss
  held,    \* history: the watched EITs a receiver has
  missed   \* history: changes of the channel's EPG since then

psiVars == <<pc, next, age, cont, psibuf>>
history == <<heard, held, missed>>
vars    == <<fileVars, epgVars, psiVars, history>>

Told  == [version : 0..VersionMod - 1, entry : Entries \cup {NoEntry}]

TypeOK ==
  /\ EpgTypeOK
  /\ pc \in {"sleep", "tables", "epg", "eit"}
  /\ next \in Nat /\ (pc = "tables" => next \in 1..5) /\ (pc = "eit" => next \in 1..2 * NC)
  /\ age \in [Tables \cup {"eit"} -> Nat]
  /\ cont \in [Pids -> 0..ContMod - 1]
  /\ psibuf \in 0..PsiMax
  /\ heard \in [Pids -> -1..ContMod - 1]
  /\ held \in [Watched -> Told \cup {NoEit}]
  /\ missed \in [Watched -> 0..VersionMod]

Init == /\ EpgInit
        /\ pc = "sleep" /\ next = 1
        /\ age = [t \in Tables \cup {"eit"} |-> 0]
        /\ cont = [p \in Pids |-> IF p = "tdt" THEN 15 % ContMod ELSE 0]
        /\ psibuf = 0
        /\ heard = [p \in Pids |-> -1]
        /\ held = [w \in Watched |-> NoEit]
        /\ missed = [w \in Watched |-> 0]

-----------------------------------------------------------------------------
(* Adding a table.                                                         *)

\* TOT and TDT leave on one PID with one counter.
PidOf(t) == IF t = "tot" THEN "tdt" ELSE t

Fits(n) == psibuf + n <= PsiMax

\* Mutant: the counter goes up by one per table.
AddPerTable(p, n) ==
  /\ cont' = [cont EXCEPT ![p] = (@ + 1) % ContMod]
  /\ psibuf' = IF Fits(n) THEN psibuf + n ELSE psibuf
  /\ heard' = IF n = 0 THEN heard
              ELSE [heard EXCEPT ![p] = IF Fits(n) THEN (cont[p] + n - 1) % ContMod ELSE -1]

\* Mutant: what does not fit is put in nevertheless.
AddOverruns(p, n) ==
  /\ cont' = [cont EXCEPT ![p] = (@ + n) % ContMod]
  /\ psibuf' = psibuf + n
  /\ heard' = IF n = 0 THEN heard ELSE [heard EXCEPT ![p] = (cont[p] + n - 1) % ContMod]

\* The packets take the next n counters of the PID, and psibuf takes them all or
\* none.
Add(p, n) ==
  /\ cont' = [cont EXCEPT ![p] = (@ + n) % ContMod]
  /\ psibuf' = IF Fits(n) THEN psibuf + n ELSE psibuf
  /\ heard' = IF n = 0 THEN heard
              ELSE [heard EXCEPT ![p] = IF Fits(n) THEN (cont[p] + n - 1) % ContMod ELSE -1]

Due(t) == age[t] >= Timeout[t]

\* An empty PAT is not sent; a table that was not made is not either.
Sendable(t) == Size[t] > 0 /\ (t = "pat" => Channels # {})

-----------------------------------------------------------------------------
(* output_handle_psi.                                                      *)

\* gettimeofday after a sleep.
Wake == /\ pc = "sleep"
        /\ \E d \in 1..MaxLate :
             age' = [t \in Tables \cup {"eit"} |->
                       IF age[t] + d > Timeout[t] THEN Timeout[t] ELSE age[t] + d]
        /\ pc' = "tables" /\ next' = 1
        /\ UNCHANGED <<cont, psibuf, history, fileVars, epgVars>>

\* On to the table behind the one just looked at.
NextTable == IF next < Len(Order) THEN pc' = pc /\ next' = next + 1
             ELSE pc' = "epg" /\ next' = 1

\* Mutant: the time stamp is set whether the table is due or not.
NotDueRestarts == /\ pc = "tables"
                  /\ ~Due(Order[next])
                  /\ NextTable
                  /\ age' = [age EXCEPT ![Order[next]] = 0]
                  /\ UNCHANGED <<cont, psibuf, history, fileVars, epgVars>>

TableNotDue == /\ pc = "tables"
               /\ ~Due(Order[next])
               /\ NextTable
               /\ UNCHANGED <<age, cont, psibuf, history, fileVars, epgVars>>

TableDue == LET t == Order[next] IN
            /\ pc = "tables"
            /\ Due(t)
            /\ NextTable
            /\ age' = [age EXCEPT ![t] = 0]
            /\ IF Sendable(t) THEN Add(PidOf(t), Size[t])
               ELSE UNCHANGED <<cont, psibuf, heard>>
            /\ UNCHANGED <<held, missed, fileVars, epgVars>>

EitNotDue == /\ pc = "epg"
             /\ ~Due("eit")
             /\ pc' = "sleep"
             /\ UNCHANGED <<next, age, cont, psibuf, history, fileVars, epgVars>>

\* The walk over the inputs starts, if there are any.
StartWalk == pc' = IF NC = 0 THEN "sleep" ELSE "eit"

\* output_add_eit: config_load_epg first.
LookAtEpg == /\ pc = "epg"
             /\ Due("eit")
             /\ \/ /\ StatNewer
                   /\ UNCHANGED <<pc, age>>
                \/ /\ StatNotNewer \/ StatMissing
                   /\ StartWalk
                   /\ age' = [age EXCEPT !["eit"] = 0]
             /\ UNCHANGED <<next, cont, psibuf, history, fileVars>>

ReadEpg == /\ pc = "epg"
           /\ LoadWorks \/ LoadFails
           /\ StartWalk
           /\ age' = [age EXCEPT !["eit"] = 0]
           /\ missed' = [w \in Watched |->
                           IF content \in Contents /\ Updated(w[1], content) /\ missed[w] < VersionMod
                           THEN missed[w] + 1 ELSE missed[w]]
           /\ UNCHANGED <<next, cont, psibuf, heard, held, fileVars>>

\* The next-th EIT of the walk: first now, then next, of one channel after the other.
EitChannel == (next + 1) \div 2
EitSide    == IF next % 2 = 1 THEN "now" ELSE "next"

\* __output_add_eit
AddEit ==
  LET c == EitChannel
      s == EitSide IN
  /\ pc = "eit"
  /\ IF next < 2 * NC THEN pc' = pc /\ next' = next + 1 ELSE pc' = "sleep" /\ next' = 1
  /\ IF eit[c] = NoEit THEN UNCHANGED <<cont, psibuf, history>>
     ELSE /\ Add("eit", EitSize)
          /\ IF Fits(EitSize) /\ <<c, s>> \in Watched
             THEN /\ held' = [held EXCEPT ![<<c, s>>] = [version |-> eit[c].version,
                                                        entry |-> eit[c].pair[s]]]
                  /\ missed' = [missed EXCEPT ![<<c, s>>] = 0]
             ELSE UNCHANGED <<held, missed>>
  /\ UNCHANGED <<age, fileVars, epgVars>>

\* MIX takes packets out: it always takes PSI first.
MixTakes == /\ psibuf > 0
            /\ psibuf' = psibuf - 1
            /\ UNCHANGED <<pc, next, age, cont, history, fileVars, epgVars>>

Edit == Editor /\ UNCHANGED <<psiVars, history>>

Psi == Wake \/ TableNotDue \/ TableDue \/ EitNotDue \/ LookAtEpg \/ ReadEpg \/ AddEit

Next == Psi \/ MixTakes \/ Edit

Spec == Init /\ [][Next]_vars

\* The PSI thread is scheduled.
FairSpec == Spec /\ WF_vars(Psi)
-----------------------------------------------------------------------------
(* Properties.                                                             *)

\* The next packet of a PID continues what a receiver has counted last, unless a
\* table was lost in between: TDT and TOT, and the EITs of all channels, share
\* a counter each (output_psi.c:198-273).
CountersContinue ==
  \A p \in Pids : heard[p] # -1 => cont[p] = (heard[p] + 1) % ContMod

\* A receiver may take an EIT of the version it has for the one it has: whatever
\* is reloaded, removed and lost, the same version says the same, unless the five
\* bits of the version have gone round since (config.c:334).
VersionTellsContent ==
  \A w \in Watched :
    LET sent == eit[w[1]] IN
    (/\ held[w] # NoEit /\ sent # NoEit
     /\ held[w].version = sent.version
     /\ missed[w] < VersionMod) => held[w].entry = sent.pair[w[2]]

\* README:30: the EPG file "is auto reloaded when it is changed".  Once it is left
\* alone, the channels say for ever what it says, also if it is removed or cannot
\* be parsed; provided the last write gave it a later time than the one loaded.
EpgFollowsFile ==
  \A f \in Contents \cup {Bad, Absent} :
    <>[](content = f /\ ~hurried) => <>[]EpgIsTheFile

SendsTable(t)  == TableDue /\ Order[next] = t /\ Sendable(t) /\ Fits(Size[t])
SendsEit(c, s) == AddEit /\ EitChannel = c /\ EitSide = s /\ eit[c] # NoEit /\ Fits(EitSize)

\* With psibuf empty whenever the thread wakes, all tables are sent again and again,
\* and so are the EITs of a channel that keeps having an EPG: none is always late.
EveryTableIsSent ==
  <>[][Wake => psibuf = 0]_vars =>
    /\ \A t \in Tables : Sendable(t) => []<><<SendsTable(t)>>_vars
    /\ \A c \in Channels, s \in Sides :
         <>[](eit[c] # NoEit) => []<><<SendsEit(c, s)>>_vars
=============================================================================
