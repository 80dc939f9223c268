----------------------------- MODULE PsiProofs -----------------------------
(***************************************************************************)
(* Proofs about the PSI thread and the EPG it sends, for any number of     *)
(* channels, any sizes and time-outs of the tables, any files and any      *)
(* width of the counters and of the version.                               *)
(***************************************************************************)
EXTENDS PsiTables, Arithmetic, TLAPS

LEMMA Constants ==
  /\ NC \in Nat /\ Channels = 1..NC
  /\ Size \in [Tables -> Nat] /\ EitSize \in Nat \ {0}
  /\ Timeout \in [Tables \cup {"eit"} -> Nat]
  /\ MaxLate \in Nat \ {0} /\ PsiMax \in Nat /\ ContMod \in Nat \ {0}
  /\ Watched \subseteq Channels \X Sides
  BY PsiAssumption

LEMMA EpgConstants ==
  /\ Contents \subseteq [Channels -> Pair]
  /\ VersionMod \in Nat \ {0} /\ MaxClock \in Nat \ {0}
  /\ NoEit \notin Eit
  BY EpgAssumption DEF Eit

-----------------------------------------------------------------------------
(* The EPG keeps its type.                                                 *)

LEMMA NothingIsPair == Nothing \in Pair
  BY DEF Nothing, Pair

LEMMA BumpType == ASSUME NEW v \in 0..VersionMod - 1 PROVE Bump(v) \in 0..VersionMod - 1
  BY EpgConstants DEF Bump

LEMMA ResetType == ASSUME EpgTypeOK, ResetEpg
  PROVE  /\ epg' \in [Channels -> Pair] /\ version' \in [Channels -> 0..VersionMod - 1]
         /\ eit' \in [Channels -> Eit \cup {NoEit}] /\ mtime' \in 0..MaxClock
  BY NothingIsPair, EpgConstants DEF EpgTypeOK, ResetEpg

LEMMA InitEpgType == ASSUME EpgTypeOK, NEW new \in Contents, InitEpg(new)
  PROVE  /\ epg' \in [Channels -> Pair] /\ version' \in [Channels -> 0..VersionMod - 1]
         /\ eit' \in [Channels -> Eit \cup {NoEit}]
<1>1. new \in [Channels -> Pair]
  BY EpgConstants
<1>2. version' \in [Channels -> 0..VersionMod - 1]
  BY BumpType DEF InitEpg, EpgTypeOK
<1>3. epg' \in [Channels -> Pair]
  BY <1>1 DEF InitEpg, EpgTypeOK
<1>4. ASSUME NEW c \in Channels PROVE [version |-> version'[c], pair |-> new[c]] \in Eit
  BY <1>1, <1>2 DEF Eit
<1>5. eit' \in [Channels -> Eit \cup {NoEit}]
  BY <1>4 DEF InitEpg, EpgTypeOK
<1>6. QED
  BY <1>2, <1>3, <1>5

LEMMA EpgTypeInductive ==
  ASSUME EpgTypeOK,
         \/ UNCHANGED <<fileVars, epgVars>>
         \/ Editor
         \/ (StatNewer \/ StatNotNewer \/ StatMissing \/ LoadFails \/ LoadWorks) /\ UNCHANGED fileVars
  PROVE  EpgTypeOK'
<1> USE EpgConstants DEF fileVars, epgVars
<1>1. CASE UNCHANGED <<fileVars, epgVars>>
  BY <1>1 DEF EpgTypeOK
<1>2. CASE Tick
  BY <1>2 DEF Tick, EpgTypeOK
<1>3. ASSUME NEW new \in Contents \cup {Bad, Absent}, NEW time \in 1..MaxClock, WriteFile(new, time)
      PROVE  EpgTypeOK'
  <2>1. hurried' \in BOOLEAN
    BY <1>3, Zenon DEF WriteFile
  <2>2. QED
    BY <1>3, <2>1 DEF WriteFile, EpgTypeOK
<1>4. CASE UNCHANGED fileVars /\ StatNewer
  <2>1. mtime' \in 0..MaxClock /\ loading' \in BOOLEAN
    BY <1>4 DEF StatNewer, EpgTypeOK
  <2>2. QED
    BY <1>4, <2>1 DEF StatNewer, EpgTypeOK
<1>5. CASE UNCHANGED fileVars /\ StatNotNewer
  BY <1>5 DEF StatNotNewer, EpgTypeOK
<1>6. CASE UNCHANGED fileVars /\ StatMissing
  BY <1>6, ResetType DEF StatMissing, EpgTypeOK
<1>7. CASE UNCHANGED fileVars /\ LoadFails
  <2>1. loading' \in BOOLEAN
    BY <1>7, Zenon DEF LoadFails
  <2>2. QED
    BY <1>7, <2>1, ResetType DEF LoadFails, EpgTypeOK
<1>8. CASE UNCHANGED fileVars /\ LoadWorks
  <2>1. loading' \in BOOLEAN
    BY <1>8, Zenon DEF LoadWorks
  <2>2. QED
    BY <1>8, <2>1, InitEpgType DEF LoadWorks, EpgTypeOK
<1>9. QED
  BY <1>1, <1>2, <1>3, <1>4, <1>5, <1>6, <1>7, <1>8 DEF Editor

LEMMA EpgTypeInitially == ASSUME EpgInit PROVE EpgTypeOK
<1>1. \A c \in Channels : ToldBy(content, c) \in Pair
  BY NothingIsPair, EpgConstants DEF EpgInit, ToldBy
<1>2. epg \in [Channels -> Pair]
  BY <1>1 DEF EpgInit
<1>3. 0 \in 0..VersionMod - 1
  BY EpgConstants
<1>4. version \in [Channels -> 0..VersionMod - 1]
  BY <1>3, BumpType DEF EpgInit
<1>5. eit \in [Channels -> Eit \cup {NoEit}]
  <2>1. ASSUME NEW c \in Channels PROVE [version |-> version[c], pair |-> epg[c]] \in Eit
    BY <1>2, <1>4 DEF Eit
  <2>2. QED
    BY <2>1 DEF EpgInit
<1>6. hurried \in BOOLEAN /\ loading \in BOOLEAN
  BY Zenon DEF EpgInit
<1>7. clock \in 1..MaxClock /\ fileTime \in 1..MaxClock /\ mtime \in 0..MaxClock
  BY EpgConstants DEF EpgInit
<1>8. QED
  BY <1>2, <1>4, <1>5, <1>6, <1>7 DEF EpgInit, EpgTypeOK

-----------------------------------------------------------------------------
(* The PSI thread keeps its type: the walk over the inputs starts at its   *)
(* first EIT, because the tables before it end with next = 1.              *)

PsiTypeOK ==
  /\ pc \in {"sleep", "tables", "epg", "eit"}
  /\ next \in Nat /\ (pc = "tables" => next \in 1..5) /\ (pc = "eit" => next \in 1..2 * NC)
  /\ pc = "epg" => next = 1
  /\ age \in [Tables \cup {"eit"} -> Nat]
  /\ cont \in [Pids -> 0..ContMod - 1]
  /\ psibuf \in 0..PsiMax
  /\ heard \in [Pids -> -1..ContMod - 1]
  /\ held \in [Watched -> Told \cup {NoEit}]
  /\ missed \in [Watched -> 0..VersionMod]

LEMMA TypeSplits == EpgTypeOK /\ PsiTypeOK => TypeOK
  BY DEF TypeOK, PsiTypeOK

LEMMA AddType ==
  ASSUME PsiTypeOK, NEW p \in Pids, NEW n \in Nat, Add(p, n)
  PROVE  /\ cont' \in [Pids -> 0..ContMod - 1] /\ psibuf' \in 0..PsiMax
         /\ heard' \in [Pids -> -1..ContMod - 1]
<1>1. cont[p] \in Nat /\ cont[p] + n \in Nat /\ (n # 0 => cont[p] + n - 1 \in Nat)
  BY Constants DEF PsiTypeOK
<1>2. /\ (cont[p] + n) % ContMod \in 0..ContMod - 1
      /\ n # 0 => (cont[p] + n - 1) % ContMod \in 0..ContMod - 1
  BY <1>1, Constants, Division
<1>3. cont' \in [Pids -> 0..ContMod - 1]
  BY <1>2 DEF Add, PsiTypeOK
<1>4. psibuf' \in 0..PsiMax
  BY Constants DEF Add, Fits, PsiTypeOK
<1>5. heard' \in [Pids -> -1..ContMod - 1]
  BY <1>2, Constants DEF Add, PsiTypeOK
<1>6. QED
  BY <1>3, <1>4, <1>5

LEMMA OrderType == ASSUME PsiTypeOK, pc = "tables"
  PROVE  Order[next] \in Tables /\ PidOf(Order[next]) \in Pids /\ Len(Order) = 5
  BY DEF PsiTypeOK, Order, Tables, PidOf, Pids

LEMMA WalkType == ASSUME PsiTypeOK, pc = "eit"
  PROVE  EitChannel \in Channels /\ EitSide \in Sides
  BY Constants DEF PsiTypeOK, EitChannel, EitSide, Sides

LEMMA PsiTypeInductive ==
  ASSUME EpgTypeOK, PsiTypeOK, [Next]_vars PROVE PsiTypeOK'
<1> USE Constants DEF PsiTypeOK, history, epgVars, fileVars
<1>1. CASE Wake
  <2>1. ASSUME NEW d \in 1..MaxLate,
               age' = [t \in Tables \cup {"eit"} |->
                         IF age[t] + d > Timeout[t] THEN Timeout[t] ELSE age[t] + d]
        PROVE  age' \in [Tables \cup {"eit"} -> Nat]
    <3>1. ASSUME NEW t \in Tables \cup {"eit"} PROVE Timeout[t] \in Nat /\ age[t] + d \in Nat
      OBVIOUS
    <3>2. QED
      BY <2>1, <3>1
  <2>2. QED
    BY <1>1, <2>1 DEF Wake
<1>2. CASE TableNotDue
  <2>1. Len(Order) = 5 /\ pc = "tables" /\ next \in 1..5
    BY <1>2, OrderType DEF TableNotDue
  <2>2. pc' \in {"tables", "epg"} /\ next' \in 1..5 /\ (pc' = "epg" => next' = 1)
    BY <1>2, <2>1 DEF TableNotDue, NextTable
  <2>3. QED
    BY <1>2, <2>2 DEF TableNotDue
<1>3. CASE TableDue
  <2>1. /\ Order[next] \in Tables /\ PidOf(Order[next]) \in Pids /\ Len(Order) = 5
        /\ pc = "tables" /\ next \in 1..5
    BY <1>3, OrderType DEF TableDue
  <2>2. /\ pc' \in {"tables", "epg"} /\ next' \in 1..5 /\ (pc' = "epg" => next' = 1)
    BY <1>3, <2>1 DEF TableDue, NextTable
  <2>3. age' \in [Tables \cup {"eit"} -> Nat]
    BY <1>3, <2>1 DEF TableDue
  <2>4. /\ cont' \in [Pids -> 0..ContMod - 1] /\ psibuf' \in 0..PsiMax
        /\ heard' \in [Pids -> -1..ContMod - 1]
    <3>1. CASE Sendable(Order[next])
      BY <1>3, <2>1, <3>1, AddType DEF TableDue
    <3>2. CASE ~Sendable(Order[next])
      BY <1>3, <3>2 DEF TableDue
    <3>3. QED
      BY <3>1, <3>2
  <2>5. held' = held /\ missed' = missed
    BY <1>3 DEF TableDue
  <2>6. QED
    BY <2>2, <2>3, <2>4, <2>5
<1>4. CASE EitNotDue
  BY <1>4 DEF EitNotDue
<1>5. CASE LookAtEpg
  <2>1. /\ pc' \in {"epg", "sleep", "eit"} /\ (pc' = "eit" => NC # 0)
        /\ pc = "epg" /\ next' = next /\ age' \in [Tables \cup {"eit"} -> Nat]
    BY <1>5 DEF LookAtEpg, StartWalk
  <2>2. QED
    BY <1>5, <2>1 DEF LookAtEpg
<1>6. CASE ReadEpg
  <2>1. /\ pc' \in {"sleep", "eit"} /\ (pc' = "eit" => NC # 0)
        /\ pc = "epg" /\ next' = next /\ age' \in [Tables \cup {"eit"} -> Nat]
    BY <1>6 DEF ReadEpg, StartWalk
  <2>2. missed' \in [Watched -> 0..VersionMod]
    BY <1>6, EpgConstants DEF ReadEpg
  <2>3. QED
    BY <1>6, <2>1, <2>2 DEF ReadEpg
<1>7. CASE AddEit
  <2>1. EitChannel \in Channels /\ EitSide \in Sides /\ pc = "eit" /\ next \in 1..2 * NC
    BY <1>7, WalkType DEF AddEit
  <2>2. /\ pc' \in {"eit", "sleep"} /\ next' \in Nat /\ (pc' = "eit" => next' \in 1..2 * NC)
    BY <1>7, <2>1 DEF AddEit
  <2>3. CASE eit[EitChannel] = NoEit
    BY <1>7, <2>2, <2>3 DEF AddEit
  <2>4. CASE eit[EitChannel] # NoEit
    <3>1. eit[EitChannel] \in Eit
      BY <2>1, <2>4 DEF EpgTypeOK
    <3>2. [version |-> eit[EitChannel].version, entry |-> eit[EitChannel].pair[EitSide]] \in Told
      BY <2>1, <3>1 DEF Eit, Told, Pair, Sides
    <3>3. "eit" \in Pids /\ EitSize \in Nat /\ Add("eit", EitSize)
      BY <1>7, <2>4 DEF AddEit, Pids
    <3>4. /\ cont' \in [Pids -> 0..ContMod - 1] /\ psibuf' \in 0..PsiMax
          /\ heard' \in [Pids -> -1..ContMod - 1]
      BY <3>3, AddType
    <3>5. held' \in [Watched -> Told \cup {NoEit}] /\ missed' \in [Watched -> 0..VersionMod]
      <4>1. 0 \in 0..VersionMod
        BY EpgConstants
      <4>2. CASE Fits(EitSize) /\ <<EitChannel, EitSide>> \in Watched
        BY <1>7, <2>4, <3>2, <4>1, <4>2 DEF AddEit
      <4>3. CASE ~(Fits(EitSize) /\ <<EitChannel, EitSide>> \in Watched)
        BY <1>7, <2>4, <4>3 DEF AddEit
      <4>4. QED
        BY <4>2, <4>3
    <3>6. QED
      BY <1>7, <2>2, <3>4, <3>5 DEF AddEit
  <2>5. QED
    BY <2>3, <2>4
<1>8. CASE MixTakes
  BY <1>8 DEF MixTakes
<1>9. CASE Edit \/ UNCHANGED vars
  BY <1>9 DEF Edit, vars, psiVars
<1>10. QED
  BY <1>1, <1>2, <1>3, <1>4, <1>5, <1>6, <1>7, <1>8, <1>9 DEF Next, Psi

LEMMA EpgSteps ==
  ASSUME [Next]_vars
  PROVE  \/ UNCHANGED <<fileVars, epgVars>>
         \/ Editor
         \/ (StatNewer \/ StatNotNewer \/ StatMissing \/ LoadFails \/ LoadWorks) /\ UNCHANGED fileVars
  BY DEF Next, Psi, Wake, TableNotDue, TableDue, EitNotDue, LookAtEpg, ReadEpg, AddEit,
         MixTakes, Edit, vars

LEMMA Initially == ASSUME Init PROVE EpgTypeOK /\ PsiTypeOK
<1>1. 15 % ContMod \in 0..ContMod - 1 /\ 0 \in 0..ContMod - 1 /\ -1 \in -1..ContMod - 1
  BY Constants
<1>2. PsiTypeOK
  BY <1>1, Constants, EpgConstants DEF Init, PsiTypeOK
<1>3. QED
  BY <1>2, EpgTypeInitially DEF Init

\* Every variable of the PSI thread and of the EPG keeps its type: psibuf stays
\* within its size, counters and versions within their bits, the walk over the
\* inputs on the list.
THEOREM TypeCorrect == Spec => []TypeOK
<1>1. ASSUME Init PROVE EpgTypeOK /\ PsiTypeOK
  BY <1>1, Initially
<1>2. ASSUME EpgTypeOK /\ PsiTypeOK, [Next]_vars PROVE (EpgTypeOK /\ PsiTypeOK)'
  BY <1>2, EpgSteps, EpgTypeInductive, PsiTypeInductive
<1>3. EpgTypeOK /\ PsiTypeOK => TypeOK
  BY TypeSplits
<1>4. QED
  BY <1>1, <1>2, <1>3, PTL DEF Spec

-----------------------------------------------------------------------------
(* Continuity.                                                             *)

LEMMA AddContinues ==
  ASSUME PsiTypeOK, CountersContinue, NEW p \in Pids, NEW n \in Nat, Add(p, n)
  PROVE  CountersContinue'
<1>1. SUFFICES ASSUME NEW q \in Pids, heard'[q] # -1
               PROVE  cont'[q] = (heard'[q] + 1) % ContMod
  BY DEF CountersContinue
<1>2. CASE q # p \/ n = 0
  <2>1. cont[q] \in 0..ContMod - 1
    BY DEF PsiTypeOK
  <2>2. cont'[q] = cont[q]
    <3>1. CASE q # p
      BY <3>1 DEF Add, PsiTypeOK
    <3>2. CASE q = p
      <4>1. cont[p] \in Nat /\ cont[p] < ContMod /\ cont[p] + 0 = cont[p]
        BY <2>1, <3>2, Constants
      <4>2. cont[p] % ContMod = cont[p]
        BY <4>1, Constants, ModOfSmall
      <4>3. cont'[p] = (cont[p] + n) % ContMod
        BY DEF Add, PsiTypeOK
      <4>4. n = 0
        BY <1>2, <3>2
      <4>5. QED
        BY <3>2, <4>1, <4>2, <4>3, <4>4
    <3>3. QED
      BY <3>1, <3>2
  <2>3. heard'[q] = heard[q]
    BY <1>2 DEF Add, PsiTypeOK
  <2>4. QED
    BY <1>1, <2>2, <2>3 DEF CountersContinue
<1>3. CASE q = p /\ n # 0
  <2>1. cont[p] + n - 1 \in Nat /\ (cont[p] + n - 1) + 1 = cont[p] + n
    BY <1>3, Constants DEF PsiTypeOK
  <2>2. heard'[p] = (cont[p] + n - 1) % ContMod
    BY <1>1, <1>3 DEF Add, PsiTypeOK
  <2>3. cont'[p] = (cont[p] + n) % ContMod
    BY DEF Add, PsiTypeOK
  <2>4. QED
    BY <1>3, <2>1, <2>2, <2>3, Constants, ModSucc
<1>4. QED
  BY <1>2, <1>3

LEMMA ContinuesInductive ==
  ASSUME PsiTypeOK, CountersContinue, [Next]_vars PROVE CountersContinue'
<1>1. CASE UNCHANGED <<cont, heard>>
  BY <1>1 DEF CountersContinue
<1>2. CASE TableDue
  <2>1. CASE Sendable(Order[next])
    <3>1. /\ Order[next] \in Tables /\ PidOf(Order[next]) \in Pids
      BY <1>2, OrderType DEF TableDue
    <3>2. Size[Order[next]] \in Nat /\ Add(PidOf(Order[next]), Size[Order[next]])
      BY <1>2, <2>1, <3>1, Constants DEF TableDue
    <3>3. QED
      BY <3>1, <3>2, AddContinues
  <2>2. QED
    BY <1>1, <1>2, <2>1 DEF TableDue
<1>3. CASE AddEit
  <2>1. "eit" \in Pids /\ EitSize \in Nat
    BY Constants DEF Pids
  <2>2. Add("eit", EitSize) \/ UNCHANGED <<cont, heard>>
    BY <1>3 DEF AddEit, history
  <2>3. QED
    BY <1>1, <2>1, <2>2, AddContinues
<1>4. CASE Wake \/ TableNotDue \/ EitNotDue \/ LookAtEpg \/ ReadEpg \/ MixTakes \/ Edit \/ UNCHANGED vars
  <2>1. UNCHANGED <<cont, heard>>
    BY <1>4 DEF Wake, TableNotDue, EitNotDue, LookAtEpg, ReadEpg, MixTakes, Edit, vars,
                psiVars, history
  <2>2. QED
    BY <1>1, <2>1
<1>5. QED
  BY <1>2, <1>3, <1>4 DEF Next, Psi

\* For tables of any size and counters of any width: what goes into psibuf under a
\* PID continues what went before, or a table has been lost (output_psi.c:198-273).
THEOREM PsiIsContinuous == Spec => []CountersContinue
<1>1. ASSUME Init PROVE EpgTypeOK /\ PsiTypeOK /\ CountersContinue
  BY <1>1, Initially DEF Init, CountersContinue
<1>2. ASSUME EpgTypeOK /\ PsiTypeOK /\ CountersContinue, [Next]_vars
      PROVE  (EpgTypeOK /\ PsiTypeOK /\ CountersContinue)'
  BY <1>2, EpgSteps, EpgTypeInductive, PsiTypeInductive, ContinuesInductive
<1>3. QED
  BY <1>1, <1>2, PTL DEF Spec

-----------------------------------------------------------------------------
(* Versions.  While a receiver has an EIT, the version has moved on by as  *)
(* many steps as the EPG has changed, at most VersionMod - 1 of them as    *)
(* far as the property goes; and without a change it still holds what the  *)
(* channel tells, if that tells anything.                                  *)

Ahead(v, m) == IF v + m < VersionMod THEN v + m ELSE v + m - VersionMod

EitHasVersion == \A c \in Channels : eit[c] # NoEit => eit[c].version = version[c]

Follows(w) == held[w] # NoEit /\ missed[w] < VersionMod
                => version[w[1]] = Ahead(held[w].version, missed[w])
Same(w)    == held[w] # NoEit /\ missed[w] = 0 /\ eit[w[1]] # NoEit
                => held[w].entry = eit[w[1]].pair[w[2]]

Versions == EitHasVersion /\ \A w \in Watched : Follows(w) /\ Same(w)

LEMMA VersionsTell == ASSUME EpgTypeOK, PsiTypeOK, Versions PROVE VersionTellsContent
<1>1. SUFFICES ASSUME NEW w \in Watched, held[w] # NoEit, eit[w[1]] # NoEit,
                      held[w].version = eit[w[1]].version, missed[w] < VersionMod
               PROVE  held[w].entry = eit[w[1]].pair[w[2]]
  BY DEF VersionTellsContent
<1>2. w[1] \in Channels
  BY Constants
<1>3. held[w].version = version[w[1]]
  BY <1>1, <1>2 DEF Versions, EitHasVersion
<1>4. held[w].version \in 0..VersionMod - 1 /\ missed[w] \in Nat
  BY <1>1, EpgConstants DEF PsiTypeOK, Told
<1>5. held[w].version = Ahead(held[w].version, missed[w])
  BY <1>1, <1>3 DEF Versions, Follows
<1>6. missed[w] = 0
  BY <1>1, <1>4, <1>5, EpgConstants DEF Ahead
<1>7. QED
  BY <1>1, <1>6 DEF Versions, Same

LEMMA BumpAhead ==
  ASSUME NEW v \in 0..VersionMod - 1, NEW m \in Nat, m + 1 < VersionMod
  PROVE  Bump(Ahead(v, m)) = Ahead(v, m + 1)
  BY EpgConstants DEF Bump, Ahead

LEMMA VersionsInductive ==
  ASSUME EpgTypeOK, PsiTypeOK, Versions, [Next]_vars PROVE Versions'
<1>1. CASE UNCHANGED <<version, eit, held, missed>>
  BY <1>1 DEF Versions, EitHasVersion, Follows, Same
<1>2. ASSUME ResetEpg, UNCHANGED <<held, missed>> PROVE Versions'
  <2>1. version' = version /\ \A c \in Channels : eit'[c] = NoEit
    BY <1>2 DEF ResetEpg
  <2>2. \A w \in Watched : w[1] \in Channels
    BY Constants
  <2>3. QED
    BY <1>2, <2>1, <2>2 DEF Versions, EitHasVersion, Follows, Same
<1>3. CASE LookAtEpg
  <2>1. UNCHANGED <<held, missed>>
    BY <1>3 DEF LookAtEpg, history
  <2>2. UNCHANGED <<version, eit>> \/ ResetEpg
    BY <1>3 DEF LookAtEpg, StatNewer, StatNotNewer, StatMissing, epgVars
  <2>3. QED
    BY <1>1, <1>2, <2>1, <2>2
<1>4. CASE ReadEpg /\ LoadFails
  <2>1. content \notin Contents
    BY <1>4, EpgAssumption DEF LoadFails
  <2>2. missed' = [w \in Watched |-> missed[w]] /\ held' = held
    BY <1>4, <2>1 DEF ReadEpg
  <2>3. missed' = missed
    BY <2>2 DEF PsiTypeOK
  <2>4. QED
    BY <1>2, <1>4, <2>2, <2>3 DEF LoadFails
<1>5. CASE ReadEpg /\ LoadWorks
  <2>1. content \in Contents /\ InitEpg(content) /\ held' = held
    BY <1>5 DEF ReadEpg, LoadWorks
  <2>2. ASSUME NEW c \in Channels
        PROVE  /\ Updated(c, content) => version'[c] = Bump(version[c])
               /\ ~Updated(c, content) => version'[c] = version[c] /\ eit'[c] = eit[c]
               /\ Updated(c, content) /\ eit'[c] # NoEit => eit'[c].version = version'[c]
    BY <2>1, <2>2 DEF InitEpg
  <2>3. EitHasVersion'
    BY <2>2 DEF Versions, EitHasVersion
  <2>4. ASSUME NEW w \in Watched PROVE Follows(w)' /\ Same(w)'
    <3>1. w[1] \in Channels /\ missed[w] \in 0..VersionMod
      BY Constants DEF PsiTypeOK
    <3>2. CASE Updated(w[1], content)
      <4>1. missed'[w] = IF missed[w] < VersionMod THEN missed[w] + 1 ELSE missed[w]
        BY <1>5, <2>1, <3>2 DEF ReadEpg
      <4>2. missed'[w] # 0
        BY <3>1, <4>1, EpgConstants
      <4>3. ASSUME held[w] # NoEit, missed'[w] < VersionMod
            PROVE  version'[w[1]] = Ahead(held[w].version, missed'[w])
        <5>1. missed'[w] = missed[w] + 1 /\ missed[w] + 1 < VersionMod /\ missed[w] \in Nat
          BY <3>1, <4>1, <4>3, EpgConstants
        <5>2. held[w].version \in 0..VersionMod - 1
          BY <4>3 DEF PsiTypeOK, Told
        <5>3. version[w[1]] = Ahead(held[w].version, missed[w])
          BY <4>3, <5>1, EpgConstants DEF Versions, Follows
        <5>4. QED
          BY <2>2, <3>1, <3>2, <5>1, <5>2, <5>3, BumpAhead
      <4>4. QED
        BY <2>1, <4>2, <4>3 DEF Follows, Same
    <3>3. CASE ~Updated(w[1], content)
      <4>1. missed'[w] = missed[w]
        BY <1>5, <3>3 DEF ReadEpg
      <4>2. version'[w[1]] = version[w[1]] /\ eit'[w[1]] = eit[w[1]]
        BY <2>2, <3>1, <3>3
      <4>3. QED
        BY <2>1, <4>1, <4>2 DEF Versions, Follows, Same
    <3>4. QED
      BY <3>2, <3>3
  <2>5. QED
    BY <2>3, <2>4 DEF Versions
<1>6. CASE AddEit
  <2>1. /\ EitChannel \in Channels /\ EitSide \in Sides
        /\ UNCHANGED <<version, eit>>
    BY <1>6, WalkType DEF AddEit, epgVars
  <2>2. CASE UNCHANGED <<held, missed>>
    BY <1>1, <2>1, <2>2
  <2>3. CASE ~UNCHANGED <<held, missed>>
    <3> DEFINE c == EitChannel
               s == EitSide
    <3>1. /\ eit[c] # NoEit /\ <<c, s>> \in Watched
          /\ held' = [held EXCEPT ![<<c, s>>] = [version |-> eit[c].version,
                                                 entry |-> eit[c].pair[s]]]
          /\ missed' = [missed EXCEPT ![<<c, s>>] = 0]
      <4>1. ASSUME eit[c] = NoEit PROVE FALSE
        BY <1>6, <2>3, <4>1 DEF AddEit, history
      <4>2. ASSUME ~(Fits(EitSize) /\ <<c, s>> \in Watched) PROVE FALSE
        BY <1>6, <2>3, <4>1, <4>2 DEF AddEit
      <4>3. QED
        BY <1>6, <4>1, <4>2 DEF AddEit
    <3>2. held'[<<c, s>>] = [version |-> eit[c].version, entry |-> eit[c].pair[s]]
          /\ missed'[<<c, s>>] = 0
      BY <3>1 DEF PsiTypeOK
    <3>3. eit[c].version = version[c] /\ version[c] \in 0..VersionMod - 1
      BY <2>1, <3>1 DEF Versions, EitHasVersion, EpgTypeOK
    <3>4. Ahead(version[c], 0) = version[c]
      BY <3>3, EpgConstants DEF Ahead
    <3>5. ASSUME NEW w \in Watched, w = <<c, s>> PROVE Follows(w)' /\ Same(w)'
      <4>1. held'[w].version = version[w[1]] /\ held'[w].entry = eit[w[1]].pair[w[2]]
            /\ missed'[w] = 0 /\ Ahead(version[w[1]], 0) = version[w[1]]
        BY <3>2, <3>3, <3>4, <3>5
      <4>2. version' = version /\ eit' = eit
        BY <2>1
      <4>3. QED
        BY <4>1, <4>2 DEF Follows, Same
    <3>6. ASSUME NEW w \in Watched, w # <<c, s>> PROVE Follows(w)' /\ Same(w)'
      <4>1. held'[w] = held[w] /\ missed'[w] = missed[w]
        BY <3>1, <3>6 DEF PsiTypeOK
      <4>2. QED
        BY <2>1, <4>1 DEF Versions, Follows, Same
    <3>7. EitHasVersion'
      BY <2>1 DEF Versions, EitHasVersion
    <3>8. QED
      BY <3>5, <3>6, <3>7 DEF Versions
  <2>4. QED
    BY <2>2, <2>3
<1>7. CASE Wake \/ TableNotDue \/ TableDue \/ EitNotDue \/ MixTakes \/ Edit \/ UNCHANGED vars
  <2>1. UNCHANGED <<version, eit, held, missed>>
    BY <1>7 DEF Wake, TableNotDue, TableDue, EitNotDue, MixTakes, Edit, Editor, Tick, WriteFile,
                vars, epgVars, history
  <2>2. QED
    BY <1>1, <2>1
<1>8. QED
  BY <1>3, <1>4, <1>5, <1>6, <1>7 DEF Next, Psi, ReadEpg

\* For any files written at any moment: an EIT on its way that has the version of
\* the one a receiver holds says the same, however many were lost and however often
\* the file was spoilt or removed in between, short of a whole round of versions.
THEOREM VersionIsEnough == Spec => []VersionTellsContent
<1>1. ASSUME Init PROVE EpgTypeOK /\ PsiTypeOK /\ Versions
  <2>1. EitHasVersion
    BY <1>1 DEF Init, EpgInit, EitHasVersion
  <2>2. \A w \in Watched : held[w] = NoEit
    BY <1>1 DEF Init
  <2>3. QED
    BY <1>1, <2>1, <2>2, Initially DEF Versions, Follows, Same
<1>2. ASSUME EpgTypeOK /\ PsiTypeOK /\ Versions, [Next]_vars
      PROVE  (EpgTypeOK /\ PsiTypeOK /\ Versions)'
  BY <1>2, EpgSteps, EpgTypeInductive, PsiTypeInductive, VersionsInductive
<1>3. ASSUME EpgTypeOK /\ PsiTypeOK /\ Versions PROVE VersionTellsContent
  BY <1>3, VersionsTell
<1>4. QED
  BY <1>1, <1>2, <1>3, PTL DEF Spec

-----------------------------------------------------------------------------
(* What is on air.                                                         *)

\* The EIT of a channel is made from its entries and version.
EitIsEpg(c) == eit[c] = IF epg[c] = Nothing THEN NoEit
                        ELSE [version |-> version[c], pair |-> epg[c]]

\* The time remembered is that of the file as it was loaded, or of an older one.
Loaded ==
  content # Absent /\ ~hurried =>
    /\ mtime <= fileTime
    /\ mtime = fileTime /\ ~loading => EpgIsTheFile

OnAir == Loaded /\ \A c \in Channels : EitIsEpg(c)

LEMMA OnAirIsEnough == ASSUME EpgTypeOK, OnAir PROVE NotNewerIsOnAir
<1>1. SUFFICES ASSUME ~loading, content # Absent, ~hurried, fileTime <= mtime
               PROVE  EpgIsTheFile /\ EitsTellTheFile
  BY DEF NotNewerIsOnAir
<1>2. mtime = fileTime
  BY <1>1 DEF OnAir, Loaded, EpgTypeOK
<1>3. EpgIsTheFile
  BY <1>1, <1>2 DEF OnAir, Loaded
<1>4. EitsTellTheFile
  BY <1>3 DEF OnAir, EitIsEpg, EpgIsTheFile, EitsTellTheFile
<1>5. QED
  BY <1>3, <1>4

LEMMA ResetOnAir == ASSUME ResetEpg PROVE mtime' = 0 /\ \A c \in Channels : EitIsEpg(c)'
  BY DEF ResetEpg, EitIsEpg

LEMMA LoadOnAir ==
  ASSUME EpgTypeOK, \A c \in Channels : EitIsEpg(c),
         NEW new \in Contents, InitEpg(new)
  PROVE  /\ \A c \in Channels : epg'[c] = new[c]
         /\ \A c \in Channels : EitIsEpg(c)'
<1>1. ASSUME NEW c \in Channels PROVE epg'[c] = new[c] /\ EitIsEpg(c)'
  <2>1. /\ version'[c] = IF Updated(c, new) THEN Bump(version[c]) ELSE version[c]
        /\ epg'[c] = IF Updated(c, new) THEN new[c] ELSE epg[c]
        /\ eit'[c] = IF ~Updated(c, new) THEN eit[c]
                     ELSE IF new[c] = Nothing THEN NoEit
                     ELSE [version |-> version'[c], pair |-> new[c]]
    BY DEF InitEpg
  <2>2. CASE Updated(c, new)
    BY <2>1, <2>2 DEF EitIsEpg
  <2>3. CASE ~Updated(c, new)
    BY <2>1, <2>3 DEF EitIsEpg, Updated
  <2>4. QED
    BY <2>2, <2>3
<1>2. QED
  BY <1>1

LEMMA OnAirInductive ==
  ASSUME EpgTypeOK, OnAir,
         \/ UNCHANGED <<fileVars, epgVars>>
         \/ Editor
         \/ (StatNewer \/ StatNotNewer \/ StatMissing \/ LoadFails \/ LoadWorks) /\ UNCHANGED fileVars
  PROVE  OnAir'
<1> USE DEF fileVars, epgVars
<1>0. /\ fileTime \in Nat /\ fileTime > 0 /\ mtime \in Nat
      /\ \A c \in Channels : EitIsEpg(c)
  BY EpgConstants DEF EpgTypeOK, OnAir
<1>1. CASE UNCHANGED <<content, fileTime, hurried, epgVars>>
  BY <1>1 DEF OnAir, Loaded, EitIsEpg, EpgIsTheFile, ToldBy
<1>2. ASSUME NEW new \in Contents \cup {Bad, Absent}, NEW time \in 1..MaxClock, WriteFile(new, time)
      PROVE  OnAir'
  <2>1. \A c \in Channels : EitIsEpg(c)'
    BY <1>0, <1>2 DEF WriteFile, EitIsEpg
  <2>2. ASSUME content' # Absent, ~hurried' PROVE mtime' < fileTime'
    <3>1. /\ hurried' = (new # Absent /\ time <= mtime)
          /\ content' = new /\ fileTime' = time /\ mtime' = mtime
      BY <1>2 DEF WriteFile
    <3>2. ~(time <= mtime)
      BY <2>2, <3>1, Zenon
    <3>3. QED
      BY <1>0, <3>1, <3>2
  <2>3. mtime' \in Nat /\ fileTime' \in Nat
    BY <1>0, <1>2, EpgConstants DEF WriteFile
  <2>4. QED
    BY <2>1, <2>2, <2>3 DEF OnAir, Loaded
<1>3. CASE UNCHANGED fileVars /\ StatNewer
  BY <1>0, <1>3 DEF StatNewer, OnAir, Loaded, EitIsEpg
<1>4. CASE UNCHANGED fileVars /\ (StatMissing \/ LoadFails)
  <2>1. mtime' = 0 /\ \A c \in Channels : EitIsEpg(c)'
    BY <1>4, ResetOnAir DEF StatMissing, LoadFails
  <2>2. QED
    BY <1>0, <1>4, <2>1 DEF OnAir, Loaded
<1>5. CASE UNCHANGED fileVars /\ LoadWorks
  <2>1. /\ content \in Contents /\ content' = content /\ mtime' = mtime
        /\ hurried' = hurried /\ fileTime' = fileTime
        /\ InitEpg(content)
    BY <1>5 DEF LoadWorks
  <2>2. \A c \in Channels : epg'[c] = content[c] /\ EitIsEpg(c)'
    BY <1>0, <2>1, LoadOnAir
  <2>3. EpgIsTheFile'
    BY <2>1, <2>2 DEF EpgIsTheFile, ToldBy
  <2>4. QED
    BY <2>1, <2>2, <2>3 DEF OnAir, Loaded
<1>6. QED
  BY <1>1, <1>2, <1>3, <1>4, <1>5 DEF Editor, Tick, StatNotNewer

\* What stat passes over as not newer is on air already (config_load_epg): no write,
\* removal or failed parse, also between stat and parse, leaves an old EPG behind.
THEOREM EpgIsOnAir == Spec => []NotNewerIsOnAir
<1>1. ASSUME Init PROVE EpgTypeOK /\ PsiTypeOK /\ OnAir
  <2>1. EpgInit
    BY <1>1 DEF Init
  <2>2. \A c \in Channels : epg[c] = ToldBy(content, c) /\ EitIsEpg(c)
    BY <2>1 DEF EpgInit, EitIsEpg
  <2>3. mtime <= fileTime
    BY <2>1 DEF EpgInit
  <2>4. QED
    BY <1>1, <2>2, <2>3, Initially DEF OnAir, Loaded, EpgIsTheFile
<1>2. ASSUME EpgTypeOK /\ PsiTypeOK /\ OnAir, [Next]_vars
      PROVE  (EpgTypeOK /\ PsiTypeOK /\ OnAir)'
  BY <1>2, EpgSteps, EpgTypeInductive, PsiTypeInductive, OnAirInductive
<1>3. ASSUME EpgTypeOK /\ PsiTypeOK /\ OnAir PROVE NotNewerIsOnAir
  BY <1>3, OnAirIsEnough
<1>4. QED
  BY <1>1, <1>2, <1>3, PTL DEF Spec
=============================================================================
