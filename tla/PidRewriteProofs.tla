-------------------------- MODULE PidRewriteProofs --------------------------
(***************************************************************************)
(* Proofs about the PIDs of all inputs, for any number of channels, any    *)
(* sources, any number of PIDs per channel, of entries of the map, and of  *)
(* packets of a buffer.                                                    *)
(*                                                                         *)
(* The entries of a map are the channel's PIDs in their order (MapInv), so *)
(* how many are used up bounds the last one, and the number of programs    *)
(* and streams read so far bounds how many are used up (CountInv).         *)
(***************************************************************************)
EXTENDS PidRewrite, Arithmetic, WellFoundedInduction, TLAPS

LEMMA Constants ==
  /\ Inputs \subseteq Nat \ {0} /\ ChannelPids \in Nat \ {0} /\ RefSize \in Nat
  /\ Sources \subseteq Source /\ \A s \in Sources : HasProgram(s)
  /\ PmtSize \in Nat \ {0} /\ BufSize \in Nat
  BY PidAssumption

-----------------------------------------------------------------------------
(* The PIDs of the channels.                                               *)

LEMMA BaseIsPid == ASSUME NEW r \in Inputs PROVE ChannelBase(r) \in Pid
<1>1. r \in Nat /\ r >= 1 /\ ChannelPids \in Nat /\ ChannelPids >= 1
  BY Constants
<1>2. ChannelPids * 1 <= ChannelPids * r
  BY <1>1, ProductGrows
<1>3. ChannelPids * r \in Nat
  BY <1>1, ProductIsNat
<1>4. QED
  BY <1>1, <1>2, <1>3 DEF ChannelBase, Pid

\* p is one of the PIDs of the channel.
Owns(r, p) == ChannelBase(r) <= p /\ p < ChannelBase(r) + ChannelPids

LEMMA ChannelsFollow ==
  ASSUME NEW q \in Inputs, NEW r \in Inputs, q < r
  PROVE  ChannelBase(q) + ChannelPids <= ChannelBase(r)
<1>1. q \in Nat /\ r \in Nat /\ q + 1 <= r /\ ChannelPids \in Nat
  BY Constants
<1>2. ChannelPids * (q + 1) <= ChannelPids * r
  BY <1>1, ProductGrows
<1>3. ChannelPids * (q + 1) = q * ChannelPids + ChannelPids /\ ChannelPids * r = r * ChannelPids
  BY <1>1
<1>4. QED
  BY <1>2, <1>3 DEF ChannelBase

LEMMA OwnersDiffer ==
  ASSUME NEW q \in Inputs, NEW r \in Inputs, q # r, NEW p \in Nat, Owns(q, p), Owns(r, p)
  PROVE  FALSE
<1>1. q \in Nat /\ r \in Nat /\ ChannelPids \in Nat
      /\ ChannelBase(q) \in Nat /\ ChannelBase(r) \in Nat
  BY Constants, BaseIsPid DEF Pid
<1>2. CASE q < r
  BY <1>1, <1>2, ChannelsFollow DEF Owns
<1>3. CASE r < q
  BY <1>1, <1>3, ChannelsFollow DEF Owns
<1>4. QED
  BY <1>1, <1>2, <1>3

-----------------------------------------------------------------------------
(* The inductive invariant.                                                *)

\* The PIDs of the channel that are used up.
Used(r) == base_pid[r] - ChannelBase(r)

MapInv(r) ==
  /\ \/ Used(r) = Len(pidref[r])
     \/ Used(r) > RefSize /\ Len(pidref[r]) = RefSize
  /\ \A k \in 1..Len(pidref[r]) : pidref[r][k][2] = ChannelBase(r) + k - 1

CountInv(r) ==
  /\ pc[r] = "pat" => i[r] <= Len(source[r].pat) + 1 /\ Used(r) < i[r]
  /\ pc[r] = "streams" => /\ i[r] <= Len(source[r].streams) + 1
                          /\ Len(out_streams[r]) = i[r] - 1
                          /\ Used(r) <= Len(source[r].pat) + i[r]
                          /\ out_pcr[r] \in Pid
  /\ Mapped(r) => /\ Len(out_streams[r]) = Len(source[r].streams)
                  /\ Used(r) <= Needs(source[r])

\* The first program of the PAT has the first entry.
NoneYet(r)  == Used(r) = 0 /\ \A k \in 1..i[r] - 1 : ~IsProgram(source[r].pat[k])
FirstInv(r) ==
  RefSize > 0 =>
    /\ pc[r] = "pat" => \/ NoneYet(r)
                        \/ Len(pidref[r]) > 0 /\ pidref[r][1][1] = PmtPid(source[r])
    /\ pc[r] \in {"streams", "mapped", "live"} => out_pmt[r] = ChannelBase(r)

\* What the tables list is in the map, if they fit.  In what follows m is a map.
HasEntry(m, p) == \E k \in 1..Len(m) : m[k][1] = p
ListedInv(r) ==
  Fits(source[r]) =>
    /\ pc[r] \in {"streams", "mapped", "live"} => HasEntry(pidref[r], source[r].pcr)
    /\ pc[r] = "streams" =>
         \A k \in 1..i[r] - 1 : HasEntry(pidref[r], source[r].streams[k])
    /\ Mapped(r) =>
         \A k \in 1..Len(source[r].streams) : HasEntry(pidref[r], source[r].streams[k])

\* p has one entry, and it says n.
Single(m, p, n) ==
  \E c \in 1..Len(m) : m[c] = <<p, n>> /\ \A k \in 1..Len(m) : m[k][1] = p => k = c

\* The entries of a map for source s are its programs, its PCR, and its first n streams,
\* for which the rewritten PMT tells the PIDs pcr and streams.
OnlyPrograms(m, s)           == \A k \in 1..Len(m) : m[k][1] \in Programs(s)
Told(m, s, pcr, streams, n)  ==
  /\ Single(m, s.pcr, pcr)
  /\ \A k \in 1..n : Single(m, s.streams[k], streams[k])
Entries(m, s, n)             ==
  \A k \in 1..Len(m) : \/ m[k][1] \in Programs(s) \cup {s.pcr}
                       \/ \E j \in 1..n : m[k][1] = s.streams[j]
Known(m, s, pcr, streams, n) == Told(m, s, pcr, streams, n) /\ Entries(m, s, n)
KnownAt(r, n) == Known(pidref[r], source[r], out_pcr[r], out_streams[r], n)
SingleInv(r) ==
  Fits(source[r]) /\ OneUseEach(source[r]) =>
    /\ pc[r] = "pat" => OnlyPrograms(pidref[r], source[r])
    /\ pc[r] = "streams" => KnownAt(r, i[r] - 1)
    /\ Mapped(r) => KnownAt(r, Len(source[r].streams))

SentInv(r) == \A k \in 1..Len(buf[r]) : buf[r][k] = Stray \/ Owns(r, buf[r][k])

TablesInv(r) == MapInv(r) /\ CountInv(r) /\ FirstInv(r) /\ ListedInv(r) /\ SingleInv(r)
IInv == TypeOK /\ \A r \in Inputs : TablesInv(r) /\ SentInv(r)

LEMMA SourceType ==
  ASSUME TypeOK, NEW r \in Inputs
  PROVE  /\ source[r] \in Source /\ HasProgram(source[r])
         /\ source[r].pat \in Seq([program : Nat, pid : Pid]) /\ source[r].pcr \in Pid
         /\ source[r].streams \in Seq(Pid) /\ source[r].sends \in SUBSET Pid
<1>1. source[r] \in Sources
  BY DEF TypeOK
<1>2. source[r] \in Source /\ HasProgram(source[r])
  BY <1>1, Constants
<1>3. QED
  BY <1>2 DEF Source

LEMMA ElementType ==
  ASSUME NEW S, NEW q \in Seq(S), NEW k \in 1..Len(q) PROVE q[k] \in S
  OBVIOUS

LEMMA Types ==
  ASSUME TypeOK, NEW r \in Inputs
  PROVE  /\ i[r] \in Nat /\ i[r] >= 1 /\ pidref[r] \in Seq(Pid \X Pid) /\ Len(pidref[r]) \in Nat
         /\ Len(pidref[r]) <= RefSize /\ base_pid[r] \in Nat /\ ChannelBase(r) \in Nat
         /\ ChannelBase(r) >= 1 /\ Used(r) \in Int /\ RefSize \in Nat
         /\ base_pid[r] = ChannelBase(r) + Used(r)
         /\ Len(source[r].pat) \in Nat /\ Len(source[r].streams) \in Nat
         /\ out_streams[r] \in Seq(Pid) /\ Len(out_streams[r]) \in Nat
         /\ buf[r] \in Seq(Packet) /\ Len(buf[r]) \in Nat
<1>1. /\ i[r] \in Nat /\ i[r] >= 1 /\ pidref[r] \in Seq(Pid \X Pid)
      /\ Len(pidref[r]) <= RefSize /\ base_pid[r] \in Nat
      /\ out_streams[r] \in Seq(Pid) /\ buf[r] \in Seq(Packet)
  BY DEF TypeOK, Pid
<1>2. ChannelBase(r) \in Nat /\ ChannelBase(r) >= 1
  BY BaseIsPid DEF Pid
<1>3. /\ Len(source[r].pat) \in Nat /\ Len(source[r].streams) \in Nat
      /\ Len(out_streams[r]) \in Nat /\ Len(buf[r]) \in Nat /\ Len(pidref[r]) \in Nat
  <2>1. ASSUME NEW S, NEW q \in Seq(S) PROVE Len(q) \in Nat
    OBVIOUS
  <2>2. Len(source[r].pat) \in Nat /\ Len(source[r].streams) \in Nat
    BY <2>1, SourceType
  <2>3. Len(out_streams[r]) \in Nat /\ Len(buf[r]) \in Nat /\ Len(pidref[r]) \in Nat
    BY <1>1, <2>1
  <2>4. QED
    BY <2>2, <2>3
<1>4. Used(r) \in Int /\ base_pid[r] = ChannelBase(r) + Used(r)
  BY <1>1, <1>2 DEF Used
<1>5. QED
  BY <1>1, <1>2, <1>3, <1>4, Constants

-----------------------------------------------------------------------------
(* The map.                                                                *)

LEMMA LeastOfSet ==
  ASSUME NEW S \in SUBSET Nat, S # {}
  PROVE  \E n \in S : \A m \in S : n <= m
<1> DEFINE R == OpToRel(<, Nat)
<1>1. IsWellFoundedOn(R, Nat)
  BY NatLessThanWellFounded
<1>2. R = {ss \in Nat \X Nat : ss[1] < ss[2]}
  BY DEF OpToRel
<1> HIDE DEF R
<1>3. PICK n \in S : \A m \in S : ~(<<m, n>> \in R)
  BY <1>1, WFMin
<1>4. \A m \in S : ~(m < n)
  BY <1>2, <1>3
<1>5. QED
  BY <1>4

\* pidref_get_new_pid answers with an entry, if there is one.
LEMMA NewPidIsEntry ==
  ASSUME TypeOK, NEW r \in Inputs, NEW p, HasEntry(pidref[r], p)
  PROVE  \E k \in 1..Len(pidref[r]) : /\ pidref[r][k][1] = p /\ NewPid(r, p) = pidref[r][k][2]
                                      /\ \A j \in EntriesOf(r, p) : k <= j
<1>1. EntriesOf(r, p) # {} /\ EntriesOf(r, p) \in SUBSET Nat
  BY Types DEF HasEntry, EntriesOf
<1>2. \E k \in EntriesOf(r, p) : \A j \in EntriesOf(r, p) : k <= j
  BY <1>1, LeastOfSet
<1> DEFINE first == CHOOSE k \in EntriesOf(r, p) : \A j \in EntriesOf(r, p) : k <= j
<1>3. first \in EntriesOf(r, p) /\ \A j \in EntriesOf(r, p) : first <= j
  BY <1>2
<1>4. NewPid(r, p) = pidref[r][first][2]
  BY <1>1 DEF NewPid
<1>5. QED
  BY <1>3, <1>4 DEF EntriesOf

LEMMA NewPidOfSingle ==
  ASSUME TypeOK, NEW r \in Inputs, NEW p, NEW n \in Pid, Single(pidref[r], p, n)
  PROVE  NewPid(r, p) = n /\ OutPid(r, p) = n
<1>1. PICK c \in 1..Len(pidref[r]) :
        /\ pidref[r][c] = <<p, n>>
        /\ \A k \in 1..Len(pidref[r]) : pidref[r][k][1] = p => k = c
  BY DEF Single
<1>2. HasEntry(pidref[r], p)
  BY <1>1 DEF HasEntry
<1>3. PICK k \in 1..Len(pidref[r]) : pidref[r][k][1] = p /\ NewPid(r, p) = pidref[r][k][2]
  BY <1>2, NewPidIsEntry
<1>4. k = c
  BY <1>1, <1>3
<1>5. NewPid(r, p) = n
  BY <1>1, <1>3, <1>4
<1>6. n # 0
  BY DEF Pid
<1>7. QED
  BY <1>5, <1>6 DEF OutPid

\* With a map that is not larger than the channel what it answers is the channel's.
LEMMA NewPidIsOwned ==
  ASSUME TypeOK, NEW r \in Inputs, NEW p, HasEntry(pidref[r], p), MapInv(r),
         Len(pidref[r]) <= ChannelPids
  PROVE  OutPid(r, p) \in Pid /\ Owns(r, OutPid(r, p))
<1>1. PICK k \in 1..Len(pidref[r]) : NewPid(r, p) = pidref[r][k][2]
  BY NewPidIsEntry
<1>2. NewPid(r, p) = ChannelBase(r) + k - 1
  BY <1>1 DEF MapInv
<1>3. ChannelBase(r) \in Nat /\ ChannelBase(r) >= 1 /\ ChannelPids \in Nat
      /\ Len(pidref[r]) \in Nat
  BY Types, Constants
<1>4. NewPid(r, p) \in Nat /\ NewPid(r, p) # 0 /\ Owns(r, NewPid(r, p))
  BY <1>2, <1>3 DEF Owns
<1>5. QED
  BY <1>4 DEF OutPid, Pid

\* One entry more.
Extends(m, m1, p, b) ==
  /\ Len(m) \in Nat /\ Len(m1) = Len(m) + 1
  /\ \A k \in 1..Len(m) : m1[k] = m[k]
  /\ m1[Len(m) + 1] = <<p, b>>

LEMMA EntryStays ==
  ASSUME NEW m, NEW m1, NEW p, NEW b, NEW q, Extends(m, m1, p, b), HasEntry(m, q)
  PROVE  HasEntry(m1, q)
  BY DEF Extends, HasEntry

LEMMA EntryIsNew ==
  ASSUME NEW m, NEW m1, NEW p, NEW b, Extends(m, m1, p, b)
  PROVE  HasEntry(m1, p)
<1>1. Len(m) + 1 \in 1..Len(m1) /\ m1[Len(m) + 1][1] = p
  BY DEF Extends
<1>2. QED
  BY <1>1 DEF HasEntry

LEMMA SingleStays ==
  ASSUME NEW m, NEW m1, NEW p, NEW b, NEW q, NEW n,
         Extends(m, m1, p, b), Single(m, q, n), q # p
  PROVE  Single(m1, q, n)
<1>1. PICK c \in 1..Len(m) :
        m[c] = <<q, n>> /\ \A k \in 1..Len(m) : m[k][1] = q => k = c
  BY DEF Single
<1>2. c \in 1..Len(m1) /\ m1[c] = <<q, n>>
  BY <1>1 DEF Extends
<1>3. ASSUME NEW k \in 1..Len(m1), m1[k][1] = q PROVE k = c
  <2>1. k # Len(m) + 1
    BY <1>3 DEF Extends
  <2>2. k \in 1..Len(m)
    BY <2>1 DEF Extends
  <2>3. QED
    BY <1>1, <1>3, <2>2 DEF Extends
<1>4. QED
  BY <1>2, <1>3 DEF Single

LEMMA SingleIsNew ==
  ASSUME NEW m, NEW m1, NEW p, NEW b, Extends(m, m1, p, b), ~HasEntry(m, p)
  PROVE  Single(m1, p, b)
<1>1. Len(m) + 1 \in 1..Len(m1) /\ m1[Len(m) + 1] = <<p, b>>
  BY DEF Extends
<1>2. ASSUME NEW k \in 1..Len(m1), m1[k][1] = p PROVE k = Len(m) + 1
  BY <1>2 DEF Extends, HasEntry
<1>3. QED
  BY <1>1, <1>2 DEF Single

\* With a program's PID added, there are only programs in the map still.
LEMMA ProgramAdded ==
  ASSUME NEW m, NEW m1, NEW p, NEW b, NEW s, Extends(m, m1, p, b),
         OnlyPrograms(m, s), p \in Programs(s)
  PROVE  OnlyPrograms(m1, s)
<1>1. ASSUME NEW k \in 1..Len(m1) PROVE m1[k][1] \in Programs(s)
  <2>1. CASE k = Len(m) + 1
    <3>1. m1[k][1] = p
      BY <2>1 DEF Extends
    <3>2. QED
      BY <3>1
  <2>2. CASE k # Len(m) + 1
    <3>1. k \in 1..Len(m) /\ m1[k] = m[k]
      BY <2>2 DEF Extends
    <3>2. QED
      BY <3>1 DEF OnlyPrograms
  <2>3. QED
    BY <2>1, <2>2
<1>2. QED
  BY <1>1 DEF OnlyPrograms

\* What pidref_add does, and that it keeps the map in order.
LEMMA AddPidEffect ==
  ASSUME TypeOK, NEW r \in Inputs, NEW p \in Pid, MapInv(r), AddPid(r, p)
  PROVE  /\ pidref' \in [Inputs -> Seq(Pid \X Pid)]
         /\ \A q \in Inputs : Len(pidref'[q]) <= RefSize
         /\ base_pid' \in [Inputs -> Pid]
         /\ \A q \in Inputs \ {r} : pidref'[q] = pidref[q] /\ base_pid'[q] = base_pid[q]
         /\ Used(r)' = Used(r) + 1 /\ MapInv(r)'
         /\ Len(pidref'[r]) >= Len(pidref[r])
         /\ \A k \in 1..Len(pidref[r]) : pidref'[r][k] = pidref[r][k]
         /\ Used(r) < RefSize => Extends(pidref[r], pidref'[r], p, base_pid[r])
<1> DEFINE new == IF Len(pidref[r]) < RefSize THEN Append(pidref[r], <<p, base_pid[r]>>)
                  ELSE pidref[r]
<1>1. base_pid[r] \in Pid /\ base_pid[r] + 1 \in Pid
  BY DEF TypeOK, Pid
<1>2. pidref' = [pidref EXCEPT ![r] = new] /\ base_pid' = [base_pid EXCEPT ![r] = base_pid[r] + 1]
  BY DEF AddPid, TypeOK
<1>3. pidref[r] \in Seq(Pid \X Pid) /\ <<p, base_pid[r]>> \in Pid \X Pid
  BY <1>1, Types
<1>4. /\ new \in Seq(Pid \X Pid) /\ Len(new) <= RefSize
      /\ Len(new) >= Len(pidref[r])
      /\ \A k \in 1..Len(pidref[r]) : new[k] = pidref[r][k]
      /\ \A k \in 1..Len(new) : \/ k <= Len(pidref[r])
                                \/ k = Len(pidref[r]) + 1 /\ new[k] = <<p, base_pid[r]>>
      /\ Len(pidref[r]) < RefSize => Extends(pidref[r], new, p, base_pid[r])
      /\ ~(Len(pidref[r]) < RefSize) => new = pidref[r]
  BY <1>3, Types DEF Extends
<1> HIDE DEF new
<1>5. pidref'[r] = new /\ base_pid'[r] = base_pid[r] + 1
  BY <1>2 DEF TypeOK
<1>6. /\ pidref' \in [Inputs -> Seq(Pid \X Pid)] /\ base_pid' \in [Inputs -> Pid]
      /\ \A q \in Inputs : Len(pidref'[q]) <= RefSize
      /\ \A q \in Inputs \ {r} : pidref'[q] = pidref[q] /\ base_pid'[q] = base_pid[q]
  BY <1>1, <1>2, <1>4 DEF TypeOK
<1>7. Used(r)' = Used(r) + 1
  BY <1>5, Types DEF Used
<1>8. Len(pidref[r]) < RefSize => Used(r) = Len(pidref[r])
  BY Types DEF MapInv
<1>9. \/ Used(r)' = Len(pidref'[r])
      \/ Used(r)' > RefSize /\ Len(pidref'[r]) = RefSize
  <2> /\ Len(pidref[r]) \in Nat /\ RefSize \in Nat /\ Used(r) \in Int
      /\ Len(pidref[r]) <= RefSize
    BY Types
  <2>1. CASE Len(pidref[r]) < RefSize
    <3>1. Len(pidref'[r]) = Len(pidref[r]) + 1
      BY <1>4, <1>5, <2>1 DEF Extends
    <3>2. QED
      BY <1>7, <1>8, <2>1, <3>1
  <2>2. CASE ~(Len(pidref[r]) < RefSize)
    <3>1. Len(pidref'[r]) = RefSize
      BY <1>4, <1>5, <2>2
    <3>2. Used(r) >= RefSize
      BY <2>2 DEF MapInv
    <3>3. QED
      BY <1>7, <3>1, <3>2
  <2>3. QED
    BY <2>1, <2>2
<1>10. ASSUME NEW k \in 1..Len(pidref'[r]) PROVE pidref'[r][k][2] = ChannelBase(r) + k - 1
  <2>1. CASE k <= Len(pidref[r])
    <3>1. k \in 1..Len(pidref[r])
      BY <1>4, <1>5, <2>1, Types
    <3>2. QED
      BY <1>4, <1>5, <3>1 DEF MapInv
  <2>2. CASE ~(k <= Len(pidref[r]))
    <3>1. k = Len(pidref[r]) + 1 /\ pidref'[r][k] = <<p, base_pid[r]>> /\ Len(pidref[r]) < RefSize
      BY <1>4, <1>5, <2>2, Types
    <3>2. base_pid[r] = ChannelBase(r) + Len(pidref[r])
      BY <1>8, <3>1, Types
    <3>3. QED
      BY <3>1, <3>2, Types
  <2>3. QED
    BY <2>1, <2>2
<1>11. MapInv(r)'
  BY <1>9, <1>10 DEF MapInv, ChannelBase
<1>12. Used(r) < RefSize => Extends(pidref[r], pidref'[r], p, base_pid[r])
  <2>1. Used(r) < RefSize => Len(pidref[r]) < RefSize
    BY Types DEF MapInv
  <2>2. QED
    BY <1>4, <1>5, <2>1
<1>13. QED
  BY <1>4, <1>5, <1>6, <1>7, <1>11, <1>12

-----------------------------------------------------------------------------
(* What a step leaves alone.                                               *)

TablesSame(q) ==
  /\ pc'[q] = pc[q] \/ (Mapped(q) /\ Mapped(q)')
  /\ source'[q] = source[q] /\ i'[q] = i[q]
  /\ pidref'[q] = pidref[q] /\ base_pid'[q] = base_pid[q]
  /\ out_pmt'[q] = out_pmt[q] /\ out_pcr'[q] = out_pcr[q] /\ out_streams'[q] = out_streams[q]

LEMMA SameTables ==
  ASSUME NEW q \in Inputs, TablesInv(q), TablesSame(q)
  PROVE  TablesInv(q)'
<1> USE DEF TablesSame, TablesInv, Mapped
<1>1. MapInv(q)' /\ Used(q)' = Used(q)
  BY DEF MapInv, Used, ChannelBase
<1>2. CountInv(q)'
  BY <1>1 DEF CountInv
<1>3. FirstInv(q)'
  BY <1>1 DEF FirstInv, NoneYet, ChannelBase
<1>4. ListedInv(q)'
  BY DEF ListedInv
<1>5. SingleInv(q)'
  BY DEF SingleInv, KnownAt
<1>6. QED
  BY <1>1, <1>2, <1>3, <1>4, <1>5

LEMMA SameBuffer ==
  ASSUME NEW q \in Inputs, SentInv(q), buf'[q] = buf[q]
  PROVE  SentInv(q)'
  BY DEF SentInv, Owns, ChannelBase

-----------------------------------------------------------------------------
(* Every action of an input keeps the invariant, and what the others have. *)

Kept(r) == /\ TypeOK' /\ TablesInv(r)' /\ SentInv(r)'
           /\ \A q \in Inputs \ {r} : TablesSame(q) /\ buf'[q] = buf[q]

LEMMA ConnectKeeps ==
  ASSUME IInv, NEW r \in Inputs, NEW s \in Sources, Connect(r, s)
  PROVE  Kept(r)
<1> USE DEF IInv
<1>1. /\ pc'[r] = "pat" /\ i'[r] = 1 /\ pidref'[r] = <<>> /\ base_pid'[r] = ChannelBase(r)
      /\ source'[r] = s /\ buf' = buf
  BY DEF Connect, TypeOK, bufVars
<1>2. TypeOK'
  <2>1. ChannelBase(r) \in Pid /\ 1 \in Nat \ {0} /\ 0 \in Nat /\ RefSize \in Nat
    BY BaseIsPid, Constants
  <2>2. <<>> \in Seq(Pid \X Pid) /\ <<>> \in Seq(Pid) /\ Len(<<>>) = 0
    OBVIOUS
  <2>3. /\ pc' \in [Inputs -> {"off", "pat", "streams", "mapped", "live"}]
        /\ source' \in [Inputs -> Sources] /\ i' \in [Inputs -> Nat \ {0}]
        /\ base_pid' \in [Inputs -> Pid]
    BY <2>1 DEF Connect, TypeOK
  <2>4. /\ pidref' \in [Inputs -> Seq(Pid \X Pid)] /\ \A q \in Inputs : Len(pidref'[q]) <= RefSize
    <3>1. pidref' = [pidref EXCEPT ![r] = <<>>] /\ pidref \in [Inputs -> Seq(Pid \X Pid)]
      BY DEF Connect, TypeOK
    <3>2. \A q \in Inputs : pidref'[q] = IF q = r THEN <<>> ELSE pidref[q]
      BY <3>1
    <3>3. \A q \in Inputs : Len(pidref[q]) <= RefSize
      BY DEF TypeOK
    <3>4. 0 <= RefSize
      BY <2>1
    <3>5. QED
      BY <2>2, <3>1, <3>2, <3>3, <3>4
  <2>5. out_pmt' \in [Inputs -> Nat] /\ out_pcr' \in [Inputs -> Nat] /\ out_streams' \in [Inputs -> Seq(Pid)]
    BY <2>1, <2>2 DEF Connect, ForgetPmt, TypeOK
  <2>6. QED
    BY <2>3, <2>4, <2>5 DEF Connect, TypeOK, bufVars
<1>3. ASSUME NEW q \in Inputs \ {r} PROVE TablesSame(q) /\ buf'[q] = buf[q]
  BY DEF Connect, ForgetPmt, TypeOK, bufVars, TablesSame
<1>4. Used(r)' = 0
  BY <1>1, Types DEF Used, ChannelBase
<1>5. MapInv(r)'
  BY <1>1, <1>4 DEF MapInv
<1>6. s.pat \in Seq([program : Nat, pid : Pid])
  BY Constants DEF Source
<1>7. CountInv(r)' /\ FirstInv(r)'
  BY <1>1, <1>4, <1>6 DEF CountInv, FirstInv, NoneYet, Mapped
<1>8. ListedInv(r)' /\ SingleInv(r)'
  BY <1>1 DEF ListedInv, SingleInv, OnlyPrograms, Mapped
<1>9. QED
  BY <1>1, <1>2, <1>3, <1>5, <1>7, <1>8, SameBuffer DEF Kept, TablesInv

\* The first program of a PAT is the one no other comes before.
LEMMA FirstProgram ==
  ASSUME TypeOK, NEW r \in Inputs, NEW n \in 1..Len(source[r].pat),
         IsProgram(source[r].pat[n]), \A k \in 1..n - 1 : ~IsProgram(source[r].pat[k])
  PROVE  PmtPid(source[r]) = source[r].pat[n].pid
<1>1. Len(source[r].pat) \in Nat
  BY Types
<1> DEFINE IsFirst(k) == /\ IsProgram(source[r].pat[k])
                         /\ \A j \in 1..k - 1 : ~IsProgram(source[r].pat[j])
           first == CHOOSE k \in 1..Len(source[r].pat) : IsFirst(k)
<1>2. first \in 1..Len(source[r].pat) /\ IsFirst(first)
  BY Zenon
<1>3. first = n
  BY <1>1, <1>2
<1>4. PmtPid(source[r]) = source[r].pat[first].pid
  BY DEF PmtPid
<1>5. QED
  BY <1>3, <1>4

LEMMA RoomLeft ==
  ASSUME NEW u \in Int, NEW n \in Nat, NEW a \in Nat, NEW b \in Nat, NEW m \in Nat,
         u < n, n <= a + 1, a + 1 + b <= m
  PROVE  u < m
  OBVIOUS

LEMMA RoomForStream ==
  ASSUME NEW u \in Int, NEW n \in Nat, NEW a \in Nat, NEW b \in Nat, NEW m \in Nat,
         u <= a + n, n <= b, a + 1 + b <= m
  PROVE  u < m
  OBVIOUS

LEMMA RewriteProgramKeeps ==
  ASSUME IInv, NEW r \in Inputs, RewriteProgram(r)
  PROVE  Kept(r)
<1> DEFINE s == source[r]
           e == source[r].pat[i[r]]
<1>0. /\ TypeOK /\ TablesInv(r) /\ SentInv(r)
      /\ MapInv(r) /\ CountInv(r) /\ FirstInv(r) /\ ListedInv(r) /\ SingleInv(r)
  BY DEF IInv, TablesInv
<1>t. /\ Len(s.pat) \in Nat /\ Len(s.streams) \in Nat /\ i[r] \in Nat /\ i[r] >= 1
      /\ Used(r) \in Int /\ RefSize \in Nat /\ Len(pidref[r]) \in Nat
  BY <1>0, Types
<1>1. /\ pc[r] = "pat" /\ i[r] <= Len(s.pat) /\ i' = [i EXCEPT ![r] = i[r] + 1]
      /\ UNCHANGED <<pc, source, out_pmt, out_pcr, out_streams, buf, disabled>>
      /\ IsProgram(e) => AddPid(r, e.pid)
      /\ ~IsProgram(e) => UNCHANGED <<pidref, base_pid>>
  BY <1>0 DEF RewriteProgram, TypeOK, pmtVars, bufVars, mapVars
<1>2. i[r] \in 1..Len(s.pat) /\ i[r] + 1 \in Nat \ {0} /\ i'[r] = i[r] + 1
  BY <1>0, <1>1, <1>t DEF TypeOK
<1>3. e.pid \in Pid
  <2>1. s.pat \in Seq([program : Nat, pid : Pid])
    BY <1>0, SourceType
  <2>2. e \in [program : Nat, pid : Pid]
    BY <1>2, <2>1, ElementType
  <2>3. QED
    BY <2>2
<1>5. Used(r) < i[r]
  BY <1>1, <1>0 DEF CountInv
<1>6. CASE IsProgram(e)
  <2>1. /\ pidref' \in [Inputs -> Seq(Pid \X Pid)]
        /\ \A q \in Inputs : Len(pidref'[q]) <= RefSize
        /\ base_pid' \in [Inputs -> Pid]
        /\ \A q \in Inputs \ {r} : pidref'[q] = pidref[q] /\ base_pid'[q] = base_pid[q]
        /\ Used(r)' = Used(r) + 1 /\ MapInv(r)'
        /\ Len(pidref'[r]) >= Len(pidref[r])
        /\ \A k \in 1..Len(pidref[r]) : pidref'[r][k] = pidref[r][k]
        /\ Used(r) < RefSize => Extends(pidref[r], pidref'[r], e.pid, base_pid[r])
    BY <1>0, <1>1, <1>3, <1>6, AddPidEffect
  <2>2. TypeOK'
    BY <1>0, <1>1, <1>2, <2>1 DEF TypeOK
  <2>3. ASSUME NEW q \in Inputs \ {r} PROVE TablesSame(q) /\ buf'[q] = buf[q]
    BY <1>0, <1>1, <2>1 DEF TablesSame, TypeOK
  <2>4. CountInv(r)'
    <3>1. Used(r)' < i'[r] /\ i'[r] <= Len(s.pat) + 1
      BY <1>1, <1>2, <1>5, <2>1, <1>t
    <3>2. QED
      BY <1>1, <3>1 DEF CountInv, Mapped
  <2>5. FirstInv(r)'
    <3>1. CASE RefSize > 0 /\ NoneYet(r)
      <4>1. Len(pidref[r]) = 0 /\ Used(r) = 0
        BY <1>0, <3>1, <1>t DEF MapInv, NoneYet
      <4>2. Extends(pidref[r], pidref'[r], e.pid, base_pid[r])
        BY <2>1, <3>1, <4>1
      <4>3. Len(pidref'[r]) > 0 /\ pidref'[r][1][1] = e.pid
        BY <4>1, <4>2 DEF Extends
      <4>4. PmtPid(s) = e.pid
        BY <1>2, <1>0, <1>6, <3>1, FirstProgram DEF NoneYet
      <4>5. QED
        BY <1>1, <4>3, <4>4 DEF FirstInv
    <3>2. CASE RefSize > 0 /\ ~NoneYet(r)
      <4>1. Len(pidref[r]) > 0 /\ pidref[r][1][1] = PmtPid(s)
        BY <1>1, <1>0, <3>2 DEF FirstInv
      <4>2. Len(pidref'[r]) > 0 /\ pidref'[r][1] = pidref[r][1]
        BY <2>1, <2>2, <4>1, <1>t
      <4>3. QED
        BY <1>1, <4>1, <4>2 DEF FirstInv
    <3>3. QED
      BY <3>1, <3>2 DEF FirstInv
  <2>6. ListedInv(r)'
    BY <1>1 DEF ListedInv, Mapped
  <2>7. SingleInv(r)'
    <3>1. CASE Fits(s) /\ OneUseEach(s)
      <4>1. Used(r) < RefSize
        <5>1. Len(s.pat) + 1 + Len(s.streams) <= RefSize
          BY <3>1 DEF Fits, Needs
        <5>2. i[r] <= Len(s.pat) + 1
          BY <1>1, <1>t
        <5>3. QED
          BY <1>5, <1>t, <5>1, <5>2, RoomLeft
      <4>2. OnlyPrograms(pidref[r], s)
        BY <1>1, <1>0, <3>1 DEF SingleInv
      <4>3. e.pid \in Programs(s)
        BY <1>2, <1>6 DEF Programs
      <4>4. Extends(pidref[r], pidref'[r], e.pid, base_pid[r])
        BY <2>1, <4>1
      <4>5. OnlyPrograms(pidref'[r], s)
        BY <4>2, <4>3, <4>4, ProgramAdded
      <4>6. QED
        BY <1>1, <4>5 DEF SingleInv, Mapped
    <3>2. QED
      BY <1>1, <3>1 DEF SingleInv
  <2>8. QED
    BY <1>1, <2>1, <2>2, <2>3, <2>4, <2>5, <2>6, <2>7, <1>0, SameBuffer DEF Kept, TablesInv
<1>7. CASE ~IsProgram(e)
  <2>1. TypeOK'
    BY <1>0, <1>1, <1>2, <1>7 DEF TypeOK
  <2>2. ASSUME NEW q \in Inputs \ {r} PROVE TablesSame(q) /\ buf'[q] = buf[q]
    BY <1>0, <1>1, <1>7 DEF TablesSame, TypeOK
  <2>3. Used(r)' = Used(r) /\ MapInv(r)'
    BY <1>1, <1>0, <1>7 DEF Used, MapInv, ChannelBase
  <2>4. CountInv(r)'
    BY <1>1, <1>2, <1>5, <2>3, <1>t DEF CountInv, Mapped
  <2>5. NoneYet(r) => NoneYet(r)'
    BY <1>1, <1>2, <1>7, <2>3, <1>t DEF NoneYet
  <2>6. FirstInv(r)'
    BY <1>1, <1>0, <1>7, <2>5 DEF FirstInv
  <2>7. ListedInv(r)'
    BY <1>1 DEF ListedInv, Mapped
  <2>8. SingleInv(r)'
    BY <1>1, <1>0, <1>7 DEF SingleInv, Mapped
  <2>9. QED
    BY <1>1, <2>1, <2>2, <2>3, <2>4, <2>6, <2>7, <2>8, <1>0, SameBuffer DEF Kept, TablesInv
<1>8. QED
  BY <1>6, <1>7

LEMMA NewPidType ==
  ASSUME TypeOK, NEW r \in Inputs, NEW p
  PROVE  NewPid(r, p) \in Nat
<1>1. CASE HasEntry(pidref[r], p)
  <2>1. PICK k \in 1..Len(pidref[r]) : NewPid(r, p) = pidref[r][k][2]
    BY <1>1, NewPidIsEntry
  <2>2. pidref[r] \in Seq(Pid \X Pid)
    BY Types
  <2>3. pidref[r][k] \in Pid \X Pid
    BY <2>2, ElementType
  <2>4. QED
    BY <2>1, <2>3 DEF Pid
<1>2. CASE ~HasEntry(pidref[r], p)
  BY <1>2 DEF HasEntry, NewPid, EntriesOf
<1>3. QED
  BY <1>1, <1>2

\* When the PAT has been rewritten its first program has the first PID.
LEMMA PmtHasFirstPid ==
  ASSUME IInv, NEW r \in Inputs, pc[r] = "pat", i[r] > Len(source[r].pat), RefSize > 0
  PROVE  NewPid(r, PmtPid(source[r])) = ChannelBase(r)
<1>0. TypeOK /\ MapInv(r) /\ CountInv(r) /\ FirstInv(r)
  BY DEF IInv, TablesInv
<1>1. ~NoneYet(r)
  <2>1. PICK k \in 1..Len(source[r].pat) : IsProgram(source[r].pat[k])
    BY <1>0, SourceType DEF HasProgram
  <2>2. i[r] \in Nat /\ Len(source[r].pat) \in Nat
    BY <1>0, Types
  <2>3. k \in 1..i[r] - 1
    BY <2>2
  <2>4. QED
    BY <2>1, <2>3 DEF NoneYet
<1>2. Len(pidref[r]) > 0 /\ pidref[r][1][1] = PmtPid(source[r])
  BY <1>0, <1>1 DEF FirstInv
<1>3. Len(pidref[r]) \in Nat /\ ChannelBase(r) \in Nat
  BY <1>0, Types
<1>4. 1 \in EntriesOf(r, PmtPid(source[r])) /\ HasEntry(pidref[r], PmtPid(source[r]))
  BY <1>2, <1>3 DEF EntriesOf, HasEntry
<1>5. PICK k \in 1..Len(pidref[r]) :
        /\ NewPid(r, PmtPid(source[r])) = pidref[r][k][2]
        /\ \A j \in EntriesOf(r, PmtPid(source[r])) : k <= j
  BY <1>0, <1>4, NewPidIsEntry
<1>6. k = 1
  BY <1>3, <1>4, <1>5
<1>7. pidref[r][1][2] = ChannelBase(r) + 1 - 1
  BY <1>0, <1>2, <1>3 DEF MapInv
<1>8. QED
  BY <1>3, <1>5, <1>6, <1>7

LEMMA RewritePcrKeeps ==
  ASSUME IInv, NEW r \in Inputs, RewritePcr(r)
  PROVE  Kept(r)
<1> DEFINE s == source[r]
<1>0. /\ TypeOK /\ TablesInv(r) /\ SentInv(r)
      /\ MapInv(r) /\ CountInv(r) /\ FirstInv(r) /\ ListedInv(r) /\ SingleInv(r)
  BY DEF IInv, TablesInv
<1>t. /\ Len(s.pat) \in Nat /\ Len(s.streams) \in Nat /\ i[r] \in Nat /\ i[r] >= 1
      /\ Used(r) \in Int /\ RefSize \in Nat /\ Len(pidref[r]) \in Nat
  BY <1>0, Types
<1>1. /\ pc[r] = "pat" /\ i[r] > Len(s.pat)
      /\ out_pmt' = [out_pmt EXCEPT ![r] = NewPid(r, PmtPid(s))]
      /\ out_pcr' = [out_pcr EXCEPT ![r] = base_pid[r]]
      /\ out_streams' = [out_streams EXCEPT ![r] = <<>>]
      /\ pc' = [pc EXCEPT ![r] = "streams"] /\ i' = [i EXCEPT ![r] = 1]
      /\ UNCHANGED <<source, buf, disabled>> /\ AddPid(r, s.pcr)
  BY DEF RewritePcr, bufVars
<1>2. s.pcr \in Pid
  BY <1>0, SourceType
<1>3. /\ pidref' \in [Inputs -> Seq(Pid \X Pid)]
      /\ \A q \in Inputs : Len(pidref'[q]) <= RefSize
      /\ base_pid' \in [Inputs -> Pid]
      /\ \A q \in Inputs \ {r} : pidref'[q] = pidref[q] /\ base_pid'[q] = base_pid[q]
      /\ Used(r)' = Used(r) + 1 /\ MapInv(r)'
      /\ Used(r) < RefSize => Extends(pidref[r], pidref'[r], s.pcr, base_pid[r])
  BY <1>0, <1>1, <1>2, AddPidEffect
<1>4. base_pid[r] \in Pid /\ base_pid[r] \in Nat
  BY <1>0 DEF TypeOK, Pid
<1>5. TypeOK'
  <2>1. out_pmt' \in [Inputs -> Nat] /\ out_pcr' \in [Inputs -> Nat]
    BY <1>0, <1>1, <1>4, NewPidType DEF TypeOK
  <2>2. <<>> \in Seq(Pid) /\ 1 \in Nat \ {0}
    OBVIOUS
  <2>3. /\ pc' \in [Inputs -> {"off", "pat", "streams", "mapped", "live"}]
        /\ i' \in [Inputs -> Nat \ {0}] /\ out_streams' \in [Inputs -> Seq(Pid)]
    BY <1>0, <1>1, <2>2 DEF TypeOK
  <2>4. QED
    BY <1>0, <1>1, <1>3, <2>1, <2>3 DEF TypeOK
<1>6. ASSUME NEW q \in Inputs \ {r} PROVE TablesSame(q) /\ buf'[q] = buf[q]
  BY <1>0, <1>1, <1>3 DEF TablesSame, TypeOK
<1>7. /\ pc'[r] = "streams" /\ i'[r] = 1 /\ out_streams'[r] = <<>> /\ source'[r] = s
      /\ out_pcr'[r] = base_pid[r] /\ out_pmt'[r] = NewPid(r, PmtPid(s))
  BY <1>0, <1>1 DEF TypeOK
<1>8. Used(r) < i[r] /\ i[r] <= Len(s.pat) + 1
  BY <1>0, <1>1 DEF CountInv
<1>9. CountInv(r)'
  <2>1. i'[r] <= Len(s.streams) + 1 /\ Len(out_streams'[r]) = i'[r] - 1
    BY <1>t, <1>7
  <2>2. Used(r)' <= Len(s.pat) + i'[r]
    BY <1>t, <1>3, <1>7, <1>8
  <2>3. QED
    BY <1>4, <1>7, <2>1, <2>2 DEF CountInv, Mapped
<1>10. FirstInv(r)'
  BY <1>1, <1>7, PmtHasFirstPid DEF FirstInv, ChannelBase
<1>11. ASSUME Fits(s) PROVE Extends(pidref[r], pidref'[r], s.pcr, base_pid[r])
  <2>1. Len(s.pat) + 1 + Len(s.streams) <= RefSize
    BY <1>11 DEF Fits, Needs
  <2>2. Used(r) < RefSize
    BY <1>t, <1>8, <2>1, RoomLeft
  <2>3. QED
    BY <1>3, <2>2
<1>12. ListedInv(r)'
  <2>1. CASE Fits(s)
    <3>1. HasEntry(pidref'[r], s.pcr)
      BY <1>11, <2>1, EntryIsNew
    <3>2. QED
      BY <1>7, <3>1 DEF ListedInv, Mapped
  <2>2. QED
    BY <1>7, <2>1 DEF ListedInv
<1>13. SingleInv(r)'
  <2>1. CASE Fits(s) /\ OneUseEach(s)
    <3>1. OnlyPrograms(pidref[r], s)
      BY <1>0, <1>1, <2>1 DEF SingleInv
    <3>2. s.pcr \notin Programs(s)
      BY <2>1 DEF OneUseEach, Listed
    <3>3. ~HasEntry(pidref[r], s.pcr)
      BY <3>1, <3>2 DEF OnlyPrograms, HasEntry
    <3>4. Extends(pidref[r], pidref'[r], s.pcr, base_pid[r])
      BY <1>11, <2>1
    <3>5. Single(pidref'[r], s.pcr, base_pid[r])
      BY <3>3, <3>4, SingleIsNew
    <3>6. Entries(pidref'[r], s, 0)
      BY <3>1, <3>4 DEF OnlyPrograms, Entries, Extends
    <3>7. Known(pidref'[r], s, base_pid[r], <<>>, 0)
      BY <3>5, <3>6 DEF Known, Told
    <3>8. KnownAt(r, i[r] - 1)'
      BY <1>7, <3>7 DEF KnownAt
    <3>9. QED
      BY <1>7, <3>8 DEF SingleInv, Mapped
  <2>2. QED
    BY <1>7, <2>1 DEF SingleInv
<1>14. QED
  BY <1>0, <1>1, <1>3, <1>5, <1>6, <1>9, <1>10, <1>12, <1>13, SameBuffer DEF Kept, TablesInv

\* What RewriteStream does to the tables with one stream more.
LEMMA StreamIsKnown ==
  ASSUME NEW m, NEW m1, NEW s \in Source, NEW pcr, NEW o \in Seq(Pid), NEW n \in Nat, NEW b \in Pid,
         Len(o) = n, n + 1 <= Len(s.streams), OneUseEach(s), s.streams[n + 1] # s.pcr,
         Known(m, s, pcr, o, n), Extends(m, m1, s.streams[n + 1], b)
  PROVE  Known(m1, s, pcr, Append(o, b), n + 1)
<1> DEFINE p == s.streams[n + 1]
<1>1. s.streams \in Seq(Pid) /\ Len(s.streams) \in Nat
  BY DEF Source
<1>2. n + 1 \in 1..Len(s.streams) /\ \A k \in 1..n : k \in 1..Len(s.streams) /\ k # n + 1
  BY <1>1
<1>3. \A k \in 1..n : s.streams[k] # p
  BY <1>2 DEF OneUseEach
<1>4. p \notin Programs(s)
  BY <1>2 DEF OneUseEach, Listed
<1>5. ~HasEntry(m, p)
  BY <1>3, <1>4 DEF Known, Entries, HasEntry
<1>6. Single(m1, s.pcr, pcr) /\ \A k \in 1..n : Single(m1, s.streams[k], o[k])
  BY <1>3, SingleStays DEF Known, Told
<1>7. Single(m1, p, b)
  BY <1>5, SingleIsNew
<1>8. /\ \A k \in 1..n : Append(o, b)[k] = o[k]
      /\ Append(o, b)[n + 1] = b
  OBVIOUS
<1>9. Told(m1, s, pcr, Append(o, b), n + 1)
  <2>1. ASSUME NEW k \in 1..n + 1 PROVE k \in 1..n \/ k = n + 1
    OBVIOUS
  <2>2. ASSUME NEW k \in 1..n + 1 PROVE Single(m1, s.streams[k], Append(o, b)[k])
    BY <1>6, <1>7, <1>8, <2>1
  <2>3. QED
    BY <1>6, <2>2 DEF Told
<1>10. Entries(m1, s, n + 1)
  <2>1. ASSUME NEW k \in 1..Len(m1)
        PROVE  \/ m1[k][1] \in Programs(s) \cup {s.pcr}
               \/ \E j \in 1..n + 1 : m1[k][1] = s.streams[j]
    <3>1. k \in 1..Len(m) \/ m1[k][1] = p
      BY DEF Extends
    <3>2. n + 1 \in 1..n + 1 /\ \A j \in 1..n : j \in 1..n + 1
      OBVIOUS
    <3>3. QED
      BY <3>1, <3>2 DEF Extends, Known, Entries
  <2>2. QED
    BY <2>1 DEF Entries
<1>11. QED
  BY <1>9, <1>10 DEF Known

\* A stream with the PCR.
LEMMA PcrIsKnown ==
  ASSUME NEW m, NEW s \in Source, NEW pcr \in Pid, NEW o \in Seq(Pid), NEW n \in Nat,
         Len(o) = n, s.streams[n + 1] = s.pcr, Known(m, s, pcr, o, n)
  PROVE  Known(m, s, pcr, Append(o, pcr), n + 1)
<1>1. /\ \A k \in 1..n : Append(o, pcr)[k] = o[k]
      /\ Append(o, pcr)[n + 1] = pcr
  OBVIOUS
<1>2. Single(m, s.pcr, pcr) /\ \A k \in 1..n : Single(m, s.streams[k], o[k])
  BY DEF Known, Told
<1>3. ASSUME NEW k \in 1..n + 1 PROVE k \in 1..n \/ k = n + 1
  OBVIOUS
<1>4. ASSUME NEW k \in 1..n + 1 PROVE Single(m, s.streams[k], Append(o, pcr)[k])
  BY <1>1, <1>2, <1>3
<1>5. \A j \in 1..n : j \in 1..n + 1
  OBVIOUS
<1>6. QED
  BY <1>2, <1>4, <1>5 DEF Known, Told, Entries

LEMMA RewriteStreamKeeps ==
  ASSUME IInv, NEW r \in Inputs, RewriteStream(r)
  PROVE  Kept(r)
<1> DEFINE s == source[r]
           n == i[r] - 1
           p == source[r].streams[i[r]]
<1>0. /\ TypeOK /\ TablesInv(r) /\ SentInv(r)
      /\ MapInv(r) /\ CountInv(r) /\ FirstInv(r) /\ ListedInv(r) /\ SingleInv(r)
  BY DEF IInv, TablesInv
<1>t. /\ Len(s.pat) \in Nat /\ Len(s.streams) \in Nat /\ i[r] \in Nat /\ i[r] >= 1
      /\ Used(r) \in Int /\ RefSize \in Nat /\ Len(pidref[r]) \in Nat
      /\ out_streams[r] \in Seq(Pid)
  BY <1>0, Types
<1>1. /\ pc[r] = "streams" /\ i[r] <= Len(s.streams)
      /\ i' = [i EXCEPT ![r] = i[r] + 1]
      /\ UNCHANGED <<pc, source, out_pmt, out_pcr, buf, disabled>>
      /\ p = s.pcr => /\ out_streams' = [out_streams EXCEPT ![r] = Append(out_streams[r], out_pcr[r])]
                      /\ UNCHANGED <<pidref, base_pid>>
      /\ p # s.pcr =>
           /\ out_streams' = [out_streams EXCEPT ![r] = Append(out_streams[r], base_pid[r])]
           /\ AddPid(r, p)
  BY <1>0 DEF RewriteStream, TypeOK, bufVars, mapVars
<1>2. /\ i[r] \in 1..Len(s.streams) /\ i[r] + 1 \in Nat \ {0} /\ n \in Nat /\ n + 1 = i[r]
      /\ n + 1 <= Len(s.streams)
  BY <1>t, <1>1
<1>3. i'[r] = i[r] + 1 /\ i' \in [Inputs -> Nat \ {0}]
  BY <1>0, <1>1, <1>2 DEF TypeOK
<1>4. p \in Pid /\ s \in Source
  <2>1. s.streams \in Seq(Pid) /\ s \in Source
    BY <1>0, SourceType
  <2>2. QED
    BY <1>2, <2>1, ElementType
<1>5. /\ Len(out_streams[r]) = n /\ Used(r) <= Len(s.pat) + i[r] /\ out_pcr[r] \in Pid
  BY <1>0, <1>1 DEF CountInv
<1>6. base_pid[r] \in Pid
  BY <1>0 DEF TypeOK
<1>7. CASE p = s.pcr
  <2>1. /\ Append(out_streams[r], out_pcr[r]) \in Seq(Pid)
        /\ Len(Append(out_streams[r], out_pcr[r])) = n + 1
    BY <1>t, <1>2, <1>5
  <2>2. /\ out_streams'[r] = Append(out_streams[r], out_pcr[r])
        /\ out_streams' \in [Inputs -> Seq(Pid)]
    <3>1. out_streams' = [out_streams EXCEPT ![r] = Append(out_streams[r], out_pcr[r])]
      BY <1>1, <1>7
    <3>2. out_streams \in [Inputs -> Seq(Pid)]
      BY <1>0 DEF TypeOK
    <3>3. QED
      BY <2>1, <3>1, <3>2
  <2>3. TypeOK'
    BY <1>0, <1>1, <1>3, <1>7, <2>2 DEF TypeOK
  <2>4. ASSUME NEW q \in Inputs \ {r} PROVE TablesSame(q) /\ buf'[q] = buf[q]
    BY <1>0, <1>1, <1>7 DEF TablesSame, TypeOK
  <2>5. Used(r)' = Used(r) /\ MapInv(r)'
    BY <1>0, <1>1, <1>7 DEF Used, MapInv, ChannelBase
  <2>6. CountInv(r)'
    <3>1. i'[r] <= Len(s.streams) + 1 /\ Len(out_streams'[r]) = i'[r] - 1
      BY <1>t, <1>1, <1>2, <1>3, <2>1, <2>2
    <3>2. Used(r)' <= Len(s.pat) + i'[r]
      BY <1>t, <1>3, <1>5, <2>5
    <3>3. QED
      BY <1>1, <1>5, <3>1, <3>2 DEF CountInv, Mapped
  <2>7. FirstInv(r)'
    BY <1>0, <1>1 DEF FirstInv, ChannelBase
  <2>8. ListedInv(r)'
    <3>1. CASE Fits(s)
      <4>1. HasEntry(pidref[r], s.pcr) /\ \A k \in 1..n : HasEntry(pidref[r], s.streams[k])
        BY <1>0, <1>1, <3>1 DEF ListedInv
      <4>2. \A k \in 1..i'[r] - 1 : k \in 1..n \/ k = i[r]
        BY <1>t, <1>3
      <4>3. \A k \in 1..i'[r] - 1 : HasEntry(pidref[r], s.streams[k])
        BY <1>7, <4>1, <4>2
      <4>4. QED
        BY <1>1, <1>7, <4>1, <4>3 DEF ListedInv, Mapped
    <3>2. QED
      BY <1>1, <3>1 DEF ListedInv
  <2>9. SingleInv(r)'
    <3>1. CASE Fits(s) /\ OneUseEach(s)
      <4>1. Known(pidref[r], s, out_pcr[r], out_streams[r], n)
        BY <1>0, <1>1, <3>1 DEF SingleInv, KnownAt
      <4>2. s.streams[n + 1] = s.pcr
        BY <1>2, <1>7
      <4>3. Known(pidref[r], s, out_pcr[r], Append(out_streams[r], out_pcr[r]), n + 1)
        BY <1>t, <1>2, <1>4, <1>5, <4>1, <4>2, PcrIsKnown
      <4>4. i'[r] - 1 = n + 1
        BY <1>t, <1>3
      <4>5. KnownAt(r, i[r] - 1)'
        BY <1>1, <1>7, <2>2, <4>3, <4>4 DEF KnownAt
      <4>6. QED
        BY <1>1, <4>5 DEF SingleInv, Mapped
    <3>2. QED
      BY <1>1, <3>1 DEF SingleInv
  <2>10. QED
    BY <1>0, <1>1, <2>3, <2>4, <2>5, <2>6, <2>7, <2>8, <2>9, SameBuffer DEF Kept, TablesInv
<1>8. CASE p # s.pcr
  <2>1. /\ Append(out_streams[r], base_pid[r]) \in Seq(Pid)
        /\ Len(Append(out_streams[r], base_pid[r])) = n + 1
    BY <1>t, <1>2, <1>5, <1>6
  <2>2. /\ out_streams'[r] = Append(out_streams[r], base_pid[r])
        /\ out_streams' \in [Inputs -> Seq(Pid)]
    BY <1>0, <1>1, <1>8, <2>1 DEF TypeOK
  <2>3. /\ pidref' \in [Inputs -> Seq(Pid \X Pid)]
        /\ \A q \in Inputs : Len(pidref'[q]) <= RefSize
        /\ base_pid' \in [Inputs -> Pid]
        /\ \A q \in Inputs \ {r} : pidref'[q] = pidref[q] /\ base_pid'[q] = base_pid[q]
        /\ Used(r)' = Used(r) + 1 /\ MapInv(r)'
        /\ Used(r) < RefSize => Extends(pidref[r], pidref'[r], p, base_pid[r])
    BY <1>0, <1>1, <1>4, <1>8, AddPidEffect
  <2>4. TypeOK'
    BY <1>0, <1>1, <1>3, <2>2, <2>3 DEF TypeOK
  <2>5. ASSUME NEW q \in Inputs \ {r} PROVE TablesSame(q) /\ buf'[q] = buf[q]
    BY <1>0, <1>1, <1>8, <2>3 DEF TablesSame, TypeOK
  <2>6. CountInv(r)'
    <3>1. i'[r] <= Len(s.streams) + 1 /\ Len(out_streams'[r]) = i'[r] - 1
      BY <1>t, <1>1, <1>2, <1>3, <2>1, <2>2
    <3>2. Used(r)' <= Len(s.pat) + i'[r]
      BY <1>t, <1>3, <1>5, <2>3
    <3>3. QED
      BY <1>1, <1>5, <3>1, <3>2 DEF CountInv, Mapped
  <2>7. FirstInv(r)'
    BY <1>0, <1>1 DEF FirstInv, ChannelBase
  <2>8. ASSUME Fits(s) PROVE Extends(pidref[r], pidref'[r], p, base_pid[r])
    <3>1. Len(s.pat) + 1 + Len(s.streams) <= RefSize
      BY <2>8 DEF Fits, Needs
    <3>2. i[r] <= Len(s.streams)
      BY <1>1
    <3>3. Used(r) < RefSize
      BY <1>t, <1>5, <3>1, <3>2, RoomForStream
    <3>4. QED
      BY <2>3, <3>3
  <2>9. ListedInv(r)'
    <3>1. CASE Fits(s)
      <4>1. HasEntry(pidref[r], s.pcr) /\ \A k \in 1..n : HasEntry(pidref[r], s.streams[k])
        BY <1>0, <1>1, <3>1 DEF ListedInv
      <4>2. \A k \in 1..i'[r] - 1 : k \in 1..n \/ k = i[r]
        BY <1>t, <1>3
      <4>3. Extends(pidref[r], pidref'[r], p, base_pid[r])
        BY <2>8, <3>1
      <4>4. HasEntry(pidref'[r], s.pcr) /\ \A k \in 1..n : HasEntry(pidref'[r], s.streams[k])
        BY <4>1, <4>3, EntryStays
      <4>5. HasEntry(pidref'[r], p)
        BY <4>3, EntryIsNew
      <4>6. \A k \in 1..i'[r] - 1 : HasEntry(pidref'[r], s.streams[k])
        BY <4>2, <4>4, <4>5
      <4>7. QED
        BY <1>1, <4>4, <4>6 DEF ListedInv, Mapped
    <3>2. QED
      BY <1>1, <3>1 DEF ListedInv
  <2>10. SingleInv(r)'
    <3>1. CASE Fits(s) /\ OneUseEach(s)
      <4>1. Known(pidref[r], s, out_pcr[r], out_streams[r], n)
        BY <1>0, <1>1, <3>1 DEF SingleInv, KnownAt
      <4>2. s.streams[n + 1] # s.pcr /\ Extends(pidref[r], pidref'[r], s.streams[n + 1], base_pid[r])
        BY <1>2, <1>8, <2>8, <3>1
      <4>3. Known(pidref'[r], s, out_pcr[r], Append(out_streams[r], base_pid[r]), n + 1)
        BY <1>t, <1>2, <1>4, <1>5, <1>6, <3>1, <4>1, <4>2, StreamIsKnown
      <4>4. i'[r] - 1 = n + 1
        BY <1>t, <1>3
      <4>5. KnownAt(r, i[r] - 1)'
        BY <1>1, <2>2, <4>3, <4>4 DEF KnownAt
      <4>6. QED
        BY <1>1, <4>5 DEF SingleInv, Mapped
    <3>2. QED
      BY <1>1, <3>1 DEF SingleInv
  <2>11. QED
    BY <1>0, <1>1, <2>3, <2>4, <2>5, <2>6, <2>7, <2>9, <2>10, SameBuffer DEF Kept, TablesInv
<1>9. QED
  BY <1>7, <1>8

LEMMA SumIsPositive == ASSUME NEW a \in Nat, NEW b \in Nat PROVE a + 1 + b \in Nat \ {0}
  OBVIOUS

LEMMA CopiesAdded ==
  ASSUME NEW b \in Seq(Packet), NEW p \in Packet, NEW n \in Nat
  PROVE  /\ b \o Copies(p, n) \in Seq(Packet) /\ Len(b \o Copies(p, n)) = Len(b) + n
         /\ \A k \in 1..Len(b) + n :
              \/ (b \o Copies(p, n))[k] = p
              \/ k \in 1..Len(b) /\ (b \o Copies(p, n))[k] = b[k]
<1> DEFINE c == Copies(p, n)
<1>1. c \in Seq(Packet) /\ Len(c) = n /\ \A l \in 1..n : c[l] = p
  BY DEF Copies
<1> HIDE DEF c
<1>2. b \o c \in Seq(Packet) /\ Len(b \o c) = Len(b) + n /\ Len(b) \in Nat
  BY <1>1
<1>3. ASSUME NEW k \in 1..Len(b) + n
      PROVE  (b \o c)[k] = p \/ (k \in 1..Len(b) /\ (b \o c)[k] = b[k])
  <2>1. CASE k <= Len(b)
    BY <1>1, <2>1
  <2>2. CASE ~(k <= Len(b))
    <3>1. k - Len(b) \in 1..n
      BY <1>2, <2>2
    <3>2. (b \o c)[k] = c[k - Len(b)]
      BY <1>1, <1>2, <2>2
    <3>3. c[k - Len(b)] = p
      BY <1>1, <3>1
    <3>4. QED
      BY <3>2, <3>3, Zenon
  <2>3. QED
    BY <2>1, <2>2
<1>4. QED
  BY <1>2, <1>3 DEF c

LEMMA PmtRewrittenKeeps ==
  ASSUME IInv, NEW r \in Inputs, PmtRewritten(r)
  PROVE  Kept(r)
<1> DEFINE s == source[r]
<1>0. /\ TypeOK /\ TablesInv(r) /\ SentInv(r)
      /\ MapInv(r) /\ CountInv(r) /\ FirstInv(r) /\ ListedInv(r) /\ SingleInv(r)
  BY DEF IInv, TablesInv
<1>t. /\ Len(s.pat) \in Nat /\ Len(s.streams) \in Nat /\ i[r] \in Nat
      /\ Used(r) \in Int
  BY <1>0, Types
<1>1. /\ pc[r] = "streams" /\ i[r] > Len(s.streams)
      /\ pc' = [pc EXCEPT ![r] = "mapped"] /\ i' = [i EXCEPT ![r] = 1]
      /\ UNCHANGED <<source, pidref, base_pid, out_pmt, out_pcr, out_streams, buf, disabled>>
  BY DEF PmtRewritten, mapVars, pmtVars, bufVars
<1>2. pc'[r] = "mapped" /\ i'[r] = 1
  BY <1>0, <1>1 DEF TypeOK
<1>3. /\ i[r] = Len(s.streams) + 1 /\ Len(out_streams[r]) = i[r] - 1
      /\ Used(r) <= Len(s.pat) + i[r]
  BY <1>0, <1>1, <1>t DEF CountInv
<1>4. i[r] - 1 = Len(s.streams) /\ Used(r) <= Needs(s)
  <2>1. i[r] - 1 = Len(s.streams) /\ Used(r) <= Len(s.pat) + 1 + Len(s.streams)
    <3>1. PICK a \in Nat, b \in Nat, n \in Nat, u \in Int :
            a = Len(s.pat) /\ b = Len(s.streams) /\ n = i[r] /\ u = Used(r)
      BY <1>t
    <3>2. n = b + 1 /\ u <= a + n
      BY <1>3, <3>1
    <3>3. n - 1 = b /\ u <= a + 1 + b
      BY <3>2
    <3>4. QED
      BY <3>1, <3>3
  <2>2. QED
    BY <2>1 DEF Needs
<1>5. TypeOK'
  BY <1>0, <1>1 DEF TypeOK
<1>6. ASSUME NEW q \in Inputs \ {r} PROVE TablesSame(q) /\ buf'[q] = buf[q]
  BY <1>0, <1>1 DEF TablesSame, TypeOK
<1>7. Used(r)' = Used(r) /\ MapInv(r)'
  BY <1>0, <1>1 DEF Used, MapInv, ChannelBase
<1>8. CountInv(r)'
  BY <1>1, <1>2, <1>3, <1>4, <1>7 DEF CountInv, Mapped
<1>9. FirstInv(r)'
  BY <1>0, <1>1, <1>2 DEF FirstInv, ChannelBase
<1>10. ListedInv(r)'
  BY <1>0, <1>1, <1>2, <1>4 DEF ListedInv, Mapped
<1>11. SingleInv(r)'
  BY <1>0, <1>1, <1>2, <1>4 DEF SingleInv, KnownAt, Mapped
<1>12. QED
  BY <1>0, <1>1, <1>5, <1>6, <1>7, <1>8, <1>9, <1>10, <1>11, SameBuffer DEF Kept, TablesInv

\* The map of a source that fits is not larger than the channel.
LEMMA FittingMap ==
  ASSUME IInv, NEW r \in Inputs, Mapped(r), Fits(source[r])
  PROVE  Len(pidref[r]) <= ChannelPids /\ RefSize > 0
<1> DEFINE s == source[r]
<1>0. TypeOK /\ MapInv(r) /\ CountInv(r)
  BY DEF IInv, TablesInv
<1>1. /\ Len(pidref[r]) \in Nat /\ Used(r) \in Int /\ RefSize \in Nat /\ ChannelPids \in Nat
      /\ Len(s.pat) \in Nat /\ Len(s.streams) \in Nat
  BY <1>0, Types, Constants
<1>2. Needs(s) \in Nat \ {0}
  BY <1>1, SumIsPositive DEF Needs
<1>3. Used(r) <= Needs(s) /\ Needs(s) <= ChannelPids /\ Needs(s) <= RefSize
  BY <1>0 DEF CountInv, Fits
<1>4. Len(pidref[r]) <= Used(r)
  BY <1>0, <1>1 DEF MapInv
<1>5. QED
  BY <1>1, <1>2, <1>3, <1>4

LEMMA BufferAddType ==
  ASSUME TypeOK, NEW r \in Inputs, NEW p \in Packet, NEW n \in Nat, BufferAdd(r, p, n)
  PROVE  /\ buf' \in [Inputs -> Seq(Packet)] /\ \A q \in Inputs : Len(buf'[q]) <= BufSize
         /\ disabled' \in [Inputs -> BOOLEAN]
         /\ \A q \in Inputs \ {r} : buf'[q] = buf[q]
         /\ buf'[r] = buf[r] \/ buf'[r] = buf[r] \o Copies(p, n)
<1>1. buf \in [Inputs -> Seq(Packet)] /\ \A q \in Inputs : Len(buf[q]) <= BufSize
  BY DEF TypeOK
<1>2. Copies(p, n) \in Seq(Packet) /\ Len(Copies(p, n)) = n
  BY DEF Copies
<1>3. disabled' \in [Inputs -> BOOLEAN]
  BY Zenon DEF BufferAdd, TypeOK, bufVars
<1>4. CASE buf' = [buf EXCEPT ![r] = buf[r] \o Copies(p, n)] /\ Len(buf[r]) + n <= BufSize
  <2>1. buf[r] \o Copies(p, n) \in Seq(Packet) /\ Len(buf[r] \o Copies(p, n)) = Len(buf[r]) + n
    <3>1. buf[r] \in Seq(Packet)
      BY <1>1
    <3>2. QED
      BY <3>1, CopiesAdded
  <2>2. QED
    BY <1>1, <1>3, <1>4, <2>1
<1>5. CASE buf' = buf
  BY <1>1, <1>3, <1>5
<1>6. QED
  BY <1>4, <1>5 DEF BufferAdd, bufVars

LEMMA BufferAddSends ==
  ASSUME TypeOK, NEW r \in Inputs, NEW p \in Packet, NEW n \in Nat, BufferAdd(r, p, n),
         SentInv(r), p = Stray \/ Owns(r, p)
  PROVE  SentInv(r)'
<1>1. buf'[r] = buf[r] \/ buf'[r] = buf[r] \o Copies(p, n)
  BY BufferAddType
<1>2. \A k \in 1..Len(buf'[r]) : buf'[r][k] = p \/ (k \in 1..Len(buf[r]) /\ buf'[r][k] = buf[r][k])
  <2>1. buf[r] \in Seq(Packet)
    BY Types
  <2>2. /\ Len(buf[r] \o Copies(p, n)) = Len(buf[r]) + n
        /\ \A k \in 1..Len(buf[r]) + n :
             \/ (buf[r] \o Copies(p, n))[k] = p
             \/ k \in 1..Len(buf[r]) /\ (buf[r] \o Copies(p, n))[k] = buf[r][k]
    BY <2>1, CopiesAdded
  <2>3. CASE buf'[r] = buf[r]
    BY <2>3
  <2>4. CASE buf'[r] = buf[r] \o Copies(p, n)
    <3>1. /\ Len(buf'[r]) = Len(buf[r]) + n
          /\ \A k \in 1..Len(buf[r]) + n :
               buf'[r][k] = p \/ (k \in 1..Len(buf[r]) /\ buf'[r][k] = buf[r][k])
      BY <2>2, <2>4
    <3>2. QED
      BY <3>1, Zenon
  <2>5. QED
    BY <1>1, <2>3, <2>4
<1>3. \A k \in 1..Len(buf'[r]) : buf'[r][k] = Stray \/ Owns(r, buf'[r][k])
  BY <1>2 DEF SentInv
<1>4. QED
  BY <1>3 DEF SentInv, Owns, ChannelBase

LEMMA SendPmtKeeps ==
  ASSUME IInv, NEW r \in Inputs, SendPmt(r)
  PROVE  Kept(r)
<1> DEFINE p == IF Fits(source[r]) THEN out_pmt[r] ELSE Stray
<1>0. TypeOK /\ TablesInv(r) /\ SentInv(r) /\ FirstInv(r)
  BY DEF IInv, TablesInv
<1>1. /\ Mapped(r) /\ BufferAdd(r, p, PmtSize)
      /\ UNCHANGED <<pc, source, i, pidref, base_pid, out_pmt, out_pcr, out_streams>>
  BY DEF SendPmt, Mapped, mapVars, pmtVars
<1>2. p \in Packet /\ (p = Stray \/ Owns(r, p))
  <2>1. CASE Fits(source[r])
    <3>1. RefSize > 0
      BY <1>1, <2>1, FittingMap
    <3>2. p = ChannelBase(r)
      BY <1>0, <1>1, <2>1, <3>1 DEF FirstInv, Mapped
    <3>3. ChannelBase(r) \in Pid /\ ChannelBase(r) \in Nat /\ ChannelPids \in Nat \ {0}
      BY BaseIsPid, Constants DEF Pid
    <3>4. QED
      BY <3>2, <3>3 DEF Owns, Packet
  <2>2. QED
    BY <2>1 DEF Packet
<1> HIDE DEF p
<1>3. PmtSize \in Nat
  BY Constants
<1>4. /\ buf' \in [Inputs -> Seq(Packet)] /\ \A q \in Inputs : Len(buf'[q]) <= BufSize
      /\ disabled' \in [Inputs -> BOOLEAN]
      /\ \A q \in Inputs \ {r} : buf'[q] = buf[q]
  BY <1>0, <1>1, <1>2, <1>3, BufferAddType
<1>5. SentInv(r)'
  BY <1>0, <1>1, <1>2, <1>3, BufferAddSends
<1>6. TypeOK'
  BY <1>0, <1>1, <1>4 DEF TypeOK
<1>7. \A q \in Inputs : TablesSame(q)
  BY <1>1 DEF TablesSame
<1>8. QED
  BY <1>0, <1>4, <1>5, <1>6, <1>7, SameTables DEF Kept

LEMMA SendPacketKeeps ==
  ASSUME IInv, NEW r \in Inputs, NEW p \in source[r].sends, SendPacket(r, p)
  PROVE  Kept(r)
<1> DEFINE o == IF Fits(source[r]) /\ p \in Listed(source[r]) THEN OutPid(r, p) ELSE Stray
<1>0. TypeOK /\ TablesInv(r) /\ SentInv(r) /\ MapInv(r) /\ ListedInv(r)
  BY DEF IInv, TablesInv
<1>1. /\ Mapped(r) /\ BufferAdd(r, o, 1) /\ pc' = [pc EXCEPT ![r] = "live"]
      /\ UNCHANGED <<source, i, pidref, base_pid, out_pmt, out_pcr, out_streams>>
  BY DEF SendPacket, Mapped, mapVars, pmtVars
<1>2. o \in Packet /\ (o = Stray \/ Owns(r, o))
  <2>1. CASE Fits(source[r]) /\ p \in Listed(source[r])
    <3>1. HasEntry(pidref[r], p)
      BY <1>0, <1>1, <2>1 DEF ListedInv, Listed, Mapped
    <3>2. Len(pidref[r]) <= ChannelPids
      BY <1>1, <2>1, FittingMap
    <3>3. OutPid(r, p) \in Pid /\ Owns(r, OutPid(r, p))
      BY <1>0, <3>1, <3>2, NewPidIsOwned
    <3>4. QED
      BY <2>1, <3>3 DEF Packet
  <2>2. QED
    BY <2>1 DEF Packet
<1> HIDE DEF o
<1>3. 1 \in Nat
  OBVIOUS
<1>4. /\ buf' \in [Inputs -> Seq(Packet)] /\ \A q \in Inputs : Len(buf'[q]) <= BufSize
      /\ disabled' \in [Inputs -> BOOLEAN]
      /\ \A q \in Inputs \ {r} : buf'[q] = buf[q]
  BY <1>0, <1>1, <1>2, <1>3, BufferAddType
<1>5. SentInv(r)'
  BY <1>0, <1>1, <1>2, <1>3, BufferAddSends
<1>6. TypeOK'
  BY <1>0, <1>1, <1>4 DEF TypeOK
<1>7. Mapped(r)'
  BY <1>0, <1>1 DEF TypeOK, Mapped
<1>8. \A q \in Inputs : TablesSame(q)
  BY <1>0, <1>1, <1>7 DEF TablesSame, TypeOK
<1>9. QED
  BY <1>0, <1>4, <1>5, <1>6, <1>8, SameTables DEF Kept

LEMMA MixTakesKeeps ==
  ASSUME IInv, NEW r \in Inputs, MixTakes(r)
  PROVE  Kept(r)
<1>0. TypeOK /\ TablesInv(r) /\ SentInv(r)
  BY DEF IInv
<1>1. /\ buf[r] # <<>> /\ buf' = [buf EXCEPT ![r] = Tail(buf[r])]
      /\ UNCHANGED <<pc, source, i, pidref, base_pid, out_pmt, out_pcr, out_streams, disabled>>
  BY DEF MixTakes, mapVars, pmtVars
<1>2. buf[r] \in Seq(Packet) /\ Len(buf[r]) \in Nat /\ Len(buf[r]) <= BufSize /\ BufSize \in Nat
  BY <1>0, Types, Constants DEF TypeOK
<1>3. /\ Tail(buf[r]) \in Seq(Packet) /\ Len(Tail(buf[r])) = Len(buf[r]) - 1
      /\ \A k \in 1..Len(buf[r]) - 1 : Tail(buf[r])[k] = buf[r][k + 1]
  BY <1>1, <1>2
<1>4. TypeOK'
  <2>1. buf' \in [Inputs -> Seq(Packet)]
    BY <1>0, <1>1, <1>3 DEF TypeOK
  <2>2. \A q \in Inputs : Len(buf'[q]) <= BufSize
    BY <1>0, <1>1, <1>2, <1>3 DEF TypeOK
  <2>3. QED
    BY <1>0, <1>1, <2>1, <2>2 DEF TypeOK
<1>5. buf'[r] = Tail(buf[r]) /\ \A q \in Inputs \ {r} : buf'[q] = buf[q]
  BY <1>0, <1>1 DEF TypeOK
<1>6. ASSUME NEW k \in 1..Len(buf'[r]) PROVE buf'[r][k] = Stray \/ Owns(r, buf'[r][k])
  <2>1. k \in 1..Len(buf[r]) - 1 /\ k + 1 \in 1..Len(buf[r])
    BY <1>2, <1>3, <1>5
  <2>2. buf'[r][k] = buf[r][k + 1]
    BY <1>3, <1>5, <2>1
  <2>3. QED
    BY <1>0, <2>1, <2>2 DEF SentInv
<1>7. SentInv(r)'
  BY <1>6 DEF SentInv, Owns, ChannelBase
<1>8. \A q \in Inputs : TablesSame(q)
  BY <1>1 DEF TablesSame
<1>9. QED
  BY <1>0, <1>4, <1>5, <1>7, <1>8, SameTables DEF Kept

-----------------------------------------------------------------------------
(* The theorems.                                                           *)

LEMMA Initially == ASSUME Init PROVE IInv
<1>1. TypeOK
  <2>1. /\ <<>> \in Seq(Pid \X Pid) /\ <<>> \in Seq(Pid) /\ <<>> \in Seq(Packet) /\ Len(<<>>) = 0
        /\ 0 <= RefSize /\ 0 <= BufSize /\ 1 \in Nat \ {0} /\ 0 \in Nat
    BY Constants
  <2>2. \A r \in Inputs : ChannelBase(r) \in Pid
    BY BaseIsPid
  <2>3. disabled \in [Inputs -> BOOLEAN]
    BY Zenon DEF Init
  <2>4. QED
    BY <2>1, <2>2, <2>3 DEF Init, TypeOK
<1>2. ASSUME NEW r \in Inputs PROVE TablesInv(r) /\ SentInv(r)
  <2>1. pc[r] = "off" /\ pidref[r] = <<>> /\ base_pid[r] = ChannelBase(r) /\ buf[r] = <<>>
    BY DEF Init
  <2>2. MapInv(r) /\ SentInv(r)
    BY <1>1, <2>1, Types DEF MapInv, SentInv, Used
  <2>3. CountInv(r) /\ FirstInv(r) /\ ListedInv(r) /\ SingleInv(r)
    BY <2>1 DEF CountInv, FirstInv, ListedInv, SingleInv, Mapped
  <2>4. QED
    BY <2>2, <2>3 DEF TablesInv
<1>3. QED
  BY <1>1, <1>2 DEF IInv

LEMMA StepKeeps == ASSUME IInv, [Next]_vars PROVE IInv'
<1>1. CASE Next
  <2>1. PICK r \in Inputs : Input(r) \/ MixTakes(r)
    BY <1>1 DEF Next
  <2>2. Kept(r)
    BY <2>1, ConnectKeeps, RewriteProgramKeeps, RewritePcrKeeps, RewriteStreamKeeps,
       PmtRewrittenKeeps, SendPmtKeeps, SendPacketKeeps, MixTakesKeeps DEF Input
  <2>3. ASSUME NEW q \in Inputs PROVE TablesInv(q)' /\ SentInv(q)'
    <3>1. CASE q = r
      BY <2>2, <3>1 DEF Kept
    <3>2. CASE q # r
      BY <2>2, <3>2, SameTables, SameBuffer DEF Kept, IInv
    <3>3. QED
      BY <3>1, <3>2
  <2>4. QED
    BY <2>2, <2>3 DEF Kept, IInv
<1>2. CASE UNCHANGED vars
  <2>1. TypeOK'
    BY <1>2 DEF IInv, TypeOK, vars, mapVars, pmtVars, bufVars
  <2>2. \A q \in Inputs : TablesSame(q) /\ buf'[q] = buf[q]
    BY <1>2 DEF TablesSame, vars, mapVars, pmtVars, bufVars
  <2>3. QED
    BY <2>1, <2>2, SameTables, SameBuffer DEF IInv
<1>3. QED
  BY <1>1, <1>2

\* Every variable keeps its type: no map grows beyond PIDREF.num, no buffer beyond its
\* size (pidref_add, input_buffer_add).
THEOREM TypeCorrect == Spec => []TypeOK
<1>1. Init => IInv
  BY Initially
<1>2. IInv /\ [Next]_vars => IInv'
  BY StepKeeps
<1>3. IInv => TypeOK
  BY DEF IInv
<1>4. QED
  BY <1>1, <1>2, <1>3, PTL DEF Spec

\* Packets of two channels leave under different PIDs (input_stream_reset starts each
\* map at the channel's first PID, pidref_add goes on from there).
THEOREM PidsStayApart == Spec => []ChannelsApart
<1>1. Init => IInv
  BY Initially
<1>2. IInv /\ [Next]_vars => IInv'
  BY StepKeeps
<1>3. ASSUME IInv PROVE ChannelsApart
  <2>1. SUFFICES ASSUME NEW q \in Inputs, NEW r \in Inputs, q # r,
                        NEW j \in 1..Len(buf[q]), NEW k \in 1..Len(buf[r]),
                        buf[q][j] = buf[r][k], buf[q][j] # Stray
                 PROVE  FALSE
    BY DEF ChannelsApart
  <2>2. Owns(q, buf[q][j]) /\ Owns(r, buf[q][j])
    BY <1>3, <2>1 DEF IInv, SentInv
  <2>3. buf[q] \in Seq(Packet)
    BY <1>3, Types DEF IInv
  <2>4. buf[q][j] \in Packet
    BY <2>3, ElementType
  <2>5. buf[q][j] \in Nat
    BY <2>4 DEF Packet, Pid, Stray
  <2>6. QED
    BY <2>1, <2>2, <2>5, OwnersDiffer
<1>4. QED
  BY <1>1, <1>2, <1>3, PTL DEF Spec

\* The rewritten PMT leaves under the first PID of its channel, the one that the output
\* PAT tells (input_rewrite_pat, channel_new).
THEOREM PmtIsWhereAnnounced == Spec => []PmtWhereAnnounced
<1>1. Init => IInv
  BY Initially
<1>2. IInv /\ [Next]_vars => IInv'
  BY StepKeeps
<1>3. IInv => PmtWhereAnnounced
  BY DEF IInv, TablesInv, FirstInv, Mapped, PmtWhereAnnounced
<1>4. QED
  BY <1>1, <1>2, <1>3, PTL DEF Spec

\* Every stream leaves under the PID the rewritten PMT tells for it, and under no other
\* stream's (input_rewrite_pmt, pidref_change_packet_pid).
THEOREM StreamsAreWhereAnnounced == Spec => []AnnouncedIsSent
<1>1. Init => IInv
  BY Initially
<1>2. IInv /\ [Next]_vars => IInv'
  BY StepKeeps
<1>3. ASSUME IInv, NEW r \in Inputs, Mapped(r), Fits(source[r]), OneUseEach(source[r])
      PROVE  LET s == source[r] IN
             /\ OutPid(r, s.pcr) = out_pcr[r]
             /\ \A k \in 1..Len(s.streams) : OutPid(r, s.streams[k]) = out_streams[r][k]
             /\ \A j, k \in 1..Len(s.streams) : out_streams[r][j] = out_streams[r][k] => j = k
  <2> DEFINE s == source[r]
             m == pidref[r]
  <2>0. TypeOK /\ MapInv(r) /\ CountInv(r) /\ SingleInv(r)
    BY <1>3 DEF IInv, TablesInv
  <2>1. Told(m, s, out_pcr[r], out_streams[r], Len(s.streams))
    BY <1>3, <2>0 DEF SingleInv, KnownAt, Known
  <2>2. \A p, n : Single(m, p, n) => n \in Pid
    <3>1. m \in Seq(Pid \X Pid)
      BY <2>0, Types
    <3>2. \A c \in 1..Len(m) : m[c] \in Pid \X Pid
      BY <3>1, ElementType
    <3>3. QED
      BY <3>2 DEF Single
  <2>3. \A p, n : Single(m, p, n) => OutPid(r, p) = n
    BY <2>0, <2>2, NewPidOfSingle
  <2>4. ASSUME NEW j \in 1..Len(s.streams), NEW k \in 1..Len(s.streams),
               out_streams[r][j] = out_streams[r][k]
        PROVE  j = k
    <3>1. PICK c \in 1..Len(m) : m[c] = <<s.streams[j], out_streams[r][j]>>
      BY <2>1 DEF Told, Single
    <3>2. PICK d \in 1..Len(m) : m[d] = <<s.streams[k], out_streams[r][k]>>
      BY <2>1 DEF Told, Single
    <3>3. ChannelBase(r) + c - 1 = ChannelBase(r) + d - 1
      BY <2>0, <2>4, <3>1, <3>2 DEF MapInv
    <3>4. c = d
      <4>1. ChannelBase(r) \in Nat /\ c \in Int /\ d \in Int
        BY <2>0, Types
      <4>2. QED
        BY <3>3, <4>1
    <3>5. s.streams[j] = s.streams[k]
      BY <3>1, <3>2, <3>4
    <3>6. QED
      BY <1>3, <3>5 DEF OneUseEach
  <2>5. QED
    BY <2>1, <2>3, <2>4 DEF Told
<1>4. IInv => AnnouncedIsSent
  BY <1>3 DEF AnnouncedIsSent
<1>5. QED
  BY <1>1, <1>2, <1>4, PTL DEF Spec
-----------------------------------------------------------------------------
(* Losses.                                                                 *)

\* What is not added finds more than half of the buffer taken.
LEMMA RefusedWhenShort ==
  ASSUME TypeOK, NEW r \in Inputs, NEW p \in Packet, NEW n \in Nat \ {0}, 2 * n <= BufSize,
         BufferAdd(r, p, n), buf'[r] = buf[r]
  PROVE  2 * Len(buf[r]) > BufSize
<1>1. buf[r] \in Seq(Packet) /\ Len(buf[r]) \in Nat /\ BufSize \in Nat
  BY Types, Constants
<1>2. CASE Refuses(r)
  BY <1>2 DEF Refuses
<1>3. CASE ~Refuses(r) /\ Len(buf[r]) + n <= BufSize
  <2>1. Len(buf[r] \o Copies(p, n)) = Len(buf[r]) + n
    BY <1>1, CopiesAdded
  <2>2. buf'[r] = buf[r] \o Copies(p, n)
    BY <1>3 DEF BufferAdd, TypeOK
  <2>3. QED
    BY <1>1, <2>1, <2>2
<1>4. CASE ~(Len(buf[r]) + n <= BufSize)
  BY <1>1, <1>4
<1>5. QED
  BY <1>2, <1>3, <1>4

LEMMA OutPidType ==
  ASSUME TypeOK, NEW r \in Inputs, NEW p \in source[r].sends
  PROVE  OutPid(r, p) \in Packet
<1>1. p \in Pid
  BY SourceType
<1>2. NewPid(r, p) \in Nat
  BY NewPidType
<1>3. QED
  BY <1>1, <1>2 DEF OutPid, Packet, Pid

\* An input loses packets only while more than half of its buffer is taken, if a PMT
\* (6 packets at most) is no more than that half (40000 packets): input_buffer_add.
THEOREM LossMeansShortage ==
  ASSUME 2 * PmtSize <= BufSize
  PROVE  Spec => NoLossBelowHalf
<1>1. Init => IInv
  BY Initially
<1>2. IInv /\ [Next]_vars => IInv'
  BY StepKeeps
<1>3. ASSUME IInv, NEW r \in Inputs, Offers(r), buf'[r] = buf[r]
      PROVE  2 * Len(buf[r]) > BufSize
  <2>1. TypeOK /\ PmtSize \in Nat \ {0} /\ 1 \in Nat \ {0} /\ BufSize \in Nat
    BY <1>3, Constants DEF IInv
  <2>2. CASE SendPmt(r)
    <3>1. out_pmt[r] \in Packet /\ Stray \in Packet
      BY <2>1 DEF TypeOK, Packet, Pid, Stray
    <3>2. PICK p \in Packet : BufferAdd(r, p, PmtSize)
      BY <2>2, <3>1 DEF SendPmt
    <3>3. QED
      BY <1>3, <2>1, <3>2, RefusedWhenShort
  <2>3. ASSUME NEW q \in source[r].sends, SendPacket(r, q)
        PROVE  2 * Len(buf[r]) > BufSize
    <3>1. OutPid(r, q) \in Packet /\ Stray \in Packet
      BY <2>1, OutPidType DEF Packet
    <3>2. PICK p \in Packet : BufferAdd(r, p, 1)
      BY <2>3, <3>1 DEF SendPacket
    <3>3. QED
      BY <1>3, <2>1, <3>2, RefusedWhenShort
  <2>4. QED
    BY <1>3, <2>2, <2>3 DEF Offers
<1>4. IInv => [\A r \in Inputs : Offers(r) /\ buf'[r] = buf[r] => 2 * Len(buf[r]) > BufSize]_vars
  BY <1>3
<1>5. QED
  BY <1>1, <1>2, <1>4, PTL DEF Spec, NoLossBelowHalf
=============================================================================
