----------------------------- MODULE PidRewrite -----------------------------
(***************************************************************************)
(* From a source's tables to the packets in INPUT.buf: input_rewrite_pat   *)
(* and input_rewrite_pmt (input.c:83-139) fill the PID map of the input    *)
(* (pidref.c), every packet looks its PID up (line 501), and               *)
(* input_buffer_add (lines 155-174) takes it or not.  All inputs together: *)
(* their packets meet in one output stream, told apart by their PIDs only. *)
(*                                                                         *)
(* A step is one pass of a rewriting loop, one packet (or one PMT) added,  *)
(* or one packet taken by MIX.  When tables change or a source fails, the  *)
(* input connects again; InputStream has the details.  What it puts out    *)
(* before PAT and PMT are known is nothing.                                *)
(***************************************************************************)
EXTENDS Integers, Sequences, FiniteSets

CONSTANTS Inputs,       \* CHANNEL.index of the inputs' channels
          ChannelPids,  \* 32, the PIDs a channel has
          RefSize,      \* 64, PIDREF.num
          Sources,      \* what a source may announce and send
          PmtSize,      \* packets of a rewritten PMT
          BufSize       \* packets that fit into INPUT.buf

Pid == Nat \ {0}

\* A source: the programs of its PAT, the PCR PID and the streams of the PMT of
\* the first program, and the PIDs it sends packets of.
Source == [pat : Seq([program : Nat, pid : Pid]), pcr : Pid, streams : Seq(Pid),
           sends : SUBSET Pid]

\* prg->program # 0: what is not the NIT.
IsProgram(e)  == e.program # 0
HasProgram(s) == \E i \in 1..Len(s.pat) : IsProgram(s.pat[i])

ASSUME PidAssumption == /\ Inputs \subseteq Nat \ {0}
                        /\ ChannelPids \in Nat \ {0}
                        /\ RefSize \in Nat
                        /\ Sources \subseteq Source
                        /\ \A s \in Sources : HasProgram(s)
                        /\ PmtSize \in Nat \ {0}
                        /\ BufSize \in Nat

VARIABLES
  pc,         \* how far the input is with its source
  source,     \* the source it is connected to
  i,          \* the entry of PAT or PMT to be rewritten next
  pidref,     \* PIDREF.entries in use: <<org_pid, new_pid>>
  base_pid,   \* PIDREF.base_pid
  out_pmt,    \* the PID of the rewritten PMT
  out_pcr,    \* the PCR PID it tells
  out_streams,\* the PIDs of the streams it tells
  buf,        \* INPUT.buf
  disabled    \* INPUT.disabled

mapVars == <<pidref, base_pid>>
pmtVars == <<out_pmt, out_pcr, out_streams>>
bufVars == <<buf, disabled>>
vars    == <<pc, source, i, mapVars, pmtVars, bufVars>>

\* CHANNEL.base_pid, which is also the PID the output PAT tells for its PMT.
ChannelBase(r) == r * ChannelPids

\* A packet in a buffer is its PID, or Stray: one that the tables of its source do
\* not list, or whose tables do not fit.  Of strays nothing is said below.
Stray  == 0
Packet == Pid \cup {Stray}

TypeOK ==
  /\ pc \in [Inputs -> {"off", "pat", "streams", "mapped", "live"}]
  /\ source \in [Inputs -> Sources]
  /\ i \in [Inputs -> Nat \ {0}]
  /\ pidref \in [Inputs -> Seq(Pid \X Pid)]
  /\ \A r \in Inputs : Len(pidref[r]) <= RefSize
  /\ base_pid \in [Inputs -> Pid]
  /\ out_pmt \in [Inputs -> Nat]
  /\ out_pcr \in [Inputs -> Nat]
  /\ out_streams \in [Inputs -> Seq(Pid)]
  /\ buf \in [Inputs -> Seq(Packet)]
  /\ \A r \in Inputs : Len(buf[r]) <= BufSize
  /\ disabled \in [Inputs -> BOOLEAN]

Init == /\ pc = [r \in Inputs |-> "off"]
        /\ source \in [Inputs -> Sources]
        /\ i = [r \in Inputs |-> 1]
        /\ pidref = [r \in Inputs |-> <<>>]
        /\ base_pid = [r \in Inputs |-> ChannelBase(r)]
        /\ out_pmt = [r \in Inputs |-> 0]
        /\ out_pcr = [r \in Inputs |-> 0]
        /\ out_streams = [r \in Inputs |-> <<>>]
        /\ buf = [r \in Inputs |-> <<>>]
        /\ disabled = [r \in Inputs |-> FALSE]

-----------------------------------------------------------------------------
(* pidref.c                                                                *)

\* The entries of original PID p.
EntriesOf(r, p) == {k \in 1..Len(pidref[r]) : pidref[r][k][1] = p}

\* Mutant: the last entry of a PID counts.
NewPidLast(r, p) ==
  IF EntriesOf(r, p) = {} THEN 0
  ELSE LET k == CHOOSE k \in EntriesOf(r, p) : \A j \in EntriesOf(r, p) : k >= j
       IN  pidref[r][k][2]

\* pidref_get_new_pid: the first entry counts, 0 is for none.
NewPid(r, p) ==
  IF EntriesOf(r, p) = {} THEN 0
  ELSE LET k == CHOOSE k \in EntriesOf(r, p) : \A j \in EntriesOf(r, p) : k <= j
       IN  pidref[r][k][2]

\* pidref_change_packet_pid: a PID that is not in the map stays as it is.
OutPid(r, p) == IF NewPid(r, p) = 0 THEN p ELSE NewPid(r, p)

\* Mutant: the map is taken to have room.
AddPidUnchecked(r, p) ==
  /\ pidref' = [pidref EXCEPT ![r] = Append(@, <<p, base_pid[r]>>)]
  /\ base_pid' = [base_pid EXCEPT ![r] = @ + 1]

\* pidref_add of the next PID of the channel: entries are never deleted, so the
\* free one is at the end.  The PID is used up also if there was none.
AddPid(r, p) ==
  /\ pidref' = IF Len(pidref[r]) < RefSize
               THEN [pidref EXCEPT ![r] = Append(@, <<p, base_pid[r]>>)] ELSE pidref
  /\ base_pid' = [base_pid EXCEPT ![r] = @ + 1]

-----------------------------------------------------------------------------
(* The input thread.                                                       *)

\* ts_pmt_free(pmt_rewritten).
ForgetPmt(r) == /\ out_pmt' = [out_pmt EXCEPT ![r] = 0]
                /\ out_pcr' = [out_pcr EXCEPT ![r] = 0]
                /\ out_streams' = [out_streams EXCEPT ![r] = <<>>]

\* Mutant: a new connection goes on with the PID the last one came to.
ConnectKeepsBase(r, s) ==
  /\ pc' = [pc EXCEPT ![r] = "pat"]
  /\ source' = [source EXCEPT ![r] = s]
  /\ i' = [i EXCEPT ![r] = 1]
  /\ pidref' = [pidref EXCEPT ![r] = <<>>]
  /\ ForgetPmt(r)
  /\ UNCHANGED <<base_pid, bufVars>>

\* A new connection, at any moment: input_stream_reset makes a new map
\* and frees the tables; the buffer stays.
Connect(r, s) ==
  /\ pc' = [pc EXCEPT ![r] = "pat"]
  /\ source' = [source EXCEPT ![r] = s]
  /\ i' = [i EXCEPT ![r] = 1]
  /\ pidref' = [pidref EXCEPT ![r] = <<>>]
  /\ base_pid' = [base_pid EXCEPT ![r] = ChannelBase(r)]
  /\ ForgetPmt(r)
  /\ UNCHANGED bufVars

\* INPUT_STREAM.pmt_pid: the PMT of the first program.
PmtPid(s) ==
  LET first == CHOOSE k \in 1..Len(s.pat) :
                 /\ IsProgram(s.pat[k])
                 /\ \A j \in 1..k - 1 : ~IsProgram(s.pat[j])
  IN  s.pat[first].pid

\* INPUT_STREAM.nit_pid: the last entry in front of the first program, if any.
NitPids(s) == {s.pat[k].pid : k \in {k \in 1..Len(s.pat) - 1 :
                 /\ \A j \in 1..k : ~IsProgram(s.pat[j])
                 /\ IsProgram(s.pat[k + 1])}}

\* input_rewrite_pat, one program after the other.
RewriteProgram(r) ==
  LET e == source[r].pat[i[r]] IN
  /\ pc[r] = "pat"
  /\ i[r] <= Len(source[r].pat)
  /\ i' = [i EXCEPT ![r] = @ + 1]
  /\ IF IsProgram(e) THEN AddPid(r, e.pid) ELSE UNCHANGED mapVars
  /\ UNCHANGED <<pc, source, pmtVars, bufVars>>

\* input_rewrite_pmt up to its loop, when the first PMT has come.
RewritePcr(r) ==
  /\ pc[r] = "pat"
  /\ i[r] > Len(source[r].pat)
  /\ out_pmt' = [out_pmt EXCEPT ![r] = NewPid(r, PmtPid(source[r]))]
  /\ AddPid(r, source[r].pcr)
  /\ out_pcr' = [out_pcr EXCEPT ![r] = base_pid[r]]
  /\ out_streams' = [out_streams EXCEPT ![r] = <<>>]
  /\ pc' = [pc EXCEPT ![r] = "streams"]
  /\ i' = [i EXCEPT ![r] = 1]
  /\ UNCHANGED <<source, bufVars>>

\* Mutant: a stream with the PCR gets a PID of its own.
RewriteStreamAlways(r) ==
  LET p == source[r].streams[i[r]] IN
  /\ pc[r] = "streams"
  /\ i[r] <= Len(source[r].streams)
  /\ i' = [i EXCEPT ![r] = @ + 1]
  /\ AddPid(r, p)
  /\ out_streams' = [out_streams EXCEPT ![r] = Append(@, base_pid[r])]
  /\ UNCHANGED <<pc, source, out_pmt, out_pcr, bufVars>>

\* The loop over the streams: one that carries the PCR has its PID already.
RewriteStream(r) ==
  LET p == source[r].streams[i[r]] IN
  /\ pc[r] = "streams"
  /\ i[r] <= Len(source[r].streams)
  /\ i' = [i EXCEPT ![r] = @ + 1]
  /\ IF p = source[r].pcr
     THEN /\ out_streams' = [out_streams EXCEPT ![r] = Append(@, out_pcr[r])]
          /\ UNCHANGED mapVars
     ELSE /\ out_streams' = [out_streams EXCEPT ![r] = Append(@, base_pid[r])]
          /\ AddPid(r, p)
  /\ UNCHANGED <<pc, source, out_pmt, out_pcr, bufVars>>

PmtRewritten(r) ==
  /\ pc[r] = "streams"
  /\ i[r] > Len(source[r].streams)
  /\ pc' = [pc EXCEPT ![r] = "mapped"]
  /\ i' = [i EXCEPT ![r] = 1]
  /\ UNCHANGED <<source, mapVars, pmtVars, bufVars>>

-----------------------------------------------------------------------------
(* input_buffer_add and what is added.                                     *)

\* Mutant: a disabled input is enabled when its buffer is empty.
RefusesUntilEmpty(r) == disabled[r] /\ Len(buf[r]) > 0

\* A disabled input stays so until half of the buffer is free.
Refuses(r) == disabled[r] /\ 2 * Len(buf[r]) > BufSize

Copies(p, n) == [k \in 1..n |-> p]

\* n packets, all or none.
BufferAdd(r, p, n) ==
  IF Refuses(r) THEN UNCHANGED bufVars
  ELSE IF Len(buf[r]) + n <= BufSize
  THEN /\ buf' = [buf EXCEPT ![r] = @ \o Copies(p, n)]
       /\ disabled' = [disabled EXCEPT ![r] = FALSE]
  ELSE /\ disabled' = [disabled EXCEPT ![r] = TRUE]
       /\ UNCHANGED buf

\* The PIDs the tables of a source tell, and (what the code never counts) how many
\* PIDs the two rewriting loops use up for them, with one to spare for a NIT.
Listed(s) == {s.pcr} \cup {s.streams[k] : k \in 1..Len(s.streams)}
Needs(s)  == Len(s.pat) + 1 + Len(s.streams)

\* A source whose tables fit: into the PIDs of the channel and into the map.
Fits(s) == Needs(s) <= ChannelPids /\ Needs(s) <= RefSize

\* Each time the PMT has come the rewritten one is sent.
SendPmt(r) ==
  /\ pc[r] \in {"mapped", "live"}
  /\ BufferAdd(r, IF Fits(source[r]) THEN out_pmt[r] ELSE Stray, PmtSize)
  /\ UNCHANGED <<pc, source, i, mapVars, pmtVars>>

\* Lines 485-503: the PMT's PID is dealt with, the PIDs of PSI are dropped; the
\* rest is sent on from the first PCR on, whether the PMT lists it or not.
SendPacket(r, p) ==
  /\ pc[r] = "live" \/ (pc[r] = "mapped" /\ p = source[r].pcr)
  /\ pc' = [pc EXCEPT ![r] = "live"]
  /\ p # PmtPid(source[r]) /\ p \notin NitPids(source[r])
  /\ BufferAdd(r, IF Fits(source[r]) /\ p \in Listed(source[r]) THEN OutPid(r, p) ELSE Stray, 1)
  /\ UNCHANGED <<source, i, mapVars, pmtVars>>

MixTakes(r) ==
  /\ buf[r] # <<>>
  /\ buf' = [buf EXCEPT ![r] = Tail(@)]
  /\ UNCHANGED <<pc, source, i, mapVars, pmtVars, disabled>>

Input(r) == \/ \E s \in Sources : Connect(r, s)
            \/ RewriteProgram(r) \/ RewritePcr(r) \/ RewriteStream(r) \/ PmtRewritten(r)
            \/ SendPmt(r)
            \/ \E p \in source[r].sends : SendPacket(r, p)

Next == \E r \in Inputs : Input(r) \/ MixTakes(r)

Spec == Init /\ [][Next]_vars
-----------------------------------------------------------------------------
(* Properties.                                                             *)

\* Packets of two channels never leave under one PID, however often their sources
\* change, also those still in a buffer from an earlier connection; provided the
\* tables fit into 32 PIDs (data.c:140) and list what the source sends.
ChannelsApart ==
  \A q, r \in Inputs : q # r =>
    \A j \in 1..Len(buf[q]), k \in 1..Len(buf[r]) :
      buf[q][j] = buf[r][k] => buf[q][j] = Stray

\* Each PID has one use in the tables of the source, but for a stream with the PCR.
Programs(s)  == {s.pat[k].pid : k \in {k \in 1..Len(s.pat) : IsProgram(s.pat[k])}}
OneUseEach(s) ==
  /\ \A j, k \in 1..Len(s.streams) : s.streams[j] = s.streams[k] => j = k
  /\ Listed(s) \cap Programs(s) = {}

Mapped(r) == pc[r] \in {"mapped", "live"}

\* A receiver finds under the PIDs of the rewritten PMT (input.c:107-139) the very
\* streams the source's PMT tells, the PCR included, and each under a PID of its own.
AnnouncedIsSent ==
  \A r \in Inputs :
    LET s == source[r] IN
    Mapped(r) /\ Fits(s) /\ OneUseEach(s) =>
      /\ OutPid(r, s.pcr) = out_pcr[r]
      /\ \A k \in 1..Len(s.streams) : OutPid(r, s.streams[k]) = out_streams[r][k]
      /\ \A j, k \in 1..Len(s.streams) : out_streams[r][j] = out_streams[r][k] => j = k

\* The PMT leaves under the PID the output PAT tells (CHANNEL.pmt_pid, data.c:141),
\* also for a PAT of several programs, and after any number of connections.
PmtWhereAnnounced ==
  \A r \in Inputs : Mapped(r) /\ RefSize > 0 => out_pmt[r] = ChannelBase(r)

Offers(r) == SendPmt(r) \/ \E p \in source[r].sends : SendPacket(r, p)

\* An input loses packets only while more than half of its buffer is taken: being
\* disabled (input.c:160-173) never outlives the shortage.
NoLossBelowHalf ==
  [][\A r \in Inputs : Offers(r) /\ buf'[r] = buf[r] => 2 * Len(buf[r]) > BufSize]_vars
=============================================================================
