# mptsd in TLA+

mptsd reads several MPEG transport streams (one program each), and multiplexes
them into one stream of constant bitrate: it rewrites PIDs, inserts its own PSI
tables, fills up with null packets and sends frames of seven packets. This
directory models the parts of it where threads meet or where arithmetic decides
what goes out, model-checks them with TLC, and proves what matters most with
TLAPS for all parameters.

## 1. The system

| Component | State it keeps | Operations | Talks to |
|---|---|---|---|
| main (`mptsd.c`) | `keep_going` | start threads, wait for a signal, `kill_threads`, `config_free` | sets `OUTPUT.dienow`, waits for the list of inputs to empty and for `dienow >= 4` |
| input threads (`input.c`, `network.c`, `pidref.c`), one per channel | `INPUT`: socket, flags, current source, PAT/PMT/EIT being assembled, PID map, `disabled` | connect, sync, read, filter, rewrite, `input_buffer_add`, reconnect on the next source, `proxy_close` | fill `INPUT.buf`, take themselves off `CONFIG.inputs` |
| PSI thread (`output_psi.c`) | tables, timers, continuity counters | `output_psi_add` every 10 ms, `config_load_epg` | fills `OUTPUT.psibuf` |
| MIX thread (`output_mix.c`) | last used input, per input PCR spacing | one round per output buffer: snapshot, PSI first, round robin, null mixing | empties `psibuf` and `INPUT.buf`, fills `OUTPUT.obuf[2]` |
| WRITE thread (`output_write.c`) | its buffer, RTP sequence, PCR restamping, pacing | send the frames of a full buffer, reset it, reconnect the output | empties `OUTPUT.obuf[2]`, socket and file |
| configuration (`config.c`, `iniparser.c`, `inidict.c`) | channels, NIT, EPG, global options | load at start, reload EPG | read by all |
| web server (`web_server.c`, `web_pages.c`) | listening socket | two fixed pages | reads the number of inputs |
| libfuncs, libtsfuncs | circular buffer, list, tables | external: the submodules are empty | everyone |

What is hard: the output buffers change hands through a status field without a
lock; five kinds of threads end by counting in an unlocked integer; the list of
inputs shrinks while others walk it; a round of mixing works on a snapshot of
buffers that keep filling; holding back PCR packets depends on counters that
wrap; null packets are spread by rounding two products; the output PIDs of all
channels share one number space although each input draws its own; the EPG file
changes while it is read; rewritten PCRs are computed from a byte count that a
refused frame leaves behind. `PROJECT.json` ("hazards") lists each with its line,
and with the property that covers it or the reason none does.

What makes each component correct:

* output buffers: exclusive use; every batch published is sent once, in order,
  unchanged; reused buffers are clean; no deadlock; both threads stop.
* mixing: every packet read gets a place; no input starves; nothing is read
  that is not there; nulls are spread in proportion; PCR packets are no closer
  than asked for.
* start and shutdown: the configuration is freed only after the loops that use it; threads
  leave; the program ends, also when a thread could not be created.
* input: nothing leaves before PAT, PMT and a PCR of this connection are known;
  a changed table is noticed; a source that stays is found; no socket leaks.
* PID rewriting: packets of two channels never share a PID; the PMT and the
  streams are found where the output PAT and the PMT announce them; a full buffer
  refuses no longer than it must.
* PSI and EPG: continuity counters go on from what was sent; every table repeats;
  the EPG follows its file; the version of an EIT tells whether it is a new one.
* frame writer: rewritten PCRs tell the time their bytes take; a socket that fails
  is noticed and replaced.

## 2. Modules

| Module | What it is | Source |
|---|---|---|
| `FrameQueue` | abstract: a queue of at most two batches of frames, sent frame by frame | what the two buffers promise |
| `OutputBuffers` | MIX and WRITE on `OUTPUT.obuf[2]`, one step per shared access | `output_mix.c`, `output_write.c`, `obuf_reset` |
| `OutputBuffersProofs` | its theorems | |
| `NullMixing` | pure operators: how many nulls go before a data packet | `output_mix.c:82-90, 229-236` |
| `Mix` | mixing rounds, one step per pass of the loop | `output_mix.c:57-257`, `input_buffer_add` |
| `MixProofs` | theorems about `NullMixing`, `Mix` and `PcrSpacing` | |
| `PcrSpacing` | `Mix` with a history variable: places sent since the last PCR packet | |
| `Shutdown` | main, three output threads and the inputs, from the creation of the threads to `exit` | `mptsd.c:51-182`, ends of all thread functions, `proxy_close` |
| `ShutdownProofs` | its theorems | |
| `InputStream` | one input thread between its sources and its buffer | `input.c:155-526`, `connect_source`, `mpeg_sync`, `chansrc_next`, `input_stream_reset` |
| `InputStreamProofs` | its theorems | |
| `EpgReload` | the EPG file, its editor, and `config_load_epg` | `config.c:290-409`, `epg_new`, `epg_changed` |
| `PsiTables` | the PSI thread, its timers, counters and `psibuf`; extends `EpgReload` | `output_psi.c:164-345` |
| `PsiProofs` | theorems about both | |
| `PidRewrite` | PID maps, rewritten PMTs and buffers of all inputs | `pidref.c`, `input.c:54-174, 272-296, 479-506` |
| `PidRewriteProofs` | its theorems | |
| `FrameWriter` | what WRITE does to a frame and with the results | `output_write.c:50-175, 226-287`, `connect_output` |
| `FrameWriterProofs` | its theorems | |
| `Arithmetic` | lemmas about products, quotients and remainders | |
| `MC*` | instances for TLC | |

Definitions carry the names of the code where there is one (`MixPublish` is the
hand-over at `output_mix.c:254`, `ListDelEntry` a call in `proxy_close`); "map" in
`PROJECT.json` gives the lines. Definitions whose comment begins with "Mutant"
are variants of the definition that follows, with a plausible slip; they are
used by no specification and serve to show that a property notices the slip.

**OutputBuffers.** `status`, `written` and `frame` are the fields of the two
`OBUF`s. Each thread has a place (`mixPc`, `writePc`) and its own
`buf_in_use`. The loops that wait for a status are steps guarded by it. MIX
fills frames at increasing places; which packets it puts there is left to
`Mix`. Contents are abstract values, `Null` stands for a frame of null packets. A
frame may be refused by the network; `accepted` is the sign of `written`, which
stays negative only if all frames of the batch are refused. `refused` counts the frames
refused on the present connection since it took one last: `DeadSocketIsReplaced` says that it
never reaches two buffers' worth. A buffer may begin with a frame that is taken, so one
buffer's worth is no bound; the sum is started anew with each buffer, so two are. (That a
socket error makes a frame count as refused is another matter, see `reconnect` below.) `obuf_reset` is two
steps, the wipe and the release. Stores are taken to become visible in program
order (the x86 the program is built for; the compiler cannot move the stores to
`status` across the calls and the byte stores around them).

**NullMixing and Mix.** A round takes a snapshot of how many packets there are,
and makes that many passes; each pass reads at most one packet and counts one
packet sent for every input. The doubles of C are exact quotients here, and
`round` rounds halves away from zero. A packet is plain (`Es`), a PCR packet
with its distance from the last (line 160, before the boundary check), or padding.
`seen`, `needed`, `outputed` are `output_last_pcr # 0`,
`output_pcr_packets_needed` and `outputed_packets`, the latter wrapping at
`IntMax`. Reading is one step because only MIX takes packets out of the
buffers; inputs add between any two steps. An input that is disabled, or whose
buffer is full, simply does not add.

`MixedInProportion` says what the two rounded products of lines 82-90 and 229-236 come
to. Before a data packet nulls are short of their share by at most half a packet's, and the
rarer kind is ahead of its share by less than one. A pass that holds PCR packets back
and reads nothing counts as a data packet all the same; the nulls that were due before
it are caught up together before the next one. Then the last bound is all there is:
fewer nulls than passes, as long as nulls are the rarer kind. (With held passes the bound of
one is really exceeded, which is why it is stated for `~Moves`.)

**Shutdown.** main starts one thread per channel, then the three output threads, while
those started before run already. An input whose thread cannot be created stays on the list
("no thread"), and main can only give up waiting for it; without an output thread the
program exits at once. `proxy_close` is two steps, since main reads the number of inputs
without the lock: `ListDelEntry` under the lock, then `InputFree`, and `config_free`
may begin between them. `FreedAfterTheLoops` says what `kill_threads` does see to: the list
is empty, so `config_free` and `input_free` never free the same input, input threads
have only `input_free` left, and output threads are out of their loops. It does not say
that MIX has ended its walk over the list (`MixStopsInputs`), for it adds its one to
`dienow` before it walks: main may free the list under it. `dienow++` is a load and a store. The one-bit fields of `INPUT` share
a byte: an input that sets `working` loads and stores `dienow` with it
(`InputLoads`, `InputStores`). Everything an input does between passing
`while (keep_going)` and coming back to it is the place "reading" or "update".
The list is taken to lock itself for adding and removing, as its users assume.

**InputStream.** `pc` is the place in `input_stream`: the head of the outer loop, the
worktime sleep, connecting, `mpeg_sync`, the head of the reading loop, reading, the loop
over the packets of a frame. The labels `RECONNECT`, `STOP` and `QUIT` are
`Reconnect`, `Stop` and `Quit`. A source sends a PAT and a PMT of some version; a
PID is named by the version of the table that announces it, so a PMT is looked for
under the PID of the first PAT of the connection. A connection that fails may leave its
socket open ("failed", the returns of `connect_source` after `socket()`); the caller's
`RECONNECT` is what closes it. `pmt` and `lastPmt` are tables with
the packets they have so far; a PAT is one packet. `input_buffer_add` may refuse
anything. `taken` and `pmtsIn` record what has come in since connecting. Connecting
and getting in step fail only for a source that is not `up`; reading from one that
is gone either fails or gives nothing, three times at most (`MaxZeroReads`).
`reconnect` is never set at run time, so that branch is left out.

**PidRewrite.** A step is one pass of the loops of `input_rewrite_pat` and
`input_rewrite_pmt`, one packet added, or one taken by MIX. `pidref` is the entries
in use, in order: none is ever deleted. An input may connect again, to any source,
between any two steps; its buffer keeps what it had put there. A packet in a
buffer is its PID. Packets whose PID the source's PMT does not list leave under their
own number, and so do those of tables that exceed 32 PIDs or 64 entries run into the
next channel: they are `Stray`, and nothing holds of them. A source is a PAT of any
number of programs, the PMT of its first and the set of PIDs it sends.

**EpgReload and PsiTables.** `stat` and the parse are two steps, and the editor may
write, spoil, remove or restore the file between them. Times are whole seconds.
An EIT is its version and what it tells. A table is its number of packets; adding it
advances its counter also when `psibuf` does not take it. `TDT` and `TOT`, and the EITs of
all channels, share one counter each. `age` is the time since a table's time stamp in
polls of 10 ms. `heard`, `held` and `missed` are what a receiver knows.

**FrameWriter.** A frame is processed packet by packet, then written to the socket
and, if there is one, to the file; both take it whole or refuse it. Results follow the
code: a missing file counts 0, the RTP header is taken off again. `Restamped` is
line 73 with the unsigned product at its width (`Width`), cut off to whole ticks; the
quotient is exact, where the double may differ by some thousandths of a tick.
`base` is where the line of rewritten PCRs of a PID began, `stamp` the last of
them, `lost` the PIDs that have left their line since: by a PCR in a refused frame, or by
a pause so long that the product no longer fits. The network is taken to
be enabled. PCRs are what the source says: any value at any place.

## 3. Runs

| Run | Instance | What it shows |
|---|---|---|
| `output_buffers` | 2 frames, 2 contents, network | Exclusive use, clean reuse, a connection that takes nothing is replaced within two buffers, refinement of `FrameQueue`, progress, stop |
| `null_mixing` | 1 input without PCRs, 40 places, rounds of every number of data packets | nulls and data are mixed in proportion; every packet read has a place |
| `mix_pcr` | 2 inputs, 3 places, distances 2 and 9, a 3-bit counter | types, no empty retry, one packet per pass and a place for it, fair turns, PCR packets at most one place early, every input with packets is served again and again |
| `shutdown` | 2 inputs, each thread created or not | the configuration is freed after all loops, over an empty list; output threads leave; the program ends |
| `input_stream` | 2 sources (UDP or HTTP, RTP), 3 contents, frames of 2 packets | streams are not mixed up, a new PMT is noticed, no socket leaks, the source that stays is found |
| `pid_rewrite` | 2 channels of 5 PIDs, maps of 5 entries, 3 sources, buffers of 2 | channels stay apart, PMT and streams are where they are announced, no loss below half a buffer |
| `psi` | TDT at every poll, TOT and the EITs of one channel at every other, room for one poll's tables, 1-bit counters and versions, 2 seconds of editing | counters go on, versions tell contents, the EPG follows the file, a file that is not newer is on air already, every table is sent again and again |
| `frame_writer` | 2 PIDs, 5 frames of 2 packets, UDP and RTP, with and without a file, sequence numbers modulo 3 | rewritten PCRs follow the position |
| `shutdown_inputs` | violation | an input can lose `dienow` and read on |
| `input_pmt` | violation | `last_pmt` loses the first packet of a PMT of two |
| `restamp` | violation | a refused frame can throw the next rewritten PCR far ahead |
| `reconnect` | violation | a socket that takes nothing is not connected again |

Bounds. Two frames per buffer tell the first, the last and the order; the two
buffers are the code's own. Two contents tell a stale frame from a fresh one.
`null_mixing` goes through every ratio of nulls to data in a buffer of 40 places, with one
input since the ratio is all that counts. It has no PCR packets, so no pass is held: in
buffers small enough for TLC to hold passes, such a pass changes no null, and that case of
`MixedInProportion` is left to the theorem `NullsAreSpread`, for any buffer. In `Mix`, `Slots` (places per buffer), `MaxBuf` and `MaxPsi` (packets waiting) and
`IntMax` (width of the counter) are constants; with three places a round has
passes before and after a null, and with a counter of three bits it wraps in
every behaviour that matters (`IntMax` must exceed `N`, or the count of one pass could
go round). Distances stand for "within a buffer" and "beyond the boundary"; one
that is behind is let go like a first one. `Far` caps the history variable `gone` beyond any
distance asked for. Two inputs are enough for one to leave, or to be held,
while the other goes on. In `InputStream`
two sources tell "the next" from "the first"; three versions, one of two packets,
tell a changed table from the same one; a frame of two packets has one that is
discarded when the first ends the connection; two zero reads have one that is
not the last. In `PidRewrite` the sources' own PIDs lie in both channels' ranges, so
an entry that is missing or wrong shows; the three sources have one and two
programs, a NIT or none, one or two streams, the PCR in a stream or on its own, and one
exceeds both limits. In `PsiTables` one channel whose "next" event is watched has an EPG that
changes, goes and comes back; a poll's tables fit into `psibuf`, and overflow it as soon
as MIX has left something there. Versions of one bit go round within
the editor's writes (`missed` counts them). In `FrameWriter` a packet takes 3/2
of a tick, so every second quotient is cut off; the RTP header is half a
packet, so counting it shifts PCRs; three sequence numbers wrap within five frames;
`Width` is exceeded by a pause of four frames.

Fairness. `OutputBuffers`: each thread keeps running (neither makes a call that
blocks for ever; frames are datagrams). `Mix`: the MIX thread runs. PSI has
priority, so an input is promised service only once PSI has dried up for good;
the code relies on tables being rare. `Shutdown`: threads run; rounds of mixing
end; whoever wants the list lock gets it (strong fairness, MIX sleeps between
rounds); an input that can see its `dienow` again and again leaves. The three
seconds of `kill_threads` are not part of the fairness: `SignalEnds` assumes
them explicitly (`Clock`). `InputStream`: the thread runs (every call it makes has a
timeout); that a source stays up and keeps its tables is a premise of
`FindsTheSource`, not an assumption. `PsiTables`: the PSI thread runs. `EveryTableIsSent`
has as its premise that MIX has emptied `psibuf` by the time the thread wakes, and needs
a buffer that holds the tables of one poll. (The real one holds 350 packets. The EITs of 31
channels go out in one burst and can exceed that if events are described at length:
then those of the last channels are lost every time.) `EpgFollowsFile` has as its
premise that the last edit gave the file a later time than the one loaded: a second
edit within the same second, or an older file put in place, is missed (`hurried`).
Nothing obliges a signal, a packet, an edit or a table to arrive.

`CHECK_DEADLOCK` is on everywhere: the states in which the system really has
ended have an explicit stuttering action.

### What the violations say

* `shutdown_inputs`: `INPUT.dienow`, `working`, `connected` and `reconnect` share
  a byte that two threads write without a lock. The store of `working` before every
  read can undo the `dienow` MIX has just set, and the reading loop does not
  test `keep_going`.
* `input_pmt`: `process_pmt` frees `last_pmt` when a whole table has come and
  pushes only the packet at hand into the new one. For a PMT of two packets
  (longer than 183 bytes) that is the second. Every other table is then compared
  with nothing, and its first packet is passed on unchanged. `PmtIsCurrent` is
  therefore stated for connections that have seen one-packet tables only. This
  rests on how tables are assembled: a first packet starts the table again (the
  "Incomplete" return needs that), a later one alone makes none.
* `restamp`: `ts_frame_process` notes the place of a PCR before its frame is written. If
  socket and file refuse the frame, `traffic` stays; a PCR of the same PID that comes
  at a smaller offset of the next frame is at fewer bytes than the last.
  `bytes - old_bytes` is unsigned: the new PCR is hours ahead, and later ones start from
  it, until the source's PCR goes back. `RestampFollowsPosition` is therefore stated for PIDs
  without a PCR in a refused frame since their line began. It leaves out another case,
  which the code does not treat either: 2^64 / (8 * 27000000) bytes without a PCR of the PID
  (five hours at 38 Mbps, say outside the channel's worktime), after which the product of
  line 73 has wrapped.
* `reconnect`: without a file `written2` is 0 and replaces the -1 of a refused frame, and
  in RTP 0 + 12 - 12 is no better; with a file that takes the frame the result is its
  size. The sum of a buffer is negative only if the file refuses frames too, so "Error
  writing into output socket" and the new connection after it are out of reach of a
  socket error. (`OutputBuffers` lets any frame be refused and shows what follows then.)

## 4. Proofs

TLAPS checks the following for every value of the constants that satisfies the
named assumptions (`FramesAssumption`, `NetworkAssumption`, `MixAssumption`,
`FarAssumption`, `InputsAssumption`, `InputStreamAssumption`, `PidAssumption`, `EpgAssumption`,
`PsiAssumption`, `WriterAssumption`). Every safety property of a passing run is a theorem.

* `OutputBuffersProofs`. The inductive invariant `IInv` adds to `TypeOK` what each place
  of a thread says about the status of its buffer, that a thread one buffer ahead
  has left the other one full (or empty), and what frames of a buffer that is being
  filled can hold. `NoSharedBuffer` alone is not inductive: nothing in it
  forbids MIX to arrive at a buffer WRITE is about to take. From it follow
  `TypeCorrect`, `BuffersAreNotShared`, `EmptyBuffersAreWiped`, `DeadSocketIsNoticed` (less
  than a buffer's worth of refusals is carried over from one buffer to the next, as long as
  no frame of a buffer is taken it adds its own, and after such a buffer the socket is
  replaced: `RefusedSoFar`) and the refinement `BuffersAreAQueue` (initial state to initial state, every step to
  a step of `FrameQueue` or a stutter).
* `MixProofs`. `NullsFitTheBuffer`: for all sizes, the nulls left out never exceed
  the nulls there are and never go down, so `data_packets + nulls` stays in the
  buffer: the "Can't happen" of `output_mix.c:237` cannot. `TypeCorrect`, and
  `NoPacketIsLost`: with `place < data_packets + nulls` as strengthening, each
  pass takes at most one packet (the search stops at its first find, by a
  minimum over distances) and puts it behind the one before.
  `NoPassIsRepeated`: the packets a round has still to read are at most those waiting
  (`StockInv`). Waiting packets are the elements of the set `Queued` of places in input
  buffers, so that adding and taking one are statements about cardinality.
  `NullsAreSpread`: `MixedInProportion` speaks of rounds whose last pass read a packet;
  `NullInv` carries its upper bounds on nulls through passes that read none, where the
  lower one is lost, since the next packet read is placed by them. Products of
  variables are the difficulty: the two lemmas on what a rounded quotient gives
  (`NullsAreMajority`, `DataIsMajority`) are proved once for any numbers.
  `TurnsAreFair`: seen from the last used input, whoever overtook a waiting input comes after
  it (`TurnInv`), and the search takes the nearest.
  `PcrsAreSpaced`: an input counts no more places since its last PCR packet than there
  were (`SpacingInv`); `outputed_packets` counts passes, not nulls, and wraps downwards only.
* `ShutdownProofs`. `LoopsEndBeforeFreeing`: `dienow` never exceeds one plus the number of
  output threads that have added theirs, and neither does any value a thread has
  loaded but not yet stored. Lost increments only make it smaller, so `dienow >= 4`
  means all three have. The invariant is needed for the loaded values: without
  it a late store could push `dienow` up again. That threads are created one
  after the other is part of it (`dienow` is still 0 then, and an input that is not on the
  list has either not been started or is past `ListDelEntry`).
* `InputStreamProofs`. Type correctness needs `PartsInTable` (a source sends only the
  parts its table has). `StreamIsForgotten` rests on `KnownWasTaken`: what is known of
  the stream was taken from it, in order, and is forgotten on the way to a new
  connection. `PmtStaysCurrent` rests on `LastPmtIsMapped`: with one-packet tables
  `last_pmt` always is the table the rewritten one is made from, although it is
  freed and started again with every packet. `SocketsAreClosed` rests on
  `NoSockOutside`: every way back to `connect_source`, a failed connect included, has
  closed the socket.

* `PidRewriteProofs`. `ChannelsApart` looks at buffers only, which remember nothing of how
  a packet got its PID. The invariant says that the entries of a map are the PIDs of
  the channel in their order, as many as have been used up (`MapInv`, `CountInv`); that the
  first entry is the first program's PMT (`FirstInv`); that with tables that fit each
  listed PID has an entry (`ListedInv`), exactly one where it has one use
  (`SingleInv`); and that a packet in a buffer is in its channel's range or a stray
  (`SentInv`). Ranges of two channels do not meet because indices differ by at least one.
  `LossMeansShortage` has a premise of its own, `2 * PmtSize <= BufSize`: a larger PMT
  would not fit into a half-empty buffer. The real numbers are 6 packets (a section has
  at most 1024 bytes) and 40000.
* `PsiProofs`. `CountersContinue` holds for any table sizes, also of none, and any counter
  width: the counter after n packets is the last one's successor modulo the width.
  `VersionTellsContent` rests on an invariant that counts: the version of an EIT is the
  held one plus the changes missed, modulo the width, and nothing was missed only if
  nothing has changed. `EpgIsOnAir` is the safe core of `EpgFollowsFile`: the time
  remembered is that of the file as loaded, or an earlier one, unless the last edit was
  hurried (`Loaded`); and EITs are made from the entries they are compared by (`EitIsEpg`).
* `FrameWriterProofs`. `RestampFollowsPosition` is an inequality of products: each rewriting adds
  a lag below one tick (`Arithmetic` has the lemma on quotients), lags add up from `base`,
  and `last_traffic` differs from the place of the last PCR by what was refused before
  both.

Only model-checked: all liveness (`FindsTheSource`, `KeepsSending`, `StopsWhenKilled`,
`EveryInputIsServed`, `SignalEnds`, `OutputsLeave`, `EpgFollowsFile`, `EveryTableIsSent`), because
fairness and `ENABLED` are out of the prover's reach.

## 5. Not modelled

* Parsing of options, channels, NIT and global configuration, and the ini parser
  (third-party): done once, before any thread starts. `config_load_channels` compares with an
  earlier configuration, but is called only once.
* The web server (two fixed pages), sleep calibration, logging and statistics: without
  effect on the stream.
* Pacing of WRITE, RTP time stamps, the worktime's clock arithmetic: wall-clock time. In
  models time is an event that may come at any moment.
* The layout of tables, and the continuity counters of PMT and EIT packets that inputs
  send. PID 0x12 has several senders, the inputs that forward EITs and the PSI
  thread, each with its own counter; `CountersContinue` is about the PSI thread's.
* Starting up before the first thread is created: options, log, signal handlers, pid file.
* libfuncs and libtsfuncs are not in the repository. The circular buffer is a FIFO that
  takes all or nothing, the list a set with a lock, a table parser a collector of packets.
  What a thread finds in a list node or an input that is already freed is not
  modelled (see the hazards at `output_mix.c:140, 264` and `output_psi.c:280`).

## 6. What is left

More than one channel in `psi`, which today takes too many states with both liveness
properties; an instance of `Mix` in which held passes move nulls, which takes a buffer larger
than TLC can fill with PCR packets.
