------------------------------ MODULE Shutdown ------------------------------
(***************************************************************************)
(* How the threads start and the program ends: main, the three output      *)
(* threads and one thread per input (mptsd.c, input.c, output_psi.c,       *)
(* output_mix.c, output_write.c).                                          *)
(*                                                                         *)
(* A signal clears keep_going, main sets OUTPUT.dienow, each output thread *)
(* adds one to it on its way out, MIX passes it on to the inputs, each     *)
(* input takes itself off the list and frees itself, and main frees the    *)
(* rest once the list is empty and dienow has reached 4 - or exits after   *)
(* three seconds.  main reads both without a lock.                         *)
(*                                                                         *)
(* dienow++ is a load and a store that other threads can come between (the *)
(* int is neither atomic nor locked).  So is a store into one of INPUT's   *)
(* one-bit fields, which share a byte: an input that sets `working' writes *)
(* the old dienow back beside it.  The list functions of libfuncs are      *)
(* taken to lock the list, as spawn_input_threads and proxy_close need.    *)
(***************************************************************************)
EXTENDS Naturals

CONSTANT Inputs   \* one for each channel of the configuration

ASSUME InputsAssumption == Inputs # {}

Output == {"psi", "mix", "write"}
NoOne  == "no one"

VARIABLES
  keepGoing,  \* keep_going
  mainPc,     \* "spawn", "run", "kill" (kill_threads), "free", "freed", "exited"
  dienow,     \* OUTPUT.dienow
  outPc,      \* place of each output thread
  loaded,     \* the dienow each output thread has read to increment it
  list,       \* CONFIG.inputs
  lock,       \* who holds its lock
  inputPc,    \* place of each input thread
  rDienow,    \* INPUT.dienow
  flags       \* the dienow bit each input has loaded to set `working'

outVars   == <<outPc, loaded>>
inputVars == <<inputPc, rDienow, flags>>
vars == <<keepGoing, mainPc, dienow, outVars, list, lock, inputVars>>

MainPc  == {"spawn", "run", "kill", "free", "freed", "exited"}
OutPc   == {"none", "loop", "ready", "mixing", "load", "store", "walk", "done"}
InputPc == {"none", "no thread", "outer", "reading", "update", "close", "freeing", "closed"}

TypeOK ==
  /\ keepGoing \in BOOLEAN
  /\ mainPc \in MainPc
  /\ dienow \in 0..4
  /\ outPc \in [Output -> OutPc] /\ loaded \in [Output -> 0..4]
  /\ list \in SUBSET Inputs
  /\ lock \in {NoOne, "mix"}
  /\ inputPc \in [Inputs -> InputPc] /\ rDienow \in [Inputs -> BOOLEAN]
  /\ flags \in [Inputs -> BOOLEAN]

\* main at line 169: the signal handlers are set, no thread is started.
Init == /\ keepGoing = TRUE
        /\ mainPc = "spawn"
        /\ dienow = 0
        /\ outPc = [t \in Output |-> "none"] /\ loaded = [t \in Output |-> 0]
        /\ list = {} /\ lock = NoOne
        /\ inputPc = [r \in Inputs |-> "none"] /\ rDienow = [r \in Inputs |-> FALSE]
        /\ flags = [r \in Inputs |-> FALSE]

-----------------------------------------------------------------------------
(* main                                                                    *)

\* signal_quit
Signal == /\ keepGoing
          /\ keepGoing' = FALSE
          /\ UNCHANGED <<mainPc, dienow, outVars, list, lock, inputVars>>

InputsSpawned == \A r \in Inputs : inputPc[r] # "none"

\* spawn_input_threads, for one channel: the INPUT goes on the list, and stays
\* there if its thread cannot be created.
SpawnInput(r) == /\ mainPc = "spawn"
                 /\ inputPc[r] = "none"
                 /\ list' = list \cup {r}
                 /\ \E pc \in {"outer", "no thread"} : inputPc' = [inputPc EXCEPT ![r] = pc]
                 /\ UNCHANGED <<keepGoing, mainPc, dienow, outVars, lock, rDienow, flags>>

\* Which output threads are created before each.
Before == [psi |-> {}, mix |-> {"psi"}, write |-> {"psi", "mix"}]

\* spawn_output_threads, for one thread: without it the program exits.
SpawnOutput(t) ==
  /\ mainPc = "spawn" /\ InputsSpawned
  /\ outPc[t] = "none"
  /\ \A u \in Before[t] : outPc[u] # "none"
  /\ \/ outPc' = [outPc EXCEPT ![t] = "loop"] /\ UNCHANGED mainPc
     \/ mainPc' = "exited" /\ UNCHANGED outPc
  /\ UNCHANGED <<keepGoing, dienow, loaded, list, lock, inputVars>>

MainGoto(from, to) == /\ mainPc = from
                      /\ mainPc' = to
                      /\ UNCHANGED <<keepGoing, outVars, list, lock, inputVars>>

\* Both have returned, main enters its do-while loop.
Spawned == /\ InputsSpawned /\ \A t \in Output : outPc[t] # "none"
           /\ MainGoto("spawn", "run")
           /\ UNCHANGED dienow

\* Mutant: dienow starts at 2.
KillThreadsFromTwo == /\ ~keepGoing
                      /\ MainGoto("run", "kill")
                      /\ dienow' = 2

\* do { usleep } while (keep_going), and the first line of kill_threads.
KillThreads == /\ ~keepGoing
               /\ MainGoto("run", "kill")
               /\ dienow' = 1

\* Mutant: one output thread less is waited for.
ThreadsGoneButOne == list = {} /\ dienow >= 3

\* What kill_threads waits for.
ThreadsGone == list = {} /\ dienow >= 4

\* The loop of kill_threads ends.
KillEnds == /\ ThreadsGone
            /\ MainGoto("kill", "free")
            /\ UNCHANGED dienow

\* Mutant: no limit to the loops.
KillNeverGivesUp == /\ FALSE
                    /\ MainGoto("kill", "exited")
                    /\ UNCHANGED dienow

\* loops++ > 60: three seconds are over.
KillGivesUp == /\ ~ThreadsGone
               /\ MainGoto("kill", "exited")
               /\ UNCHANGED dienow

\* config_free, which also writes dienow.
ConfigFree == /\ MainGoto("free", "freed")
              /\ dienow' = 1

Exit == /\ MainGoto("freed", "exited")
        /\ UNCHANGED dienow

Spawn == \/ \E r \in Inputs : SpawnInput(r)
         \/ \E t \in Output : SpawnOutput(t)
         \/ Spawned

Main == Spawn \/ KillThreads \/ KillEnds \/ ConfigFree \/ Exit

-----------------------------------------------------------------------------
(* The output threads.                                                     *)

OutGoto(t, from, to) == /\ outPc[t] = from
                        /\ outPc' = [outPc EXCEPT ![t] = to]

\* Mutant: the waits inside the loops do not look at dienow.
LeaveLoopAtTop(t) == /\ dienow # 0
                     /\ OutGoto(t, "loop", "load")
                     /\ UNCHANGED <<keepGoing, mainPc, dienow, loaded, list, lock,
                                    inputVars>>

\* while (!o->dienow), or one of the waits inside that look at it too.
LeaveLoop(t) == /\ dienow # 0
                /\ OutGoto(t, "loop", "load") \/ OutGoto(t, "ready", "load")
                /\ UNCHANGED <<keepGoing, mainPc, dienow, loaded, list, lock, inputVars>>

\* o->dienow++
Load(t) == /\ OutGoto(t, "load", "store")
           /\ loaded' = [loaded EXCEPT ![t] = dienow]
           /\ UNCHANGED <<keepGoing, mainPc, dienow, list, lock, inputVars>>

Store(t) == /\ OutGoto(t, "store", IF t = "mix" THEN "walk" ELSE "done")
            /\ dienow' = loaded[t] + 1
            /\ UNCHANGED <<keepGoing, mainPc, loaded, list, lock, inputVars>>

MixTop == /\ dienow = 0
          /\ OutGoto("mix", "loop", "ready")
          /\ UNCHANGED <<keepGoing, mainPc, dienow, loaded, list, lock, inputVars>>

\* There is an empty output buffer, a mixing round begins: list_lock.
MixLocks == /\ OutGoto("mix", "ready", "mixing")
            /\ lock = NoOne
            /\ lock' = "mix"
            /\ UNCHANGED <<keepGoing, mainPc, dienow, loaded, list, inputVars>>

\* The round is over, or broken off because of dienow: list_unlock.
MixUnlocks == /\ OutGoto("mix", "mixing", "loop")
              /\ lock' = NoOne
              /\ UNCHANGED <<keepGoing, mainPc, dienow, loaded, list, inputVars>>

\* r->dienow = 1 for every input on the list, without its lock.
MixStopsInputs == /\ OutGoto("mix", "walk", "done")
                  /\ rDienow' = [r \in Inputs |-> rDienow[r] \/ r \in list]
                  /\ UNCHANGED <<keepGoing, mainPc, dienow, loaded, list, lock, inputPc, flags>>

Leaves(t) == LeaveLoop(t) \/ Load(t) \/ Store(t)

OutputStep == \/ \E t \in Output : Leaves(t)
              \/ MixTop \/ MixLocks \/ MixUnlocks \/ MixStopsInputs

-----------------------------------------------------------------------------
(* The input threads.                                                      *)

InputGoto(r, from, to) ==
  /\ inputPc[r] = from
  /\ inputPc' = [inputPc EXCEPT ![r] = to]
  /\ UNCHANGED <<keepGoing, mainPc, dienow, outVars, lock>>

\* while (keep_going) and input_check_state: on to connect and read.
InputConnects(r) == /\ keepGoing /\ ~rDienow[r]
                    /\ InputGoto(r, "outer", "reading")
                    /\ UNCHANGED <<list, rDienow, flags>>

\* A failed connect, a read error or the end of the worktime.
InputRetries(r) == /\ InputGoto(r, "reading", "outer")
                   /\ UNCHANGED <<list, rDienow, flags>>

\* r->working = in_worktime(...), before every read: the byte of the bit fields
\* is loaded, and stored with the new bit.
InputLoads(r) == /\ InputGoto(r, "reading", "update")
                 /\ flags' = [flags EXCEPT ![r] = rDienow[r]]
                 /\ UNCHANGED <<list, rDienow>>

InputStores(r) == /\ InputGoto(r, "update", "reading")
                  /\ rDienow' = [rDienow EXCEPT ![r] = flags[r]]
                  /\ UNCHANGED <<list, flags>>

\* Outside the reading loop keep_going counts (and r->dienow); inside only
\* r->dienow does.
InputQuits(r) == /\ \/ ~keepGoing /\ InputGoto(r, "outer", "close")
                    \/ rDienow[r] /\ InputGoto(r, "outer", "close")
                    \/ rDienow[r] /\ InputGoto(r, "reading", "close")
                 /\ UNCHANGED <<list, rDienow, flags>>

\* proxy_close: list_del_entry takes the input off the list, under its lock ...
ListDelEntry(r) == /\ lock = NoOne
                   /\ list' = list \ {r}
                   /\ InputGoto(r, "close", "freeing")
                   /\ UNCHANGED <<rDienow, flags>>

\* ... and input_free, without a lock, frees what belongs to this input alone.
InputFree(r) == /\ InputGoto(r, "freeing", "closed")
                /\ UNCHANGED <<list, rDienow, flags>>

InputStep(r) == \/ InputConnects(r) \/ InputRetries(r) \/ InputLoads(r) \/ InputStores(r)
                \/ InputQuits(r) \/ ListDelEntry(r) \/ InputFree(r)

-----------------------------------------------------------------------------
Alive == mainPc # "exited"

Next == \/ Alive /\ (Signal \/ Main \/ KillGivesUp \/ OutputStep)
        \/ Alive /\ \E r \in Inputs : InputStep(r)
        \/ ~Alive /\ UNCHANGED vars

Spec == Init /\ [][Next]_vars

(***************************************************************************)
(* Every thread is scheduled.  A mixing round ends; whoever wants the list *)
(* lock gets it in the end, for MIX sleeps between two rounds; the reads   *)
(* of an input time out.                                                   *)
(***************************************************************************)
ThreadFairness ==
  /\ WF_vars(Alive /\ Main)
  /\ \A t \in Output : WF_vars(Alive /\ Leaves(t))
  /\ WF_vars(Alive /\ MixUnlocks) /\ WF_vars(Alive /\ MixStopsInputs)
  /\ \A r \in Inputs : /\ WF_vars(Alive /\ InputStores(r)) /\ SF_vars(Alive /\ InputQuits(r))
                        /\ SF_vars(Alive /\ ListDelEntry(r))
                        /\ WF_vars(Alive /\ InputFree(r))

FairSpec == Spec /\ ThreadFairness

\* kill_threads counts its loops: the three seconds pass.
Clock == WF_vars(Alive /\ KillGivesUp)

-----------------------------------------------------------------------------
(* Properties.                                                             *)

\* When config_free runs it finds no INPUT on the list, so none is freed twice;
\* every input thread is past its last use of the configuration (what is left of
\* it is its own input_free), and every output thread has left its loop - although
\* main reads the list and dienow without a lock, increments of dienow can be lost,
\* and threads may never have been created.  Not promised, for the code does not
\* see to it: that MIX has ended its walk over the empty list (output_mix.c:264).
FreedAfterTheLoops ==
  mainPc \in {"free", "freed"} =>
    /\ list = {}
    /\ \A r \in Inputs : inputPc[r] \in {"freeing", "closed"}
    /\ \A t \in Output : outPc[t] \in {"walk", "done"}

\* A signal ends the program, if need be by the three seconds of kill_threads.
SignalEnds == Clock => (~keepGoing ~> ~Alive)

\* data.h:132: INPUT.dienow says "Stop serving clients and exit now".  Once
\* main has set OUTPUT.dienow every input thread leaves, also one that is reading
\* and does not look at keep_going, unless main gives up before.
InputsLeave ==
  dienow # 0 ~> (~Alive \/ \A r \in Inputs : inputPc[r] \in {"no thread", "freeing", "closed"})

\* Once main has set dienow the three output threads come to their end, whatever
\* the inputs do and wherever in a round MIX is.
OutputsLeave == dienow # 0 ~> ((\A t \in Output : outPc[t] = "done") \/ ~Alive)
=============================================================================
