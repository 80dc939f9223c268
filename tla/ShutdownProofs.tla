--------------------------- MODULE ShutdownProofs ---------------------------
(***************************************************************************)
(* Proofs about the threads' start and end, for any set of inputs.         *)
(***************************************************************************)
EXTENDS Shutdown, TLAPS

USE InputsAssumption

\* The output threads that have added their one to dienow.
Added(t) == IF outPc[t] \in {"walk", "done"} THEN 1 ELSE 0
Total    == Added("psi") + Added("mix") + Added("write")

\* dienow never runs ahead of the threads that have left: an increment can be
\* lost, but none is counted twice, not even by a thread that stores late.
CountInv ==
  /\ mainPc \in {"spawn", "run"} =>
       \A t \in Output : outPc[t] \in {"none", "loop", "ready", "mixing"}
  /\ mainPc \in {"spawn", "run"} => dienow = 0
  /\ dienow <= 1 + Total
  /\ \A t \in Output : outPc[t] = "store" => loaded[t] <= 1 + Total
  /\ \A t \in Output : outPc[t] \in {"ready", "mixing"} => t = "mix"

\* Who is off the list is not created yet or has left; main frees when all have.
ListInv ==
  /\ \A r \in Inputs : inputPc[r] = "none" => mainPc = "spawn"
  /\ \A r \in Inputs : r \notin list => inputPc[r] \in {"none", "freeing", "closed"}
  /\ mainPc \in {"free", "freed"} => list = {} /\ Total = 3

IInv == TypeOK /\ CountInv /\ ListInv

LEMMA TotalRange == Total \in 0..3
  BY DEF Total, Added

LEMMA InitIInv == Init => IInv
<1> SUFFICES ASSUME Init PROVE IInv
  OBVIOUS
<1> USE DEF Init
<1>1. TypeOK
  BY DEF TypeOK, MainPc, OutPc, InputPc, Output
<1>2. CountInv
  BY DEF CountInv, Total, Added, Output
<1>3. ListInv
  BY DEF ListInv
<1>4. QED
  BY <1>1, <1>2, <1>3 DEF IInv
\* spawn_input_threads and spawn_output_threads
LEMMA SpawnStep == IInv /\ Spawn => IInv'
<1> SUFFICES ASSUME IInv, Spawn PROVE IInv'
  OBVIOUS
<1> USE TotalRange DEF IInv, outVars, inputVars
<1>1. ASSUME NEW r \in Inputs, SpawnInput(r) PROVE IInv'
  <2>1. /\ mainPc = "spawn" /\ list' = list \cup {r}
        /\ \E pc \in {"outer", "no thread"} : inputPc' = [inputPc EXCEPT ![r] = pc]
        /\ UNCHANGED <<keepGoing, mainPc, dienow, outPc, loaded, lock, rDienow, flags>>
    BY <1>1 DEF SpawnInput
  <2>2. Total' = Total
    BY <2>1 DEF Total, Added
  <2>3. PICK pc \in {"outer", "no thread"} : inputPc' = [inputPc EXCEPT ![r] = pc]
    BY <2>1
  <2>4. TypeOK'
    BY <2>1, <2>3 DEF TypeOK, InputPc
  <2>5. CountInv'
    BY <2>1, <2>2 DEF CountInv
  <2>6. ListInv'
    BY <2>1, <2>2, <2>3 DEF ListInv, TypeOK
  <2>7. QED
    BY <2>4, <2>5, <2>6
<1>2. ASSUME NEW t \in Output, SpawnOutput(t) PROVE IInv'
  <2>1. /\ mainPc = "spawn" /\ InputsSpawned
        /\ \/ outPc' = [outPc EXCEPT ![t] = "loop"] /\ mainPc' = mainPc
           \/ mainPc' = "exited" /\ outPc' = outPc
        /\ outPc[t] = "none"
        /\ UNCHANGED <<keepGoing, dienow, loaded, list, lock, inputPc, rDienow, flags>>
    BY <1>2 DEF SpawnOutput
  <2>2. Total' = Total
    BY <2>1 DEF Total, Added, Output, TypeOK
  <2>3. TypeOK'
    BY <2>1 DEF TypeOK, OutPc, MainPc
  <2>4. CountInv'
    BY <2>1, <2>2 DEF TypeOK, CountInv
  <2>5. ListInv'
    BY <2>1, <2>2 DEF ListInv, InputsSpawned
  <2>6. QED
    BY <2>3, <2>4, <2>5
<1>3. CASE Spawned
  <2>1. /\ mainPc = "spawn" /\ mainPc' = "run"
        /\ \A r \in Inputs : inputPc[r] # "none"
        /\ UNCHANGED <<keepGoing, dienow, outPc, loaded, list, lock, inputPc, rDienow, flags>>
    BY <1>3 DEF Spawned, InputsSpawned, MainGoto
  <2>2. Total' = Total
    BY <2>1 DEF Total, Added
  <2>3. QED
    BY <2>1, <2>2 DEF TypeOK, MainPc, CountInv, ListInv
<1>4. QED
  BY <1>1, <1>2, <1>3 DEF Spawn

\* main
LEMMA MainStep == IInv /\ (Signal \/ Main \/ KillGivesUp) => IInv'
<1> SUFFICES ASSUME IInv, Signal \/ Main \/ KillGivesUp, ~Spawn PROVE IInv'
  BY SpawnStep
<1> USE TotalRange DEF IInv, outVars, inputVars
<1>1. UNCHANGED <<outPc, loaded, list, lock, inputPc, rDienow, flags>>
  BY DEF Signal, Main, KillGivesUp, KillThreads, KillEnds, ConfigFree, Exit, MainGoto
<1>2. Total' = Total
  BY <1>1 DEF Total, Added
<1>3. CASE Signal
  BY <1>1, <1>2, <1>3 DEF Signal, TypeOK, CountInv, ListInv
<1>4. CASE KillThreads
  BY <1>1, <1>2, <1>4 DEF KillThreads, MainGoto, TypeOK, MainPc, CountInv, ListInv
<1>5. CASE KillEnds
  <2>1. TypeOK' /\ CountInv'
    BY <1>1, <1>2, <1>5 DEF KillEnds, MainGoto, TypeOK, MainPc, CountInv
  <2>2. Total = 3
    BY <1>5 DEF KillEnds, ThreadsGone, TypeOK, CountInv
  <2>3. ListInv'
    BY <1>1, <1>2, <1>5, <2>2 DEF KillEnds, MainGoto, ThreadsGone, ListInv
  <2>4. QED
    BY <2>1, <2>3
<1>6. CASE KillGivesUp
  BY <1>1, <1>2, <1>6 DEF KillGivesUp, MainGoto, TypeOK, MainPc, CountInv, ListInv
<1>7. CASE ConfigFree
  BY <1>1, <1>2, <1>7 DEF ConfigFree, MainGoto, TypeOK, MainPc, CountInv, ListInv
<1>8. CASE Exit
  BY <1>1, <1>2, <1>8 DEF Exit, MainGoto, TypeOK, MainPc, CountInv, ListInv
<1>9. QED
  BY <1>3, <1>4, <1>5, <1>6, <1>7, <1>8 DEF Main

\* The output threads
LEMMA OutputStepKeeps == IInv /\ OutputStep => IInv'
<1> SUFFICES ASSUME IInv, OutputStep PROVE IInv'
  OBVIOUS
<1> USE TotalRange DEF IInv, inputVars
<1>1. ASSUME NEW t \in Output, LeaveLoop(t) PROVE IInv'
  <2>1. /\ outPc[t] \in {"loop", "ready"} /\ outPc' = [outPc EXCEPT ![t] = "load"]
        /\ dienow # 0
        /\ UNCHANGED <<keepGoing, mainPc, dienow, loaded, list, lock, inputPc, rDienow, flags>>
    BY <1>1 DEF LeaveLoop, OutGoto
  <2>2. Total' = Total
    BY <2>1 DEF Total, Added, Output, TypeOK
  <2>3. TypeOK' /\ ListInv'
    BY <2>1, <2>2 DEF TypeOK, OutPc, ListInv
  <2>4. CountInv'
    BY <2>1, <2>2 DEF TypeOK, CountInv
  <2>5. QED
    BY <2>3, <2>4
<1>2. ASSUME NEW t \in Output, Load(t) PROVE IInv'
  <2>1. /\ outPc[t] = "load" /\ outPc' = [outPc EXCEPT ![t] = "store"]
        /\ loaded' = [loaded EXCEPT ![t] = dienow]
        /\ UNCHANGED <<keepGoing, mainPc, dienow, list, lock, inputPc, rDienow, flags>>
    BY <1>2 DEF Load, OutGoto
  <2>2. Total' = Total
    BY <2>1 DEF Total, Added, Output, TypeOK
  <2>3. TypeOK' /\ ListInv'
    BY <2>1, <2>2 DEF TypeOK, OutPc, ListInv
  <2>4. CountInv'
    BY <2>1, <2>2 DEF TypeOK, CountInv
  <2>5. QED
    BY <2>3, <2>4
<1>3. ASSUME NEW t \in Output, Store(t) PROVE IInv'
  <2>1. /\ outPc[t] = "store"
        /\ outPc' = [outPc EXCEPT ![t] = IF t = "mix" THEN "walk" ELSE "done"]
        /\ dienow' = loaded[t] + 1
        /\ UNCHANGED <<keepGoing, mainPc, loaded, list, lock, inputPc, rDienow, flags>>
    BY <1>3 DEF Store, OutGoto
  <2>2. Total' = Total + 1 /\ Total \in 0..2
    BY <2>1 DEF Total, Added, Output, TypeOK
  <2>3. loaded[t] \in 0..3 /\ loaded[t] <= 1 + Total
    BY <2>1, <2>2 DEF TypeOK, CountInv
  <2>4. mainPc \notin {"run", "free", "freed"}
    BY <2>1, <2>2 DEF CountInv, ListInv
  <2>5. TypeOK'
    BY <2>1, <2>3 DEF TypeOK, OutPc
  <2>6. CountInv'
    BY <2>1, <2>2, <2>3, <2>4 DEF TypeOK, CountInv
  <2>7. ListInv'
    BY <2>1, <2>4 DEF ListInv
  <2>8. QED
    BY <2>5, <2>6, <2>7
<1>4. CASE MixTop \/ MixLocks \/ MixUnlocks
  <2>1. \E pc \in {"ready", "mixing", "loop"} :
          /\ outPc["mix"] \in {"loop", "ready", "mixing"}
          /\ outPc' = [outPc EXCEPT !["mix"] = pc]
    BY <1>4 DEF MixTop, MixLocks, MixUnlocks, OutGoto
  <2>2. /\ lock' \in {NoOne, "mix"}
        /\ UNCHANGED <<keepGoing, mainPc, dienow, loaded, list, inputPc, rDienow, flags>>
    BY <1>4 DEF MixTop, MixLocks, MixUnlocks, TypeOK
  <2>3. Total' = Total
    BY <2>1 DEF Total, Added, Output, TypeOK
  <2>4. TypeOK' /\ ListInv'
    BY <2>1, <2>2, <2>3 DEF TypeOK, OutPc, Output, ListInv
  <2>5. CountInv'
    BY <2>1, <2>2, <2>3 DEF TypeOK, CountInv, Output
  <2>6. QED
    BY <2>4, <2>5
<1>5. CASE MixStopsInputs
  <2>1. /\ outPc["mix"] = "walk" /\ outPc' = [outPc EXCEPT !["mix"] = "done"]
        /\ rDienow' \in [Inputs -> BOOLEAN]
        /\ UNCHANGED <<keepGoing, mainPc, dienow, loaded, list, lock, inputPc, flags>>
    BY <1>5 DEF MixStopsInputs, OutGoto, TypeOK
  <2>2. Total' = Total
    BY <2>1 DEF Total, Added, Output, TypeOK
  <2>3. TypeOK' /\ ListInv'
    BY <2>1, <2>2 DEF TypeOK, OutPc, Output, ListInv
  <2>4. CountInv'
    BY <2>1, <2>2 DEF TypeOK, CountInv, Output
  <2>5. QED
    BY <2>3, <2>4
<1>6. QED
  BY <1>1, <1>2, <1>3, <1>4, <1>5 DEF OutputStep, Leaves

\* The input threads
LEMMA InputStepKeeps == ASSUME NEW r \in Inputs, IInv, InputStep(r) PROVE IInv'
<1> USE DEF IInv
<1>1. /\ UNCHANGED <<keepGoing, mainPc, dienow, outPc, loaded, lock>>
      /\ \E pc \in InputPc \ {"none"} : inputPc' = [inputPc EXCEPT ![r] = pc]
  BY DEF InputStep, InputConnects, InputRetries, InputLoads, InputStores, InputQuits,
         ListDelEntry, InputFree, InputGoto, outVars, InputPc
<1>2. Total' = Total
  BY <1>1 DEF Total, Added
<1>3. CountInv'
  BY <1>1, <1>2 DEF CountInv
<1>4. \/ list' = list /\ inputPc[r] \notin {"none", "freeing", "closed"}
      \/ list' = list /\ inputPc' = [inputPc EXCEPT ![r] = "closed"]
      \/ list' = list \ {r} /\ inputPc' = [inputPc EXCEPT ![r] = "freeing"]
  BY DEF InputStep, InputConnects, InputRetries, InputLoads, InputStores, InputQuits,
         ListDelEntry, InputFree, InputGoto
<1>5. TypeOK'
  <2>1. rDienow' \in [Inputs -> BOOLEAN] /\ flags' \in [Inputs -> BOOLEAN]
    BY DEF TypeOK, InputStep, InputConnects, InputRetries, InputLoads, InputStores,
           InputQuits, ListDelEntry, InputFree
  <2>2. QED
    BY <1>1, <1>4, <2>1 DEF TypeOK
<1>6. ListInv'
  BY <1>1, <1>2, <1>4 DEF TypeOK, ListInv
<1>7. QED
  BY <1>3, <1>5, <1>6

LEMMA IndStep == IInv /\ [Next]_vars => IInv'
<1> SUFFICES ASSUME IInv, [Next]_vars PROVE IInv'
  OBVIOUS
<1>1. CASE UNCHANGED vars
  <2>1. UNCHANGED <<keepGoing, mainPc, dienow, outPc, loaded, list, lock, inputPc, rDienow, flags>>
    BY <1>1 DEF vars, outVars, inputVars
  <2>2. Total' = Total
    BY <2>1 DEF Total, Added
  <2>3. QED
    BY <2>1, <2>2 DEF IInv, TypeOK, CountInv, ListInv
<1>2. QED
  BY <1>1, MainStep, OutputStepKeeps, InputStepKeeps DEF Next

\* The inductive invariant holds in every reachable state.
THEOREM Invariance == Spec => []IInv
  BY InitIInv, IndStep, PTL DEF Spec

\* The type invariant; dienow never passes 4.
THEOREM TypeCorrect == Spec => []TypeOK
<1>1. IInv => TypeOK
  BY DEF IInv
<1>2. QED
  BY <1>1, Invariance, PTL

\* config_free finds the list of inputs empty, every input thread past its last use
\* of the configuration and every output thread out of its loop, for any number of
\* inputs: though increments of dienow can be lost, it reaches 4 only when all three
\* have added theirs.
THEOREM LoopsEndBeforeFreeing == Spec => []FreedAfterTheLoops
<1>1. IInv => FreedAfterTheLoops
  <2> SUFFICES ASSUME IInv, mainPc \in {"free", "freed"}
               PROVE  /\ list = {}
                      /\ \A r \in Inputs : inputPc[r] \in {"freeing", "closed"}
                      /\ \A t \in Output : outPc[t] \in {"walk", "done"}
    BY DEF FreedAfterTheLoops
  <2>1. list = {} /\ \A r \in Inputs : inputPc[r] \in {"freeing", "closed"}
    BY DEF IInv, ListInv
  <2>2. \A t \in Output : outPc[t] \in {"walk", "done"}
    BY DEF IInv, ListInv, Total, Added, Output
  <2>3. QED
    BY <2>1, <2>2
<1>2. QED
  BY <1>1, Invariance, PTL
=============================================================================
