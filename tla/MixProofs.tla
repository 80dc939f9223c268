----------------------------- MODULE MixProofs -----------------------------
(***************************************************************************)
(* Proofs about the mixing round, for any number of inputs, any buffer     *)
(* size, any distances of PCRs and any integer width.                      *)
(***************************************************************************)
EXTENDS PcrSpacing, WellFoundedInduction, SequenceTheorems, FiniteSetTheorems, TLAPS

USE MixAssumption

-----------------------------------------------------------------------------
(* The null mixing.                                                        *)

LEMMA RoundIsInt == ASSUME NEW a \in Int, NEW b \in Nat \ {0} PROVE Round(a, b) \in Int
  BY DEF Round

\* The places of the data packets only move forward, and the nulls left out
\* never exceed those the buffer has room for: no data packet is placed
\* beyond the buffer ("Can't happen", output_mix.c:237).
THEOREM NullsFitTheBuffer ==
  ASSUME NEW slots \in Nat \ {0}, NEW ps \in 1..slots,
         NEW d \in 0..(ps - 1), NEW k \in 0..(slots - ps)
  PROVE  /\ NullsBefore(slots, ps, d, k) \in k..(slots - ps)
         /\ d + NullsBefore(slots, ps, d, k) < slots
<1>1. DueBefore(slots, ps, d) \in Int
  <2>1. d * (slots - ps) \in Int /\ ps \in Nat \ {0}
    OBVIOUS
  <2>2. QED
    BY <2>1, RoundIsInt DEF DueBefore
<1>2. DataFor(slots, ps, k) \in Int
  <2>1. CASE ps = slots
    BY <2>1 DEF DataFor
  <2>2. CASE ps # slots
    <3>1. k * ps \in Int /\ slots - ps \in Nat \ {0}
      BY <2>2
    <3>2. QED
      BY <3>1, RoundIsInt DEF DataFor
  <2>3. QED
    BY <2>1, <2>2
<1>3. NullsBefore(slots, ps, d, k) \in k..(slots - ps)
  BY <1>1, <1>2 DEF NullsBefore
<1>4. QED
  BY <1>3

LEMMA Products == ASSUME NEW a \in Nat, NEW b \in Nat PROVE a * b \in Nat
  OBVIOUS

LEMMA ProductsGrow ==
  ASSUME NEW a \in Nat, NEW b \in Nat, NEW c \in Nat, a <= b
  PROVE  a * c <= b * c
<1>1. PICK e \in Nat : b = a + e
  <2>1. b - a \in Nat /\ b = a + (b - a)
    OBVIOUS
  <2>2. QED
    BY <2>1
<1>2. b * c = a * c + e * c
  BY <1>1
<1>3. a * c \in Nat /\ e * c \in Nat
  BY Products
<1>4. QED
  BY <1>2, <1>3

\* A quotient is rounded by at most a half.
LEMMA RoundBounds ==
  ASSUME NEW a \in Nat, NEW b \in Nat \ {0}
  PROVE  /\ Round(a, b) \in Nat
         /\ 2 * (Round(a, b) * b) <= 2 * a + b
         /\ 2 * a < 2 * (Round(a, b) * b) + b
<1> DEFINE q == (2 * a + b) \div (2 * b)
           r == (2 * a + b) % (2 * b)
<1>1. 2 * a + b \in Nat /\ 2 * b \in Nat \ {0}
  OBVIOUS
<1>2. q \in Nat /\ r \in 0..2 * b - 1 /\ 2 * a + b = (2 * b) * q + r
  BY <1>1
<1>3. Round(a, b) = q
  BY DEF Round
<1> HIDE DEF q, r
<1>4. (2 * b) * q = 2 * (q * b)
  BY <1>2
<1>5. q * b \in Nat
  BY <1>2, Products
<1>6. QED
  BY <1>2, <1>3, <1>4, <1>5

\* More nulls than data: before every packet the nulls are their share, rounded.
LEMMA NullsAreMajority ==
  ASSUME NEW slots \in Nat \ {0}, NEW ps \in 1..slots,
         NEW d \in 0..(ps - 1), NEW k \in 0..(slots - ps),
         ps < slots - ps,
         k = 0 \/ 2 * (k * ps) <= 2 * ((d - 1) * (slots - ps)) + ps
  PROVE  LET n == NullsBefore(slots, ps, d, k) IN
         /\ 2 * (n * ps) <= 2 * (d * (slots - ps)) + ps
         /\ 2 * (d * (slots - ps)) <= 2 * (n * ps) + ps
<1>1. PICK left \in Nat \ {0} : left = slots - ps
  OBVIOUS
<1>2. PICK q : q = Round(d * left, ps)
  OBVIOUS
<1>3. d * left \in Nat /\ k * ps \in Nat /\ left * ps \in Nat
  BY Products
<1>4. q \in Nat /\ 2 * (q * ps) <= 2 * (d * left) + ps /\ 2 * (d * left) < 2 * (q * ps) + ps
  BY <1>2, <1>3, RoundBounds
<1>5. q * ps \in Nat
  BY <1>4, Products
<1>6. d * left + left <= left * ps
  <2>1. (d + 1) * left <= ps * left
    BY ProductsGrow
  <2>2. (d + 1) * left = d * left + left /\ ps * left = left * ps
    OBVIOUS
  <2>3. QED
    BY <2>1, <2>2
<1>7. q <= left
  <2>1. SUFFICES ASSUME left + 1 <= q PROVE FALSE
    BY <1>4
  <2>2. (left + 1) * ps <= q * ps
    BY <1>4, <2>1, ProductsGrow
  <2>3. (left + 1) * ps = left * ps + ps
    OBVIOUS
  <2>4. QED
    BY <1>3, <1>4, <1>5, <1>6, <2>2, <2>3
<1>8. PICK n : n = NullsBefore(slots, ps, d, k)
  OBVIOUS
<1>9. n = IF k >= left THEN k ELSE IF q > k THEN q ELSE k
  <2>1. DueBefore(slots, ps, d) = q /\ DataFor(slots, ps, k) = k
    BY <1>1, <1>2 DEF DueBefore, DataFor
  <2>2. QED
    BY <1>1, <1>4, <1>7, <1>8, <2>1 DEF NullsBefore
<1>10. 2 * (k * ps) <= 2 * (d * left) + ps
  <2>1. CASE k = 0
    BY <1>3, <2>1
  <2>2. CASE 2 * (k * ps) <= 2 * ((d - 1) * left) + ps
    <3>1. (d - 1) * left = d * left - left
      OBVIOUS
    <3>2. QED
      BY <1>3, <2>2, <3>1
  <2>3. QED
    BY <1>1, <2>1, <2>2
<1>11. 2 * (n * ps) <= 2 * (d * left) + ps /\ 2 * (d * left) <= 2 * (n * ps) + ps
  <2>1. CASE n = q
    BY <1>3, <1>4, <1>5, <2>1
  <2>2. CASE n = k /\ q <= k
    <3>1. q * ps <= k * ps
      BY <1>4, <2>2, ProductsGrow
    <3>2. QED
      BY <1>3, <1>4, <1>5, <1>10, <2>2, <3>1
  <2>3. CASE n = k /\ left <= k
    <3>1. left * ps <= k * ps
      BY <2>3, ProductsGrow
    <3>2. QED
      BY <1>3, <1>6, <1>10, <2>3, <3>1
  <2>4. QED
    BY <1>4, <1>9, <2>1, <2>2, <2>3
<1>12. QED
  BY <1>1, <1>8, <1>11

\* More data than nulls, or as much: a null never comes late; and none without a pass.
LEMMA DataIsMajority ==
  ASSUME NEW slots \in Nat \ {0}, NEW ps \in 1..slots,
         NEW d \in 0..(ps - 1), NEW k \in 0..(slots - ps),
         slots - ps <= ps,
         k = 0 \/ k < d
  PROVE  LET n == NullsBefore(slots, ps, d, k) IN
         /\ n <= d
         /\ 2 * (d * (slots - ps)) <= 2 * (n * ps) + (slots - ps)
         /\ (* without held passes *)
            /\ d = 0 => k = 0
            /\ d > 0 => /\ 2 * ((d - 1) * (slots - ps)) <= 2 * (k * ps) + (slots - ps)
                        /\ k * ps - (d - 1) * (slots - ps) < ps
            => n * ps - d * (slots - ps) < ps
<1>1. PICK left \in Nat : left = slots - ps
  OBVIOUS
<1>2. PICK n : n = NullsBefore(slots, ps, d, k)
  OBVIOUS
<1>3. d * left \in Nat /\ k * ps \in Nat /\ left * ps \in Nat /\ k * left \in Nat
  BY Products
<1>4. CASE left = 0
  <2>1. k = 0 /\ n = 0
    BY <1>1, <1>2, <1>4 DEF NullsBefore
  <2>2. d * left = 0 /\ n * ps = 0
    BY <1>4, <2>1
  <2>3. QED
    BY <1>1, <1>2, <1>4, <2>1, <2>2
<1>5. CASE left # 0
  <2>1. PICK f : f = Round(k * ps, left)
    OBVIOUS
  <2>2. /\ f \in Nat
        /\ 2 * (f * left) <= 2 * (k * ps) + left /\ 2 * (k * ps) < 2 * (f * left) + left
    BY <1>3, <1>5, <2>1, RoundBounds
  <2>3. f * left \in Nat
    BY <2>2, Products
  <2>4. k <= f
    <3>1. SUFFICES ASSUME f + 1 <= k PROVE FALSE
      BY <2>2
    <3>2. (f + 1) * left <= k * left
      BY <2>2, <3>1, ProductsGrow
    <3>3. left * k <= ps * k /\ k * left = left * k /\ k * ps = ps * k
      BY <1>1, ProductsGrow
    <3>4. (f + 1) * left = f * left + left
      BY <2>2
    <3>5. QED
      BY <1>3, <1>5, <2>2, <2>3, <3>2, <3>3, <3>4
  <2>5. /\ k >= left => n = k
        /\ k < left /\ d <= f => n = k
        /\ k < left /\ d > f /\ k + (d - f) <= left => n = k + (d - f)
        /\ k < left /\ d > f /\ k + (d - f) > left => n = left
    <3>1. DueBefore(slots, ps, d) = d /\ DataFor(slots, ps, k) = f
      BY <1>1, <1>5, <2>1 DEF DueBefore, DataFor
    <3>2. QED
      BY <1>1, <1>2, <2>2, <3>1 DEF NullsBefore
  <2>6. n <= d
    BY <2>2, <2>4, <2>5
  <2>7. d * left + left <= left * ps
    <3>1. (d + 1) * left <= ps * left
      BY ProductsGrow
    <3>2. (d + 1) * left = d * left + left /\ ps * left = left * ps
      OBVIOUS
    <3>3. QED
      BY <3>1, <3>2
  <2>8. 2 * (d * left) <= 2 * (n * ps) + left
    <3>1. CASE n = k /\ d <= f
      <4>1. d * left <= f * left
        BY <2>2, <3>1, ProductsGrow
      <4>2. QED
        BY <1>3, <2>2, <2>3, <3>1, <4>1
    <3>2. CASE n >= left /\ n \in Nat
      <4>1. left * ps <= n * ps
        BY <3>2, ProductsGrow
      <4>2. n * ps \in Nat
        BY <3>2, Products
      <4>3. QED
        BY <1>3, <2>7, <4>1, <4>2
    <3>3. CASE d > f /\ n = k + (d - f)
      <4>1. PICK e \in Nat : d = f + e
        <5>1. d - f \in Nat /\ d = f + (d - f)
          BY <2>2, <3>3
        <5>2. QED
          BY <5>1
      <4>2. d * left = f * left + e * left /\ n * ps = k * ps + e * ps
        BY <2>2, <3>3, <4>1
      <4>3. left * e <= ps * e /\ e * left = left * e /\ e * ps = ps * e
        BY <1>1, ProductsGrow
      <4>4. e * left \in Nat /\ e * ps \in Nat
        BY Products
      <4>5. QED
        BY <1>3, <2>2, <2>3, <4>2, <4>3, <4>4
    <3>4. QED
      BY <2>2, <2>5, <3>1, <3>2, <3>3
  <2>9. ASSUME d = 0 => k = 0,
               d > 0 => /\ 2 * ((d - 1) * left) <= 2 * (k * ps) + left
                        /\ k * ps - (d - 1) * left < ps
        PROVE  n * ps - d * left < ps
    <3>1. (d - 1) * left = d * left - left
      OBVIOUS
    <3>2. CASE n = k
      <4>1. CASE d = 0
        BY <1>3, <2>9, <3>2, <4>1
      <4>2. CASE d > 0
        BY <1>3, <2>9, <3>1, <3>2, <4>2
      <4>3. QED
        BY <4>1, <4>2
    <3>3. CASE n # k
      <4>1. k < left /\ d > f
        BY <2>2, <2>5, <3>3
      <4>2. d <= f + 1
        <5>1. SUFFICES ASSUME f + 1 <= d - 1 PROVE FALSE
          BY <2>2
        <5>2. (f + 1) * left <= (d - 1) * left
          <6>1. d - 1 \in Nat
            BY <2>2, <4>1
          <6>2. QED
            BY <2>2, <5>1, <6>1, ProductsGrow
        <5>3. (f + 1) * left = f * left + left
          BY <2>2
        <5>4. QED
          BY <1>3, <1>5, <2>2, <2>3, <2>9, <3>1, <4>1, <5>2, <5>3
      <4>3. d = f + 1 /\ n = k + 1
        BY <2>2, <2>5, <4>1, <4>2
      <4>4. n * ps = k * ps + ps /\ d * left = f * left + left
        BY <2>2, <4>3
      <4>5. QED
        BY <1>3, <1>5, <2>2, <2>3, <4>4
    <3>4. QED
      BY <3>2, <3>3
  <2>10. QED
    BY <1>1, <1>2, <2>6, <2>8, <2>9
<1>6. QED
  BY <1>4, <1>5
-----------------------------------------------------------------------------
(* The search for the next input.                                          *)

LEMMA SmallestOf ==
  ASSUME NEW T, T \subseteq Nat, T # {}
  PROVE  \E m \in T : \A n \in T : m <= n
<1>1. PICK m \in T : \A n \in T : ~(<<n, m>> \in OpToRel(<, Nat))
  BY NatLessThanWellFounded, WFMin
<1>2. ASSUME NEW n \in T PROVE m <= n
  <2>1. m \in Nat /\ n \in Nat
    OBVIOUS
  <2>2. ~(n < m)
    BY <1>1, <2>1 DEF OpToRel
  <2>3. QED
    BY <2>1, <2>2
<1>3. QED
  BY <1>2

\* If an input has a packet to send, the search finds one.
LEMMA ServerExists ==
  ASSUME inpt \in Inputs, NEW r \in Inputs, Serves(r)
  PROVE  Server # {}
<1> DEFINE T == {Distance(q) : q \in {q \in Inputs : Serves(q)}}
<1>1. T \subseteq Nat /\ T # {}
  BY DEF Distance, Inputs
<1>2. PICK m \in T : \A n \in T : m <= n
  BY <1>1, SmallestOf
<1>3. PICK s \in Inputs : Serves(s) /\ m = Distance(s)
  OBVIOUS
<1>4. s \in Server
  BY <1>2, <1>3 DEF Server
<1>5. QED
  BY <1>4

\* Two inputs are never equally far away.
LEMMA DistancesDiffer ==
  ASSUME inpt \in Inputs, NEW q \in Inputs, NEW r \in Inputs
  PROVE  /\ Distance(q) \in 1..N
         /\ Distance(q) = Distance(r) => q = r
  BY DEF Distance, Inputs

LEMMA HeadOf ==
  ASSUME TypeOK, NEW r \in Inputs, buf[r] # <<>>
  PROVE  /\ Head(buf[r]) \in Packet /\ Head(buf[r]) # Pad
         /\ Tail(buf[r]) \in Seq(Packet) /\ Len(Tail(buf[r])) = Len(buf[r]) - 1
         /\ Len(buf[r]) \in Nat \ {0}
<1>1. buf[r] \in Seq(Packet)
  BY DEF TypeOK
<1>2. /\ Head(buf[r]) \in Packet
      /\ Tail(buf[r]) \in Seq(Packet) /\ Len(Tail(buf[r])) = Len(buf[r]) - 1
      /\ Len(buf[r]) \in Nat \ {0}
  BY <1>1, HeadTailProperties, EmptySeq, LenProperties
<1>3. Head(buf[r]) # Pad
  <2>1. \A p \in Packet : p.kind # "pad"
    BY DEF Packet, Es, Pcr
  <2>2. Pad.kind = "pad"
    BY DEF Pad
  <2>3. QED
    BY <1>2, <2>1, <2>2
<1>4. QED
  BY <1>2, <1>3

\* The search ends at an input that is ready, the nearest one, and takes from no
\* other; or there is none.
LEMMA OneServer ==
  ASSUME TypeOK
  PROVE  \/ /\ Server = {} /\ \A r \in Inputs : ~Ready(r)
            /\ {r \in Visited : Ready(r)} = {}
         \/ \E s \in Inputs :
              /\ Server = {s} /\ Ready(s)
              /\ {r \in Visited : Ready(r)} = {s}
              /\ \A r \in Inputs : Ready(r) => Distance(s) <= Distance(r)
<1>0. inpt \in Inputs
  BY DEF TypeOK
<1>1. \A r \in Inputs : Ready(r) <=> Serves(r)
  BY HeadOf DEF Ready, Serves
<1>2. CASE Server = {}
  <2>1. \A r \in Inputs : ~Ready(r)
    BY <1>0, <1>1, <1>2, ServerExists
  <2>2. QED
    BY <1>2, <2>1 DEF Visited
<1>3. CASE Server # {}
  <2>1. PICK s \in Server : TRUE
    BY <1>3
  <2>2. s \in Inputs /\ Ready(s) /\ \A r \in Inputs : Ready(r) => Distance(s) <= Distance(r)
    BY <1>1, <2>1 DEF Server
  <2>3. ASSUME NEW r \in Visited, Ready(r) PROVE r = s
    <3>1. r \in Inputs /\ Distance(r) <= Distance(s)
      BY <2>1 DEF Visited
    <3>2. Distance(s) <= Distance(r)
      BY <2>2, <2>3, <3>1
    <3>3. QED
      BY <1>0, <2>2, <3>1, <3>2, DistancesDiffer
  <2>4. ASSUME NEW r \in Server PROVE r \in Visited /\ Ready(r)
    <3>1. r \in Inputs /\ Ready(r)
      BY <1>1, <2>4 DEF Server
    <3>2. \A q \in Server : Distance(r) <= Distance(q)
      BY <2>4 DEF Server
    <3>3. QED
      BY <3>1, <3>2 DEF Visited
  <2>5. Server = {s} /\ {r \in Visited : Ready(r)} = {s}
    BY <2>1, <2>3, <2>4
  <2>6. QED
    BY <2>2, <2>5
<1>4. QED
  BY <1>2, <1>3

\* A pass over the inputs takes one packet from the nearest that is ready; or none is.
ServesOne(s) ==
  /\ Ready(s)
  /\ \A r \in Inputs : Ready(r) => Distance(s) <= Distance(r)
  /\ buf' = [buf EXCEPT ![s] = Tail(buf[s])]
  /\ inpt' = s
  /\ seen' = [r \in Inputs |-> seen[r] \/ (r = s /\ Moves /\ HasPcr(s))]
  /\ overtaken' = [r \in Inputs |-> IF Ready(r) /\ r # s THEN overtaken[r] \cup {s} ELSE {}]
  /\ EndPass(TRUE, [r \in Inputs |-> IF r = s /\ Moves /\ HasPcr(s) THEN 0 ELSE outputed[r]])

ServesNone ==
  /\ \A r \in Inputs : ~Ready(r)
  /\ UNCHANGED <<buf, inpt, seen>>
  /\ overtaken' = [r \in Inputs |-> {}]
  /\ EndPass(FALSE, outputed)

LEMMA PassInputsCases ==
  ASSUME TypeOK, PassInputs
  PROVE  ServesNone \/ \E s \in Inputs : ServesOne(s)
<1> DEFINE took == {r \in Visited : Ready(r)}
           pcrs == {r \in took : Moves /\ HasPcr(r)}
           counted == [r \in Inputs |-> IF r \in pcrs THEN 0 ELSE outputed[r]]
<1>1. /\ buf' = [r \in Inputs |-> IF r \in took THEN Tail(buf[r]) ELSE buf[r]]
      /\ inpt' = IF Server = {} THEN inpt ELSE CHOOSE r \in Server : TRUE
      /\ seen' = [r \in Inputs |-> seen[r] \/ r \in pcrs]
      /\ overtaken' = [r \in Inputs |-> IF Ready(r) /\ r \notin Server
                                        THEN overtaken[r] \cup Server ELSE {}]
      /\ EndPass(Server # {}, counted)
  BY DEF PassInputs
<1>2. CASE Server = {} /\ (\A r \in Inputs : ~Ready(r)) /\ took = {}
  <2>1. counted = outputed
    BY <1>2 DEF TypeOK
  <2>2. seen' = seen
    BY <1>1, <1>2 DEF TypeOK
  <2>3. buf' = buf /\ inpt' = inpt /\ overtaken' = [r \in Inputs |-> {}]
    BY <1>1, <1>2 DEF TypeOK
  <2>4. (Server # {}) = FALSE
    BY <1>2
  <2>5. EndPass(FALSE, outputed)
    BY <1>1, <2>1, <2>4
  <2>6. QED
    BY <1>2, <2>2, <2>3, <2>5 DEF ServesNone
<1>3. ASSUME NEW s \in Inputs, Server = {s}, Ready(s), took = {s},
             \A r \in Inputs : Ready(r) => Distance(s) <= Distance(r)
      PROVE  ServesOne(s)
  <2>1. \A r \in Inputs : r \in pcrs <=> r = s /\ Moves /\ HasPcr(s)
    BY <1>3
  <2>2. counted = [r \in Inputs |-> IF r = s /\ Moves /\ HasPcr(s) THEN 0 ELSE outputed[r]]
    BY <2>1
  <2>3. seen' = [r \in Inputs |-> seen[r] \/ (r = s /\ Moves /\ HasPcr(s))]
    BY <1>1, <2>1
  <2>4. buf' = [buf EXCEPT ![s] = Tail(buf[s])]
    BY <1>1, <1>3 DEF TypeOK
  <2>5. inpt' = s /\ overtaken' = [r \in Inputs |-> IF Ready(r) /\ r # s
                                                    THEN overtaken[r] \cup {s} ELSE {}]
    BY <1>1, <1>3
  <2>6. (Server # {}) = TRUE
    BY <1>3
  <2>7. EndPass(TRUE, [r \in Inputs |-> IF r = s /\ Moves /\ HasPcr(s) THEN 0 ELSE outputed[r]])
    BY <1>1, <2>2, <2>6
  <2>8. QED
    BY <1>3, <2>3, <2>4, <2>5, <2>7 DEF ServesOne
<1>4. QED
  BY <1>2, <1>3, OneServer
-----------------------------------------------------------------------------
(* Types, and where the last packet of a round can be.                     *)

RoundInv == TypeOK /\ place < data_packets + nulls

LEMMA InitRoundInv == Init => RoundInv
<1> SUFFICES ASSUME Init PROVE RoundInv
  OBVIOUS
<1>1. -(IntMax + 1) \in Int /\ 0 \in -(IntMax + 1)..IntMax /\ 0 \in 0..Slots
  OBVIOUS
<1>2. /\ buf \in [Inputs -> Seq(Packet)] /\ overtaken \in [Inputs -> SUBSET Inputs]
      /\ \A r \in Inputs : Len(buf[r]) <= MaxBuf
  BY DEF Init
<1>3. /\ seen \in [Inputs -> BOOLEAN] /\ needed \in [Inputs -> 0..Slots]
      /\ outputed \in [Inputs -> -(IntMax + 1)..IntMax]
  BY <1>1 DEF Init
<1>4. inpt \in Inputs
  BY DEF Init, Inputs
<1>5. /\ psi \in 0..MaxPsi /\ packets \in 0..Slots /\ data_packets \in 0..packets
      /\ nulls \in 0..(Slots - packets) /\ place \in -1..(Slots - 1)
      /\ place < data_packets + nulls
  BY DEF Init
<1>6. round \in BOOLEAN /\ dienow \in BOOLEAN
  BY DEF Init
<1>7. QED
  BY <1>2, <1>3, <1>4, <1>5, <1>6 DEF RoundInv, TypeOK

\* The counter stays within its width, and never gains more than is added.
LEMMA Int32Range ==
  ASSUME NEW x \in Int, -(IntMax + 1) <= x
  PROVE  Int32(x) \in -(IntMax + 1)..IntMax /\ Int32(x) <= x
<1>1. PICK w \in Nat \ {0} : w = 2 * (IntMax + 1)
  OBVIOUS
<1>2. PICK y \in Nat : y = x + IntMax + 1
  OBVIOUS
<1>3. PICK m : m = y % w
  OBVIOUS
<1>4. m \in 0..(w - 1) /\ m <= y
  <2>1. m \in 0..(w - 1) /\ y \div w \in Nat /\ y = w * (y \div w) + m
    BY <1>1, <1>2, <1>3
  <2>2. w * (y \div w) \in Nat
    BY <2>1, Products
  <2>3. QED
    BY <2>1, <2>2
<1>5. Int32(x) = m - (IntMax + 1)
  BY <1>1, <1>2, <1>3 DEF Int32
<1>6. QED
  BY <1>1, <1>2, <1>4, <1>5

\* What the end of a pass does to the round, whoever supplied the packet.
LEMMA EndPassStep ==
  ASSUME RoundInv, data_packets < packets,
         NEW read \in BOOLEAN,
         NEW counted \in [Inputs -> -(IntMax + 1)..IntMax],
         EndPass(read, counted)
  PROVE  /\ packets' = packets /\ round' = round /\ dienow' = dienow
         /\ data_packets' = data_packets + 1 /\ data_packets' \in 0..packets
         /\ nulls' = IF read THEN NullsBefore(Slots, packets, data_packets, nulls) ELSE nulls
         /\ nulls' \in 0..(Slots - packets) /\ nulls <= nulls'
         /\ place' = IF read THEN data_packets + nulls' ELSE place
         /\ place' \in -1..(Slots - 1) /\ place' < data_packets' + nulls'
         /\ outputed' = [r \in Inputs |-> Int32(counted[r] + 1)]
         /\ outputed' \in [Inputs -> -(IntMax + 1)..IntMax]
         /\ read => place' > place
<1> USE DEF RoundInv, TypeOK
<1>1. /\ packets \in 1..Slots /\ data_packets \in 0..(packets - 1)
      /\ nulls \in 0..(Slots - packets) /\ place \in -1..(Slots - 1)
      /\ place < data_packets + nulls
  OBVIOUS
<1>2. \A r \in Inputs : Int32(counted[r] + 1) \in -(IntMax + 1)..IntMax
  <2>1. \A r \in Inputs : counted[r] + 1 \in Int /\ -(IntMax + 1) <= counted[r] + 1
    OBVIOUS
  <2>2. QED
    BY <2>1, Int32Range
<1>3. CASE read
  <2>1. PICK k : k = NullsBefore(Slots, packets, data_packets, nulls)
    OBVIOUS
  <2>2. k \in nulls..(Slots - packets) /\ data_packets + k < Slots
    BY <1>1, <2>1, NullsFitTheBuffer
  <2>3. /\ nulls' = k /\ data_packets' = data_packets + 1
        /\ place' = data_packets + k
        /\ outputed' = [r \in Inputs |-> Int32(counted[r] + 1)]
        /\ UNCHANGED <<round, packets, dienow>>
    BY <1>1, <1>3, <2>1, <2>2 DEF EndPass
  <2>4. /\ data_packets' \in 0..packets /\ nulls' \in 0..(Slots - packets) /\ nulls <= nulls'
        /\ place' = data_packets + nulls' /\ place' \in -1..(Slots - 1)
        /\ place' < data_packets' + nulls' /\ place' > place
    BY <1>1, <2>2, <2>3
  <2>5. outputed' \in [Inputs -> -(IntMax + 1)..IntMax]
    BY <1>2, <2>3
  <2>6. QED
    BY <1>3, <2>1, <2>3, <2>4, <2>5
<1>4. CASE ~read
  <2>1. /\ nulls' = nulls /\ data_packets' = data_packets + 1 /\ place' = place
        /\ outputed' = [r \in Inputs |-> Int32(counted[r] + 1)]
        /\ UNCHANGED <<round, packets, dienow>>
    BY <1>4 DEF EndPass
  <2>2. QED
    BY <1>1, <1>2, <1>4, <2>1
<1>5. QED
  BY <1>3, <1>4

\* The counters an input's PCR packet resets are in their range too.
LEMMA CountedRange ==
  ASSUME TypeOK, NEW s
  PROVE  [r \in Inputs |-> IF r = s /\ Moves /\ HasPcr(s) THEN 0 ELSE outputed[r]]
            \in [Inputs -> -(IntMax + 1)..IntMax]
<1>1. 0 \in -(IntMax + 1)..IntMax
  OBVIOUS
<1>2. QED
  BY <1>1 DEF TypeOK

LEMMA RequiredRange ==
  ASSUME TypeOK, NEW r \in Inputs, HasPcr(r)
  PROVE  Required(r) \in 0..Slots
<1>1. buf[r] # <<>> /\ Head(buf[r]).kind = "pcr"
  BY DEF HasPcr
<1>2. Head(buf[r]) \in Packet
  BY <1>1, HeadOf
<1>3. Head(buf[r]).gap \in Int
  BY <1>1, <1>2 DEF Packet, Es, Pcr
<1>4. QED
  BY <1>3 DEF Required, TypeOK

\* Each action of the loop, in turn.
LEMMA PassInputsStep ==
  ASSUME RoundInv, PassInputs
  PROVE  RoundInv' /\ PlacesWhatItReads
<1>0. TypeOK /\ data_packets < packets /\ psi' = psi
  BY DEF PassInputs, RoundInv
<1>1. needed' \in [Inputs -> 0..Slots]
  <2>1. \A r \in Inputs : Held(r) => Required(r) \in 0..Slots
    BY <1>0, RequiredRange DEF Held
  <2>2. QED
    BY <1>0, <2>1 DEF PassInputs, TypeOK
<1>2. CASE ServesNone
  <2>1. /\ packets' = packets /\ round' = round /\ dienow' = dienow
        /\ data_packets' \in 0..packets /\ nulls' \in 0..(Slots - packets) /\ nulls <= nulls'
        /\ place' \in -1..(Slots - 1) /\ place' < data_packets' + nulls'
        /\ outputed' \in [Inputs -> -(IntMax + 1)..IntMax]
    BY <1>0, <1>2, EndPassStep DEF ServesNone, TypeOK
  <2>2. buf' = buf /\ inpt' = inpt /\ seen' = seen /\ overtaken' \in [Inputs -> SUBSET Inputs]
    BY <1>2 DEF ServesNone
  <2>3. RoundInv'
    BY <1>0, <1>1, <2>1, <2>2 DEF RoundInv, TypeOK
  <2>4. \A r \in Inputs : ~Takes(r)
    BY <1>0, <2>2, LenProperties DEF Takes, TypeOK
  <2>5. PlacesWhatItReads
    BY <1>0, <2>4 DEF PlacesWhatItReads, Reads, TypeOK
  <2>6. QED
    BY <2>3, <2>5
<1>3. ASSUME NEW s \in Inputs, ServesOne(s) PROVE RoundInv' /\ PlacesWhatItReads
  <2>1. /\ packets' = packets /\ round' = round /\ dienow' = dienow
        /\ data_packets' \in 0..packets /\ nulls' \in 0..(Slots - packets) /\ nulls <= nulls'
        /\ place' \in -1..(Slots - 1) /\ place' < data_packets' + nulls'
        /\ outputed' \in [Inputs -> -(IntMax + 1)..IntMax]
        /\ place' > place
    BY <1>0, <1>3, CountedRange, EndPassStep DEF ServesOne
  <2>2. /\ Tail(buf[s]) \in Seq(Packet) /\ Len(buf[s]) \in Nat \ {0}
        /\ Len(Tail(buf[s])) = Len(buf[s]) - 1
    BY <1>0, <1>3, HeadOf DEF ServesOne, Ready
  <2>3. /\ buf' = [buf EXCEPT ![s] = Tail(buf[s])] /\ inpt' = s
        /\ seen' \in [Inputs -> BOOLEAN] /\ overtaken' \in [Inputs -> SUBSET Inputs]
    BY <1>0, <1>3 DEF ServesOne, TypeOK
  <2>4. buf' \in [Inputs -> Seq(Packet)] /\ \A r \in Inputs : Len(buf'[r]) <= MaxBuf
    BY <1>0, <2>2, <2>3 DEF TypeOK
  <2>5. RoundInv'
    BY <1>0, <1>1, <2>1, <2>3, <2>4 DEF RoundInv, TypeOK
  <2>6. \A r \in Inputs : Takes(r) => r = s
    BY <1>0, <2>3, LenProperties DEF Takes, TypeOK
  <2>7. PlacesWhatItReads
    BY <1>0, <2>1, <2>6 DEF PlacesWhatItReads, TypeOK
  <2>8. QED
    BY <2>5, <2>7
<1>4. QED
  BY <1>0, <1>2, <1>3, PassInputsCases

LEMMA RoundStep ==
  ASSUME RoundInv, [Next]_vars
  PROVE  RoundInv' /\ PlacesWhatItReads
<1> USE DEF pcrVars, roundVars, vars
<1>0. ~Reads => PlacesWhatItReads
  BY DEF Reads, PlacesWhatItReads
<1>1. ASSUME NEW r \in Inputs, NEW p \in Packet, InputAdd(r, p)
      PROVE  RoundInv' /\ ~Reads
  <2>1. Append(buf[r], p) \in Seq(Packet) /\ Len(Append(buf[r], p)) = Len(buf[r]) + 1
    BY AppendProperties DEF RoundInv, TypeOK
  <2>2. buf' = [buf EXCEPT ![r] = Append(buf[r], p)]
    BY <1>1 DEF InputAdd
  <2>3. buf' \in [Inputs -> Seq(Packet)] /\ \A q \in Inputs : Len(buf'[q]) <= MaxBuf
    <3>1. Len(buf[r]) \in Nat /\ Len(buf[r]) < MaxBuf
      BY <1>1, LenProperties DEF InputAdd, RoundInv, TypeOK
    <3>2. QED
      BY <2>1, <2>2, <3>1 DEF RoundInv, TypeOK
  <2>4. RoundInv'
    BY <1>1, <2>3 DEF InputAdd, RoundInv, TypeOK
  <2>5. \A q \in Inputs : Len(buf[q]) \in Nat
    BY LenProperties DEF RoundInv, TypeOK
  <2>6. \A q \in Inputs : ~Takes(q)
    BY <2>1, <2>2, <2>5 DEF Takes, RoundInv, TypeOK
  <2>7. QED
    BY <1>1, <2>4, <2>6 DEF InputAdd, Reads, RoundInv, TypeOK
<1>2. CASE PsiAdd
  <2>1. RoundInv'
    BY <1>2 DEF PsiAdd, RoundInv, TypeOK
  <2>2. ~Reads
    BY <1>2, LenProperties DEF PsiAdd, Reads, Takes, RoundInv, TypeOK
  <2>3. QED
    BY <1>0, <2>1, <2>2
<1>3. CASE Snapshot
  <2>1. RoundInv'
    BY <1>3 DEF Snapshot, RoundInv, TypeOK
  <2>2. ~Reads
    BY <1>3, LenProperties DEF Snapshot, Reads, Takes, RoundInv, TypeOK
  <2>3. QED
    BY <1>0, <2>1, <2>2
<1>4. CASE NullBatch
  <2>1. \A r \in Inputs : Int32(outputed[r] + Slots) \in -(IntMax + 1)..IntMax
    <3>1. \A r \in Inputs : outputed[r] + Slots \in Int /\ -(IntMax + 1) <= outputed[r] + Slots
      BY DEF RoundInv, TypeOK
    <3>2. QED
      BY <3>1, Int32Range
  <2>2. RoundInv'
    BY <1>4, <2>1 DEF NullBatch, RoundInv, TypeOK
  <2>3. ~Reads
    BY <1>4, LenProperties DEF NullBatch, Reads, Takes, RoundInv, TypeOK
  <2>4. QED
    BY <1>0, <2>2, <2>3
<1>5. CASE PassPsi
  <2>1. /\ data_packets < packets /\ psi > 0 /\ psi' = psi - 1
        /\ EndPass(TRUE, outputed)
        /\ UNCHANGED <<buf, inpt, seen, needed, overtaken>>
    BY <1>5 DEF PassPsi
  <2>2. outputed \in [Inputs -> -(IntMax + 1)..IntMax]
    BY DEF RoundInv, TypeOK
  <2>3. /\ packets' = packets /\ round' = round /\ dienow' = dienow
        /\ data_packets' \in 0..packets /\ nulls' \in 0..(Slots - packets)
        /\ place' \in -1..(Slots - 1) /\ place' < data_packets' + nulls'
        /\ outputed' \in [Inputs -> -(IntMax + 1)..IntMax]
        /\ place' > place
    BY <2>1, <2>2, EndPassStep
  <2>4. psi' \in 0..MaxPsi
    BY <2>1 DEF RoundInv, TypeOK
  <2>5. RoundInv'
    BY <2>1, <2>3, <2>4 DEF RoundInv, TypeOK
  <2>6. \A r \in Inputs : ~Takes(r)
    BY <2>1, LenProperties DEF Takes, RoundInv, TypeOK
  <2>7. PlacesWhatItReads
    BY <2>3, <2>6 DEF PlacesWhatItReads
  <2>8. QED
    BY <2>5, <2>7
<1>6. CASE PassInputs
  BY <1>6, PassInputsStep
<1>7. CASE EndRound
  <2>1. RoundInv'
    <3>1. /\ packets' \in 0..Slots /\ data_packets' \in 0..packets'
          /\ nulls' \in 0..(Slots - packets') /\ place' \in -1..(Slots - 1)
          /\ place' < data_packets' + nulls'
      <4>1. packets' = 0 /\ data_packets' = 0 /\ nulls' = 0 /\ place' = -1
        BY <1>7 DEF EndRound
      <4>2. QED
        BY <4>1, MixAssumption
    <3>2. round' \in BOOLEAN
      BY <1>7 DEF EndRound
    <3>3. QED
      BY <1>7, <3>1, <3>2 DEF EndRound, RoundInv, TypeOK, pcrVars
  <2>2. ~Reads
    BY <1>7, LenProperties DEF EndRound, Reads, Takes, RoundInv, TypeOK
  <2>3. QED
    BY <1>0, <2>1, <2>2
<1>8. CASE Kill
  <2>1. RoundInv'
    BY <1>8 DEF Kill, RoundInv, TypeOK
  <2>2. ~Reads
    BY <1>8, LenProperties DEF Kill, Reads, Takes, RoundInv, TypeOK
  <2>3. QED
    BY <1>0, <2>1, <2>2
<1>9. CASE UNCHANGED vars
  <2>1. RoundInv'
    BY <1>9 DEF RoundInv, TypeOK
  <2>2. ~Reads
    BY <1>9, LenProperties DEF Reads, Takes, RoundInv, TypeOK
  <2>3. QED
    BY <1>0, <2>1, <2>2
<1>10. QED
  BY <1>0, <1>1, <1>2, <1>3, <1>4, <1>5, <1>6, <1>7, <1>8, <1>9 DEF Next, Mixing, Stopped

-----------------------------------------------------------------------------
\* The type invariant, with every counter in its range.
THEOREM TypeCorrect == Spec => []TypeOK
<1>1. RoundInv /\ [Next]_vars => RoundInv'
  BY RoundStep
<1>2. RoundInv => TypeOK
  BY DEF RoundInv
<1>3. QED
  BY <1>1, <1>2, InitRoundInv, PTL DEF Spec

\* Packets leave their buffers one at a time, and each gets a place of its own in
\* the output buffer, behind those read before it: none is lost or overwritten.
THEOREM NoPacketIsLost == Spec => EveryPacketReadIsPlaced
<1>1. RoundInv /\ [Next]_vars => RoundInv'
  BY RoundStep
<1>2. RoundInv /\ [Next]_vars => [PlacesWhatItReads]_vars
  BY RoundStep
<1>3. QED
  BY <1>1, <1>2, InitRoundInv, PTL DEF Spec, EveryPacketReadIsPlaced

-----------------------------------------------------------------------------
(* There is always something to read.                                      *)

LEMMA PlacesAreFinite == IsFiniteSet(Inputs \X (1..MaxBuf))
<1>1. IsFiniteSet(Inputs) /\ IsFiniteSet(1..MaxBuf)
  BY FS_Interval DEF Inputs
<1>2. QED
  BY <1>1, FS_Product

LEMMA QueuedIsFinite ==
  /\ IsFiniteSet(Queued) /\ Cardinality(Queued) \in Nat
  /\ Cardinality(Queued) = 0 <=> Queued = {}
<1>2. IsFiniteSet(Inputs \X (1..MaxBuf))
  BY PlacesAreFinite
<1>3. Queued \in SUBSET (Inputs \X (1..MaxBuf))
  BY DEF Queued
<1>4. IsFiniteSet(Queued)
  BY <1>2, <1>3, FS_Subset
<1>5. QED
  BY <1>4, FS_CardinalityType, FS_EmptySet

\* What an input takes from its buffer is one packet less in the stock.
LEMMA TakenFromStock ==
  ASSUME TypeOK, NEW s \in Inputs, buf[s] # <<>>, buf' = [buf EXCEPT ![s] = Tail(buf[s])]
  PROVE  Cardinality(Queued)' = Cardinality(Queued) - 1
<1> DEFINE last == <<s, Len(buf[s])>>
<1>1. /\ Len(buf[s]) \in 1..MaxBuf /\ Len(Tail(buf[s])) = Len(buf[s]) - 1
  BY HeadOf DEF TypeOK
<1>2. /\ buf'[s] = Tail(buf[s])
      /\ \A r \in Inputs \ {s} : buf'[r] = buf[r]
  BY DEF TypeOK
<1>3. last \in Queued
  BY <1>1 DEF Queued
<1>4. ASSUME NEW r \in Inputs, NEW k \in 1..MaxBuf
      PROVE  <<r, k>> \in Queued' <=> <<r, k>> \in Queued /\ <<r, k>> # last
  <2>1. <<r, k>> \in Queued' <=> k <= Len(buf'[r])
    BY DEF Queued
  <2>2. <<r, k>> \in Queued <=> k <= Len(buf[r])
    BY DEF Queued
  <2>3. CASE r = s
    <3>1. <<r, k>> # last <=> k # Len(buf[s])
      BY <2>3
    <3>2. k <= Len(buf[s]) - 1 <=> k <= Len(buf[s]) /\ k # Len(buf[s])
      BY <1>1
    <3>3. Len(buf'[r]) = Len(buf[s]) - 1
      BY <1>1, <1>2, <2>3
    <3>4. QED
      BY <2>1, <2>2, <2>3, <3>1, <3>2, <3>3
  <2>4. CASE r # s
    BY <1>2, <2>1, <2>2, <2>4
  <2>5. QED
    BY <2>3, <2>4
<1>5. Queued' = Queued \ {last}
  <2>1. Queued \subseteq Inputs \X (1..MaxBuf) /\ Queued' \subseteq Inputs \X (1..MaxBuf)
    BY DEF Queued
  <2>2. QED
    BY <1>4, <2>1
<1>6. Cardinality(Queued \ {last}) = Cardinality(Queued) - 1
  BY <1>3, QueuedIsFinite, FS_RemoveElement
<1>7. QED
  BY <1>5, <1>6

\* What comes into a buffer takes nothing from the stock.
LEMMA AddedToStock ==
  ASSUME NEW s \in Inputs, NEW p, TypeOK, buf' = [buf EXCEPT ![s] = Append(@, p)],
         p \in Packet
  PROVE  Cardinality(Queued) <= Cardinality(Queued)' /\ Cardinality(Queued)' \in Nat
<1>1. Len(buf'[s]) = Len(buf[s]) + 1 /\ Len(buf[s]) \in Nat
  BY AppendProperties, LenProperties DEF TypeOK
<1>2. \A r \in Inputs \ {s} : buf'[r] = buf[r]
  BY DEF TypeOK
<1>3. ASSUME NEW w \in Queued PROVE w \in Queued'
  <2>1. w \in Inputs \X (1..MaxBuf) /\ w[2] <= Len(buf[w[1]])
    BY DEF Queued
  <2>2. w[2] <= Len(buf'[w[1]])
    BY <1>1, <1>2, <2>1
  <2>3. QED
    BY <2>1, <2>2 DEF Queued
<1>4. IsFiniteSet(Queued)' /\ Cardinality(Queued)' \in Nat
  <2>1. Queued' \in SUBSET (Inputs \X (1..MaxBuf))
    BY DEF Queued
  <2>2. QED
    BY <2>1, PlacesAreFinite, FS_Subset, FS_CardinalityType
<1>5. QED
  BY <1>3, <1>4, FS_Subset

\* What a round still has to read is in the buffers: held PCR packets use up passes,
\* but a pass takes one packet at most.
StockInv == round => packets - data_packets <= Waiting

LEMMA StockStep ==
  ASSUME RoundInv, StockInv, [Next]_vars
  PROVE  StockInv'
<1> USE DEF pcrVars, roundVars, vars
<1>0. /\ TypeOK /\ Cardinality(Queued) \in Nat /\ psi \in Nat
      /\ packets \in Nat /\ data_packets \in Nat /\ Waiting \in Nat
  BY QueuedIsFinite DEF RoundInv, TypeOK, Waiting
<1>1. ASSUME NEW r \in Inputs, NEW p \in Packet, InputAdd(r, p) PROVE StockInv'
  <2>1. Cardinality(Queued) <= Cardinality(Queued)' /\ Cardinality(Queued)' \in Nat
    BY <1>0, <1>1, AddedToStock DEF InputAdd
  <2>2. UNCHANGED <<psi, round, packets, data_packets>>
    BY <1>1 DEF InputAdd
  <2>3. QED
    BY <1>0, <2>1, <2>2 DEF StockInv, Waiting
<1>2. CASE PsiAdd
  <2>1. UNCHANGED <<buf, round, packets, data_packets>> /\ psi' = psi + 1
    BY <1>2 DEF PsiAdd
  <2>2. Queued' = Queued
    BY <2>1 DEF Queued
  <2>3. QED
    BY <1>0, <2>1, <2>2 DEF StockInv, Waiting
<1>3. CASE Snapshot
  <2>1. packets' <= Waiting /\ packets' \in Nat /\ data_packets' = 0 /\ UNCHANGED <<buf, psi>>
    BY <1>0, <1>3 DEF Snapshot
  <2>2. Queued' = Queued
    BY <2>1 DEF Queued
  <2>3. Waiting' = Waiting
    BY <2>1, <2>2 DEF Waiting
  <2>4. QED
    BY <2>1, <2>3 DEF StockInv
<1>4. CASE NullBatch
  BY <1>4 DEF NullBatch, StockInv
<1>5. CASE PassPsi
  <2>1. /\ data_packets < packets /\ psi > 0 /\ psi' = psi - 1 /\ round
        /\ EndPass(TRUE, outputed) /\ buf' = buf
    BY <1>5 DEF PassPsi
  <2>2. outputed \in [Inputs -> -(IntMax + 1)..IntMax]
    BY DEF RoundInv, TypeOK
  <2>3. packets' = packets /\ data_packets' = data_packets + 1
    BY <2>1, <2>2, EndPassStep
  <2>4. Queued' = Queued
    BY <2>1 DEF Queued
  <2>5. Waiting' = Waiting - 1
    BY <1>0, <2>1, <2>4 DEF Waiting
  <2>6. QED
    BY <1>0, <2>1, <2>3, <2>5 DEF StockInv
<1>6. CASE PassInputs
  <2>1. round /\ data_packets < packets /\ psi' = psi
    BY <1>6 DEF PassInputs
  <2>2. CASE ServesNone
    <3>1. packets' = packets /\ data_packets' = data_packets + 1
      BY <1>0, <2>1, <2>2, EndPassStep DEF ServesNone, TypeOK
    <3>2. Queued' = Queued
      BY <2>2 DEF ServesNone, Queued
    <3>3. Waiting' = Waiting
      BY <2>1, <3>2 DEF Waiting
    <3>4. QED
      BY <1>0, <2>1, <3>1, <3>3 DEF StockInv
  <2>3. ASSUME NEW s \in Inputs, ServesOne(s) PROVE StockInv'
    <3>1. packets' = packets /\ data_packets' = data_packets + 1
      BY <1>0, <2>1, <2>3, CountedRange, EndPassStep DEF ServesOne
    <3>2. Cardinality(Queued)' = Cardinality(Queued) - 1
      BY <1>0, <2>3, TakenFromStock DEF ServesOne, Ready
    <3>3. Waiting' = Waiting - 1
      BY <1>0, <2>1, <3>2 DEF Waiting
    <3>4. QED
      BY <1>0, <2>1, <3>1, <3>3 DEF StockInv
  <2>4. QED
    BY <1>0, <1>6, <2>2, <2>3, PassInputsCases
<1>7. CASE EndRound
  BY <1>7 DEF EndRound, StockInv
<1>8. CASE Kill \/ UNCHANGED vars
  <2>1. UNCHANGED <<buf, psi, round, packets, data_packets>>
    BY <1>8 DEF Kill
  <2>2. Queued' = Queued
    BY <2>1 DEF Queued
  <2>3. QED
    BY <2>1, <2>2 DEF StockInv, Waiting
<1>9. QED
  BY <1>1, <1>2, <1>3, <1>4, <1>5, <1>6, <1>7, <1>8 DEF Next, Mixing, Stopped

LEMMA StockIsEnough ==
  ASSUME RoundInv, StockInv
  PROVE  NothingToReadNever
<1>1. SUFFICES ASSUME round, data_packets < packets, ~(psi > 0)
               PROVE  \E r \in Inputs : buf[r] # <<>>
  BY DEF NothingToReadNever
<1>2. Waiting # 0 /\ psi = 0
  BY <1>1 DEF RoundInv, TypeOK, StockInv
<1>3. Queued # {}
  BY <1>2, QueuedIsFinite DEF Waiting
<1>4. PICK w \in Queued : TRUE
  BY <1>3
<1>5. w[1] \in Inputs /\ w[2] \in 1..MaxBuf /\ w[2] <= Len(buf[w[1]])
  BY <1>4 DEF Queued
<1>6. buf[w[1]] # <<>>
  <2>1. SUFFICES ASSUME buf[w[1]] = <<>> PROVE FALSE
    OBVIOUS
  <2>2. Len(<<>>) = 0
    BY EmptySeq
  <2>3. QED
    BY <1>5, <2>1, <2>2
<1>7. QED
  BY <1>5, <1>6

\* As long as a round has packets to read there is one in some buffer: the retry of
\* output_mix.c:219, which keeps the list of inputs locked, is never due.
THEOREM NoPassIsRepeated == Spec => []NothingToReadNever
<1>1. Init => StockInv
  BY DEF Init, StockInv
<1>2. RoundInv /\ [Next]_vars => RoundInv'
  BY RoundStep
<1>3. RoundInv /\ StockInv /\ [Next]_vars => StockInv'
  BY StockStep
<1>4. RoundInv /\ StockInv => NothingToReadNever
  BY StockIsEnough
<1>5. QED
  BY <1>1, <1>2, <1>3, <1>4, InitRoundInv, PTL DEF Spec

-----------------------------------------------------------------------------
(* Nulls and data in proportion.                                           *)

Left  == Slots - packets
Ahead == nulls * packets - (data_packets - 1) * Left

\* MixedInProportion looks at rounds in which the last pass has read a packet.  The
\* first two conjuncts survive passes that have not.
NullInv ==
  /\ data_packets = 0 => nulls = 0
  /\ data_packets > 0 =>
       /\ packets < Left => 2 * (nulls * packets) <= 2 * ((data_packets - 1) * Left) + packets
       /\ Left <= packets => nulls < data_packets
       /\ LastPassRead =>
            2 * ((data_packets - 1) * Left)
              <= 2 * (nulls * packets) + (IF Left <= packets THEN Left ELSE packets)
       /\ ~Moves => LastPassRead /\ Ahead < packets

\* A pass that reads a packet.
LEMMA ReadInProportion ==
  ASSUME RoundInv, NullInv, data_packets < packets,
         packets' = packets, data_packets' = data_packets + 1,
         nulls' = NullsBefore(Slots, packets, data_packets, nulls),
         nulls' \in 0..(Slots - packets),
         place' = data_packets + nulls'
  PROVE  NullInv'
<1>1. /\ packets \in 1..Slots /\ data_packets \in 0..(packets - 1)
      /\ nulls \in 0..(Slots - packets) /\ Left = Slots - packets /\ Left \in Nat
      /\ Left' = Left
  BY DEF RoundInv, TypeOK, Left
<1>2. /\ (data_packets - 1) * Left \in Int /\ nulls * packets \in Nat
      /\ data_packets * Left \in Nat /\ nulls' * packets \in Nat
  BY <1>1, Products
<1>3. data_packets' - 1 = data_packets
  BY <1>1
<1>4. LastPassRead' /\ data_packets' > 0
  BY <1>1, <1>3 DEF LastPassRead
<1>5. Ahead' = nulls' * packets - data_packets * Left
  BY <1>1, <1>3 DEF Ahead
<1>6. CASE packets < Left
  <2>1. nulls = 0 \/ 2 * (nulls * packets) <= 2 * ((data_packets - 1) * Left) + packets
    BY <1>1, <1>6 DEF NullInv
  <2>2. /\ 2 * (nulls' * packets) <= 2 * (data_packets * Left) + packets
        /\ 2 * (data_packets * Left) <= 2 * (nulls' * packets) + packets
    BY <1>1, <1>6, <2>1, NullsAreMajority
  <2>3. nulls' * packets - data_packets * Left < packets
    BY <1>1, <1>2, <2>2
  <2>4. QED
    BY <1>1, <1>3, <1>4, <1>5, <1>6, <2>2, <2>3 DEF NullInv
<1>7. CASE Left <= packets
  <2>1. nulls = 0 \/ nulls < data_packets
    BY <1>1, <1>7 DEF NullInv
  <2>2. /\ nulls' <= data_packets
        /\ 2 * (data_packets * Left) <= 2 * (nulls' * packets) + Left
        /\ /\ data_packets = 0 => nulls = 0
           /\ data_packets > 0 => /\ 2 * ((data_packets - 1) * Left) <= 2 * (nulls * packets) + Left
                                  /\ nulls * packets - (data_packets - 1) * Left < packets
           => nulls' * packets - data_packets * Left < packets
    BY <1>1, <1>7, <2>1, DataIsMajority
  <2>3. nulls' < data_packets'
    BY <1>1, <2>2
  <2>4. ~Moves => nulls' * packets - data_packets * Left < packets
    BY <1>1, <1>7, <2>2 DEF NullInv, Ahead
  <2>5. QED
    BY <1>1, <1>3, <1>4, <1>5, <1>7, <2>2, <2>3, <2>4 DEF NullInv
<1>8. QED
  BY <1>1, <1>6, <1>7

\* A pass that does not; there are none unless PCR packets are held.
LEMMA SkipInProportion ==
  ASSUME RoundInv, NullInv, data_packets < packets, Moves,
         packets' = packets, data_packets' = data_packets + 1,
         nulls' = nulls, place' = place
  PROVE  NullInv'
<1>1. /\ packets \in 1..Slots /\ data_packets \in 0..(packets - 1)
      /\ nulls \in 0..(Slots - packets) /\ Left \in Nat /\ Left' = Left
      /\ place \in Int /\ place < data_packets + nulls
  BY DEF RoundInv, TypeOK, Left
<1>2. ~LastPassRead' /\ data_packets' > 0 /\ data_packets' - 1 = data_packets
  BY <1>1 DEF LastPassRead
<1>3. packets < Left => 2 * (nulls * packets) <= 2 * (data_packets * Left) + packets
  <2>1. nulls * packets \in Nat /\ data_packets * Left \in Nat
    BY <1>1, Products
  <2>2. CASE data_packets = 0
    <3>1. nulls * packets = 0
      BY <1>1, <2>2 DEF NullInv
    <3>2. QED
      BY <1>1, <2>1, <3>1
  <2>3. CASE data_packets > 0
    <3>1. (data_packets - 1) * Left = data_packets * Left - Left
      BY <1>1
    <3>2. QED
      BY <1>1, <2>1, <2>3, <3>1 DEF NullInv
  <2>4. QED
    BY <1>1, <2>2, <2>3
<1>4. Left <= packets => nulls < data_packets'
  BY <1>1 DEF NullInv
<1>5. QED
  BY <1>1, <1>2, <1>3, <1>4 DEF NullInv

LEMMA NullStep ==
  ASSUME RoundInv, StockInv, NullInv, [Next]_vars
  PROVE  NullInv'
<1> USE DEF pcrVars, roundVars, vars
<1>0. TypeOK
  BY DEF RoundInv
<1>1. CASE UNCHANGED <<packets, data_packets, nulls, place>>
  BY <1>1 DEF NullInv, LastPassRead, Left, Ahead
<1>2. CASE data_packets' = 0 /\ nulls' = 0
  BY <1>2 DEF NullInv
<1>3. CASE PassPsi
  <2>1. data_packets < packets /\ EndPass(TRUE, outputed)
    BY <1>3 DEF PassPsi
  <2>2. /\ packets' = packets /\ data_packets' = data_packets + 1
        /\ nulls' = NullsBefore(Slots, packets, data_packets, nulls)
        /\ nulls' \in 0..(Slots - packets) /\ place' = data_packets + nulls'
    BY <1>0, <2>1, EndPassStep DEF TypeOK
  <2>3. QED
    BY <2>1, <2>2, ReadInProportion
<1>4. CASE PassInputs
  <2>1. round /\ data_packets < packets /\ psi = 0
    BY <1>4 DEF PassInputs
  <2>2. CASE ServesNone
    <3>1. Moves
      <4>1. PICK r \in Inputs : buf[r] # <<>>
        BY <1>0, <2>1, StockIsEnough DEF NothingToReadNever, TypeOK
      <4>2. ~Ready(r)
        BY <2>2 DEF ServesNone
      <4>3. QED
        BY <4>1, <4>2 DEF Ready, Held
    <3>2. /\ packets' = packets /\ data_packets' = data_packets + 1
          /\ nulls' = nulls /\ place' = place
      BY <1>0, <2>1, <2>2, EndPassStep DEF ServesNone, TypeOK
    <3>3. QED
      BY <2>1, <3>1, <3>2, SkipInProportion
  <2>3. ASSUME NEW s \in Inputs, ServesOne(s) PROVE NullInv'
    <3>1. /\ packets' = packets /\ data_packets' = data_packets + 1
          /\ nulls' = NullsBefore(Slots, packets, data_packets, nulls)
          /\ nulls' \in 0..(Slots - packets) /\ place' = data_packets + nulls'
      BY <1>0, <2>1, <2>3, CountedRange, EndPassStep DEF ServesOne
    <3>2. QED
      BY <2>1, <3>1, ReadInProportion
  <2>4. QED
    BY <1>0, <1>4, <2>2, <2>3, PassInputsCases
<1>5. ASSUME NEW r \in Inputs, NEW p \in Packet, InputAdd(r, p) PROVE NullInv'
  BY <1>1, <1>5 DEF InputAdd
<1>6. CASE Snapshot \/ EndRound
  BY <1>2, <1>6 DEF Snapshot, EndRound
<1>7. CASE PsiAdd \/ NullBatch \/ Kill \/ UNCHANGED vars
  BY <1>1, <1>7 DEF PsiAdd, NullBatch, Kill
<1>8. QED
  BY <1>3, <1>4, <1>5, <1>6, <1>7 DEF Next, Mixing, Stopped

LEMMA NullInvIsEnough ==
  ASSUME RoundInv, NullInv
  PROVE  MixedInProportion
<1>1. SUFFICES ASSUME LastPassRead
               PROVE  /\ 2 * Ahead >= -packets
                      /\ packets < Left => 2 * Ahead <= packets
                      /\ ~Moves => Ahead < packets
                      /\ Left <= packets => nulls < data_packets
  BY DEF MixedInProportion, Ahead, Left
<1>2. data_packets > 0 /\ packets \in Nat /\ data_packets \in Nat /\ nulls \in Nat /\ Left \in Nat
  BY <1>1 DEF LastPassRead, RoundInv, TypeOK, Left
<1>3. nulls * packets \in Nat /\ (data_packets - 1) * Left \in Nat
  <2>1. data_packets - 1 \in Nat
    BY <1>2
  <2>2. QED
    BY <1>2, <2>1, Products
<1>4. QED
  BY <1>1, <1>2, <1>3 DEF NullInv, Ahead

\* Nulls and data are mixed in proportion, in rounds of any size, whatever is
\* held back: no burst of data, no nulls ahead of their share but those that
\* held passes leave to be caught up.
THEOREM NullsAreSpread == Spec => []MixedInProportion
<1>1. Init => StockInv /\ NullInv
  BY DEF Init, StockInv, NullInv
<1>2. RoundInv /\ [Next]_vars => RoundInv'
  BY RoundStep
<1>3. RoundInv /\ StockInv /\ [Next]_vars => StockInv'
  BY StockStep
<1>4. RoundInv /\ StockInv /\ NullInv /\ [Next]_vars => NullInv'
  BY NullStep
<1>5. RoundInv /\ NullInv => MixedInProportion
  BY NullInvIsEnough
<1>6. QED
  BY <1>1, <1>2, <1>3, <1>4, <1>5, InitRoundInv, PTL DEF Spec

-----------------------------------------------------------------------------
(* Fair turns.                                                             *)

\* Seen from the last used input, whoever was served before a waiting input comes
\* after it.
TurnInv == \A r \in Inputs : \A q \in overtaken[r] : Distance(r) < Distance(q)

LEMMA DistanceFromServer ==
  ASSUME inpt \in Inputs, NEW s \in Inputs, inpt' = s, NEW x \in Inputs
  PROVE  Distance(x)' = IF Distance(x) > Distance(s) THEN Distance(x) - Distance(s)
                        ELSE Distance(x) - Distance(s) + N
  BY DEF Distance, Inputs

LEMMA OnlyPassTakes ==
  ASSUME RoundInv, [Next]_vars, ~PassInputs
  PROVE  UNCHANGED <<inpt, overtaken, seen>> /\ \A r \in Inputs : ~Takes(r)
<1> USE DEF pcrVars, roundVars, vars
<1>1. CASE \E r \in Inputs, p \in Packet : InputAdd(r, p)
  <2>1. PICK r \in Inputs, p \in Packet : InputAdd(r, p)
    BY <1>1
  <2>2. Len(Append(buf[r], p)) = Len(buf[r]) + 1
    BY AppendProperties DEF RoundInv, TypeOK
  <2>3. buf' = [buf EXCEPT ![r] = Append(buf[r], p)]
    BY <2>1 DEF InputAdd
  <2>4. \A q \in Inputs : Len(buf[q]) \in Nat
    BY LenProperties DEF RoundInv, TypeOK
  <2>5. \A q \in Inputs : ~Takes(q)
    BY <2>2, <2>3, <2>4 DEF Takes, RoundInv, TypeOK
  <2>6. QED
    BY <2>1, <2>5 DEF InputAdd
<1>2. CASE UNCHANGED <<buf, inpt, overtaken, seen>>
  BY <1>2, LenProperties DEF Takes, RoundInv, TypeOK
<1>3. CASE PsiAdd \/ Snapshot \/ NullBatch \/ PassPsi \/ EndRound \/ Kill \/ UNCHANGED vars
  BY <1>2, <1>3 DEF PsiAdd, Snapshot, NullBatch, PassPsi, EndRound, Kill
<1>4. QED
  BY <1>1, <1>3 DEF Next, Mixing, Stopped

LEMMA TurnStep ==
  ASSUME RoundInv, TurnInv, [Next]_vars
  PROVE  TurnInv' /\ NotTwice
<1>0. TypeOK /\ inpt \in Inputs
  BY DEF RoundInv, TypeOK
<1>1. CASE ~PassInputs
  <2>1. UNCHANGED <<inpt, overtaken>> /\ \A r \in Inputs : ~Takes(r)
    BY <1>1, OnlyPassTakes
  <2>2. \A r \in Inputs : Distance(r)' = Distance(r)
    BY <2>1 DEF Distance
  <2>3. TurnInv'
    <3>1. \A r \in Inputs : overtaken[r] \subseteq Inputs
      BY <1>0 DEF TypeOK
    <3>2. QED
      BY <2>1, <2>2, <3>1 DEF TurnInv
  <2>4. QED
    BY <2>1, <2>3 DEF NotTwice
<1>2. CASE PassInputs /\ ServesNone
  <2>1. \A r \in Inputs : overtaken'[r] = {} /\ ~Ready(r)
    BY <1>2 DEF ServesNone
  <2>2. QED
    BY <2>1 DEF TurnInv, NotTwice
<1>3. ASSUME NEW s \in Inputs, ServesOne(s) PROVE TurnInv' /\ NotTwice
  <2>1. /\ buf' = [buf EXCEPT ![s] = Tail(buf[s])] /\ inpt' = s
        /\ overtaken' = [r \in Inputs |-> IF Ready(r) /\ r # s THEN overtaken[r] \cup {s} ELSE {}]
        /\ \A r \in Inputs : Ready(r) => Distance(s) <= Distance(r)
    BY <1>3 DEF ServesOne
  <2>2. ASSUME NEW q \in Inputs, Takes(q) PROVE q = s
    BY <1>0, <2>1, <2>2, LenProperties DEF Takes, TypeOK
  <2>3. ASSUME NEW r \in Inputs, Ready(r), r # s
        PROVE  Distance(s) < Distance(r)
    <3>1. Distance(s) <= Distance(r) /\ Distance(s) # Distance(r)
      BY <1>0, <2>1, <2>3, DistancesDiffer
    <3>2. Distance(s) \in Int /\ Distance(r) \in Int
      BY <1>0, DistancesDiffer
    <3>3. QED
      BY <3>1, <3>2
  <2>4. ASSUME NEW r \in Inputs, NEW q \in overtaken'[r]
        PROVE  Distance(r)' < Distance(q)'
    <3>1. Ready(r) /\ r # s /\ q \in overtaken[r] \cup {s}
      BY <2>1, <2>4
    <3>2. Distance(s) < Distance(r)
      BY <2>3, <3>1
    <3>3. q \in Inputs /\ Distance(s) \in 1..N /\ Distance(r) \in 1..N /\ Distance(q) \in 1..N
      BY <1>0, <3>1, DistancesDiffer DEF TypeOK
    <3>4. q = s \/ Distance(r) < Distance(q)
      BY <3>1 DEF TurnInv
    <3>5. /\ Distance(r)' = IF Distance(r) > Distance(s) THEN Distance(r) - Distance(s)
                            ELSE Distance(r) - Distance(s) + N
          /\ Distance(q)' = IF Distance(q) > Distance(s) THEN Distance(q) - Distance(s)
                            ELSE Distance(q) - Distance(s) + N
      BY <1>0, <2>1, <3>3, DistanceFromServer
    <3>6. QED
      BY <3>2, <3>3, <3>4, <3>5
  <2>5. NotTwice
    <3>1. SUFFICES ASSUME NEW q \in Inputs, NEW r \in Inputs,
                          Takes(q), q # r, Ready(r), q \in overtaken[r]
                   PROVE  FALSE
      BY DEF NotTwice
    <3>2. q = s
      BY <2>2, <3>1
    <3>3. Distance(s) < Distance(r) /\ Distance(r) < Distance(s)
      BY <2>3, <3>1, <3>2 DEF TurnInv
    <3>4. Distance(s) \in Int /\ Distance(r) \in Int
      BY <1>0, DistancesDiffer
    <3>5. QED
      BY <3>3, <3>4
  <2>6. QED
    BY <2>4, <2>5 DEF TurnInv
<1>4. QED
  BY <1>0, <1>1, <1>2, <1>3, PassInputsCases

\* An input with a packet to send is overtaken by another input at most once before
\* its own turn, across rounds too, however many inputs there are.
THEOREM TurnsAreFair == Spec => FairTurns
<1>1. Init => TurnInv
  BY DEF Init, TurnInv
<1>2. RoundInv /\ [Next]_vars => RoundInv'
  BY RoundStep
<1>3. RoundInv /\ TurnInv /\ [Next]_vars => TurnInv'
  BY TurnStep
<1>4. RoundInv /\ TurnInv /\ [Next]_vars => [NotTwice]_vars
  BY TurnStep
<1>5. QED
  BY <1>1, <1>2, <1>3, <1>4, InitRoundInv, PTL DEF Spec, FairTurns

-----------------------------------------------------------------------------
(* How far apart PCR packets leave.                                        *)

\* An input counts no more places since its last PCR packet than there were.
SpacingInv ==
  \A r \in Inputs : /\ gone[r] \in 0..Far
                    /\ seen[r] => outputed[r] <= gone[r] \/ gone[r] = Far

\* Who takes a packet in a pass.
LEMMA ServedTakes ==
  ASSUME TypeOK, NEW s \in Inputs, ServesOne(s)
  PROVE  \A r \in Inputs : Takes(r) <=> r = s
<1>1. buf' = [buf EXCEPT ![s] = Tail(buf[s])] /\ buf[s] # <<>>
  BY DEF ServesOne, Ready
<1>2. Len(Tail(buf[s])) = Len(buf[s]) - 1 /\ Len(buf[s]) \in Nat
  BY <1>1, HeadOf
<1>3. \A r \in Inputs : Len(buf[r]) \in Nat
  BY LenProperties DEF TypeOK
<1>4. QED
  BY <1>1, <1>2, <1>3 DEF Takes, TypeOK

LEMMA ServedNone ==
  ASSUME TypeOK, ServesNone
  PROVE  \A r \in Inputs : ~Takes(r)
BY LenProperties DEF ServesNone, Takes, TypeOK

\* A step that settles as many places as it counts keeps the relation.
LEMMA CountsNoMore ==
  ASSUME FarAssumption, RoundInv, SpacingInv, NEW r \in Inputs,
         gone'[r] = IF gone[r] + Settled > Far THEN Far ELSE gone[r] + Settled,
         Settled \in Nat, seen'[r] = seen[r],
         outputed'[r] <= outputed[r] + Settled, outputed'[r] \in Int
  PROVE  gone'[r] \in 0..Far /\ (seen'[r] => outputed'[r] <= gone'[r] \/ gone'[r] = Far)
<1>1. outputed[r] \in Int
  BY DEF RoundInv, TypeOK
<1>2. gone[r] \in 0..Far /\ (seen[r] => outputed[r] <= gone[r] \/ gone[r] = Far)
  BY DEF SpacingInv
<1>3. QED
  BY <1>1, <1>2 DEF FarAssumption

\* A pass settles its own place and the nulls it has left out before it.
LEMMA PassSettles ==
  ASSUME round, round', data_packets \in Int, data_packets' = data_packets + 1,
         nulls \in Nat, nulls' \in Nat, nulls <= nulls'
  PROVE  Settled = 1 + (nulls' - nulls) /\ Settled \in Nat
<1>1. Settled = Mixed' - Mixed
  BY DEF Settled
<1>2. Mixed' - Mixed = 1 + (nulls' - nulls)
  BY DEF Mixed
<1>3. 1 + (nulls' - nulls) \in Nat
  <2>1. \A k, m \in Nat : k <= m => 1 + (m - k) \in Nat
    OBVIOUS
  <2>2. QED
    BY <2>1, Zenon
<1>4. QED
  BY <1>1, <1>2, <1>3

LEMMA SpacingPass ==
  ASSUME FarAssumption, RoundInv, SpacingInv, Measure, round, data_packets < packets,
         NEW read \in BOOLEAN, NEW counted \in [Inputs -> -(IntMax + 1)..IntMax],
         EndPass(read, counted),
         \A r \in Inputs : IF ReleasesPcr(r) THEN counted[r] = 0
                           ELSE counted[r] = outputed[r] /\ seen'[r] = seen[r]
  PROVE  SpacingInv'
<1>1. /\ packets' = packets /\ round' = round /\ data_packets' = data_packets + 1
      /\ nulls \in Nat /\ nulls' \in Nat /\ nulls <= nulls' /\ data_packets \in Int
      /\ outputed' = [r \in Inputs |-> Int32(counted[r] + 1)]
      /\ outputed' \in [Inputs -> -(IntMax + 1)..IntMax]
  <2>1. packets \in 0..Slots /\ nulls \in 0..(Slots - packets) /\ data_packets \in Int
    BY DEF RoundInv, TypeOK
  <2>2. /\ packets' = packets /\ round' = round /\ data_packets' = data_packets + 1
        /\ nulls' \in 0..(Slots - packets) /\ nulls <= nulls'
        /\ outputed' = [r \in Inputs |-> Int32(counted[r] + 1)]
        /\ outputed' \in [Inputs -> -(IntMax + 1)..IntMax]
    BY EndPassStep
  <2>3. QED
    BY <2>1, <2>2
<1>2. Settled = 1 + (nulls' - nulls) /\ Settled \in Nat
  BY <1>1, PassSettles
<1>3. \A r \in Inputs : outputed'[r] <= counted[r] + 1 /\ outputed'[r] \in Int
  <2>1. \A r \in Inputs : counted[r] + 1 \in Int /\ -(IntMax + 1) <= counted[r] + 1
    OBVIOUS
  <2>2. QED
    BY <1>1, <2>1, Int32Range
<1>4. ASSUME NEW r \in Inputs
      PROVE  gone'[r] \in 0..Far /\ (seen'[r] => outputed'[r] <= gone'[r] \/ gone'[r] = Far)
  <2>1. CASE ReleasesPcr(r)
    <3>1. gone'[r] = 1 /\ counted[r] = 0
      BY <2>1 DEF Measure
    <3>2. 1 \in 0..Far /\ outputed'[r] <= 1
      BY <1>3, <3>1 DEF FarAssumption
    <3>3. QED
      BY <3>1, <3>2
  <2>2. CASE ~ReleasesPcr(r)
    <3>1. counted[r] = outputed[r] /\ seen'[r] = seen[r] /\ outputed[r] \in Int
      BY <2>2 DEF RoundInv, TypeOK
    <3>2. gone'[r] = IF gone[r] + Settled > Far THEN Far ELSE gone[r] + Settled
      BY <2>2 DEF Measure
    <3>3. outputed'[r] <= outputed[r] + Settled /\ outputed'[r] \in Int
      BY <1>1, <1>2, <1>3, <3>1
    <3>4. QED
      BY <1>2, <3>1, <3>2, <3>3, CountsNoMore
  <2>3. QED
    BY <2>1, <2>2
<1>5. QED
  BY <1>4 DEF SpacingInv

\* Every other step settles what it counts.
LEMMA SpacingIdle ==
  ASSUME FarAssumption, RoundInv, SpacingInv, Measure, [Next]_vars,
         ~PassInputs, Settled \in Nat, outputed' \in [Inputs -> Int],
         \A r \in Inputs : outputed'[r] <= outputed[r] + Settled
  PROVE  SpacingInv'
<1>1. UNCHANGED seen /\ \A r \in Inputs : ~Takes(r)
  BY OnlyPassTakes
<1>2. \A r \in Inputs : gone'[r] = IF gone[r] + Settled > Far THEN Far ELSE gone[r] + Settled
  BY <1>1 DEF Measure, ReleasesPcr
<1>3. \A r \in Inputs : /\ gone'[r] \in 0..Far
                        /\ seen'[r] => outputed'[r] <= gone'[r] \/ gone'[r] = Far
  BY <1>1, <1>2, CountsNoMore
<1>4. QED
  BY <1>3 DEF SpacingInv

LEMMA SpacingStep ==
  ASSUME FarAssumption, RoundInv, SpacingInv, [SNext]_svars
  PROVE  SpacingInv'
<1> USE DEF pcrVars, roundVars, vars
<1>0. TypeOK
  BY DEF RoundInv
<1>1. CASE UNCHANGED svars
  BY <1>1 DEF svars, SpacingInv
<1>2. ASSUME Next, Measure PROVE SpacingInv'
  <2>1. CASE PassPsi
    <3>1. round /\ data_packets < packets /\ EndPass(TRUE, outputed) /\ UNCHANGED seen
      BY <2>1 DEF PassPsi
    <3>2. ~PassInputs
      BY <1>0, <2>1 DEF PassPsi, PassInputs, TypeOK
    <3>3. \A r \in Inputs : ~ReleasesPcr(r)
      BY <1>2, <3>2, OnlyPassTakes DEF ReleasesPcr
    <3>4. QED
      BY <1>0, <1>2, <3>1, <3>3, SpacingPass DEF TypeOK
  <2>2. CASE PassInputs
    <3>0. round /\ data_packets < packets
      BY <2>2 DEF PassInputs
    <3>1. CASE ServesNone
      <4>1. EndPass(FALSE, outputed) /\ UNCHANGED <<buf, seen>>
        BY <3>1 DEF ServesNone
      <4>2. \A r \in Inputs : ~ReleasesPcr(r)
        BY <1>0, <4>1, LenProperties DEF ReleasesPcr, Takes, TypeOK
      <4>3. QED
        BY <1>0, <1>2, <3>0, <4>1, <4>2, SpacingPass DEF TypeOK
    <3>2. ASSUME NEW s \in Inputs, ServesOne(s) PROVE SpacingInv'
      <4> DEFINE counted == [r \in Inputs |-> IF r = s /\ Moves /\ HasPcr(s)
                                              THEN 0 ELSE outputed[r]]
      <4>1. counted \in [Inputs -> -(IntMax + 1)..IntMax] /\ EndPass(TRUE, counted)
        BY <1>0, <3>2, CountedRange DEF ServesOne
      <4>2. \A r \in Inputs : ReleasesPcr(r) <=> r = s /\ Moves /\ HasPcr(s)
        BY <1>0, <3>2, ServedTakes DEF ReleasesPcr
      <4>3. \A r \in Inputs : seen'[r] = (seen[r] \/ (r = s /\ Moves /\ HasPcr(s)))
        BY <3>2 DEF ServesOne
      <4>4. \A r \in Inputs : IF ReleasesPcr(r) THEN counted[r] = 0
                              ELSE counted[r] = outputed[r] /\ seen'[r] = seen[r]
        BY <1>0, <4>2, <4>3 DEF TypeOK
      <4>5. QED
        BY <1>2, <3>0, <4>1, <4>4, SpacingPass
    <3>3. QED
      BY <1>0, <2>2, <3>1, <3>2, PassInputsCases
  <2>3. CASE NullBatch
    <3>0. ~PassInputs
      BY <2>3 DEF NullBatch, PassInputs
    <3>1. /\ outputed' = [r \in Inputs |-> Int32(outputed[r] + Slots)]
          /\ ~round /\ ~round'
      BY <2>3 DEF NullBatch
    <3>2. \A r \in Inputs : /\ outputed'[r] \in Int /\ outputed'[r] <= outputed[r] + Slots
      <4>1. \A r \in Inputs : outputed[r] + Slots \in Int /\ -(IntMax + 1) <= outputed[r] + Slots
        BY <1>0 DEF TypeOK
      <4>2. \A r \in Inputs : /\ Int32(outputed[r] + Slots) \in Int
                              /\ Int32(outputed[r] + Slots) <= outputed[r] + Slots
        BY <4>1, Int32Range
      <4>3. QED
        BY <3>1, <4>2
    <3>3. Settled = IF outputed' # outputed THEN Slots ELSE 0
      BY <3>1 DEF Settled
    <3>4. \A r \in Inputs : outputed'[r] <= outputed[r] + Settled
      BY <1>0, <3>2, <3>3 DEF TypeOK
    <3>5. Settled \in Nat /\ outputed' \in [Inputs -> Int]
      BY <3>1, <3>2, <3>3
    <3>6. QED
      BY <1>2, <3>0, <3>4, <3>5, SpacingIdle
  <2>4. CASE /\ ~PassInputs /\ UNCHANGED outputed
             /\ \/ UNCHANGED <<round, data_packets, nulls>>
                \/ ~round
                \/ round /\ ~round'
    <3>1. Settled \in Nat
      BY <1>0, <2>4 DEF Settled, Mixed, TypeOK
    <3>2. outputed' \in [Inputs -> Int] /\ \A r \in Inputs : outputed'[r] <= outputed[r] + Settled
      BY <1>0, <2>4, <3>1 DEF TypeOK
    <3>3. QED
      BY <1>2, <2>4, <3>1, <3>2, SpacingIdle
  <2>5. CASE ~PassInputs /\ (EndRound \/ Snapshot)
    BY <2>4, <2>5 DEF EndRound, Snapshot
  <2>6. CASE ~PassInputs /\ (PsiAdd \/ Kill \/ UNCHANGED vars)
    BY <2>4, <2>6 DEF PsiAdd, Kill
  <2>7. ASSUME NEW r \in Inputs, NEW p \in Packet, InputAdd(r, p), ~PassInputs
        PROVE  SpacingInv'
    BY <2>4, <2>7 DEF InputAdd
  <2>8. QED
    BY <1>2, <2>1, <2>2, <2>3, <2>5, <2>6, <2>7 DEF Next, Mixing, Stopped
<1>3. QED
  BY <1>1, <1>2 DEF SNext

\* What is released has waited for its distance, or for none.
LEMMA ReleasedInTime ==
  ASSUME FarAssumption, RoundInv, SpacingInv, Next
  PROVE  NotEarly
<1>0. TypeOK
  BY DEF RoundInv
<1>1. SUFFICES ASSUME NEW r \in Inputs, ReleasesPcr(r), seen[r]
               PROVE  Between(r) >= Required(r) - 1
  BY DEF NotEarly
<1>2. PassInputs
  BY <1>1, OnlyPassTakes DEF ReleasesPcr
<1>3. PICK s \in Inputs : ServesOne(s)
  BY <1>0, <1>1, <1>2, PassInputsCases, ServedNone DEF ReleasesPcr
<1>4. r = s /\ Ready(r) /\ Moves /\ HasPcr(r)
  BY <1>0, <1>1, <1>3, ServedTakes DEF ReleasesPcr, ServesOne
<1>5. Required(r) \in 0..Slots
  BY <1>0, <1>4, RequiredRange
<1>6. Required(r) = 0 \/ outputed[r] >= Required(r)
  BY <1>0, <1>4, <1>5 DEF Ready, Held, TypeOK
<1>7. nulls \in Int /\ nulls' \in Int /\ nulls <= nulls'
  <2>1. packets \in 0..Slots /\ nulls \in 0..(Slots - packets)
    BY <1>0 DEF TypeOK
  <2>2. data_packets < packets
    BY <1>2 DEF PassInputs
  <2>3. nulls' \in 0..(Slots - packets) /\ nulls <= nulls'
    BY <1>0, <1>3, <2>2, CountedRange, EndPassStep DEF ServesOne
  <2>4. QED
    BY <2>1, <2>3
<1>8. gone[r] \in 0..Far /\ (outputed[r] <= gone[r] \/ gone[r] = Far) /\ outputed[r] \in Int
  BY <1>0, <1>1 DEF SpacingInv, TypeOK
<1>9. QED
  BY <1>5, <1>6, <1>7, <1>8 DEF Between, FarAssumption

\* A PCR packet that has to wait leaves at most one place early, whatever other
\* inputs, PSI and null packets do meanwhile, and although the counter wraps.
THEOREM PcrsAreSpaced == SSpec => AtMostOneEarly
<1>1. SInit => Init /\ SpacingInv
  BY FarAssumption DEF SInit, Init, SpacingInv
<1>2. RoundInv /\ [SNext]_svars => RoundInv'
  <2>1. [SNext]_svars => [Next]_vars
    BY DEF SNext, svars
  <2>2. QED
    BY <2>1, RoundStep
<1>3. RoundInv /\ SpacingInv /\ [SNext]_svars => SpacingInv'
  BY FarAssumption, SpacingStep
<1>4. RoundInv /\ SpacingInv /\ [SNext]_svars => [NotEarly]_svars
  BY FarAssumption, ReleasedInTime DEF SNext
<1>5. QED
  BY <1>1, <1>2, <1>3, <1>4, InitRoundInv, PTL DEF SSpec, AtMostOneEarly
=============================================================================
