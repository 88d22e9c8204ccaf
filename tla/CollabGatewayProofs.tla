------------------------ MODULE CollabGatewayProofs ------------------------
(***************************************************************************)
(* The gateway implements the cell store, so what CellsProofs proves of    *)
(* every request holds of socket writes too; the bound on how long the     *)
(* debounce holds a write back; that no write is forgotten or done twice,  *)
(* however flushes overlap; and that every flush moves on.                 *)
(*                                                                         *)
(* Delivery is the inductive invariant.  Its heart is Held: the batch is   *)
(* the end of the order of arrival, the running flushes share no write     *)
(* with it or with each other and have one write for each of their cells,  *)
(* and a write sits in one of them exactly while it is taken and not       *)
(* answered.  What a flush keeps of a batch is a matter of counting, in    *)
(* the lemmas on Deduped.  Working adds how far the first write of a flush *)
(* is, so that a step can be seen to bring it and those behind it nearer   *)
(* to their answers.                                                       *)
(***************************************************************************)
EXTENDS CollabGateway, CellsProofs, FiniteSetTheorems, WellFoundedInduction

(* Every step of the gateway is a step of module Cells, or leaves its        *)
(* variables alone.                                                          *)
LEMMA StoreStepOfGateway == [GNext]_gvars => [Next]_vars
<1> SUFFICES ASSUME [GNext]_gvars PROVE [Next]_vars
  OBVIOUS
<1>1. ASSUME NEW t \in WsWrites, Submit(t) PROVE Next
  BY <1>1, WsAssumption DEF Submit, Step, Next
<1>2. ASSUME NEW t \in WsWrites, TurnAway(t) \/ Settle(t) PROVE UNCHANGED vars
  BY <1>2 DEF TurnAway, Settle
<1>3. ASSUME NEW t \in WsWrites, Work(t) \/ Log(t) PROVE Next
  BY <1>3, WsAssumption DEF Work, Log, Step, Next
<1>4. ASSUME Tick \/ Flush PROVE UNCHANGED vars
  BY <1>4 DEF Tick, Flush
<1>5. ASSUME NEW h \in Requests \ WsWrites, Http(h) PROVE Next
  BY <1>5 DEF Http, Next
<1>6. ASSUME RemoveSheet \/ Restart PROVE Next
  BY <1>6 DEF Restart, Next
<1>7. ASSUME Finished \/ UNCHANGED gvars PROVE UNCHANGED vars
  BY <1>7 DEF Finished, gvars
<1> QED BY <1>1, <1>2, <1>3, <1>4, <1>5, <1>6, <1>7 DEF GNext

(* The gateway implements module Cells: a flush never writes a cell but      *)
(* through the steps of CellsService.upsert.                                 *)
THEOREM GatewayImplementsCells == GSpec => StoreRespected
<1>1. GInit => Init
  BY DEF GInit
<1> QED BY <1>1, StoreStepOfGateway, PTL DEF GSpec, Spec, StoreRespected

(* Hence optimistic concurrency is as exact for buffered socket writes as it *)
(* is for HTTP requests, whatever flushes and requests run beside them.      *)
THEOREM GatewayOccSound == GSpec => []OccExact
BY GatewayImplementsCells, OccSound, PTL DEF StoreRespected

(* The conflicts the gateway reports to senders are genuine.                 *)
THEOREM GatewayConflictsGenuine == GSpec => []ConflictIsGenuine
BY GatewayImplementsCells, ConflictsGenuine, PTL DEF StoreRespected
-----------------------------------------------------------------------------
\* The time a batch has waited and the time its timer still has fit into one
\* window for each of its writes.
TimerInv ==
    /\ buffer \in Seq(WsWrites)
    /\ timer \in {Off} \cup 0..WINDOW
    /\ waited \in Nat
    /\ timer = Off => waited = 0
    /\ timer # Off => waited + timer <= WINDOW * Len(buffer)

(* A write that joins a batch buys it one more window.                       *)
LEMMA OneMore ==
    ASSUME NEW s \in Seq(WsWrites), NEW t \in WsWrites
    PROVE  /\ Append(s, t) \in Seq(WsWrites)
           /\ WINDOW * Len(s) \in Nat
           /\ WINDOW * Len(Append(s, t)) = WINDOW * Len(s) + WINDOW
<1>1. Append(s, t) \in Seq(WsWrites) /\ Len(Append(s, t)) = Len(s) + 1 /\ Len(s) \in Nat
  OBVIOUS
<1>2. \A m, n \in Nat : m * n \in Nat /\ m * (n + 1) = m * n + m
  OBVIOUS
<1> QED BY <1>1, <1>2, WindowAssumption

(* TimerInv is inductive.                                                    *)
LEMMA TimerStep == TimerInv /\ [GNext]_gvars => TimerInv'
<1> SUFFICES ASSUME TimerInv, [GNext]_gvars PROVE TimerInv'
  OBVIOUS
<1> USE DEF Off
<1>1. ASSUME NEW t \in WsWrites, Submit(t) PROVE TimerInv'
  <2>1. buffer' = Append(buffer, t) /\ timer' = WINDOW /\ waited' = waited
    BY <1>1 DEF Submit
  <2>2. waited <= WINDOW * Len(buffer)
    BY OneMore, <1>1 DEF TimerInv
  <2> QED BY <2>1, <2>2, OneMore, WindowAssumption DEF TimerInv
<1>2. ASSUME Tick PROVE TimerInv'
  <2>1. WINDOW * Len(buffer) \in Int
    BY WindowAssumption DEF TimerInv
  <2>2. /\ timer' = timer - 1 /\ waited' = waited + 1 /\ buffer' = buffer /\ timer > 0
        /\ timer \in 0..WINDOW
    BY <1>2 DEF Tick, TimerInv
  <2> QED BY <2>1, <2>2, WindowAssumption DEF TimerInv
<1>3. ASSUME Flush PROVE TimerInv'
  BY <1>3 DEF Flush, TimerInv
<1>4. ASSUME Restart PROVE TimerInv'
  BY <1>4 DEF Restart, TimerInv
<1>5. ASSUME UNCHANGED <<buffer, timer, waited>> PROVE TimerInv'
  BY <1>5 DEF TimerInv
<1> QED
  BY <1>1, <1>2, <1>3, <1>4, <1>5
  DEF GNext, TurnAway, Work, Settle, Log, Http, Finished, gvars, gateway

(* However fast writes arrive, the oldest write of a batch waits at most one *)
(* window for each write of the batch.                                       *)
THEOREM DebounceBounded == GSpec => []DebounceBound
<1>1. GInit => TimerInv
  BY DEF GInit, TimerInv, Off
<1>2. TimerInv => DebounceBound
  <2> SUFFICES ASSUME TimerInv PROVE DebounceBound
    OBVIOUS
  <2>1. WINDOW * Len(buffer) \in Nat
    <3>1. \A m, n \in Nat : m * n \in Nat
      OBVIOUS
    <3> QED BY <3>1, WindowAssumption DEF TimerInv
  <2> QED BY <2>1 DEF TimerInv, DebounceBound, Off
<1> QED BY <1>1, <1>2, TimerStep, PTL DEF GSpec
-----------------------------------------------------------------------------
(* What a flush keeps of a batch.                                            *)

(* A set of natural numbers that is not empty has a least element.            *)
LEMMA LeastNumber ==
    ASSUME NEW T, T \subseteq Nat, T # {}
    PROVE  \E x \in T : \A y \in T : x <= y
<1> DEFINE R == OpToRel(<, Nat)
<1>1. IsWellFoundedOn(R, Nat)
  BY NatLessThanWellFounded
<1>2. \A x, y \in Nat : <<x, y>> \in R <=> x < y
  BY DEF OpToRel
<1>3. \E x \in T : \A y \in T : ~ (<<y, x>> \in R)
  <2> HIDE DEF R
  <2> QED BY <1>1, WFMin
<1> HIDE DEF R
<1>4. PICK x \in T : \A y \in T : ~ (<<y, x>> \in R)
  BY <1>3
<1>5. ASSUME NEW y \in T PROVE x <= y
  <2>1. ~ (y < x)
    BY <1>2, <1>4
  <2> QED BY <2>1
<1> QED BY <1>5

(* A set of positions of a sequence that is not empty has a greatest one.     *)
LEMMA GreatestIndex ==
    ASSUME NEW n \in Nat, NEW T, T \subseteq 1..n, T # {}
    PROVE  \E x \in T : \A y \in T : y <= x
<1> DEFINE U == {n - y : y \in T}
<1>1. U \subseteq Nat /\ U # {}
  <2>1. \A y \in T : n - y \in Nat
    OBVIOUS
  <2>2. U \subseteq Nat
    BY <2>1
  <2> QED BY <2>2
<1>2. PICK u \in U : \A v \in U : u <= v
  <2> HIDE DEF U
  <2> QED BY <1>1, LeastNumber
<1>3. PICK x \in T : u = n - x
  OBVIOUS
<1>4. ASSUME NEW y \in T PROVE y <= x
  <2>1. n - y \in U
    OBVIOUS
  <2>2. u <= n - y
    BY <1>2, <2>1
  <2> QED BY <1>3, <2>2
<1> QED BY <1>4

(* The positions in a finite set of numbers are counted from 1 up, each once: *)
(* every rank is somebody's.                                                  *)
LEMMA RanksAreDense ==
    ASSUME NEW n \in Nat, NEW F, F \subseteq 1..n
    PROVE  /\ Cardinality(F) \in Nat
           /\ \A i \in F : Rank(F, i) \in 1..Cardinality(F)
           /\ \A i, j \in F : i < j => Rank(F, i) < Rank(F, j)
           /\ \A k \in 1..Cardinality(F) : \E i \in F : Rank(F, i) = k
           /\ F # {} => Cardinality(F) # 0
<1>0. \A k \in F : k \in Int
  OBVIOUS
<1>1. IsFiniteSet(F) /\ Cardinality(F) \in Nat
  <2>1. IsFiniteSet(1..n)
    BY FS_Interval
  <2> QED BY <2>1, FS_Subset, FS_CardinalityType
<1> DEFINE Upto(i) == {j \in F : j <= i}
<1>2. \A i \in F : IsFiniteSet(Upto(i)) /\ Cardinality(Upto(i)) <= Cardinality(F)
                   /\ Cardinality(Upto(i)) \in Nat
  BY <1>1, FS_Subset, FS_CardinalityType
<1>3. \A i \in F : Cardinality(Upto(i)) # 0
  <2>1. \A i \in F : i \in Upto(i)
    OBVIOUS
  <2> HIDE DEF Upto
  <2> QED BY <1>2, <2>1, FS_EmptySet
<1>4. \A i \in F : Rank(F, i) = Cardinality(Upto(i)) /\ Rank(F, i) \in 1..Cardinality(F)
  <2>1. \A i \in F : Rank(F, i) = Cardinality(Upto(i))
    BY DEF Rank
  <2> HIDE DEF Upto
  <2> QED BY <1>1, <1>2, <1>3, <2>1
<1>5. ASSUME NEW i \in F, NEW j \in F, i < j PROVE Rank(F, i) < Rank(F, j)
  <2>1. Upto(i) \subseteq Upto(j) /\ j \in Upto(j) /\ j \notin Upto(i)
    <3>1. i \in Int /\ j \in Int /\ i < j
      BY <1>0, <1>5
    <3>2. ASSUME NEW k \in Upto(i) PROVE k \in Upto(j)
      <4>1. k \in F /\ k <= i /\ k \in Int
        BY <1>0
      <4>2. k <= j
        BY <3>1, <4>1
      <4> QED BY <4>1, <4>2
    <3>3. j \in Upto(j) /\ j \notin Upto(i)
      BY <3>1
    <3> QED BY <3>2, <3>3
  <2> HIDE DEF Upto
  <2>2. Cardinality(Upto(i)) <= Cardinality(Upto(j)) /\ Cardinality(Upto(i)) # Cardinality(Upto(j))
    BY <1>2, <2>1, FS_Subset
  <2> QED BY <1>2, <1>4, <2>2
<1> DEFINE f == [i \in F |-> Rank(F, i)]
<1>6. f \in Injection(F, 1..Cardinality(F))
  <2>1. f \in [F -> 1..Cardinality(F)]
    BY <1>4
  <2>2. ASSUME NEW i \in F, NEW j \in F, i # j PROVE f[i] # f[j]
    <3>1. Rank(F, i) \in Int /\ Rank(F, j) \in Int /\ i \in Int /\ j \in Int
      <4>1. \A k \in 1..Cardinality(F) : k \in Int
        BY <1>1
      <4> QED BY <1>0, <1>4, <4>1
    <3>2. CASE i < j
      BY <1>5, <3>1, <3>2
    <3>3. CASE j < i
      BY <1>5, <3>1, <3>3
    <3> QED BY <2>2, <3>2, <3>3
  <2> QED BY <2>1, <2>2 DEF Injection, IsInjective
<1>7. IsFiniteSet(1..Cardinality(F)) /\ Cardinality(1..Cardinality(F)) = Cardinality(F)
  BY <1>1, FS_Interval
<1>8. f \in Surjection(F, 1..Cardinality(F))
  <2> HIDE DEF f
  <2> QED BY <1>6, <1>7, FS_Injection
<1>9. \A k \in 1..Cardinality(F) : \E i \in F : Rank(F, i) = k
  BY <1>8 DEF Surjection
<1>10. F # {} => Cardinality(F) # 0
  BY <1>1, FS_EmptySet
<1> QED BY <1>1, <1>4, <1>5, <1>9, <1>10

(* Among the writes of a cell in a batch one is the last.                     *)
LEMMA LastForFacts ==
    ASSUME NEW s \in Seq(WsWrites), NEW m \in 1..Len(s)
    PROVE  LET t == LastFor(s, Place(s[m])) IN
           \E i \in 1..Len(s) : /\ t = s[i]
                                /\ Place(s[i]) = Place(s[m])
                                /\ \A j \in i+1..Len(s) : Place(s[j]) # Place(s[m])
<1> DEFINE T == {i \in 1..Len(s) : Place(s[i]) = Place(s[m])}
<1>1. T \subseteq 1..Len(s) /\ m \in T /\ Len(s) \in Nat
  OBVIOUS
<1>2. PICK x \in T : \A y \in T : y <= x
  <2> HIDE DEF T
  <2> QED BY <1>1, GreatestIndex
<1>3. \A j \in x+1..Len(s) : Place(s[j]) # Place(s[m])
  BY <1>2
<1>4. \E i \in 1..Len(s) : /\ Place(s[i]) = Place(s[m])
                           /\ \A j \in i+1..Len(s) : Place(s[j]) # Place(s[m])
  BY <1>3
<1> QED BY <1>4 DEF LastFor

(* What survives of a batch: for every cell it names its last write, and      *)
(* nothing else.                                                              *)
Survives(s, d) ==
    /\ d \in Seq(WsWrites)
    /\ s # <<>> => d # <<>>
    /\ \A k \in 1..Len(d) :
         \E i \in 1..Len(s) : /\ d[k] = s[i]
                              /\ \A j \in i+1..Len(s) : Place(s[j]) # Place(s[i])
    /\ \A k, l \in 1..Len(d) : Place(d[k]) = Place(d[l]) => k = l
    /\ \A i \in 1..Len(s) : \E k \in 1..Len(d) : Place(d[k]) = Place(s[i])

\* The deduplication of flushBatch is a Map filled in the order of the batch: for every
\* cell named its last write and nothing else, and the cells in the order in which each
\* was named first.
THEOREM DedupedSurvives ==
    ASSUME NEW s \in Seq(WsWrites)
    PROVE  /\ Survives(s, Deduped(s))
           /\ \A k, l \in 1..Len(Deduped(s)) : k < l =>
                \E i, j \in Firsts(s) : /\ i < j
                                        /\ Place(s[i]) = Place(Deduped(s)[k])
                                        /\ Place(s[j]) = Place(Deduped(s)[l])
<1> DEFINE F == Firsts(s)
           n == Cardinality(F)
           nth(k) == CHOOSE i \in F : Rank(F, i) = k
           d == Deduped(s)
<1>1. F \subseteq 1..Len(s) /\ Len(s) \in Nat
  BY DEF Firsts
<1>2. /\ n \in Nat
      /\ \A i \in F : Rank(F, i) \in 1..n
      /\ \A k \in 1..n : \E i \in F : Rank(F, i) = k
      /\ F # {} => n # 0
  <2> HIDE DEF F
  <2> QED BY <1>1, RanksAreDense
<1>3. \A k \in 1..n : nth(k) \in F /\ Rank(F, nth(k)) = k
  BY <1>2
<1>4. d = [k \in 1..n |-> LastFor(s, Place(s[nth(k)]))]
  BY DEF Deduped
<1> HIDE DEF F, n, nth, d
<1>5. ASSUME NEW k \in 1..n
      PROVE  /\ nth(k) \in 1..Len(s)
             /\ \E i \in 1..Len(s) : /\ d[k] = s[i]
                                     /\ Place(s[i]) = Place(s[nth(k)])
                                     /\ \A j \in i+1..Len(s) : Place(s[j]) # Place(s[nth(k)])
  <2>1. nth(k) \in 1..Len(s)
    BY <1>1, <1>3
  <2>2. d[k] = LastFor(s, Place(s[nth(k)]))
    BY <1>4
  <2> QED BY <2>1, <2>2, LastForFacts
<1>6. d \in Seq(WsWrites) /\ Len(d) = n
  <2>1. \A k \in 1..n : d[k] \in WsWrites
    BY <1>5
  <2>2. d \in [1..n -> WsWrites]
    BY <1>4, <2>1
  <2> QED BY <1>2, <2>2
<1>7. \A k \in 1..n : Place(d[k]) = Place(s[nth(k)])
  BY <1>5
<1>8. ASSUME NEW i \in 1..Len(s) PROVE \E m \in F : Place(s[m]) = Place(s[i])
  <2> DEFINE T == {j \in 1..Len(s) : Place(s[j]) = Place(s[i])}
  <2>1. T \subseteq Nat /\ i \in T
    OBVIOUS
  <2>2. PICK x \in T : \A y \in T : x <= y
    <3> HIDE DEF T
    <3> QED BY <2>1, LeastNumber
  <2>3. \A j \in 1..x-1 : Place(s[j]) # Place(s[x])
    BY <1>1, <2>2
  <2>4. x \in F
    BY <2>3 DEF F, Firsts
  <2> QED BY <2>4
<1>9. ASSUME NEW i \in 1..Len(s) PROVE \E k \in 1..n : Place(d[k]) = Place(s[i])
  <2>1. PICK m \in F : Place(s[m]) = Place(s[i])
    BY <1>8
  <2>2. Rank(F, m) \in 1..n
    BY <1>2
  <2>3. nth(Rank(F, m)) \in F /\ Rank(F, nth(Rank(F, m))) = Rank(F, m)
    BY <1>3, <2>2
  <2>4. nth(Rank(F, m)) = m
    <3>1. \A i1, j1 \in F : i1 < j1 => Rank(F, i1) < Rank(F, j1)
      BY <1>1, RanksAreDense
    <3> DEFINE o == nth(Rank(F, m))
    <3>2. o \in F /\ m \in F /\ o \in Int /\ m \in Int /\ Rank(F, o) = Rank(F, m)
      <4>1. \A k \in F : k \in Int
        BY <1>1
      <4> QED BY <2>3, <4>1
    <3>3. Rank(F, m) \in Int
      <4>1. \A k \in 1..n : k \in Int
        BY <1>2
      <4> QED BY <1>2, <4>1
    <3> HIDE DEF o
    <3>4. ~ (o < m) /\ ~ (m < o)
      BY <3>1, <3>2, <3>3
    <3>5. o = m
      BY <3>2, <3>4
    <3> QED BY <3>5 DEF o
  <2> QED BY <1>7, <2>1, <2>2, <2>4
<1>10. ASSUME NEW k \in 1..n, NEW l \in 1..n, Place(d[k]) = Place(d[l]) PROVE k = l
  <2>1. nth(k) \in F /\ nth(l) \in F /\ Place(s[nth(k)]) = Place(s[nth(l)])
    BY <1>3, <1>7, <1>10
  <2>2. nth(k) = nth(l)
    BY <1>1, <2>1 DEF F, Firsts
  <2> QED BY <1>3, <2>2
<1>11. s # <<>> => n # 0
  <2>1. s # <<>> => 1 \in 1..Len(s)
    BY <1>1
  <2>2. 1 \in 1..Len(s) => F # {}
    BY <1>8
  <2> QED BY <1>2, <2>1, <2>2
<1>12. ASSUME NEW k \in 1..n, NEW l \in 1..n, k < l
       PROVE  \E i, j \in F : i < j /\ Place(s[i]) = Place(d[k]) /\ Place(s[j]) = Place(d[l])
  <2>1. nth(k) \in F /\ Rank(F, nth(k)) = k /\ nth(l) \in F /\ Rank(F, nth(l)) = l
    BY <1>3
  <2>2. PICK i, j \in F : i = nth(k) /\ j = nth(l)
    BY <2>1
  <2>3. i \in Int /\ j \in Int /\ k \in Int /\ l \in Int
    BY <1>1
  <2>4. \A i1, j1 \in F : i1 < j1 => Rank(F, i1) < Rank(F, j1)
    BY <1>1, RanksAreDense
  <2>5. i < j
    <3>1. Rank(F, i) = k /\ Rank(F, j) = l
      BY <2>1, <2>2
    <3>2. j < i => l < k
      BY <2>4, <3>1
    <3>3. i # j
      BY <2>3, <3>1, <1>12
    <3> QED BY <2>3, <3>2, <3>3, <1>12
  <2> QED BY <1>7, <2>2, <2>5
<1>13. Survives(s, d)
  BY <1>5, <1>6, <1>9, <1>10, <1>11 DEF Survives
<1>14. \A k, l \in 1..Len(d) : k < l =>
          \E i, j \in F : i < j /\ Place(s[i]) = Place(d[k]) /\ Place(s[j]) = Place(d[l])
  BY <1>6, <1>12
<1> QED BY <1>13, <1>14 DEF d, F
-----------------------------------------------------------------------------
(* Where the writes are.                                                     *)

\* The batch is the end of the order of arrival, and every write arrives once.
Queued ==
    /\ buffer \in Seq(WsWrites) /\ arrivals \in Seq(WsWrites)
    /\ \A i, j \in 1..Len(arrivals) : arrivals[i] = arrivals[j] => i = j
    /\ \A t \in WsWrites : t \in RangeOf(arrivals) <=> pc[t] # "idle"
    /\ Len(buffer) <= Len(arrivals)
    /\ \A i \in 1..Len(buffer) : buffer[i] = arrivals[Len(arrivals) - Len(buffer) + i]

\* A flush has one write for each of its cells, and shares none with another.
Sorted ==
    /\ \A f \in flights : f \in Seq(WsWrites) /\ f # <<>>
    /\ \A f \in flights : \A i, j \in 1..Len(f) : Place(f[i]) = Place(f[j]) => i = j
    /\ \A f, g \in flights : \A t \in RangeOf(f) : t \in RangeOf(g) => f = g

\* A write that is taken and not answered has one seat.
Seated ==
    \A t \in WsWrites :
       /\ Waiting(t) => ~Flying(t)
       /\ Waiting(t) \/ Flying(t) <=> pc[t] # "idle" /\ told[t] = "none"

\* How far a socket write has come, and what its sender was told.
Manners ==
    /\ told \in [WsWrites -> Replies]
    /\ \A t \in WsWrites :
         /\ pc[t] # "idle" => op[t].kind = "upsert"
         /\ Waiting(t) => pc[t] = "access"
         /\ pc[t] = "idle" => told[t] \in {"none", "refused", "ignored"}
         /\ told[t] = "confirmed" => res[t] = "ok"

Timed == (timer # Off) <=> (buffer # <<>>)

Held ==
    /\ Queued
    /\ Sorted
    /\ Seated
    /\ Manners
    /\ Timed

(* A sequence with one element more.                                          *)
LEMMA AppendFacts ==
    ASSUME NEW s \in Seq(WsWrites), NEW t \in WsWrites
    PROVE  /\ Append(s, t) \in Seq(WsWrites) /\ Append(s, t) # <<>>
           /\ Len(Append(s, t)) = Len(s) + 1 /\ Len(s) \in Nat
           /\ \A i \in 1..Len(s) : Append(s, t)[i] = s[i]
           /\ Append(s, t)[Len(s) + 1] = t
           /\ RangeOf(Append(s, t)) = RangeOf(s) \cup {t}
<1>1. /\ Append(s, t) \in Seq(WsWrites)
      /\ Append(s, t) # <<>>
      /\ Len(Append(s, t)) = Len(s) + 1
      /\ Len(s) \in Nat
      /\ Append(s, t)[Len(s) + 1] = t
  OBVIOUS
<1>2. \A i \in 1..Len(s) : Append(s, t)[i] = s[i]
  OBVIOUS
<1>3. RangeOf(Append(s, t)) = RangeOf(s) \cup {t}
  <2> DEFINE a == Append(s, t)
  <2>1. Len(a) = Len(s) + 1 /\ Len(s) \in Nat /\ a[Len(s) + 1] = t /\ \A i \in 1..Len(s) : a[i] = s[i]
    BY <1>1, <1>2
  <2> HIDE DEF a
  <2>2. ASSUME NEW i \in 1..Len(a) PROVE a[i] \in RangeOf(s) \cup {t}
    <3>1. i \in 1..Len(s) \/ i = Len(s) + 1
      BY <2>1
    <3> QED BY <2>1, <3>1 DEF RangeOf
  <2>3. Len(s) + 1 \in 1..Len(a) /\ \A i \in 1..Len(s) : i \in 1..Len(a)
    BY <2>1
  <2>4. RangeOf(a) = RangeOf(s) \cup {t}
    BY <2>1, <2>2, <2>3 DEF RangeOf
  <2> QED BY <2>4 DEF a
<1> QED BY <1>1, <1>2, <1>3

(* A sequence without its first element.                                      *)
LEMMA TailFacts ==
    ASSUME NEW f \in Seq(WsWrites), f # <<>>
    PROVE  /\ Tail(f) \in Seq(WsWrites)
           /\ Len(f) \in Nat /\ 1 \in 1..Len(f)
           /\ Len(Tail(f)) = Len(f) - 1
           /\ Head(f) = f[1] /\ Head(f) \in WsWrites /\ Head(f) \in RangeOf(f)
           /\ \A i \in 1..Len(Tail(f)) : i + 1 \in 1..Len(f) /\ Tail(f)[i] = f[i + 1]
           /\ RangeOf(f) = RangeOf(Tail(f)) \cup {Head(f)}
<1>1. /\ Tail(f) \in Seq(WsWrites)
      /\ Len(f) \in Nat
      /\ Len(Tail(f)) = Len(f) - 1
      /\ Head(f) = f[1]
      /\ 1 \in 1..Len(f)
      /\ f[1] \in WsWrites
  OBVIOUS
<1>2. \A i \in 1..Len(Tail(f)) : i + 1 \in 1..Len(f) /\ Tail(f)[i] = f[i + 1]
  OBVIOUS
<1> DEFINE g == Tail(f)
<1>3. Len(g) = Len(f) - 1 /\ \A i \in 1..Len(g) : i + 1 \in 1..Len(f) /\ g[i] = f[i + 1]
  BY <1>1, <1>2
<1> HIDE DEF g
<1>4. RangeOf(f) = RangeOf(g) \cup {f[1]}
  <2>1. ASSUME NEW i \in 1..Len(f) PROVE f[i] \in RangeOf(g) \cup {f[1]}
    <3>1. CASE i = 1
      BY <3>1
    <3>2. CASE i # 1
      <4>1. i - 1 \in 1..Len(g) /\ (i - 1) + 1 = i
        BY <1>1, <1>3, <3>2
      <4>2. g[i - 1] = f[i]
        BY <1>3, <4>1
      <4> QED BY <4>1, <4>2 DEF RangeOf
    <3> QED BY <3>1, <3>2
  <2> QED BY <1>1, <1>3, <2>1 DEF RangeOf
<1> QED BY <1>1, <1>2, <1>4 DEF g, RangeOf

(* What a submission does.                                                    *)
LEMMA SubmitEffect ==
    ASSUME IInv, NEW t \in WsWrites, Submit(t)
    PROVE  /\ pc[t] = "idle" /\ told[t] = "none"
           /\ pc' = [pc EXCEPT ![t] = "access"]
           /\ op'[t] \in Ops /\ op'[t].kind = "upsert"
           /\ \A q \in Requests : q # t => op'[q] = op[q]
           /\ res' = res /\ cells' = cells /\ alive' = alive
           /\ buffer' = Append(buffer, t) /\ arrivals' = Append(arrivals, t)
           /\ timer' = WINDOW
           /\ UNCHANGED <<flights, told, saved, room, restarts, waited, raced>>
<1>1. PICK o \in Ops :
         /\ op' = [op EXCEPT ![t] = o]
         /\ pc' = [pc EXCEPT ![t] = FirstAwait(o)]
  BY DEF Submit, Arrive
<1>2. op \in [Requests -> Operations] /\ t \in Requests
  BY WsAssumption DEF IInv, TypeOK
<1>3. op'[t] = o /\ o.kind = "upsert"
  BY <1>1, <1>2 DEF Submit
<1>4. FirstAwait(o) = "access"
  BY <1>3 DEF FirstAwait
<1> QED BY <1>1, <1>2, <1>3, <1>4 DEF Submit, Arrive, db

(* What a step of the loop does to the writes.                                *)
LEMMA WorkEffect ==
    ASSUME IInv, Manners, NEW t \in WsWrites, Work(t)
    PROVE  /\ \E f \in flights : Head(f) = t
           /\ pc'[t] # "idle" /\ op' = op /\ res[t] = "none"
           /\ \A q \in Requests : q # t => pc'[q] = pc[q] /\ res'[q] = res[q]
           /\ pc' \in [Requests -> {"idle", "access", "read", "write", "delete", "batch",
                                    "save", "swap", "log", "done"}]
           /\ UNCHANGED <<buffer, timer, flights, told, room, restarts, arrivals,
                          waited, raced, alive>>
           /\ \/ UNCHANGED <<cells, saved>> /\ res'[t] \in {"none", "denied", "conflict", "error"}
              \/ UpsertWrite(t) /\ saved' = [saved EXCEPT ![t] = cells'[Place(t)]]
                 /\ res'[t] = "ok"
<1>0. t \in Requests /\ TypeOK /\ ReqShape(t)
  BY WsAssumption DEF IInv, ReqInv
<1>1. [Next]_vars
  BY <1>0 DEF Work, Step, Next
<1>2. TypeOK'
  BY <1>1, IInvStep DEF IInv
<1>3. pc[t] \in {"access", "read", "write", "delete", "batch", "save", "swap"}
  BY DEF Work, Admit, Refuse, Reject, UpsertRead, UpsertWrite
<1>4. res[t] = "none"
  BY <1>0, <1>3 DEF ReqShape
<1>4a. op[t].kind = "upsert"
  BY <1>3 DEF Manners
<1>4b. pc \in [Requests -> {"idle", "access", "read", "write", "delete", "batch",
                            "save", "swap", "log", "done"}]
       /\ res \in [Requests -> {"none", "ok", "denied", "conflict", "error"}]
  BY <1>0 DEF TypeOK
<1>4c. UNCHANGED <<buffer, timer, flights, told, room, restarts, arrivals, waited, raced>>
       /\ \E f \in flights : Head(f) = t
  BY DEF Work
<1> USE DEF Answer, Goto
<1>5. CASE Admit(t) /\ UNCHANGED saved
  <2>1. AfterAccess(op[t]) = "read"
    BY <1>4a DEF AfterAccess
  <2>2. pc' = [pc EXCEPT ![t] = "read"] /\ res' = res /\ op' = op
    BY <1>4a, <1>5, <2>1 DEF Admit
  <2> QED BY <1>0, <1>2, <1>4, <1>4b, <1>4c, <1>5, <2>2 DEF Admit, TypeOK, db
<1>6. CASE (Refuse(t) \/ Reject(t)) /\ UNCHANGED saved
  BY <1>0, <1>2, <1>4, <1>4b, <1>4c, <1>6 DEF Refuse, Reject, TypeOK, db
<1>7. CASE UpsertRead(t) /\ UNCHANGED saved
  <2>1. CASE Stale(t, cells[Target(t)])
    BY <1>0, <1>2, <1>4, <1>4b, <1>4c, <1>7, <2>1 DEF UpsertRead, TypeOK, db
  <2>2. CASE ~Stale(t, cells[Target(t)])
    BY <1>0, <1>2, <1>4, <1>4b, <1>4c, <1>7, <2>2 DEF UpsertRead, TypeOK, db
  <2> QED BY <2>1, <2>2
<1>8. CASE UpsertWrite(t) /\ saved' = [saved EXCEPT ![t] = cells'[Place(t)]]
  BY <1>0, <1>2, <1>4, <1>4b, <1>4c, <1>8 DEF UpsertWrite, TypeOK
<1> QED BY <1>5, <1>6, <1>7, <1>8 DEF Work

(* What an HTTP request leaves alone: the socket writes.                      *)
LEMMA HttpEffect ==
    ASSUME IInv, NEW h \in Requests \ WsWrites, Http(h)
    PROVE  /\ \A t \in WsWrites : pc'[t] = pc[t] /\ op'[t] = op[t] /\ res'[t] = res[t]
           /\ UNCHANGED gateway
<1>1. [Next]_vars /\ Step(h) /\ UNCHANGED gateway
  BY DEF Http, Next
<1>2. \A q \in Requests \ {h} : SameLocals(q)
  BY <1>1, Mover
<1> QED BY <1>1, <1>2, WsAssumption DEF SameLocals

(* What the record of a write changes: only the await of the write.           *)
LEMMA LogEffect ==
    ASSUME IInv, NEW t \in WsWrites, Log(t)
    PROVE  /\ pc[t] = "log" /\ pc' = [pc EXCEPT ![t] = "done"]
           /\ told[t] # "none"
           /\ UNCHANGED <<op, res, cells, alive, gateway>>
BY DEF Log, RecordKept, RecordLost, db

(* What a restart does to the writes.                                         *)
LEMMA RestartEffect ==
    ASSUME Restart
    PROVE  /\ pc' = [r \in Requests |-> IF pc[r] = "idle" THEN "idle" ELSE "done"]
           /\ buffer' = <<>> /\ timer' = Off /\ flights' = {}
           /\ told' = [t \in WsWrites |->
                  IF pc[t] # "idle" /\ told[t] = "none" THEN "lost" ELSE told[t]]
           /\ room' = [p \in Positions |-> NoRow]
           /\ UNCHANGED <<op, res, cells, alive, saved, arrivals, raced>>
BY DEF Restart, Crash, db

(* What a removal of the sheet leaves alone: every request.                   *)
LEMMA RemovalEffect ==
    ASSUME RemoveSheet /\ UNCHANGED gateway
    PROVE  UNCHANGED <<op, pc, res, gateway>>
BY DEF RemoveSheet, local

(* Flushes that stand still stay sorted: the cell of a taken write is fixed.  *)
LEMMA SortedKept ==
    ASSUME Sorted, Seated, flights' = flights,
           \A t \in WsWrites : pc[t] # "idle" => op'[t] = op[t]
    PROVE  Sorted'
<1>1. ASSUME NEW f \in flights, NEW i \in 1..Len(f) PROVE Place(f[i])' = Place(f[i])
  <2>1. f \in Seq(WsWrites)
    BY DEF Sorted
  <2>2. f[i] \in WsWrites /\ f[i] \in RangeOf(f)
    BY <2>1 DEF RangeOf
  <2>3. pc[f[i]] # "idle"
    BY <2>2 DEF Seated, Flying
  <2>4. op'[f[i]] = op[f[i]]
    BY <2>2, <2>3
  <2> QED BY <2>4 DEF Place
<1>2. \A f \in flights' : f \in Seq(WsWrites) /\ f # <<>>
  BY DEF Sorted
<1>3. ASSUME NEW f \in flights', NEW i \in 1..Len(f), NEW j \in 1..Len(f),
             Place(f[i])' = Place(f[j])'
      PROVE  i = j
  <2>1. Place(f[i]) = Place(f[j])
    BY <1>1, <1>3
  <2> QED BY <2>1 DEF Sorted
<1>4. \A f, g \in flights' : \A t \in RangeOf(f) : t \in RangeOf(g) => f = g
  BY DEF Sorted
<1> QED BY <1>2, <1>3, <1>4 DEF Sorted, Place

(* Nothing is taken at first.                                                 *)
LEMMA HeldInit == GInit => Held
<1> SUFFICES ASSUME GInit PROVE Held
  OBVIOUS
<1>1. buffer = <<>> /\ arrivals = <<>> /\ flights = {} /\ timer = Off
  BY DEF GInit
<1>2. \A t \in WsWrites : pc[t] = "idle" /\ told[t] = "none"
  BY WsAssumption DEF GInit, Init
<1>3. RangeOf(<<>>) = {} /\ <<>> \in Seq(WsWrites) /\ Len(<<>>) = 0
  BY DEF RangeOf
<1>4. Queued
  BY <1>1, <1>2, <1>3 DEF Queued
<1>5. told \in [WsWrites -> Replies]
  BY DEF GInit, Replies
<1> QED BY <1>1, <1>2, <1>3, <1>4, <1>5 DEF Held, Sorted, Seated, Manners, Timed, Waiting, Flying

(* A write that is taken finds its seat at the end of the batch.              *)
LEMMA HeldSubmit ==
    ASSUME IInv, Held, NEW t \in WsWrites, Submit(t)
    PROVE  Held'
<1> DEFINE b == buffer
           a == arrivals
<1>1. /\ pc[t] = "idle" /\ told[t] = "none"
      /\ pc' = [pc EXCEPT ![t] = "access"]
      /\ op'[t].kind = "upsert"
      /\ \A q \in Requests : q # t => op'[q] = op[q]
      /\ res' = res
      /\ buffer' = Append(b, t) /\ arrivals' = Append(a, t)
      /\ timer' = WINDOW
      /\ flights' = flights /\ told' = told
  BY SubmitEffect
<1>2. pc \in [Requests -> {"idle", "access", "read", "write", "delete", "batch",
                            "save", "swap", "log", "done"}]
      /\ t \in Requests
  BY WsAssumption DEF IInv, TypeOK
<1>3. pc'[t] = "access" /\ \A q \in WsWrites : q # t => pc'[q] = pc[q] /\ op'[q] = op[q]
  BY <1>1, <1>2, WsAssumption
<1>4. /\ b \in Seq(WsWrites) /\ a \in Seq(WsWrites)
      /\ \A i, j \in 1..Len(a) : a[i] = a[j] => i = j
      /\ Len(b) <= Len(a) /\ Len(a) \in Nat /\ Len(b) \in Nat
      /\ \A i \in 1..Len(b) : b[i] = a[Len(a) - Len(b) + i]
      /\ t \notin RangeOf(a) /\ t \notin RangeOf(b) /\ ~Flying(t)
  BY <1>1 DEF Held, Queued, Seated, Waiting
<1>5. /\ b' \in Seq(WsWrites) /\ b' # <<>> /\ Len(b') = Len(b) + 1
      /\ \A i \in 1..Len(b) : b'[i] = b[i]
      /\ b'[Len(b) + 1] = t /\ RangeOf(b') = RangeOf(b) \cup {t}
  BY <1>1, <1>4, AppendFacts
<1>6. /\ a' \in Seq(WsWrites) /\ Len(a') = Len(a) + 1
      /\ \A i \in 1..Len(a) : a'[i] = a[i]
      /\ a'[Len(a) + 1] = t /\ RangeOf(a') = RangeOf(a) \cup {t}
  BY <1>1, <1>4, AppendFacts
<1>7. Queued'
  <2> HIDE DEF b, a
  <2>1. ASSUME NEW i \in 1..Len(a'), NEW j \in 1..Len(a'), a'[i] = a'[j] PROVE i = j
    <3>1. (i \in 1..Len(a) \/ i = Len(a) + 1) /\ (j \in 1..Len(a) \/ j = Len(a) + 1)
      BY <1>4, <1>6
    <3>2. \A k \in 1..Len(a) : a[k] # t
      BY <1>4 DEF RangeOf
    <3> QED BY <1>4, <1>6, <2>1, <3>1, <3>2
  <2>2. ASSUME NEW i \in 1..Len(b') PROVE b'[i] = a'[Len(a') - Len(b') + i]
    <3>1. i \in 1..Len(b) \/ i = Len(b) + 1
      BY <1>4, <1>5
    <3>2. CASE i \in 1..Len(b)
      <4>1. Len(a) - Len(b) + i \in 1..Len(a) /\ Len(a') - Len(b') + i = Len(a) - Len(b) + i
        BY <1>4, <1>5, <1>6, <3>2
      <4> QED BY <1>4, <1>5, <1>6, <3>2, <4>1
    <3>3. CASE i = Len(b) + 1
      <4>1. Len(a') - Len(b') + i = Len(a) + 1
        BY <1>4, <1>5, <1>6, <3>3
      <4> QED BY <1>5, <1>6, <3>3, <4>1
    <3> QED BY <3>1, <3>2, <3>3
  <2>3. \A q \in WsWrites : q \in RangeOf(a') <=> pc'[q] # "idle"
    BY <1>3, <1>6 DEF Held, Queued, a
  <2>4. Len(b') <= Len(a')
    BY <1>4, <1>5, <1>6
  <2> QED BY <1>5, <1>6, <2>1, <2>2, <2>3, <2>4 DEF Queued, a, b
<1>8. Sorted'
  <2>1. \A q \in WsWrites : pc[q] # "idle" => op'[q] = op[q]
    BY <1>1, <1>3
  <2> QED BY <1>1, <2>1, SortedKept DEF Held
<1>9. Seated' /\ Manners'
  <2>1. \A q : Waiting(q)' <=> Waiting(q) \/ q = t
    BY <1>5 DEF Waiting
  <2>2. \A q : Flying(q)' <=> Flying(q)
    BY <1>1 DEF Flying
  <2>3. Seated'
    BY <1>1, <1>3, <1>4, <2>1, <2>2 DEF Held, Seated
  <2>4. Manners'
    BY <1>1, <1>3, <2>1 DEF Held, Manners
  <2> QED BY <2>3, <2>4
<1>10. Timed'
  BY <1>1, <1>5, WindowAssumption DEF Timed, Off
<1> QED BY <1>7, <1>8, <1>9, <1>10 DEF Held

(* A write that is turned away never had a seat.                              *)
LEMMA HeldTurnAway ==
    ASSUME Held, NEW t \in WsWrites, TurnAway(t)
    PROVE  Held'
<1>1. /\ pc[t] = "idle" /\ told[t] = "none"
      /\ UNCHANGED <<pc, op, res, buffer, timer, flights, arrivals>>
      /\ \A q \in WsWrites : q # t => told'[q] = told[q]
      /\ told'[t] \in {"refused", "ignored"}
      /\ told' \in [WsWrites -> Replies]
  BY DEF TurnAway, vars, Held, Manners, Replies
<1>2. Queued' /\ Timed'
  BY <1>1 DEF Held, Queued, Timed
<1>3. Sorted'
  BY <1>1, SortedKept DEF Held
<1>4. \A q : (Waiting(q)' <=> Waiting(q)) /\ (Flying(q)' <=> Flying(q))
  BY <1>1 DEF Waiting, Flying
<1>5. Seated'
  BY <1>1, <1>4 DEF Held, Seated
<1>6. Manners'
  BY <1>1, <1>4 DEF Held, Manners
<1> QED BY <1>2, <1>3, <1>5, <1>6 DEF Held

(* A write that is worked on keeps its seat.                                  *)
LEMMA HeldWork ==
    ASSUME IInv, Held, NEW t \in WsWrites, Work(t)
    PROVE  Held'
<1>1. /\ \E f \in flights : Head(f) = t
      /\ pc'[t] # "idle" /\ op' = op /\ res[t] = "none"
      /\ \A q \in WsWrites : q # t => pc'[q] = pc[q] /\ res'[q] = res[q]
      /\ UNCHANGED <<buffer, timer, flights, told, arrivals>>
  BY WorkEffect, WsAssumption DEF Held
<1>2. Flying(t)
  BY <1>1, TailFacts DEF Held, Sorted, Flying
<1>3. pc[t] # "idle" /\ told[t] = "none" /\ ~Waiting(t)
  BY <1>2 DEF Held, Seated
<1>4. Queued' /\ Timed'
  BY <1>1, <1>3 DEF Held, Queued, Timed
<1>5. Sorted'
  BY <1>1, SortedKept DEF Held
<1>6. \A q : (Waiting(q)' <=> Waiting(q)) /\ (Flying(q)' <=> Flying(q))
  BY <1>1 DEF Waiting, Flying
<1>7. Seated'
  BY <1>1, <1>3, <1>6 DEF Held, Seated
<1>8. Manners'
  BY <1>1, <1>3, <1>6 DEF Held, Manners
<1> QED BY <1>4, <1>5, <1>7, <1>8 DEF Held

(* A flush takes the whole batch: what survives of it is a new flight, the    *)
(* rest is answered.                                                          *)
LEMMA FlushEffect ==
    ASSUME Held, Flush
    PROVE  LET kept == Deduped(buffer) IN
           /\ Survives(buffer, kept) /\ kept # <<>>
           /\ RangeOf(kept) \subseteq RangeOf(buffer)
           /\ \A t \in RangeOf(buffer) : t \in WsWrites
           /\ buffer' = <<>> /\ timer' = Off /\ flights' = flights \cup {kept}
           /\ told' = [t \in WsWrites |->
                  IF t \in RangeOf(buffer) \ RangeOf(kept) THEN "superseded" ELSE told[t]]
           /\ raced' = raced \cup {p \in Places(kept) : \E f \in flights : p \in Places(f)}
           /\ UNCHANGED <<vars, saved, room, restarts, arrivals>>
<1> DEFINE kept == Deduped(buffer)
<1>1. buffer \in Seq(WsWrites) /\ buffer # <<>>
  BY DEF Held, Queued, Timed, Flush, Off
<1>2. Survives(buffer, kept)
  BY <1>1, DedupedSurvives
<1>3. RangeOf(kept) \subseteq RangeOf(buffer)
  <2> HIDE DEF kept
  <2> QED BY <1>2 DEF Survives, RangeOf
<1>4. \A t \in RangeOf(buffer) : t \in WsWrites
  BY <1>1 DEF RangeOf
<1>5. kept # <<>>
  BY <1>1, <1>2 DEF Survives
<1> QED BY <1>2, <1>3, <1>4, <1>5 DEF Flush

(* A flush gives every write of the batch a seat or an answer.                *)
LEMMA HeldFlush ==
    ASSUME Held, Flush
    PROVE  Held'
<1> DEFINE kept == Deduped(buffer)
<1>1. /\ Survives(buffer, kept) /\ kept # <<>>
      /\ RangeOf(kept) \subseteq RangeOf(buffer)
      /\ \A t \in RangeOf(buffer) : t \in WsWrites
      /\ buffer' = <<>> /\ timer' = Off /\ flights' = flights \cup {kept}
      /\ told' = [t \in WsWrites |->
                  IF t \in RangeOf(buffer) \ RangeOf(kept) THEN "superseded" ELSE told[t]]
      /\ UNCHANGED <<pc, op, res, arrivals>>
  BY FlushEffect DEF vars
<1> HIDE DEF kept
<1>2. Queued' /\ Timed'
  <2>1. RangeOf(<<>>) = {} /\ <<>> \in Seq(WsWrites) /\ Len(<<>>) = 0
    BY DEF RangeOf
  <2>2. arrivals \in Seq(WsWrites) /\ Len(arrivals) \in Nat
    BY DEF Held, Queued
  <2>3. Queued'
    BY <1>1, <2>1, <2>2 DEF Held, Queued
  <2> QED BY <1>1, <2>3 DEF Timed
<1>3. \A t : Place(t)' = Place(t)
  BY <1>1 DEF Place
<1>4. Sorted'
  <2>1. \A f \in flights' : f \in Seq(WsWrites) /\ f # <<>>
    BY <1>1 DEF Held, Sorted, Survives
  <2>2. \A f \in flights' : \A i, j \in 1..Len(f) : Place(f[i]) = Place(f[j]) => i = j
    BY <1>1 DEF Held, Sorted, Survives
  <2>3. ASSUME NEW f \in flights, NEW t \in RangeOf(f) PROVE t \notin RangeOf(kept)
    <3>1. t \in WsWrites
      BY DEF Held, Sorted, RangeOf
    <3> QED BY <1>1, <3>1 DEF Held, Seated, Waiting, Flying
  <2>4. \A f, g \in flights' : \A t \in RangeOf(f) : t \in RangeOf(g) => f = g
    BY <1>1, <2>3 DEF Held, Sorted
  <2>5. \A f \in flights' : \A i, j \in 1..Len(f) : Place(f[i])' = Place(f[j])' => i = j
    BY <1>3, <2>2
  <2> QED BY <2>1, <2>4, <2>5 DEF Sorted
<1>5. \A t : ~Waiting(t)' /\ (Flying(t)' <=> Flying(t) \/ t \in RangeOf(kept))
  BY <1>1 DEF Waiting, Flying, RangeOf
<1>6. Seated'
  BY <1>1, <1>5 DEF Held, Seated, Waiting
<1>7. Manners'
  <2>1. ASSUME NEW t \in WsWrites, t \in RangeOf(buffer)
        PROVE  pc[t] # "idle"
    BY <2>1 DEF Held, Seated, Waiting
  <2>2. told' \in [WsWrites -> Replies]
    BY <1>1 DEF Held, Manners, Replies
  <2> QED BY <1>1, <1>5, <2>1, <2>2 DEF Held, Manners
<1> QED BY <1>2, <1>4, <1>6, <1>7 DEF Held

(* What the end of a write's turn does: its flush goes on to the next.        *)
LEMMA SettleEffect ==
    ASSUME Held, NEW t \in WsWrites, Settle(t)
    PROVE  \E f \in flights :
             /\ Head(f) = t /\ res[t] # "none"
             /\ t \in RangeOf(f) /\ t \notin RangeOf(Tail(f))
             /\ RangeOf(f) = RangeOf(Tail(f)) \cup {t}
             /\ \A g \in flights' : g \in flights \ {f} \/ (g = Tail(f) /\ g # <<>>)
             /\ \A g \in flights \ {f} : g \in flights'
             /\ Tail(f) # <<>> => Tail(f) \in flights'
             /\ pc[t] # "idle" /\ told[t] = "none"
             /\ told' = [told EXCEPT ![t] = Reply(res[t])]
             /\ room' = IF res[t] = "ok" THEN [room EXCEPT ![Place(t)] = saved[t]] ELSE room
             /\ UNCHANGED <<vars, buffer, timer, saved, restarts, arrivals, waited, raced>>
<1>1. PICK f \in flights :
             /\ Head(f) = t /\ res[t] # "none"
             /\ flights' = (flights \ {f}) \cup {g \in {Tail(f)} : g # <<>>}
             /\ told' = [told EXCEPT ![t] = Reply(res[t])]
             /\ room' = IF res[t] = "ok" THEN [room EXCEPT ![Place(t)] = saved[t]] ELSE room
             /\ UNCHANGED <<vars, buffer, timer, saved, restarts, arrivals, waited, raced>>
  BY DEF Settle
<1>2. f \in Seq(WsWrites) /\ f # <<>>
  BY DEF Held, Sorted
<1>3. t \in RangeOf(f) /\ RangeOf(f) = RangeOf(Tail(f)) \cup {t}
  BY <1>1, <1>2, TailFacts
<1>4. t \notin RangeOf(Tail(f))
  <2>1. SUFFICES ASSUME NEW i \in 1..Len(Tail(f)), Tail(f)[i] = t PROVE FALSE
    BY DEF RangeOf
  <2>2. i + 1 \in 1..Len(f) /\ f[i + 1] = t /\ f[1] = t /\ 1 \in 1..Len(f)
    BY <1>1, <1>2, <2>1, TailFacts
  <2>3. i + 1 = 1
    BY <2>2 DEF Held, Sorted
  <2> QED BY <2>3
<1>5. pc[t] # "idle" /\ told[t] = "none"
  BY <1>3 DEF Held, Seated, Flying
<1> QED BY <1>1, <1>3, <1>4, <1>5

(* A write that is answered gives up its seat.                                *)
LEMMA HeldSettle ==
    ASSUME Held, NEW t \in WsWrites, Settle(t)
    PROVE  Held'
<1>1. PICK f \in flights :
             /\ Head(f) = t /\ res[t] # "none"
             /\ t \in RangeOf(f) /\ t \notin RangeOf(Tail(f))
             /\ RangeOf(f) = RangeOf(Tail(f)) \cup {t}
             /\ \A g \in flights' : g \in flights \ {f} \/ (g = Tail(f) /\ g # <<>>)
             /\ \A g \in flights \ {f} : g \in flights'
             /\ Tail(f) # <<>> => Tail(f) \in flights'
             /\ pc[t] # "idle" /\ told[t] = "none"
             /\ told' = [told EXCEPT ![t] = Reply(res[t])]
             /\ UNCHANGED <<vars, buffer, timer, saved, restarts, arrivals, waited, raced>>
  BY SettleEffect, ZenonT(40)
<1>2. f \in Seq(WsWrites) /\ f # <<>>
  BY DEF Held, Sorted
<1>3. UNCHANGED <<pc, op, res, buffer, timer, arrivals>>
  BY <1>1 DEF vars
<1>4. Queued' /\ Timed'
  BY <1>3 DEF Held, Queued, Timed
<1>5. \A q : Place(q)' = Place(q)
  BY <1>3 DEF Place
<1>6. Sorted'
  <2>0. Tail(f) \in Seq(WsWrites)
    BY <1>2, TailFacts
  <2>1. \A g \in flights' : g \in Seq(WsWrites) /\ g # <<>>
    BY <1>1, <2>0 DEF Held, Sorted
  <2>2. ASSUME NEW i \in 1..Len(Tail(f)), NEW j \in 1..Len(Tail(f)),
               Place(Tail(f)[i]) = Place(Tail(f)[j])
        PROVE  i = j
    <3>1. /\ i + 1 \in 1..Len(f) /\ Tail(f)[i] = f[i + 1]
          /\ j + 1 \in 1..Len(f) /\ Tail(f)[j] = f[j + 1]
      BY <1>2, TailFacts
    <3>2. i + 1 = j + 1
      BY <2>2, <3>1 DEF Held, Sorted
    <3> QED BY <3>2
  <2>3. \A g \in flights' : \A i, j \in 1..Len(g) : Place(g[i])' = Place(g[j])' => i = j
    BY <1>1, <1>5, <2>2 DEF Held, Sorted
  <2>4. \A g, h \in flights' : \A q \in RangeOf(g) : q \in RangeOf(h) => g = h
    BY <1>1 DEF Held, Sorted
  <2> QED BY <2>1, <2>3, <2>4 DEF Sorted
<1>7. \A q : Waiting(q)' <=> Waiting(q)
  BY <1>3 DEF Waiting
<1>8. ASSUME NEW q PROVE Flying(q)' <=> Flying(q) /\ q # t
  <2>1. ASSUME Flying(q)' PROVE Flying(q) /\ q # t
    <3>1. PICK g \in flights' : q \in RangeOf(g)
      BY <2>1 DEF Flying
    <3>2. CASE g \in flights \ {f}
      BY <1>1, <3>1, <3>2 DEF Flying, Held, Sorted
    <3>3. CASE g = Tail(f)
      BY <1>1, <3>1, <3>3 DEF Flying
    <3> QED BY <1>1, <3>2, <3>3
  <2>2. ASSUME Flying(q), q # t PROVE Flying(q)'
    <3>1. PICK g \in flights : q \in RangeOf(g)
      BY <2>2 DEF Flying
    <3>2. CASE g # f
      BY <1>1, <3>1, <3>2 DEF Flying
    <3>3. CASE g = f
      <4>1. q \in RangeOf(Tail(f))
        BY <1>1, <2>2, <3>1, <3>3
      <4>2. Tail(f) # <<>>
        BY <4>1 DEF RangeOf
      <4> QED BY <1>1, <4>1, <4>2 DEF Flying
    <3> QED BY <3>2, <3>3
  <2> QED BY <2>1, <2>2
<1>9. Reply(res[t]) \in {"confirmed", "conflict", "error"} /\ (Reply(res[t]) = "confirmed" => res[t] = "ok")
  BY DEF Reply
<1>10. told' \in [WsWrites -> Replies] /\ told'[t] = Reply(res[t])
       /\ \A q \in WsWrites : q # t => told'[q] = told[q]
  BY <1>1, <1>9 DEF Held, Manners, Replies
<1>11. Seated'
  <2>1. ~Waiting(t)
    BY <1>1 DEF Held, Seated, Flying
  <2> QED BY <1>3, <1>7, <1>8, <1>9, <1>10, <2>1 DEF Held, Seated
<1>12. Manners'
  BY <1>1, <1>3, <1>7, <1>9, <1>10 DEF Held, Manners
<1> QED BY <1>4, <1>6, <1>11, <1>12 DEF Held

(* The log record comes after the answer.                                     *)
LEMMA HeldLog ==
    ASSUME IInv, Held, NEW t \in WsWrites, Log(t)
    PROVE  Held'
<1>1. /\ pc[t] = "log" /\ pc' = [pc EXCEPT ![t] = "done"]
      /\ told[t] # "none"
      /\ UNCHANGED <<op, res, buffer, timer, flights, told, arrivals>>
  BY LogEffect DEF gateway
<1>2. \A q \in WsWrites : (pc'[q] = "idle" <=> pc[q] = "idle") /\ (q # t => pc'[q] = pc[q])
  BY <1>1, WsAssumption DEF IInv, TypeOK
<1>3. Queued' /\ Timed'
  BY <1>1, <1>2 DEF Held, Queued, Timed
<1>4. Sorted'
  BY <1>1, SortedKept DEF Held
<1>5. \A q : (Waiting(q)' <=> Waiting(q)) /\ (Flying(q)' <=> Flying(q))
  BY <1>1 DEF Waiting, Flying
<1>6. Seated'
  BY <1>1, <1>2, <1>5 DEF Held, Seated
<1>7. Manners'
  BY <1>1, <1>2, <1>5 DEF Held, Manners
<1> QED BY <1>3, <1>4, <1>6, <1>7 DEF Held

(* After a restart nobody has a seat, and nobody is owed an answer.           *)
LEMMA HeldRestart ==
    ASSUME IInv, Held, Restart
    PROVE  Held'
<1>1. /\ pc' = [r \in Requests |-> IF pc[r] = "idle" THEN "idle" ELSE "done"]
      /\ buffer' = <<>> /\ timer' = Off /\ flights' = {}
      /\ told' = [t \in WsWrites |->
                  IF pc[t] # "idle" /\ told[t] = "none" THEN "lost" ELSE told[t]]
      /\ UNCHANGED <<op, res, arrivals>>
  BY RestartEffect
<1>2. \A q \in WsWrites : pc'[q] = "idle" <=> pc[q] = "idle"
  BY <1>1, WsAssumption
<1>3. Queued' /\ Timed'
  <2>1. RangeOf(<<>>) = {} /\ <<>> \in Seq(WsWrites) /\ Len(<<>>) = 0
    BY DEF RangeOf
  <2>2. arrivals \in Seq(WsWrites) /\ Len(arrivals) \in Nat
    BY DEF Held, Queued
  <2>3. Queued'
    BY <1>1, <1>2, <2>1, <2>2 DEF Held, Queued
  <2> QED BY <1>1, <2>3 DEF Timed
<1>4. \A q : ~Waiting(q)' /\ ~Flying(q)'
  BY <1>1 DEF Waiting, Flying, RangeOf
<1>5. Sorted'
  BY <1>1 DEF Sorted
<1>6. Seated'
  BY <1>1, <1>2, <1>4 DEF Held, Seated, Manners
<1>7. Manners'
  <2>1. told' \in [WsWrites -> Replies]
    BY <1>1 DEF Held, Manners, Replies
  <2> QED BY <1>1, <1>2, <1>4, <2>1 DEF Held, Manners
<1> QED BY <1>3, <1>5, <1>6, <1>7 DEF Held

(* A step that leaves the socket writes and the batches alone.                *)
LEMMA HeldQuiet ==
    ASSUME Held, TimerInv, UNCHANGED <<buffer, flights, told, arrivals>>,
           timer' = timer \/ (timer > 0 /\ timer' = timer - 1),
           \A t \in WsWrites : pc'[t] = pc[t] /\ op'[t] = op[t] /\ res'[t] = res[t]
    PROVE  Held'
<1>1. Queued'
  BY DEF Held, Queued
<1>2. Sorted'
  BY SortedKept DEF Held
<1>3. \A q : (Waiting(q)' <=> Waiting(q)) /\ (Flying(q)' <=> Flying(q))
  BY DEF Waiting, Flying
<1>4. Seated' /\ Manners'
  BY <1>3 DEF Held, Seated, Manners
<1>5. Timed'
  BY WindowAssumption DEF Held, Timed, TimerInv, Off
<1> QED BY <1>1, <1>2, <1>4, <1>5 DEF Held

(* Held is inductive.                                                         *)
LEMMA HeldStep == IInv /\ TimerInv /\ Held /\ [GNext]_gvars => Held'
<1> SUFFICES ASSUME IInv, TimerInv, Held, [GNext]_gvars PROVE Held'
  OBVIOUS
<1>1. ASSUME NEW t \in WsWrites, Submit(t) \/ TurnAway(t) \/ Work(t) \/ Settle(t) \/ Log(t)
      PROVE  Held'
  BY <1>1, HeldSubmit, HeldTurnAway, HeldWork, HeldSettle, HeldLog
<1>2. ASSUME Tick PROVE Held'
  BY <1>2, HeldQuiet DEF Tick, vars
<1>3. ASSUME Flush PROVE Held'
  BY <1>3, HeldFlush
<1>4. ASSUME NEW h \in Requests \ WsWrites, Http(h) PROVE Held'
  BY <1>4, HttpEffect, HeldQuiet DEF gateway
<1>5. ASSUME RemoveSheet /\ UNCHANGED gateway PROVE Held'
  BY <1>5, RemovalEffect, HeldQuiet DEF gateway
<1>6. ASSUME Restart PROVE Held'
  BY <1>6, HeldRestart
<1>7. ASSUME Finished \/ UNCHANGED gvars PROVE Held'
  BY <1>7, HeldQuiet DEF Finished, gvars, gateway, vars
<1> QED BY <1>1, <1>2, <1>3, <1>4, <1>5, <1>6, <1>7 DEF GNext

(* A write that waits is once in the batch.                                   *)
LEMMA BatchDistinct ==
    ASSUME Held, NEW i \in 1..Len(buffer), NEW j \in 1..Len(buffer), buffer[i] = buffer[j]
    PROVE  i = j
<1>1. Len(buffer) \in Nat /\ Len(arrivals) \in Nat /\ Len(buffer) <= Len(arrivals)
  BY DEF Held, Queued
<1>2. /\ Len(arrivals) - Len(buffer) + i \in 1..Len(arrivals)
      /\ Len(arrivals) - Len(buffer) + j \in 1..Len(arrivals)
  BY <1>1
<1>3. Len(arrivals) - Len(buffer) + i = Len(arrivals) - Len(buffer) + j
  BY <1>2 DEF Held, Queued
<1> QED BY <1>1, <1>3

(* The seat of a write is one place in one sequence.                          *)
LEMMA HeldAccounted == Held => Accounted
<1> SUFFICES ASSUME Held PROVE Accounted
  OBVIOUS
<1> DEFINE B(t) == {<<buffer, i>> : i \in {j \in 1..Len(buffer) : buffer[j] = t}}
           F(t) == UNION {{<<f, i>> : i \in {j \in 1..Len(f) : f[j] = t}} : f \in flights}
<1>1. \A t : Copies(t) = B(t) \cup F(t)
  BY DEF Copies
<1>2. ASSUME NEW t, ~Waiting(t) PROVE B(t) = {}
  BY <1>2 DEF Waiting, RangeOf
<1>3. ASSUME NEW t, ~Flying(t) PROVE F(t) = {}
  BY <1>3 DEF Flying, RangeOf
<1>4. ASSUME NEW t, Waiting(t) PROVE \E c : B(t) = {c}
  <2>1. PICK i \in 1..Len(buffer) : buffer[i] = t
    BY <1>4 DEF Waiting, RangeOf
  <2>2. {j \in 1..Len(buffer) : buffer[j] = t} = {i}
    BY <2>1, BatchDistinct
  <2>3. B(t) = {<<buffer, i>>}
    BY <2>2
  <2> QED BY <2>3
<1>5. ASSUME NEW t, Flying(t) PROVE \E c : F(t) = {c}
  <2>1. PICK f \in flights : t \in RangeOf(f)
    BY <1>5 DEF Flying
  <2>2. PICK i \in 1..Len(f) : f[i] = t
    BY <2>1 DEF RangeOf
  <2>3. {j \in 1..Len(f) : f[j] = t} = {i}
    BY <2>2 DEF Held, Sorted
  <2>4. ASSUME NEW g \in flights, g # f PROVE {j \in 1..Len(g) : g[j] = t} = {}
    <3>1. t \notin RangeOf(g)
      BY <2>1, <2>4 DEF Held, Sorted
    <3> QED BY <3>1 DEF RangeOf
  <2>5. F(t) \subseteq {<<f, i>>}
    BY <2>3, <2>4
  <2>6. <<f, i>> \in F(t)
    BY <2>2
  <2>7. F(t) = {<<f, i>>}
    BY <2>5, <2>6
  <2> QED BY <2>7
<1> HIDE DEF B, F
<1>6. ASSUME NEW t \in WsWrites
      PROVE  IF pc[t] # "idle" /\ told[t] = "none"
               THEN \E c \in Copies(t) : Copies(t) = {c}
               ELSE Copies(t) = {}
  <2>1. CASE pc[t] # "idle" /\ told[t] = "none"
    <3>1. \E c : Copies(t) = {c}
      <4>1. CASE Waiting(t)
        BY <1>1, <1>3, <1>4, <4>1 DEF Held, Seated
      <4>2. CASE ~Waiting(t)
        BY <1>1, <1>2, <1>5, <2>1, <4>2 DEF Held, Seated
      <4> QED BY <4>1, <4>2
    <3> QED BY <2>1, <3>1
  <2>2. CASE ~(pc[t] # "idle" /\ told[t] = "none")
    <3>1. ~Waiting(t) /\ ~Flying(t)
      BY <2>2 DEF Held, Seated
    <3> QED BY <1>1, <1>2, <1>3, <2>2, <3>1
  <2> QED BY <2>1, <2>2
<1> QED BY <1>6 DEF Accounted, Held, Timed

\* What the batches carry is well formed.
Parcels ==
    /\ saved \in [WsWrites -> Rows \cup {NoRow}]
    /\ room \in [Positions -> Rows \cup {NoRow}]
    /\ restarts \in 0..MaxRestarts
    /\ raced \subseteq Positions

(* The cell of a taken write is a cell of the sheet.                          *)
LEMMA PlaceType ==
    ASSUME IInv, Held, NEW t \in WsWrites, pc[t] # "idle"
    PROVE  Place(t) \in Positions /\ op[t].items # <<>> /\ op[t].kind = "upsert"
<1>1. op[t].kind = "upsert" /\ t \in Requests
  BY WsAssumption DEF Held, Manners
<1>2. op[t].items \in Seq(Positions) /\ Len(op[t].items) = 1
  BY <1>1 DEF IInv, TypeOK, Operations, ReqInv, ReqShape
<1> QED BY <1>1, <1>2 DEF Place

(* What is returned, broadcast and raced for stays well formed.               *)
LEMMA ParcelsStep == IInv /\ Held /\ Parcels /\ [GNext]_gvars => Parcels'
<1> SUFFICES ASSUME IInv, Held, Parcels, [GNext]_gvars PROVE Parcels'
  OBVIOUS
<1>0. TypeOK'
  BY StoreStepOfGateway, IInvStep DEF IInv
<1>1. ASSUME NEW t \in WsWrites, Work(t) PROVE Parcels'
  <2>1. Flying(t)
    BY <1>1, TailFacts DEF Work, Held, Sorted, Flying
  <2>2. Place(t) \in Positions
    BY <2>1, PlaceType DEF Held, Seated
  <2>3. cells'[Place(t)] \in Rows \cup {NoRow}
    BY <1>0, <2>2 DEF TypeOK
  <2> QED BY <1>1, <2>3 DEF Work, Parcels
<1>2. ASSUME NEW t \in WsWrites, Settle(t) PROVE Parcels'
  <2>1. saved[t] \in Rows \cup {NoRow}
    BY DEF Parcels
  <2>2. /\ room' = [room EXCEPT ![Place(t)] = saved[t]] \/ room' = room
        /\ UNCHANGED <<saved, restarts, raced>>
    BY <1>2 DEF Settle
  <2> QED BY <2>1, <2>2 DEF Parcels
<1>3. ASSUME Flush PROVE Parcels'
  <2> DEFINE kept == Deduped(buffer)
  <2>1. /\ RangeOf(kept) \subseteq RangeOf(buffer)
        /\ \A t \in RangeOf(buffer) : t \in WsWrites
        /\ raced' = raced \cup {p \in Places(kept) : \E f \in flights : p \in Places(f)}
        /\ UNCHANGED <<saved, room, restarts>>
    BY <1>3, FlushEffect
  <2> HIDE DEF kept
  <2>2. Places(kept) \subseteq Positions
    <3>1. ASSUME NEW t \in RangeOf(kept) PROVE Place(t) \in Positions
      <4>1. t \in WsWrites /\ Waiting(t)
        BY <2>1 DEF Waiting
      <4> QED BY <4>1, PlaceType DEF Held, Seated
    <3> QED BY <3>1 DEF Places
  <2> QED BY <2>1, <2>2 DEF Parcels
<1>4. ASSUME Restart PROVE Parcels'
  BY <1>4, RestartAssumption DEF Restart, Parcels
<1>5. ASSUME UNCHANGED <<saved, room, restarts, raced>> PROVE Parcels'
  BY <1>5 DEF Parcels
<1> QED
  BY <1>1, <1>2, <1>3, <1>4, <1>5
  DEF GNext, Submit, TurnAway, Tick, Log, Http, Finished, gvars, gateway

\* The inductive invariant of the delivery.
Delivery == IInv /\ TimerInv /\ Held /\ Parcels

(* The first states satisfy the invariant.                                    *)
LEMMA DeliveryInit == GInit => Delivery
<1> SUFFICES ASSUME GInit PROVE Delivery
  OBVIOUS
<1>1. IInv
  BY IInvInit DEF GInit
<1>2. TimerInv
  BY DEF GInit, TimerInv, Off
<1>3. Parcels
  BY RestartAssumption DEF GInit, Parcels
<1> QED BY <1>1, <1>2, <1>3, HeldInit DEF Delivery

\* The inductive invariant holds in every reachable state, for any cells, writes,
\* window and number of restarts.
THEOREM DeliveryInvariance == GSpec => []Delivery
<1>1. Delivery /\ [GNext]_gvars => Delivery'
  BY StoreStepOfGateway, IInvStep, TimerStep, HeldStep, ParcelsStep DEF Delivery
<1> QED BY <1>1, DeliveryInit, PTL DEF GSpec

\* Every variable of the gateway keeps its type (handleCellUpdate, flushBatch).
THEOREM GatewayTypes == GSpec => []GTypeOK
<1>1. Delivery => GTypeOK
  BY DEF Delivery, TimerInv, Held, Queued, Sorted, Manners, Parcels, GTypeOK
<1> QED BY <1>1, DeliveryInvariance, PTL

\* A write the gateway has taken is in the buffer or in one running flush, once, until
\* its sender is answered, and a buffer with writes has a timer: no write is forgotten
\* and none is done twice, though flushBatch awaits and flushes overlap.
THEOREM NothingForgotten == GSpec => []Accounted
<1>1. Delivery => Accounted
  BY HeldAccounted DEF Delivery
<1> QED BY <1>1, DeliveryInvariance, PTL
-----------------------------------------------------------------------------
(* A flush moves on: NoWriteStuck and OnlyOnward.                            *)

\* A write in a flush is at an await of upsert until it has its result.
Working ==
    \A t \in WsWrites :
       Flying(t) /\ res[t] = "none" => pc[t] \in {"access", "read", "write"}

(* Each step of the loop takes its write one await further or to its result. *)
LEMMA WorkMoves ==
    ASSUME IInv, Manners, NEW t \in WsWrites, Work(t)
    PROVE  /\ res'[t] = "none" => pc'[t] \in {"read", "write"}
           /\ res[t] = "none"
           /\ Stage(t) \in 0..3 /\ Stage(t)' \in 0..3 /\ Stage(t) < Stage(t)'
<1>1. /\ t \in Requests /\ TypeOK
      /\ pc \in [Requests -> {"idle", "access", "read", "write", "delete", "batch",
                              "save", "swap", "log", "done"}]
      /\ res \in [Requests -> {"none", "ok", "denied", "conflict", "error"}]
  BY WsAssumption DEF IInv, TypeOK
<1>2. res[t] = "none"
  BY WorkEffect
<1>3. pc[t] # "idle"
  BY DEF Work, Admit, Refuse, Reject, UpsertRead, UpsertWrite
<1>4. op[t].kind = "upsert"
  BY <1>3 DEF Manners
<1>5. /\ pc[t] = "access" \/ pc[t] = "read" \/ res'[t] # "none"
      /\ res'[t] = "none" => \/ pc[t] = "access" /\ pc'[t] = "read"
                             \/ pc[t] = "read" /\ pc'[t] = "write"
  <2> USE DEF Answer, Goto
  <2>1. CASE Admit(t)
    <3>1. AfterAccess(op[t]) = "read"
      BY <1>4 DEF AfterAccess
    <3>2. pc[t] = "access" /\ pc' = [pc EXCEPT ![t] = "read"]
      BY <1>4, <2>1, <3>1 DEF Admit
    <3> QED BY <1>1, <3>2
  <2>2. CASE Refuse(t) \/ Reject(t)
    <3>1. res'[t] # "none"
      BY <1>1, <2>2 DEF Refuse, Reject
    <3> QED BY <3>1
  <2>3. CASE UpsertRead(t)
    <3>1. CASE Stale(t, cells[Target(t)])
      <4>1. res'[t] # "none"
        BY <1>1, <2>3, <3>1 DEF UpsertRead
      <4> QED BY <4>1
    <3>2. CASE ~Stale(t, cells[Target(t)])
      <4>1. pc[t] = "read" /\ pc' = [pc EXCEPT ![t] = "write"]
        BY <2>3, <3>2 DEF UpsertRead
      <4> QED BY <1>1, <4>1
    <3> QED BY <3>1, <3>2
  <2>4. CASE UpsertWrite(t)
    <3>1. res'[t] # "none"
      BY <1>1, <2>4 DEF UpsertWrite
    <3> QED BY <3>1
  <2> QED BY <2>1, <2>2, <2>3, <2>4 DEF Work
<1>6. CASE res'[t] # "none"
  <2>1. Stage(t) \in 0..2 /\ Stage(t)' = 3
    BY <1>2, <1>6 DEF Stage
  <2> QED BY <1>2, <1>6, <2>1
<1>7. CASE res'[t] = "none" /\ pc[t] = "access" /\ pc'[t] = "read"
  BY <1>2, <1>7 DEF Stage
<1>8. CASE res'[t] = "none" /\ pc[t] = "read" /\ pc'[t] = "write"
  BY <1>2, <1>8 DEF Stage
<1> QED BY <1>5, <1>6, <1>7, <1>8

(* Working is inductive, given Delivery.                                     *)
LEMMA WorkingStep == Delivery /\ Working /\ [GNext]_gvars => Working'
<1> SUFFICES ASSUME Delivery, Working, [GNext]_gvars PROVE Working'
  OBVIOUS
<1>0. IInv /\ Held /\ Manners /\ Seated
  BY DEF Delivery, Held
<1>1. ASSUME NEW t \in WsWrites, Submit(t) PROVE Working'
  <2>1. pc[t] = "idle" /\ pc' = [pc EXCEPT ![t] = "access"] /\ res' = res /\ flights' = flights
    BY <1>0, <1>1, SubmitEffect
  <2>2. \A q : Flying(q)' => Flying(q)
    BY <2>1 DEF Flying
  <2>3. ~Flying(t)
    BY <1>0, <2>1 DEF Seated
  <2> QED BY <2>1, <2>2, <2>3 DEF Working
<1>2. ASSUME NEW t \in WsWrites, Work(t) PROVE Working'
  <2>1. /\ \A q \in Requests : q # t => pc'[q] = pc[q] /\ res'[q] = res[q]
        /\ flights' = flights
    BY <1>0, <1>2, WorkEffect
  <2>2. res'[t] = "none" => pc'[t] \in {"read", "write"}
    BY <1>0, <1>2, WorkMoves
  <2>3. \A q : Flying(q)' => Flying(q)
    BY <2>1 DEF Flying
  <2> QED BY <2>1, <2>2, <2>3, WsAssumption DEF Working
<1>3. ASSUME NEW t \in WsWrites, Settle(t) PROVE Working'
  <2>1. PICK f \in flights :
          /\ RangeOf(f) = RangeOf(Tail(f)) \cup {t}
          /\ \A g \in flights' : g \in flights \ {f} \/ (g = Tail(f) /\ g # <<>>)
          /\ UNCHANGED vars
    BY <1>0, <1>3, SettleEffect
  <2>2. \A q : Flying(q)' => Flying(q)
    BY <2>1 DEF Flying
  <2> QED BY <2>1, <2>2 DEF Working, vars
<1>4. ASSUME Flush PROVE Working'
  <2>1. /\ RangeOf(Deduped(buffer)) \subseteq RangeOf(buffer)
        /\ flights' = flights \cup {Deduped(buffer)}
        /\ UNCHANGED vars
    BY <1>0, <1>4, FlushEffect
  <2>2. \A q : Flying(q)' => Flying(q) \/ Waiting(q)
    BY <2>1 DEF Flying, Waiting
  <2> QED BY <1>0, <2>1, <2>2 DEF Working, Manners, vars
<1>5. ASSUME NEW t \in WsWrites, Log(t) PROVE Working'
  <2>1. /\ told[t] # "none" /\ pc' = [pc EXCEPT ![t] = "done"]
        /\ UNCHANGED <<res, flights>>
    BY <1>0, <1>5, LogEffect DEF gateway
  <2>2. ~Flying(t) /\ \A q : Flying(q)' => Flying(q)
    BY <1>0, <2>1 DEF Seated, Flying
  <2> QED BY <2>1, <2>2 DEF Working
<1>6. ASSUME NEW h \in Requests \ WsWrites, Http(h) PROVE Working'
  BY <1>0, <1>6, HttpEffect DEF Working, Flying, gateway
<1>7. ASSUME Restart PROVE Working'
  BY <1>7, RestartEffect DEF Working, Flying
<1>8. ASSUME RemoveSheet /\ UNCHANGED gateway PROVE Working'
  BY <1>8, RemovalEffect DEF Working, Flying, gateway
<1>9. ASSUME UNCHANGED <<pc, res, flights>> PROVE Working'
  BY <1>9 DEF Working, Flying
<1> QED
  BY <1>1, <1>2, <1>3, <1>4, <1>5, <1>6, <1>7, <1>8, <1>9
  DEF GNext, TurnAway, Tick, Finished, gvars, gateway, vars

\* What is written of each flush is where its writes are and how far the first is.
LEMMA WorkingInvariance == GSpec => [](Delivery /\ Working)
<1>1. GInit => Working
  BY DEF GInit, Working, Flying
<1> QED BY <1>1, WorkingStep, DeliveryInvariance, PTL DEF GSpec

\* A write that was taken and not answered is in a buffer whose timer runs or in a
\* flush whose first write is at an await of upsert or has its result: whatever is
\* refused, conflicts or fails, the loop of flushBatch goes on to the next write.
THEOREM NothingStuck == GSpec => []NoWriteStuck
<1>1. ASSUME Delivery, Working PROVE NoWriteStuck
  <2>1. SUFFICES ASSUME NEW t \in WsWrites, pc[t] # "idle", told[t] = "none"
        PROVE  \/ Waiting(t) /\ timer # Off
               \/ \E f \in flights :
                    /\ t \in RangeOf(f)
                    /\ res[Head(f)] # "none" \/ pc[Head(f)] \in {"access", "read", "write"}
    BY DEF NoWriteStuck
  <2>2. Waiting(t) \/ Flying(t)
    BY <1>1, <2>1 DEF Delivery, Held, Seated
  <2>3. CASE Waiting(t)
    <3>1. buffer # <<>>
      BY <2>3 DEF Waiting, RangeOf
    <3> QED BY <1>1, <2>3, <3>1 DEF Delivery, Held, Timed
  <2>4. CASE Flying(t)
    <3>1. PICK f \in flights : t \in RangeOf(f)
      BY <2>4 DEF Flying
    <3>2. Head(f) \in WsWrites /\ Flying(Head(f))
      BY <1>1, TailFacts DEF Delivery, Held, Sorted, Flying
    <3> QED BY <1>1, <3>1, <3>2 DEF Working
  <2> QED BY <2>2, <2>3, <2>4
<1> QED BY <1>1, WorkingInvariance, PTL

(* Two choices that have only one answer: the sequence an element is in, and *)
(* its place there.                                                          *)
LEMMA SeatIsUnique ==
    ASSUME NEW F, NEW f \in F, NEW t, NEW i \in 1..Len(f), f[i] = t,
           \A j \in 1..Len(f) : f[j] = t => j = i,
           \A g \in F : t \in RangeOf(g) => g = f
    PROVE  /\ (CHOOSE g \in F : t \in RangeOf(g)) = f
           /\ (CHOOSE j \in 1..Len(f) : f[j] = t) = i
<1>1. t \in RangeOf(f)
  BY DEF RangeOf
<1> QED BY <1>1

(* Where a write is, and how far from its answer.                            *)
LEMMA LineFacts ==
    ASSUME Sorted, NEW f \in flights, NEW i \in 1..Len(f), NEW t, t = f[i]
    PROVE  LineOf(t) = f /\ Distance(t) = 4 * i - Stage(Head(f))
<1>1. \A j \in 1..Len(f) : f[j] = t => j = i
  BY DEF Sorted
<1>2. t \in RangeOf(f)
  BY DEF RangeOf
<1>3. \A g \in flights : t \in RangeOf(g) => g = f
  BY <1>2 DEF Sorted
<1>4. LineOf(t) = f
  BY <1>1, <1>3, SeatIsUnique DEF LineOf
<1>5. Turn(t) = i
  BY <1>1, <1>3, <1>4, SeatIsUnique DEF Turn
<1> QED BY <1>4, <1>5 DEF Distance

(* The same in the state a step leads to.                                    *)
LEMMA LineFactsNext ==
    ASSUME Sorted', NEW f \in flights', NEW i \in 1..Len(f), NEW t, t = f[i]
    PROVE  LineOf(t)' = f /\ Distance(t)' = 4 * i - Stage(Head(f))'
<1>1. \A j \in 1..Len(f) : f[j] = t => j = i
  BY DEF Sorted
<1>2. t \in RangeOf(f)
  BY DEF RangeOf
<1>3. \A g \in flights' : t \in RangeOf(g) => g = f
  BY <1>2 DEF Sorted
<1>4. LineOf(t)' = f
  BY <1>1, <1>3, SeatIsUnique DEF LineOf
<1>5. Turn(t)' = i
  BY <1>1, <1>3, <1>4, SeatIsUnique DEF Turn
<1> QED BY <1>4, <1>5 DEF Distance

\* What OnlyOnward says of one write.
Nearer(t) ==
    \/ Distance(t)' < Distance(t)
    \/ LineOf(t)' = LineOf(t) /\ Stage(Head(LineOf(t)))' = Stage(Head(LineOf(t)))

(* A flush none of whose writes is worked on stays as it is.                 *)
LEMMA StandingFlush ==
    ASSUME Sorted, Sorted', NEW f \in flights, f \in flights',
           NEW i \in 1..Len(f), NEW t, t = f[i], Stage(Head(f))' = Stage(Head(f))
    PROVE  Nearer(t)
<1>1. LineOf(t) = f /\ LineOf(t)' = f
  BY LineFacts, LineFactsNext
<1>2. Stage(Head(LineOf(t)))' = Stage(Head(f))'
  BY <1>1 DEF Stage
<1> QED BY <1>1, <1>2 DEF Nearer

(* Every step leaves a flush as it is or takes it on.                        *)
LEMMA OnwardStep ==
    ASSUME Delivery, Held', [GNext]_gvars, NEW t \in WsWrites, Flying(t), Flying(t)'
    PROVE  Nearer(t)
<1>0. IInv /\ Held /\ Manners /\ Seated /\ Sorted /\ Sorted'
  BY DEF Delivery, Held
<1>1. PICK f \in flights : t \in RangeOf(f)
  BY DEF Flying
<1>2. PICK i \in 1..Len(f) : t = f[i]
  BY <1>1 DEF RangeOf
<1>3. f \in Seq(WsWrites) /\ f # <<>> /\ Len(f) \in Nat
  BY <1>0 DEF Sorted
<1>4. Head(f) \in WsWrites /\ Flying(Head(f)) /\ Head(f) \in Requests
  BY <1>3, TailFacts, WsAssumption DEF Flying
<1>5. ASSUME f \in flights', pc'[Head(f)] = pc[Head(f)], res'[Head(f)] = res[Head(f)]
      PROVE  Nearer(t)
  <2>1. Stage(Head(f))' = Stage(Head(f))
    BY <1>5 DEF Stage
  <2> QED BY <1>0, <1>2, <1>5, <2>1, StandingFlush
<1>6. ASSUME NEW h \in WsWrites, Work(h) PROVE Nearer(t)
  <2>1. /\ \A q \in Requests : q # h => pc'[q] = pc[q] /\ res'[q] = res[q]
        /\ flights' = flights
    BY <1>0, <1>6, WorkEffect
  <2>2. CASE h # Head(f)
    BY <1>4, <1>5, <2>1, <2>2
  <2>3. CASE h = Head(f)
    <3>1. Distance(t) = 4 * i - Stage(Head(f))
      BY <1>0, <1>2, LineFacts
    <3>2. Distance(t)' = 4 * i - Stage(Head(f))'
      BY <1>0, <1>2, <2>1, LineFactsNext
    <3>3. Stage(h) \in 0..3 /\ Stage(h)' \in 0..3 /\ Stage(h) < Stage(h)'
      BY <1>0, <1>6, WorkMoves
    <3>4. Stage(Head(f)) = Stage(h) /\ Stage(Head(f))' = Stage(h)'
      BY <2>3 DEF Stage
    <3>5. Distance(t)' < Distance(t)
      BY <3>1, <3>2, <3>3, <3>4
    <3> QED BY <3>5 DEF Nearer
  <2> QED BY <2>2, <2>3
<1>7. ASSUME NEW h \in WsWrites, Settle(h) PROVE Nearer(t)
  <2>1. PICK g \in flights :
          /\ Head(g) = h /\ res[h] # "none"
          /\ RangeOf(g) = RangeOf(Tail(g)) \cup {h}
          /\ \A e \in flights \ {g} : e \in flights'
          /\ Tail(g) # <<>> => Tail(g) \in flights'
          /\ told[h] = "none" /\ told' = [told EXCEPT ![h] = Reply(res[h])]
          /\ UNCHANGED vars
    BY <1>0, <1>7, SettleEffect
  <2>2. pc' = pc /\ res' = res
    BY <2>1 DEF vars
  <2>3. CASE f # g
    BY <1>5, <2>1, <2>2, <2>3
  <2>4. CASE f = g
    <3>1. told'[h] # "none"
      BY <1>0, <2>1 DEF Manners, Reply
    <3>2. ~Flying(h)'
      BY <3>1 DEF Held, Seated
    <3>3. t # h /\ f[1] = h
      BY <1>3, <2>1, <2>4, <3>2, TailFacts
    <3>4. i # 1
      BY <1>2, <3>3
    <3>5. /\ Len(Tail(f)) = Len(f) - 1
          /\ \A j \in 1..Len(Tail(f)) : Tail(f)[j] = f[j + 1]
      BY <1>3, TailFacts
    <3>6. i - 1 \in 1..Len(Tail(f)) /\ (i - 1) + 1 = i
      BY <1>3, <3>4, <3>5
    <3>7. Tail(f)[i - 1] = t
      BY <1>2, <3>5, <3>6
    <3>8. Tail(f) \in flights'
      <4>1. 1..Len(<<>>) = {}
        OBVIOUS
      <4>2. Tail(f) # <<>>
        BY <3>6, <4>1
      <4> QED BY <2>1, <2>4, <4>2
    <3>9. PICK e \in flights' : e = Tail(f)
      BY <3>8
    <3>10. PICK k \in 1..Len(e) : k = i - 1
      BY <3>6, <3>9
    <3>11. Distance(t)' = 4 * k - Stage(Head(e))'
      BY <1>0, <3>7, <3>9, <3>10, LineFactsNext
    <3>12. Distance(t) = 4 * i - Stage(Head(f))
      BY <1>0, <1>2, LineFacts
    <3>13. Stage(Head(f)) = 3 /\ Stage(Head(e))' \in 0..3
      <4>1. Stage(Head(f)) = 3
        BY <2>1, <2>4 DEF Stage
      <4>2. Stage(Head(e))' \in 0..3
        BY DEF Stage
      <4> QED BY <4>1, <4>2
    <3>14. Distance(t)' < Distance(t)
      BY <3>10, <3>11, <3>12, <3>13, <1>3
    <3> QED BY <3>14 DEF Nearer
  <2> QED BY <2>3, <2>4
<1>8. ASSUME NEW h \in WsWrites, Submit(h) PROVE Nearer(t)
  <2>1. pc[h] = "idle" /\ pc' = [pc EXCEPT ![h] = "access"] /\ res' = res /\ flights' = flights
    BY <1>0, <1>8, SubmitEffect
  <2>2. Head(f) # h
    BY <1>0, <1>4, <2>1 DEF Seated
  <2> QED BY <1>5, <2>1, <2>2
<1>9. ASSUME NEW h \in WsWrites, Log(h) PROVE Nearer(t)
  <2>1. /\ told[h] # "none" /\ pc' = [pc EXCEPT ![h] = "done"]
        /\ UNCHANGED <<res, flights>>
    BY <1>0, <1>9, LogEffect DEF gateway
  <2>2. Head(f) # h
    BY <1>0, <1>4, <2>1 DEF Seated
  <2> QED BY <1>5, <2>1, <2>2
<1>10. ASSUME Flush PROVE Nearer(t)
  <2>1. flights' = flights \cup {Deduped(buffer)} /\ UNCHANGED vars
    BY <1>0, <1>10, FlushEffect
  <2> QED BY <1>5, <2>1 DEF vars
<1>11. ASSUME NEW h \in Requests \ WsWrites, Http(h) PROVE Nearer(t)
  BY <1>0, <1>4, <1>5, <1>11, HttpEffect DEF gateway
<1>12. ASSUME RemoveSheet /\ UNCHANGED gateway PROVE Nearer(t)
  BY <1>5, <1>12, RemovalEffect DEF gateway
<1>13. ASSUME Restart PROVE Nearer(t)
  <2>1. ~Flying(t)'
    BY <1>13, RestartEffect DEF Flying
  <2> QED BY <2>1
<1>14. ASSUME UNCHANGED <<pc, res, flights>> PROVE Nearer(t)
  BY <1>5, <1>14
<1> QED
  BY <1>6, <1>7, <1>8, <1>9, <1>10, <1>11, <1>12, <1>13, <1>14
  DEF GNext, TurnAway, Tick, Finished, gvars, gateway, vars

\* A step brings each write of a flush nearer to its answer, or leaves its flush as it
\* is: no conflict, failure, later batch or other request sets a write back.  With
\* NothingStuck it is what makes every wait finite, but for the fairness of the steps.
THEOREM WritesGoOnward == GSpec => OnlyOnward
<1>1. Delivery /\ Delivery' /\ [GNext]_gvars
      => [\A t \in WsWrites : Flying(t) /\ Flying(t)' =>
            \/ Distance(t)' < Distance(t)
            \/ LineOf(t)' = LineOf(t) /\ Stage(Head(LineOf(t)))' = Stage(Head(LineOf(t)))]_gvars
  <2>1. SUFFICES ASSUME Delivery, Delivery', [GNext]_gvars, NEW t \in WsWrites,
                        Flying(t), Flying(t)'
                 PROVE  Nearer(t)
    BY DEF Nearer
  <2> QED BY <2>1, OnwardStep DEF Delivery
<1> QED BY <1>1, DeliveryInvariance, PTL DEF GSpec, OnlyOnward
=============================================================================
