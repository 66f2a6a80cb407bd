------------------------- MODULE CommandQueueProofs -------------------------
(* Machine-checked proofs about CommandQueue and RunLanes, for every value of   *)
(* their constants.                                                             *)
EXTENDS RunLanes, FiniteSetTheorems, WellFoundedInduction, TLAPS

\* What the pump leaves in the queue, and what it starts, are entries.
LEMMA PumpTyped ==
    ASSUME NEW q \in Seq(Entries), NEW active \in SUBSET Entries, NEW cap \in Nat,
           Cardinality(active) \in Nat
    PROVE  /\ Admitted(q, active, cap) \in 0..Len(q)
           /\ Started(q, active, cap) \in SUBSET Entries
           /\ LeftQueued(q, active, cap) \in Seq(Entries)
           /\ Len(LeftQueued(q, active, cap)) = Len(q) - Admitted(q, active, cap)
           /\ \A i \in 1..(Len(q) - Admitted(q, active, cap)) :
                 LeftQueued(q, active, cap)[i] = q[Admitted(q, active, cap) + i]
  <1>1. Admitted(q, active, cap) \in 0..Len(q)
    BY DEF Admitted
  <1>2. Started(q, active, cap) \in SUBSET Entries
    BY <1>1 DEF Started
  <1>3. QED
    BY <1>1, <1>2 DEF LeftQueued

\* Sets of entries are finite.
LEMMA EntriesFinite ==
    ASSUME NEW S \in SUBSET Entries
    PROVE  IsFiniteSet(S) /\ Cardinality(S) \in Nat
  <1>1. IsFiniteSet(Entries)
    BY QueueAssumption, FS_Interval DEF Entries
  <1>2. IsFiniteSet(S)
    BY <1>1, FS_Subset
  <1>3. QED
    BY <1>2, FS_CardinalityType

\* A non-empty set of naturals has a least element, so Min is what it says.
LEMMA MinOfNats ==
    ASSUME NEW S \in SUBSET Nat, S # {}
    PROVE  Min(S) \in S /\ \A y \in S : Min(S) <= y
  <1>1. \E x \in S : \A y \in S : x <= y
    <2>1. PICK x \in S : \A y \in S : ~(<<y, x>> \in OpToRel(<, Nat))
      BY NatLessThanWellFounded, WFMin
    <2>2. ASSUME NEW y \in S PROVE x <= y
      <3>1. <<y, x>> \notin OpToRel(<, Nat)
        BY <2>1
      <3>2. <<y, x>> \in Nat \X Nat /\ <<y, x>>[1] = y /\ <<y, x>>[2] = x
        OBVIOUS
      <3>3. ~(y < x)
        BY <3>1, <3>2, Zenon DEF OpToRel
      <3>4. QED
        BY <3>2, <3>3
    <2>3. QED
      BY <2>2
  <1>2. QED
    BY <1>1 DEF Min

\* The elements of a sequence with one element put between two others.
LEMMA ConcatAround ==
    ASSUME NEW T, NEW a \in Seq(T), NEW b \in Seq(T), NEW e \in T
    PROVE  /\ a \o <<e>> \o b \in Seq(T)
           /\ Len(a \o <<e>> \o b) = Len(a) + 1 + Len(b)
           /\ \A i \in 1..Len(a) : (a \o <<e>> \o b)[i] = a[i]
           /\ (a \o <<e>> \o b)[Len(a) + 1] = e
           /\ \A i \in 1..Len(b) : (a \o <<e>> \o b)[Len(a) + 1 + i] = b[i]
  <1> DEFINE c == a \o <<e>>
  <1>1. /\ c \in Seq(T) /\ Len(c) = Len(a) + 1 /\ c[Len(a) + 1] = e
        /\ \A i \in 1..Len(a) : c[i] = a[i]
    OBVIOUS
  <1> HIDE DEF c
  <1>2. /\ c \o b \in Seq(T) /\ Len(c \o b) = Len(c) + Len(b)
        /\ \A i \in 1..Len(c) : (c \o b)[i] = c[i]
        /\ \A i \in 1..Len(b) : (c \o b)[Len(c) + i] = b[i]
    BY <1>1, SMTT(30)
  <1>3. Len(a) \in Nat /\ Len(b) \in Nat
    OBVIOUS
  <1>4. QED
    BY <1>1, <1>2, <1>3 DEF c

\* enqueueLaneEntry inserts the entry at one position and keeps the others in
\* order: the position is the first one holding an entry the new one precedes.
LEMMA InsertTyped ==
    ASSUME NEW q \in Seq(Entries), NEW prio, NEW e \in Entries
    PROVE  LET r == EnqueueLaneEntry(q, prio, e) IN
           /\ r \in Seq(Entries) /\ Len(r) = Len(q) + 1
           /\ \E k \in 1..(Len(q) + 1) :
                /\ r[k] = e
                /\ \A i \in 1..(k - 1) : r[i] = q[i] /\ ~Ahead(prio, e, q[i])
                /\ \A i \in (k + 1)..(Len(q) + 1) : r[i] = q[i - 1]
                /\ k <= Len(q) => Ahead(prio, e, q[k])
  <1> DEFINE I == {i \in 1..Len(q) : Ahead(prio, e, q[i])}
             at == SelectInSeq(q, LAMBDA queued : Ahead(prio, e, queued))
             r == EnqueueLaneEntry(q, prio, e)
  <1>0. Len(q) \in Nat /\ I \in SUBSET Nat /\ \A i \in 1..Len(q) : q[i] \in Entries
    OBVIOUS
  <1>1. CASE I = {}
    <2>1. at = 0
      BY <1>1 DEF SelectInSeq
    <2>2. r = Append(q, e)
      BY <2>1 DEF EnqueueLaneEntry
    <2>3. r \in Seq(Entries) /\ Len(r) = Len(q) + 1 /\ r[Len(q) + 1] = e
          /\ \A i \in 1..Len(q) : r[i] = q[i]
      BY <2>2
    <2>4. \A i \in 1..Len(q) : ~Ahead(prio, e, q[i])
      BY <1>1
    <2> HIDE DEF r, I
    <2>5. /\ r[Len(q) + 1] = e
          /\ \A i \in 1..((Len(q) + 1) - 1) : r[i] = q[i] /\ ~Ahead(prio, e, q[i])
          /\ \A i \in ((Len(q) + 1) + 1)..(Len(q) + 1) : r[i] = q[i - 1]
          /\ Len(q) + 1 <= Len(q) => Ahead(prio, e, q[Len(q) + 1])
      BY <2>3, <2>4, <1>0
    <2>6. Len(q) + 1 \in 1..(Len(q) + 1)
      BY <1>0
    <2>7. QED
      BY <2>3, <2>5, <2>6 DEF r
  <1>2. CASE I # {}
    <2>1. at = Min(I) /\ at \in I /\ \A y \in I : at <= y
      BY <1>2, <1>0, MinOfNats DEF SelectInSeq
    <2>2. at \in 1..Len(q) /\ at # 0
      BY <2>1
    <2>3. r = InsertAt(q, at, e)
      BY <2>2 DEF EnqueueLaneEntry
    <2> HIDE DEF at, r
    <2>4. r = SubSeq(q, 1, at - 1) \o <<e>> \o SubSeq(q, at, Len(q))
      BY <2>3 DEF InsertAt
    <2>5. /\ SubSeq(q, 1, at - 1) \in Seq(Entries)
          /\ Len(SubSeq(q, 1, at - 1)) = at - 1
          /\ \A i \in 1..(at - 1) : SubSeq(q, 1, at - 1)[i] = q[i]
      BY <2>2, <1>0
    <2>6. /\ SubSeq(q, at, Len(q)) \in Seq(Entries)
          /\ Len(SubSeq(q, at, Len(q))) = Len(q) - at + 1
          /\ \A i \in 1..(Len(q) - at + 1) : SubSeq(q, at, Len(q))[i] = q[at + i - 1]
      BY <2>2, <1>0
    <2>7. /\ r \in Seq(Entries) /\ Len(r) = Len(q) + 1 /\ r[at] = e
          /\ \A i \in 1..(at - 1) : r[i] = q[i]
          /\ \A i \in (at + 1)..(Len(q) + 1) : r[i] = q[i - 1]
      <3> DEFINE a == SubSeq(q, 1, at - 1)
                 b == SubSeq(q, at, Len(q))
      <3>0. a \in Seq(Entries) /\ b \in Seq(Entries) /\ r = a \o <<e>> \o b
        BY <2>4, <2>5, <2>6
      <3>2. /\ Len(a) = at - 1 /\ Len(b) = Len(q) - at + 1
            /\ \A i \in 1..(at - 1) : a[i] = q[i]
            /\ \A i \in 1..(Len(q) - at + 1) : b[i] = q[at + i - 1]
        BY <2>5, <2>6
      <3> HIDE DEF a, b
      <3>1. /\ r \in Seq(Entries) /\ Len(r) = Len(a) + 1 + Len(b)
            /\ \A i \in 1..Len(a) : r[i] = a[i]
            /\ r[Len(a) + 1] = e
            /\ \A i \in 1..Len(b) : r[Len(a) + 1 + i] = b[i]
        BY <3>0, ConcatAround
      <3>3. ASSUME NEW i \in (at + 1)..(Len(q) + 1) PROVE r[i] = q[i - 1]
        <4>1. i - at \in 1..Len(b) /\ Len(a) + 1 + (i - at) = i /\ at + (i - at) - 1 = i - 1
          BY <3>2, <2>2, <1>0
        <4>2. r[Len(a) + 1 + (i - at)] = b[i - at] /\ b[i - at] = q[at + (i - at) - 1]
          BY <3>1, <3>2, <4>1
        <4>3. QED
          BY <4>1, <4>2
      <3>4. r \in Seq(Entries) /\ Len(r) = Len(q) + 1 /\ r[at] = e
        BY <3>1, <3>2, <2>2, <1>0, SMTT(30)
      <3>5. \A i \in 1..(at - 1) : r[i] = q[i]
        BY <3>1, <3>2
      <3>6. QED
        BY <3>3, <3>4, <3>5
    <2>8. \A i \in 1..(at - 1) : ~Ahead(prio, e, q[i])
      BY <2>1, <2>2, <1>0
    <2>9. QED
      BY <2>1, <2>2, <2>7, <2>8 DEF r
  <1>3. QED
    BY <1>1, <1>2

-----------------------------------------------------------------------------
(***************************************************************************)
(* The invariants as relations between the parts of the state, so that     *)
(* they can also be stated of the contents an operation hands to Pump.     *)
(***************************************************************************)

ActiveOf(active, ph, lo, tg, g) ==
    \A l \in Lanes : active[l] =
        {e \in Entries : ph[e] = "running" /\ lo[e] = l /\ tg[e] = g[l]}

QueuedOf(q, ph, lo) ==
    /\ \A l \in Lanes : \A i \in DOMAIN q[l] :
          /\ ph[q[l][i]] = "queued" /\ lo[q[l][i]] = l
          /\ \A j \in DOMAIN q[l] : q[l][i] = q[l][j] => i = j
    /\ \A e \in Entries : ph[e] = "queued" =>
          \E l \in Lanes : \E i \in DOMAIN q[l] : q[l][i] = e

OrderedOf(q, prio) ==
    \A l \in Lanes : \A i, j \in DOMAIN q[l] : i < j => Ahead(prio, q[l][i], q[l][j])


\* A queue whose entries are distinct and not active.
Waiting(q, active) ==
    /\ \A i \in 1..Len(q) : q[i] \notin active
    /\ \A i, j \in 1..Len(q) : q[i] = q[j] => i = j

\* S was taken off the front of q and r is what is left.
TakenOff(q, S, r) ==
    /\ \A e \in S : \E k \in DOMAIN q : e = q[k]
    /\ \A k \in DOMAIN q : q[k] \in S \/ \E i \in DOMAIN r : r[i] = q[k]
    /\ \A i \in DOMAIN r : r[i] \notin S /\ \E k \in DOMAIN q : r[i] = q[k]
    /\ \A i, j \in DOMAIN r : r[i] = r[j] => i = j
    /\ \A i, j \in DOMAIN r : i < j =>
          \E k, m \in DOMAIN q : k < m /\ r[i] = q[k] /\ r[j] = q[m]
    /\ \A e \in S, i \in DOMAIN r :
          \E k, m \in DOMAIN q : k < m /\ e = q[k] /\ r[i] = q[m]

\* The pump starts as many entries as there are free slots for.
LEMMA StartedCount ==
    ASSUME NEW q \in Seq(Entries), NEW active \in SUBSET Entries, NEW cap \in Nat,
           Waiting(q, active)
    PROVE  /\ Cardinality(active \cup Started(q, active, cap))
                = Cardinality(active) + Admitted(q, active, cap)
           /\ Cardinality(active) \in Nat
  <1> DEFINE n == Admitted(q, active, cap)
             S == Started(q, active, cap)
             f == [i \in 1..n |-> q[i]]
  <1>1. Cardinality(active) \in Nat /\ IsFiniteSet(active)
    BY EntriesFinite
  <1>2. n \in 0..Len(q) /\ S \in SUBSET Entries
    BY <1>1, PumpTyped
  <1>3. S = {q[i] : i \in 1..n}
    BY DEF Started
  <1> HIDE DEF n, S
  <1>4. f \in Bijection(1..n, S)
    <2>1. f \in [1..n -> S] /\ \A y \in S : \E x \in 1..n : f[x] = y
      BY <1>3
    <2>2. \A x, y \in 1..n : f[x] = f[y] => x = y
      BY <1>2 DEF Waiting
    <2>3. QED
      BY <2>1, <2>2 DEF Bijection, Injection, Surjection, IsInjective
  <1>5. Cardinality(S) = n
    BY <1>2, <1>4, FS_CountingElements DEF ExistsBijection
  <1>6. active \cap S = {}
    BY <1>2, <1>3 DEF Waiting
  <1>7. IsFiniteSet(S)
    BY <1>2, EntriesFinite
  <1>8. Cardinality(active \cap S) = 0
    BY <1>6, FS_EmptySet
  <1>9. Cardinality(active \cup S) = Cardinality(active) + n
    <2>1. Cardinality(active \cup S)
            = Cardinality(active) + Cardinality(S) - Cardinality(active \cap S)
      BY <1>1, <1>7, FS_Union
    <2>2. QED
      BY <2>1, <1>1, <1>2, <1>5, <1>8
  <1>10. QED
    BY <1>1, <1>9 DEF n, S

\* One lane of the pump: what starts, what stays queued, and how full the lane
\* is afterwards.
LEMMA PumpLane ==
    ASSUME NEW q \in Seq(Entries), NEW active \in SUBSET Entries, NEW cap \in Nat,
           Waiting(q, active)
    PROVE  /\ Started(q, active, cap) \in SUBSET Entries
           /\ LeftQueued(q, active, cap) \in Seq(Entries)
           /\ TakenOff(q, Started(q, active, cap), LeftQueued(q, active, cap))
           /\ LeftQueued(q, active, cap) # <<>> =>
                 Cardinality(active \cup Started(q, active, cap)) >= cap
           /\ Started(q, active, cap) # {} =>
                 Cardinality(active \cup Started(q, active, cap)) <= cap
  <1> DEFINE n == Admitted(q, active, cap)
             S == Started(q, active, cap)
             r == LeftQueued(q, active, cap)
             c == Cardinality(active)
  <1>1. c \in Nat /\ Cardinality(active \cup S) = c + n
    BY StartedCount
  <1>2. /\ n \in 0..Len(q) /\ S \in SUBSET Entries /\ r \in Seq(Entries)
        /\ Len(r) = Len(q) - n
        /\ \A i \in 1..(Len(q) - n) : r[i] = q[n + i]
    BY <1>1, PumpTyped
  <1>3. \A e : e \in S <=> \E i \in 1..n : e = q[i]
    BY DEF Started
  <1>4. n = IF cap - c <= 0 THEN 0 ELSE IF Len(q) <= cap - c THEN Len(q) ELSE cap - c
    BY DEF Admitted
  <1>5. Len(q) \in Nat /\ DOMAIN q = 1..Len(q)
    OBVIOUS
  <1> HIDE DEF n, S, r, c
  <1>6. r # <<>> => n < Len(q)
    BY <1>2, <1>5
  <1>7. S # {} => n > 0
    BY <1>2, <1>3
  <1>a. c \in Nat /\ n \in Int /\ Len(q) \in Nat /\ cap \in Nat
    BY <1>1, <1>2, <1>5
  <1>8. n < Len(q) => c + n >= cap
    BY <1>a, <1>4
  <1>9. n > 0 => c + n <= cap
    BY <1>a, <1>4
  <1>10. ASSUME NEW i \in DOMAIN r
         PROVE  i \in 1..(Len(q) - n) /\ n + i \in DOMAIN q /\ r[i] = q[n + i]
    BY <1>2, <1>5
  <1>11. \A e \in S : \E k \in DOMAIN q : k <= n /\ e = q[k]
    BY <1>2, <1>3, <1>5, SMTT(30)
  <1>12. ASSUME NEW k \in DOMAIN q PROVE q[k] \in S \/ \E i \in DOMAIN r : r[i] = q[k]
    <2>1. CASE k <= n
      BY <2>1, <1>2, <1>3, <1>5
    <2>2. CASE k > n
      <3>1. k - n \in DOMAIN r /\ k - n \in 1..(Len(q) - n) /\ n + (k - n) = k
        BY <2>2, <1>2, <1>5
      <3>2. r[k - n] = q[k]
        BY <3>1, <1>2
      <3>3. QED
        BY <3>1, <3>2
    <2>3. QED
      BY <2>1, <2>2, <1>2, <1>5
  <1>13. ASSUME NEW i \in DOMAIN r PROVE r[i] \notin S
    <2>1. SUFFICES ASSUME NEW k \in 1..n, r[i] = q[k] PROVE FALSE
      BY <1>3
    <2>2. k \in 1..Len(q) /\ n + i \in 1..Len(q) /\ q[n + i] = q[k] /\ n + i # k
      BY <2>1, <1>2, <1>5, <1>10, SMTT(30)
    <2>3. QED
      BY <2>2 DEF Waiting
  <1>14. ASSUME NEW i \in DOMAIN r, NEW j \in DOMAIN r, r[i] = r[j] PROVE i = j
    <2>1. n + i \in 1..Len(q) /\ n + j \in 1..Len(q) /\ q[n + i] = q[n + j]
      BY <1>5, <1>10, <1>14
    <2>2. n + i = n + j
      BY <2>1 DEF Waiting
    <2>3. QED
      BY <2>2, <1>2, <1>10, SMTT(30)
  <1>15. ASSUME NEW i \in DOMAIN r, NEW j \in DOMAIN r, i < j
         PROVE  \E k, m \in DOMAIN q : k < m /\ r[i] = q[k] /\ r[j] = q[m]
    <2>1. n + i < n + j
      BY <1>2, <1>10, <1>15, SMTT(30)
    <2>2. QED
      BY <2>1, <1>10
  <1>16. ASSUME NEW e \in S, NEW i \in DOMAIN r
         PROVE  \E k, m \in DOMAIN q : k < m /\ e = q[k] /\ r[i] = q[m]
    <2>1. PICK k \in DOMAIN q : k <= n /\ e = q[k]
      BY <1>11
    <2>2. k < n + i
      BY <2>1, <1>2, <1>5, <1>10
    <2>3. QED
      BY <2>1, <2>2, <1>10
  <1>17. TakenOff(q, S, r)
    BY <1>10, <1>11, <1>12, <1>13, <1>14, <1>15, <1>16, ZenonT(40) DEF TakenOff
  <1>18. /\ r # <<>> => Cardinality(active \cup S) >= cap
         /\ S # {} => Cardinality(active \cup S) <= cap
    BY <1>1, <1>6, <1>7, <1>8, <1>9
  <1>19. QED
    BY <1>2, <1>17, <1>18 DEF n, S, r, c

\* Pump carries the lane invariants from the contents it is given to the next
\* state, establishes NoStrandedWork for the lanes it pumps, and starts entries
\* only within the cap and ahead of what stays queued.
LEMMA PumpKeeps ==
    ASSUME NEW D \in SUBSET Lanes, NEW q \in [Lanes -> Seq(Entries)],
           NEW active \in [Lanes -> SUBSET Entries], NEW ph \in [Entries -> Phases],
           maxConcurrent' \in [Lanes -> Nat], generation' \in [Lanes -> Nat],
           laneOf' \in [Entries -> Lanes \cup {NoLane}],
           taskGeneration \in [Entries -> Nat],
           ActiveOf(active, ph, laneOf', taskGeneration, generation'),
           QueuedOf(q, ph, laneOf'), OrderedOf(q, priority'),
           \A l \in Lanes \ D : q[l] # <<>> => Cardinality(active[l]) >= maxConcurrent'[l],
           Pump(D, q, active, ph)
    PROVE  /\ queue' \in [Lanes -> Seq(Entries)]
           /\ activeTaskIds' \in [Lanes -> SUBSET Entries]
           /\ phase' \in [Entries -> Phases]
           /\ taskGeneration' \in [Entries -> Nat]
           /\ ActiveIsCurrent' /\ QueuedExactlyOnce' /\ QueueOrdered' /\ NoStrandedWork'
           /\ \A l \in Lanes : active[l] \subseteq activeTaskIds'[l]
           /\ \A e \in Entries :
                 \/ phase'[e] = ph[e] /\ taskGeneration'[e] = taskGeneration[e]
                 \/ /\ ph[e] = "queued" /\ phase'[e] = "running"
                    /\ taskGeneration'[e] = generation'[laneOf'[e]]
           /\ \A l \in Lanes : \A e \in activeTaskIds'[l] \ active[l] :
                 /\ Cardinality(activeTaskIds'[l]) <= maxConcurrent'[l]
                 /\ \A i \in DOMAIN queue'[l] : Ahead(priority', e, queue'[l][i])
  <1> DEFINE S == [l \in Lanes |-> Started(q[l], active[l], maxConcurrent'[l])]
             R == [l \in Lanes |-> LeftQueued(q[l], active[l], maxConcurrent'[l])]
  <1>1. ASSUME NEW l \in Lanes
        PROVE  /\ \A k \in DOMAIN q[l] : /\ q[l][k] \in Entries
                                         /\ ph[q[l][k]] = "queued" /\ laneOf'[q[l][k]] = l
               /\ \A i, j \in DOMAIN q[l] : q[l][i] = q[l][j] => i = j
               /\ Waiting(q[l], active[l])
    <2>1. q[l] \in Seq(Entries) /\ active[l] \in SUBSET Entries
      OBVIOUS
    <2>2. DOMAIN q[l] = 1..Len(q[l]) /\ \A k \in 1..Len(q[l]) : q[l][k] \in Entries
      BY <2>1
    <2>3. \A k \in DOMAIN q[l] : ph[q[l][k]] = "queued" /\ laneOf'[q[l][k]] = l
      BY Zenon DEF QueuedOf
    <2>4. \A i, j \in DOMAIN q[l] : q[l][i] = q[l][j] => i = j
      BY Zenon DEF QueuedOf
    <2>5. \A e \in active[l] : ph[e] = "running"
      BY DEF ActiveOf
    <2>6. \A k \in DOMAIN q[l] : q[l][k] \notin active[l]
      BY <2>3, <2>5
    <2>7. Waiting(q[l], active[l])
      BY <2>2, <2>4, <2>6 DEF Waiting
    <2>8. QED
      BY <2>2, <2>3, <2>4, <2>7
  <1>2. ASSUME NEW l \in Lanes
        PROVE  /\ S[l] \in SUBSET Entries /\ R[l] \in Seq(Entries)
               /\ TakenOff(q[l], S[l], R[l])
               /\ R[l] # <<>> => Cardinality(active[l] \cup S[l]) >= maxConcurrent'[l]
               /\ S[l] # {} => Cardinality(active[l] \cup S[l]) <= maxConcurrent'[l]
    <2>1. /\ q[l] \in Seq(Entries) /\ active[l] \in SUBSET Entries /\ maxConcurrent'[l] \in Nat
          /\ Waiting(q[l], active[l])
      BY <1>1
    <2>2. QED
      BY <2>1, PumpLane
  <1>3. /\ queue' = [l \in Lanes |-> IF l \in D THEN R[l] ELSE q[l]]
        /\ activeTaskIds' = [l \in Lanes |-> active[l] \cup (IF l \in D THEN S[l] ELSE {})]
        /\ phase' = [e \in Entries |-> IF \E l \in D : e \in S[l] THEN "running" ELSE ph[e]]
        /\ taskGeneration' = [e \in Entries |->
              IF \E l \in D : e \in S[l] THEN generation'[laneOf'[e]] ELSE taskGeneration[e]]
    BY DEF Pump
  <1> HIDE DEF S, R
  <1>4. ASSUME NEW l \in Lanes, NEW e \in S[l]
        PROVE  e \in Entries /\ ph[e] = "queued" /\ laneOf'[e] = l
    <2>1. TakenOff(q[l], S[l], R[l])
      BY <1>2
    <2>2. \E k \in DOMAIN q[l] : e = q[l][k]
      BY <2>1, Zenon DEF TakenOff
    <2>3. QED
      BY <2>2, <1>1
  <1>5. queue' \in [Lanes -> Seq(Entries)] /\ activeTaskIds' \in [Lanes -> SUBSET Entries]
    <2>1. \A l \in Lanes : /\ (IF l \in D THEN R[l] ELSE q[l]) \in Seq(Entries)
                           /\ active[l] \cup (IF l \in D THEN S[l] ELSE {}) \in SUBSET Entries
      BY <1>2
    <2>2. QED
      BY <2>1, <1>3
  <1>6. phase' \in [Entries -> Phases]
    BY <1>3 DEF Phases
  <1>7. taskGeneration' \in [Entries -> Nat]
    BY <1>3, <1>4
  <1>8. \A e \in Entries :
          \/ phase'[e] = ph[e] /\ taskGeneration'[e] = taskGeneration[e]
          \/ /\ ph[e] = "queued" /\ phase'[e] = "running"
             /\ taskGeneration'[e] = generation'[laneOf'[e]]
    BY <1>3, <1>4
  <1>9. \A l \in Lanes : active[l] \subseteq activeTaskIds'[l]
    BY <1>3
  <1>10. ActiveIsCurrent'
    <2> SUFFICES ASSUME NEW l \in Lanes, NEW e \in Entries
                 PROVE  e \in activeTaskIds'[l] <=>
                          phase'[e] = "running" /\ laneOf'[e] = l
                            /\ taskGeneration'[e] = generation'[l]
      BY <1>5, ZenonT(40) DEF ActiveIsCurrent
    <2>1. e \in active[l] <=> ph[e] = "running" /\ laneOf'[e] = l
                                /\ taskGeneration[e] = generation'[l]
      BY DEF ActiveOf
    <2>2. CASE \E k \in D : e \in S[k]
      <3>1. PICK k \in D : e \in S[k]
        BY <2>2
      <3>2. laneOf'[e] = k /\ ph[e] = "queued"
        BY <3>1, <1>4
      <3>3. phase'[e] = "running" /\ taskGeneration'[e] = generation'[k]
        BY <3>1, <3>2, <1>3
      <3>4. e \in activeTaskIds'[l] <=> l = k
        BY <3>1, <3>2, <1>3, <1>4, <2>1
      <3>5. QED
        BY <3>2, <3>3, <3>4
    <2>3. CASE ~ \E k \in D : e \in S[k]
      BY <2>1, <2>3, <1>3
    <2>4. QED
      BY <2>2, <2>3
  <1>11. QueuedExactlyOnce'
    <2>1. ASSUME NEW l \in Lanes, NEW i \in DOMAIN queue'[l]
          PROVE  /\ phase'[queue'[l][i]] = "queued" /\ laneOf'[queue'[l][i]] = l
                 /\ \A j \in DOMAIN queue'[l] : queue'[l][i] = queue'[l][j] => i = j
      <3>1. /\ \E k \in DOMAIN q[l] : queue'[l][i] = q[l][k]
            /\ \A j \in DOMAIN queue'[l] : queue'[l][i] = queue'[l][j] => i = j
            /\ l \in D => queue'[l][i] \notin S[l]
        <4>1. CASE l \in D
          <5>1. queue'[l] = R[l] /\ TakenOff(q[l], S[l], R[l])
            BY <4>1, <1>2, <1>3
          <5>2. /\ i \in DOMAIN R[l] /\ R[l][i] \notin S[l]
                /\ \E k \in DOMAIN q[l] : R[l][i] = q[l][k]
                /\ \A j \in DOMAIN R[l] : R[l][i] = R[l][j] => i = j
            BY <5>1, Zenon DEF TakenOff
          <5>3. QED
            BY <5>1, <5>2
        <4>2. CASE l \notin D
          <5>1. queue'[l] = q[l]
            BY <4>2, <1>3
          <5>2. QED
            BY <4>2, <5>1, <1>1
        <4>3. QED
          BY <4>1, <4>2
      <3>2. queue'[l][i] \in Entries /\ ph[queue'[l][i]] = "queued" /\ laneOf'[queue'[l][i]] = l
        BY <3>1, <1>1
      <3>3. ~ \E k \in D : queue'[l][i] \in S[k]
        BY <3>1, <3>2, <1>4
      <3>4. phase'[queue'[l][i]] = "queued"
        BY <3>2, <3>3, <1>3
      <3>5. QED
        BY <3>1, <3>2, <3>4
    <2>2. ASSUME NEW e \in Entries, phase'[e] = "queued"
          PROVE  \E l \in Lanes : \E i \in DOMAIN queue'[l] : queue'[l][i] = e
      <3>1. ph[e] = "queued" /\ ~ \E l \in D : e \in S[l]
        BY <2>2, <1>3
      <3>2. PICK l \in Lanes : \E i \in DOMAIN q[l] : q[l][i] = e
        BY <3>1 DEF QueuedOf
      <3>3. CASE l \in D
        <4>1. queue'[l] = R[l] /\ TakenOff(q[l], S[l], R[l])
          BY <3>3, <1>2, <1>3
        <4>2. e \in S[l] \/ \E i \in DOMAIN R[l] : R[l][i] = e
          <5>1. \A k \in DOMAIN q[l] : q[l][k] \in S[l] \/ \E i \in DOMAIN R[l] : R[l][i] = q[l][k]
            BY <4>1, Zenon DEF TakenOff
          <5>2. QED
            BY <3>2, <5>1
        <4>3. QED
          BY <3>1, <3>3, <4>1, <4>2
      <3>4. CASE l \notin D
        BY <3>2, <3>4, <1>3
      <3>5. QED
        BY <3>3, <3>4
    <2>3. QED
      BY <2>1, <2>2 DEF QueuedExactlyOnce
  <1>12. QueueOrdered'
    <2> SUFFICES ASSUME NEW l \in Lanes, NEW i \in DOMAIN queue'[l],
                        NEW j \in DOMAIN queue'[l], i < j
                 PROVE  Ahead(priority', queue'[l][i], queue'[l][j])
      BY DEF QueueOrdered, Ahead
    <2>1. CASE l \in D
      <3>1. queue'[l] = R[l] /\ TakenOff(q[l], S[l], R[l])
        BY <2>1, <1>2, <1>3
      <3>2. PICK k \in DOMAIN q[l], m \in DOMAIN q[l] :
                k < m /\ R[l][i] = q[l][k] /\ R[l][j] = q[l][m]
        <4>1. \A a, b \in DOMAIN R[l] : a < b =>
                 \E k, m \in DOMAIN q[l] : k < m /\ R[l][a] = q[l][k] /\ R[l][b] = q[l][m]
          BY <3>1, Zenon DEF TakenOff
        <4>2. QED
          BY <3>1, <4>1
      <3>3. Ahead(priority', q[l][k], q[l][m])
        BY <3>2 DEF OrderedOf
      <3>4. QED
        BY <3>1, <3>2, <3>3
    <2>2. CASE l \notin D
      BY <2>2, <1>3 DEF OrderedOf
    <2>3. QED
      BY <2>1, <2>2
  <1>13. NoStrandedWork'
    BY <1>2, <1>3 DEF NoStrandedWork
  <1>14. ASSUME NEW l \in Lanes, NEW e \in activeTaskIds'[l] \ active[l]
         PROVE  /\ Cardinality(activeTaskIds'[l]) <= maxConcurrent'[l]
                /\ \A i \in DOMAIN queue'[l] : Ahead(priority', e, queue'[l][i])
    <2>1. l \in D /\ e \in S[l] /\ queue'[l] = R[l] /\ activeTaskIds'[l] = active[l] \cup S[l]
      BY <1>3
    <2>2. Cardinality(activeTaskIds'[l]) <= maxConcurrent'[l]
      BY <2>1, <1>2
    <2>3. ASSUME NEW i \in DOMAIN R[l] PROVE Ahead(priority', e, R[l][i])
      <3>0. TakenOff(q[l], S[l], R[l])
        BY <1>2
      <3>1. PICK k \in DOMAIN q[l], m \in DOMAIN q[l] :
                k < m /\ e = q[l][k] /\ R[l][i] = q[l][m]
        BY <2>1, <3>0, ZenonT(40) DEF TakenOff
      <3>2. Ahead(priority', q[l][k], q[l][m])
        BY <3>1 DEF OrderedOf
      <3>3. QED
        BY <3>1, <3>2
    <2>4. QED
      BY <2>1, <2>2, <2>3
  <1>15. QED
    BY <1>5, <1>6, <1>7, <1>8, <1>9, <1>10, <1>11, <1>12, <1>13, <1>14

\* A queue in start order.
Sorted(q, prio) == \A i, j \in DOMAIN q : i < j => Ahead(prio, q[i], q[j])

\* r is q with e added somewhere.
AddedTo(q, e, r) ==
    /\ \E i \in DOMAIN r : r[i] = e
    /\ \A i \in DOMAIN r : r[i] = e \/ \E k \in DOMAIN q : r[i] = q[k]
    /\ \A k \in DOMAIN q : \E i \in DOMAIN r : r[i] = q[k]
    /\ \A i, j \in DOMAIN r : r[i] = r[j] => i = j

\* Start order is transitive and, between entries of different sequence number,
\* total.
LEMMA AheadOrder ==
    ASSUME NEW prio \in [Entries -> Priorities], NEW a \in Entries, NEW b \in Entries
    PROVE  /\ a # b => Ahead(prio, a, b) \/ Ahead(prio, b, a)
           /\ \A c \in Entries : Ahead(prio, a, b) /\ Ahead(prio, b, c) => Ahead(prio, a, c)
  <1>1. /\ prio[a] \in Int /\ prio[b] \in Int /\ a \in Int /\ b \in Int
        /\ \A c \in Entries : prio[c] \in Int /\ c \in Int
    BY DEF Priorities, Entries
  <1>2. QED
    BY <1>1 DEF Ahead

\* enqueueLaneEntry adds a new entry and keeps the start order.
LEMMA InsertKeeps ==
    ASSUME NEW q \in Seq(Entries), NEW prio \in [Entries -> Priorities], NEW e \in Entries,
           Sorted(q, prio),
           \A i, j \in DOMAIN q : q[i] = q[j] => i = j,
           \A i \in DOMAIN q : q[i] # e
    PROVE  /\ EnqueueLaneEntry(q, prio, e) \in Seq(Entries)
           /\ AddedTo(q, e, EnqueueLaneEntry(q, prio, e))
           /\ Sorted(EnqueueLaneEntry(q, prio, e), prio)
  <1> DEFINE r == EnqueueLaneEntry(q, prio, e)
             m == Len(q)
  <1>1. r \in Seq(Entries) /\ Len(r) = m + 1
    BY InsertTyped
  <1>2. PICK k \in 1..(m + 1) :
                /\ r[k] = e
                /\ \A i \in 1..(k - 1) : r[i] = q[i] /\ ~Ahead(prio, e, q[i])
                /\ \A i \in (k + 1)..(m + 1) : r[i] = q[i - 1]
                /\ k <= m => Ahead(prio, e, q[k])
    BY InsertTyped
  <1>3. m \in Nat /\ DOMAIN q = 1..m /\ \A i \in 1..m : q[i] \in Entries
    OBVIOUS
  <1>4. DOMAIN r = 1..(m + 1)
    BY <1>1
  <1> HIDE DEF r, m
  <1> DEFINE src == [i \in 1..(m + 1) |-> IF i < k THEN i ELSE i - 1]
  <1>5. ASSUME NEW i \in 1..(m + 1), i # k
        PROVE  src[i] \in 1..m /\ r[i] = q[src[i]] /\ (i < k <=> src[i] < k)
    <2>1. CASE i < k
      BY <2>1, <1>2, <1>3
    <2>2. CASE i > k
      BY <2>2, <1>2, <1>3
    <2>3. QED
      BY <2>1, <2>2, <1>2, <1>3, <1>5
  <1>6. ASSUME NEW i \in 1..(m + 1), NEW j \in 1..(m + 1), i # k, j # k
        PROVE  (src[i] = src[j] => i = j) /\ (i < j => src[i] < src[j])
    BY <1>2, <1>3, <1>6
  <1> HIDE DEF src
  <1>7. ASSUME NEW j \in 1..m PROVE \E i \in 1..(m + 1) : r[i] = q[j]
    <2>1. CASE j < k
      <3>1. j \in 1..(k - 1) /\ j \in 1..(m + 1)
        BY <2>1, <1>2, <1>3
      <3>2. QED
        BY <3>1, <1>2
    <2>2. CASE j >= k
      <3>1. j + 1 \in (k + 1)..(m + 1) /\ j + 1 \in 1..(m + 1) /\ (j + 1) - 1 = j
        BY <2>2, <1>2, <1>3
      <3>2. r[j + 1] = q[j]
        BY <3>1, <1>2
      <3>3. QED
        BY <3>1, <3>2
    <2>3. QED
      BY <2>1, <2>2, <1>2, <1>3
  <1>8. ASSUME NEW i \in 1..(m + 1), NEW j \in 1..(m + 1), r[i] = r[j] PROVE i = j
    <2>1. CASE i = k /\ j # k
      BY <2>1, <1>2, <1>3, <1>5, <1>8
    <2>2. CASE i # k /\ j = k
      BY <2>2, <1>2, <1>3, <1>5, <1>8
    <2>3. CASE i # k /\ j # k
      <3>1. src[i] \in DOMAIN q /\ src[j] \in DOMAIN q /\ q[src[i]] = q[src[j]]
        BY <2>3, <1>3, <1>5, <1>8
      <3>2. src[i] = src[j]
        BY <3>1
      <3>3. QED
        BY <2>3, <3>2, <1>6
    <2>4. QED
      BY <2>1, <2>2, <2>3
  <1>9. AddedTo(q, e, r)
    <2>1. \E i \in DOMAIN r : r[i] = e
      BY <1>2, <1>4
    <2>2. \A i \in DOMAIN r : r[i] = e \/ \E j \in DOMAIN q : r[i] = q[j]
      BY <1>2, <1>3, <1>4, <1>5
    <2>3. QED
      BY <2>1, <2>2, <1>3, <1>4, <1>7, <1>8 DEF AddedTo
  <1>10. ASSUME NEW i \in 1..(m + 1), NEW j \in 1..(m + 1), i < j
         PROVE  Ahead(prio, r[i], r[j])
    <2>1. CASE i # k /\ j # k
      <3>1. src[i] \in DOMAIN q /\ src[j] \in DOMAIN q /\ src[i] < src[j]
            /\ r[i] = q[src[i]] /\ r[j] = q[src[j]]
        BY <2>1, <1>3, <1>5, <1>6, <1>10
      <3>2. Ahead(prio, q[src[i]], q[src[j]])
        BY <3>1 DEF Sorted
      <3>3. QED
        BY <3>1, <3>2
    <2>2. CASE j = k
      <3>1. i \in 1..(k - 1) /\ i \in 1..m
        BY <2>2, <1>2, <1>3, <1>10
      <3>2. r[i] = q[i] /\ ~Ahead(prio, e, q[i]) /\ q[i] # e /\ q[i] \in Entries /\ r[j] = e
        BY <3>1, <2>2, <1>2, <1>3
      <3>3. QED
        BY <3>2, AheadOrder
    <2>3. CASE i = k
      <3>1. j - 1 \in 1..m /\ k <= m /\ k \in 1..m /\ j \in (k + 1)..(m + 1)
        BY <2>3, <1>2, <1>3, <1>10
      <3>2. r[i] = e /\ r[j] = q[j - 1] /\ Ahead(prio, e, q[k])
        BY <3>1, <2>3, <1>2
      <3>3. CASE j - 1 = k
        BY <3>2, <3>3
      <3>4. CASE j - 1 # k
        <4>1. k < j - 1
          BY <3>1, <3>4, <1>2, <1>3
        <4>2. Ahead(prio, q[k], q[j - 1])
          BY <3>1, <4>1, <1>3 DEF Sorted
        <4>3. q[k] \in Entries /\ q[j - 1] \in Entries
          BY <3>1, <1>3
        <4>4. QED
          BY <3>2, <4>2, <4>3, AheadOrder
      <3>5. QED
        BY <3>3, <3>4
    <2>4. QED
      BY <2>1, <2>2, <2>3
  <1>11. Sorted(r, prio)
    BY <1>4, <1>10 DEF Sorted
  <1>12. QED
    BY <1>1, <1>9, <1>11 DEF r

-----------------------------------------------------------------------------
(***************************************************************************)
(* The inductive invariant.  NoStrandedWork alone is not inductive: that   *)
(* the pump fills the lane exactly needs the queue to be duplicate-free    *)
(* and disjoint from the active set, and that a reset empties the active   *)
(* set needs the generations to be ordered.                                *)
(***************************************************************************)

LaneInv ==
    /\ TypeOK /\ EntriesConsistent
    /\ ActiveIsCurrent /\ QueuedExactlyOnce /\ QueueOrdered /\ NoStrandedWork

\* The invariants in the form PumpKeeps takes them.
LEMMA LaneInvForms ==
    LaneInv => /\ ActiveOf(activeTaskIds, phase, laneOf, taskGeneration, generation)
               /\ QueuedOf(queue, phase, laneOf)
               /\ OrderedOf(queue, priority)
  BY Zenon DEF LaneInv, ActiveIsCurrent, QueuedExactlyOnce, QueueOrdered,
               ActiveOf, QueuedOf, OrderedOf

\* The state of the waiters after Notify.
LEMMA NotifyTyped ==
    ASSUME waiter \in [Waiters -> WaiterStates], NEW active, Notify(active)
    PROVE  waiter' \in [Waiters -> WaiterStates]
  BY DEF Notify, WaiterStates

\* The initial state, with no lane and no entry, satisfies the lane invariant.
LEMMA InitLaneInv ==
    Init => LaneInv
  <1> SUFFICES ASSUME Init PROVE LaneInv
    OBVIOUS
  <1>1. TypeOK
    <2>0. <<>> \in Seq(Entries)
      OBVIOUS
    <2>a. gatewayDraining \in BOOLEAN /\ queue \in [Lanes -> Seq(Entries)]
      BY <2>0, Zenon DEF Init, InitSequence
    <2>1. /\ lanes \in SUBSET Lanes /\ activeTaskIds \in [Lanes -> SUBSET Entries]
          /\ maxConcurrent \in [Lanes -> Nat] /\ generation \in [Lanes -> Nat]
      BY DEF Init, InitSequence
    <2>2. nextQueueSequence \in 1..(MaxEntries + 1)
      BY QueueAssumption DEF Init, InitSequence
    <2>3. /\ laneOf \in [Entries -> Lanes \cup {NoLane}] /\ priority \in [Entries -> Priorities]
          /\ hasTimeout \in [Entries -> BOOLEAN] /\ taskGeneration \in [Entries -> Nat]
          /\ phase \in [Entries -> Phases] /\ progressed \in SUBSET Entries
      BY DEF Init, InitSequence, Priorities, Phases
    <2>4. /\ waiter \in [Waiters -> WaiterStates] /\ captured \in [Waiters -> SUBSET Entries]
          /\ waiterTimed \in [Waiters -> BOOLEAN]
      BY DEF Init, InitSequence, WaiterStates
    <2>5. QED
      BY <2>a, <2>1, <2>2, <2>3, <2>4 DEF TypeOK
  <1>2. EntriesConsistent
    BY DEF Init, InitSequence, EntriesConsistent, Entries
  <1>3. ActiveIsCurrent
    BY DEF Init, InitSequence, ActiveIsCurrent
  <1>4. \A l \in Lanes : queue[l] = <<>> /\ DOMAIN queue[l] = {}
    BY DEF Init, InitSequence
  <1>5. \A e \in Entries : phase[e] # "queued"
    BY DEF Init, InitSequence
  <1>6. QueuedExactlyOnce /\ QueueOrdered /\ NoStrandedWork
    BY <1>4, <1>5 DEF QueuedExactlyOnce, QueueOrdered, NoStrandedWork
  <1>7. QED
    BY <1>1, <1>2, <1>3, <1>6 DEF LaneInv

\* A step leaves the entries outside S alone, but for queued ones, which it may
\* start or clear.
Moved(S) ==
    \A x \in Entries \ S :
        phase'[x] = phase[x] \/ (phase[x] = "queued" /\ phase'[x] \in {"running", "cleared"})

\* A new entry is spliced into the queue of its lane, in start order.
LEMMA EnqueueStep ==
    ASSUME LaneInv, NEW l \in Lanes, NEW p \in Priorities, NEW timed \in BOOLEAN,
           EnqueueCommandInLane(l, p, timed)
    PROVE  /\ LaneInv' /\ StartsInOrder
           /\ \A k \in Lanes : activeTaskIds[k] \subseteq activeTaskIds'[k]
           /\ Moved({nextQueueSequence})
           /\ phase[nextQueueSequence] = "none"
           /\ phase'[nextQueueSequence] \in {"queued", "running"}
  <1> DEFINE e == nextQueueSequence
             prio == [priority EXCEPT ![e] = p]
             q == [queue EXCEPT ![l] = EnqueueLaneEntry(queue[l], prio, e)]
             ph == [phase EXCEPT ![e] = "queued"]
  <1>1. /\ e \in Entries /\ nextQueueSequence' = e + 1 /\ lanes' = lanes \cup {l}
        /\ laneOf' = [laneOf EXCEPT ![e] = l] /\ priority' = prio
        /\ hasTimeout' = [hasTimeout EXCEPT ![e] = timed]
        /\ maxConcurrent' = maxConcurrent /\ generation' = generation
        /\ Pump({l}, q, activeTaskIds, ph)
        /\ gatewayDraining' = gatewayDraining /\ progressed' = progressed
        /\ waiter' = waiter /\ captured' = captured /\ waiterTimed' = waiterTimed
    BY DEF EnqueueCommandInLane, LaneInv, TypeOK, Entries, waiterVars
  <1>2. p \in Priorities /\ TypeOK /\ EntriesConsistent
    BY DEF LaneInv
  <1>3. phase[e] = "none" /\ \A x \in Entries : x # e => (x < e + 1 <=> x < e)
    BY <1>1, <1>2 DEF EntriesConsistent, Entries
  <1>4. /\ prio \in [Entries -> Priorities] /\ ph \in [Entries -> Phases]
        /\ laneOf' \in [Entries -> Lanes \cup {NoLane}]
    BY <1>1, <1>2 DEF TypeOK, Phases
  <1>5. /\ \A x \in Entries : ph[x] = IF x = e THEN "queued" ELSE phase[x]
        /\ \A x \in Entries : laneOf'[x] = IF x = e THEN l ELSE laneOf[x]
        /\ \A x \in Entries : prio[x] = IF x = e THEN p ELSE priority[x]
    BY <1>1, <1>2 DEF TypeOK
  <1>6. ASSUME NEW k \in Lanes, NEW i \in DOMAIN queue[k]
        PROVE  queue[k][i] \in Entries /\ queue[k][i] # e /\ phase[queue[k][i]] = "queued"
               /\ laneOf[queue[k][i]] = k
    <2>1. queue[k] \in Seq(Entries)
      BY <1>2 DEF TypeOK
    <2>2. queue[k][i] \in Entries
      BY <2>1
    <2>3. phase[queue[k][i]] = "queued" /\ laneOf[queue[k][i]] = k
      BY DEF LaneInv, QueuedExactlyOnce
    <2>4. QED
      BY <2>2, <2>3, <1>3
  <1>7. \A k \in Lanes : Sorted(queue[k], prio)
    <2> SUFFICES ASSUME NEW k \in Lanes, NEW i \in DOMAIN queue[k], NEW j \in DOMAIN queue[k],
                        i < j
                 PROVE  Ahead(prio, queue[k][i], queue[k][j])
      BY DEF Sorted
    <2>1. Ahead(priority, queue[k][i], queue[k][j])
      BY DEF LaneInv, QueueOrdered
    <2>2. prio[queue[k][i]] = priority[queue[k][i]] /\ prio[queue[k][j]] = priority[queue[k][j]]
      BY <1>5, <1>6
    <2>3. QED
      BY <2>1, <2>2 DEF Ahead
  <1>8. \A k \in Lanes : \A i, j \in DOMAIN queue[k] : queue[k][i] = queue[k][j] => i = j
    BY Zenon DEF LaneInv, QueuedExactlyOnce
  <1> HIDE DEF e, prio, ph
  <1>9. /\ EnqueueLaneEntry(queue[l], prio, e) \in Seq(Entries)
        /\ AddedTo(queue[l], e, EnqueueLaneEntry(queue[l], prio, e))
        /\ Sorted(EnqueueLaneEntry(queue[l], prio, e), prio)
    <2>1. queue[l] \in Seq(Entries) /\ Sorted(queue[l], prio)
      BY <1>2, <1>7 DEF TypeOK
    <2>2. \A i, j \in DOMAIN queue[l] : queue[l][i] = queue[l][j] => i = j
      BY <1>8
    <2>3. \A i \in DOMAIN queue[l] : queue[l][i] # e
      BY <1>6
    <2>4. QED
      BY <2>1, <2>2, <2>3, <1>1, <1>4, InsertKeeps
  <1>10. /\ q \in [Lanes -> Seq(Entries)] /\ AddedTo(queue[l], e, q[l]) /\ Sorted(q[l], prio)
         /\ \A k \in Lanes : k # l => q[k] = queue[k]
    BY <1>2, <1>9 DEF TypeOK
  <1> HIDE DEF q
  <1>11. ActiveOf(activeTaskIds, ph, laneOf', taskGeneration, generation')
    <2> SUFFICES ASSUME NEW k \in Lanes, NEW x \in Entries
                 PROVE  x \in activeTaskIds[k] <=>
                          ph[x] = "running" /\ laneOf'[x] = k /\ taskGeneration[x] = generation[k]
      BY <1>1, <1>2 DEF ActiveOf, TypeOK
    <2>1. x \in activeTaskIds[k] <=>
            phase[x] = "running" /\ laneOf[x] = k /\ taskGeneration[x] = generation[k]
      BY DEF LaneInv, ActiveIsCurrent
    <2>2. QED
      BY <2>1, <1>3, <1>5
  <1>12. QueuedOf(q, ph, laneOf')
    <2>1. ASSUME NEW k \in Lanes, NEW i \in DOMAIN q[k]
          PROVE  /\ ph[q[k][i]] = "queued" /\ laneOf'[q[k][i]] = k
                 /\ \A j \in DOMAIN q[k] : q[k][i] = q[k][j] => i = j
      <3>1. CASE k = l
        <4>1. /\ q[l][i] = e \/ \E j \in DOMAIN queue[l] : q[l][i] = queue[l][j]
              /\ \A j \in DOMAIN q[l] : q[l][i] = q[l][j] => i = j
          BY <3>1, <1>10, Zenon DEF AddedTo
        <4>2. ph[q[l][i]] = "queued" /\ laneOf'[q[l][i]] = l
          BY <4>1, <1>1, <1>5, <1>6
        <4>3. QED
          BY <3>1, <4>1, <4>2
      <3>2. CASE k # l
        <4>1. q[k] = queue[k] /\ i \in DOMAIN queue[k]
          BY <3>2, <1>10
        <4>2. ph[queue[k][i]] = "queued" /\ laneOf'[queue[k][i]] = k
          BY <4>1, <1>5, <1>6
        <4>3. QED
          BY <4>1, <4>2, <1>8
      <3>3. QED
        BY <3>1, <3>2
    <2>2. ASSUME NEW x \in Entries, ph[x] = "queued"
          PROVE  \E k \in Lanes : \E i \in DOMAIN q[k] : q[k][i] = x
      <3>1. CASE x = e
        BY <3>1, <1>10 DEF AddedTo
      <3>2. CASE x # e
        <4>1. phase[x] = "queued"
          BY <2>2, <3>2, <1>5
        <4>2. PICK k \in Lanes : \E i \in DOMAIN queue[k] : queue[k][i] = x
          BY <4>1 DEF LaneInv, QueuedExactlyOnce
        <4>3. CASE k = l
          <5>1. \A i \in DOMAIN queue[l] : \E j \in DOMAIN q[l] : q[l][j] = queue[l][i]
            BY <1>10, Zenon DEF AddedTo
          <5>2. QED
            BY <4>2, <4>3, <5>1
        <4>4. CASE k # l
          BY <4>2, <4>4, <1>10
        <4>5. QED
          BY <4>3, <4>4
      <3>3. QED
        BY <3>1, <3>2
    <2>3. QED
      BY <2>1, <2>2 DEF QueuedOf
  <1>13. OrderedOf(q, priority')
    <2>1. \A k \in Lanes : Sorted(q[k], prio)
      BY <1>7, <1>10
    <2>2. QED
      BY <2>1, <1>1 DEF OrderedOf, Sorted
  <1>14. \A k \in Lanes \ {l} : q[k] # <<>> => Cardinality(activeTaskIds[k]) >= maxConcurrent'[k]
    BY <1>1, <1>10 DEF LaneInv, NoStrandedWork
  <1>15. /\ queue' \in [Lanes -> Seq(Entries)] /\ activeTaskIds' \in [Lanes -> SUBSET Entries]
         /\ phase' \in [Entries -> Phases] /\ taskGeneration' \in [Entries -> Nat]
         /\ ActiveIsCurrent' /\ QueuedExactlyOnce' /\ QueueOrdered' /\ NoStrandedWork'
         /\ \A k \in Lanes : activeTaskIds[k] \subseteq activeTaskIds'[k]
         /\ \A x \in Entries :
              \/ phase'[x] = ph[x] /\ taskGeneration'[x] = taskGeneration[x]
              \/ /\ ph[x] = "queued" /\ phase'[x] = "running"
                 /\ taskGeneration'[x] = generation'[laneOf'[x]]
         /\ \A k \in Lanes : \A x \in activeTaskIds'[k] \ activeTaskIds[k] :
              /\ Cardinality(activeTaskIds'[k]) <= maxConcurrent'[k]
              /\ \A i \in DOMAIN queue'[k] : Ahead(priority', x, queue'[k][i])
    <2>1. /\ activeTaskIds \in [Lanes -> SUBSET Entries] /\ maxConcurrent' \in [Lanes -> Nat]
          /\ generation' \in [Lanes -> Nat] /\ taskGeneration \in [Entries -> Nat]
      BY <1>1, <1>2 DEF TypeOK
    <2>2. {l} \in SUBSET Lanes
      OBVIOUS
    <2>3. QED
      BY <2>1, <2>2, <1>1, <1>4, <1>10, <1>11, <1>12, <1>13, <1>14, PumpKeeps
  <1>16. TypeOK'
    <2>1. nextQueueSequence' \in 1..(MaxEntries + 1) /\ lanes' \in SUBSET Lanes
      BY <1>1, <1>2, QueueAssumption DEF TypeOK, Entries
    <2>2. hasTimeout' \in [Entries -> BOOLEAN]
      BY <1>1, <1>2 DEF TypeOK
    <2>3. QED
      BY <2>1, <2>2, <1>1, <1>2, <1>4, <1>15 DEF TypeOK
  <1>17. EntriesConsistent'
    <2> SUFFICES ASSUME NEW x \in Entries
                 PROVE  IF x < e + 1
                        THEN /\ phase'[x] # "none" /\ laneOf'[x] \in Lanes
                             /\ taskGeneration'[x] <= generation'[laneOf'[x]]
                        ELSE phase'[x] = "none" /\ taskGeneration'[x] = 0
      BY <1>1 DEF EntriesConsistent
    <2>0. e \in Int /\ x \in Int /\ generation \in [Lanes -> Nat]
      BY <1>1, <1>2 DEF Entries, TypeOK
    <2>a. IF x < e
          THEN /\ phase[x] # "none" /\ laneOf[x] \in Lanes
               /\ taskGeneration[x] <= generation[laneOf[x]]
          ELSE phase[x] = "none" /\ taskGeneration[x] = 0
      BY <1>2 DEF EntriesConsistent, e
    <2>b. \/ phase'[x] = ph[x] /\ taskGeneration'[x] = taskGeneration[x]
          \/ /\ ph[x] = "queued" /\ phase'[x] = "running"
             /\ taskGeneration'[x] = generation'[laneOf'[x]]
      BY <1>15
    <2>1. CASE x = e
      <3>1. laneOf'[x] = l /\ ph[x] = "queued" /\ taskGeneration[x] = 0 /\ x < e + 1
        BY <2>0, <2>1, <2>a, <1>5
      <3>2. generation'[l] \in Nat
        BY <2>0, <1>1
      <3>3. QED
        BY <3>1, <3>2, <2>b
    <2>2. CASE x # e
      <3>1. laneOf'[x] = laneOf[x] /\ ph[x] = phase[x] /\ (x < e + 1 <=> x < e)
        BY <2>0, <2>2, <1>5
      <3>2. QED
        BY <3>1, <2>0, <2>a, <2>b, <1>1
    <2>3. QED
      BY <2>1, <2>2
  <1>18. StartsInOrder
    BY <1>15 DEF StartsInOrder
  <1>19. Moved({e}) /\ phase'[e] \in {"queued", "running"}
    <2>1. ASSUME NEW x \in Entries \ {e}
          PROVE  phase'[x] = phase[x] \/ (phase[x] = "queued" /\ phase'[x] = "running")
      BY <1>5, <1>15
    <2>2. phase'[e] \in {"queued", "running"}
      BY <1>1, <1>5, <1>15
    <2>3. QED
      BY <2>1, <2>2 DEF Moved
  <1>20. QED
    BY <1>3, <1>15, <1>16, <1>17, <1>18, <1>19 DEF LaneInv, e

\* What a pump adds to an active set was queued.
Refilled(before, after) ==
    before \subseteq after /\ \A x \in after \ before : phase[x] = "queued"

\* A settled or timed-out task of the current generation frees its slot, once,
\* and the lane is pumped; one of an earlier generation changes no lane.
LEMMA ReleaseStep ==
    ASSUME LaneInv, NEW e \in Entries, NEW next \in Phases \ {"none", "queued", "running"},
           phase[e] = "running", ReleaseSlot(e, next)
    PROVE  /\ LaneInv' /\ StartsInOrder
           /\ \/ UNCHANGED <<activeTaskIds, waiter>>
              \/ \E freed \in [Lanes -> SUBSET Entries] :
                    Notify(freed) /\ \A k \in Lanes : Refilled(freed[k], activeTaskIds'[k])
           /\ captured' = captured
           /\ Moved({e}) /\ phase'[e] = next
  <1> DEFINE l == laneOf[e]
             ph == [phase EXCEPT ![e] = next]
             freed == [activeTaskIds EXCEPT ![l] = activeTaskIds[l] \ {e}]
  <1>1. TypeOK /\ EntriesConsistent
    BY DEF LaneInv
  <1>2. l \in Lanes
    BY <1>1 DEF EntriesConsistent
  <1>3. /\ lanes' = lanes /\ maxConcurrent' = maxConcurrent /\ generation' = generation
        /\ laneOf' = laneOf /\ priority' = priority /\ hasTimeout' = hasTimeout
        /\ nextQueueSequence' = nextQueueSequence /\ gatewayDraining' = gatewayDraining
        /\ progressed' = progressed \ {e} /\ captured' = captured /\ waiterTimed' = waiterTimed
    BY DEF ReleaseSlot, entryVars
  <1>4. ph \in [Entries -> Phases] /\ freed \in [Lanes -> SUBSET Entries]
    BY <1>1 DEF TypeOK
  <1>5. /\ \A x \in Entries : ph[x] = IF x = e THEN next ELSE phase[x]
        /\ \A k \in Lanes : freed[k] = IF k = l THEN activeTaskIds[k] \ {e} ELSE activeTaskIds[k]
    BY <1>1 DEF TypeOK
  <1>6. QueuedOf(queue, ph, laneOf)
    <2>1. QueuedOf(queue, phase, laneOf)
      BY LaneInvForms
    <2>2. \A x \in Entries : ph[x] = "queued" <=> phase[x] = "queued"
      BY <1>5
    <2>3. \A k \in Lanes : \A i \in DOMAIN queue[k] : queue[k][i] \in Entries
      <3>1. \A k \in Lanes : queue[k] \in Seq(Entries)
        BY <1>1 DEF TypeOK
      <3>2. QED
        BY <3>1
    <2> HIDE DEF ph
    <2>4. QED
      BY <2>1, <2>2, <2>3 DEF QueuedOf
  <1>7. OrderedOf(queue, priority')
    BY <1>3, LaneInvForms
  <1>8. \A k \in Lanes, x \in Entries : x \in activeTaskIds[k] <=>
            phase[x] = "running" /\ laneOf[x] = k /\ taskGeneration[x] = generation[k]
    BY DEF LaneInv, ActiveIsCurrent
  <1>9. progressed' \in SUBSET Entries
    BY <1>1, <1>3 DEF TypeOK
  <1>10. CASE taskGeneration[e] = generation[l]
    <2>1. Notify(freed) /\ Pump({l}, queue, freed, ph)
      BY <1>10 DEF ReleaseSlot
    <2> HIDE DEF ph, freed
    <2>2. ActiveOf(freed, ph, laneOf', taskGeneration, generation')
      <3> SUFFICES ASSUME NEW k \in Lanes, NEW x \in Entries
                   PROVE  x \in freed[k] <=>
                            ph[x] = "running" /\ laneOf[x] = k /\ taskGeneration[x] = generation[k]
        BY <1>3, <1>4 DEF ActiveOf
      <3>1. freed[k] = IF k = l THEN activeTaskIds[k] \ {e} ELSE activeTaskIds[k]
        BY <1>5
      <3>2. x \in freed[k] <=> x \in activeTaskIds[k] /\ ~(k = l /\ x = e)
        BY <3>1
      <3>3. ph[x] = IF x = e THEN next ELSE phase[x]
        BY <1>5
      <3>4. x \in activeTaskIds[k] <=>
               phase[x] = "running" /\ laneOf[x] = k /\ taskGeneration[x] = generation[k]
        BY <1>8
      <3>5. QED
        BY <3>2, <3>3, <3>4
    <2>3. \A k \in Lanes \ {l} : queue[k] # <<>> => Cardinality(freed[k]) >= maxConcurrent'[k]
      BY <1>3, <1>5 DEF LaneInv, NoStrandedWork
    <2>4. /\ queue' \in [Lanes -> Seq(Entries)] /\ activeTaskIds' \in [Lanes -> SUBSET Entries]
          /\ phase' \in [Entries -> Phases] /\ taskGeneration' \in [Entries -> Nat]
          /\ ActiveIsCurrent' /\ QueuedExactlyOnce' /\ QueueOrdered' /\ NoStrandedWork'
          /\ \A k \in Lanes : freed[k] \subseteq activeTaskIds'[k]
          /\ \A x \in Entries :
               \/ phase'[x] = ph[x] /\ taskGeneration'[x] = taskGeneration[x]
               \/ /\ ph[x] = "queued" /\ phase'[x] = "running"
                  /\ taskGeneration'[x] = generation'[laneOf'[x]]
          /\ \A k \in Lanes : \A x \in activeTaskIds'[k] \ freed[k] :
               /\ Cardinality(activeTaskIds'[k]) <= maxConcurrent'[k]
               /\ \A i \in DOMAIN queue'[k] : Ahead(priority', x, queue'[k][i])
      <3>1. /\ queue \in [Lanes -> Seq(Entries)] /\ maxConcurrent' \in [Lanes -> Nat]
            /\ generation' \in [Lanes -> Nat] /\ taskGeneration \in [Entries -> Nat]
            /\ laneOf' \in [Entries -> Lanes \cup {NoLane}]
        BY <1>1, <1>3 DEF TypeOK
      <3>2. {l} \in SUBSET Lanes /\ QueuedOf(queue, ph, laneOf')
        BY <1>2, <1>3, <1>6
      <3>3. QED
        BY <2>1, <2>2, <2>3, <3>1, <3>2, <1>4, <1>7, PumpKeeps
    <2>5. TypeOK'
      <3>1. waiter' \in [Waiters -> WaiterStates]
        BY <2>1, <1>1, NotifyTyped DEF TypeOK
      <3>2. QED
        BY <2>4, <3>1, <1>1, <1>3, <1>9 DEF TypeOK
    <2>6. EntriesConsistent'
      <3> SUFFICES ASSUME NEW x \in Entries
                   PROVE  IF x < nextQueueSequence
                          THEN /\ phase'[x] # "none" /\ laneOf[x] \in Lanes
                               /\ taskGeneration'[x] <= generation[laneOf[x]]
                          ELSE phase'[x] = "none" /\ taskGeneration'[x] = 0
        BY <1>3 DEF EntriesConsistent
      <3>1. IF x < nextQueueSequence
            THEN /\ phase[x] # "none" /\ laneOf[x] \in Lanes
                 /\ taskGeneration[x] <= generation[laneOf[x]]
            ELSE phase[x] = "none" /\ taskGeneration[x] = 0
        BY <1>1 DEF EntriesConsistent
      <3>2. ph[x] = "none" <=> phase[x] = "none"
        BY <1>5
      <3>3. \/ phase'[x] = ph[x] /\ taskGeneration'[x] = taskGeneration[x]
            \/ /\ ph[x] = "queued" /\ phase'[x] = "running"
               /\ taskGeneration'[x] = generation[laneOf[x]]
        BY <2>4, <1>3
      <3>4. \A k \in Lanes : generation[k] \in Nat
        BY <1>1 DEF TypeOK
      <3>5. QED
        BY <3>1, <3>2, <3>3, <3>4
    <2>7. StartsInOrder
      <3>1. \A k \in Lanes : freed[k] \subseteq activeTaskIds[k]
        BY <1>5
      <3>2. QED
        BY <2>4, <3>1 DEF StartsInOrder
    <2>8. Moved({e}) /\ phase'[e] = next
      BY <2>4, <1>5 DEF Moved
    <2>9. ASSUME NEW k \in Lanes PROVE Refilled(freed[k], activeTaskIds'[k])
      <3>1. ASSUME NEW x \in activeTaskIds'[k], x \notin freed[k] PROVE phase[x] = "queued"
        <4>1. x \in Entries
          BY <2>4
        <4>2. phase'[x] = "running" /\ laneOf'[x] = k /\ taskGeneration'[x] = generation'[k]
          BY <2>4, <3>1, <4>1 DEF ActiveIsCurrent
        <4>3. ~(ph[x] = "running" /\ laneOf'[x] = k /\ taskGeneration[x] = generation'[k])
          BY <2>2, <3>1, <4>1 DEF ActiveOf
        <4>4. ph[x] = "queued"
          BY <2>4, <4>1, <4>2, <4>3
        <4>5. QED
          BY <4>1, <4>4, <1>5
      <3>2. QED
        BY <3>1, <2>4 DEF Refilled
    <2>10. QED
      BY <2>1, <2>4, <2>5, <2>6, <2>7, <2>8, <2>9, <1>3, <1>4 DEF LaneInv
  <1>11. CASE taskGeneration[e] # generation[l]
    <2>1. /\ phase' = ph /\ queue' = queue /\ activeTaskIds' = activeTaskIds
          /\ taskGeneration' = taskGeneration /\ waiter' = waiter
      BY <1>11 DEF ReleaseSlot
    <2> HIDE DEF ph
    <2>2. TypeOK'
      BY <2>1, <1>1, <1>3, <1>4, <1>9 DEF TypeOK
    <2>3. EntriesConsistent'
      <3>1. \A x \in Entries : ph[x] = "none" <=> phase[x] = "none"
        BY <1>5
      <3>2. QED
        BY <2>1, <3>1, <1>1, <1>3 DEF EntriesConsistent
    <2>4. ActiveIsCurrent'
      <3> SUFFICES ASSUME NEW k \in Lanes, NEW x \in Entries
                   PROVE  x \in activeTaskIds[k] <=>
                            ph[x] = "running" /\ laneOf[x] = k /\ taskGeneration[x] = generation[k]
        BY <2>1, <1>1, <1>3 DEF ActiveIsCurrent, TypeOK
      <3>1. CASE x = e
        BY <3>1, <1>5, <1>8, <1>11
      <3>2. CASE x # e
        BY <3>2, <1>5, <1>8
      <3>3. QED
        BY <3>1, <3>2
    <2>5. QueuedExactlyOnce'
      BY <2>1, <1>3, <1>6 DEF QueuedOf, QueuedExactlyOnce
    <2>6. QueueOrdered' /\ NoStrandedWork'
      BY <2>1, <1>3 DEF LaneInv, QueueOrdered, NoStrandedWork, Ahead
    <2>7. StartsInOrder
      BY <2>1 DEF StartsInOrder
    <2>8. Moved({e}) /\ phase'[e] = next
      BY <2>1, <1>5 DEF Moved
    <2>9. QED
      BY <2>1, <2>2, <2>3, <2>4, <2>5, <2>6, <2>7, <2>8, <1>3 DEF LaneInv
  <1>12. QED
    BY <1>10, <1>11

\* A pump that follows no change of the entries themselves keeps them consistent;
\* lane generations may only have grown.
LEMMA PumpedEntries ==
    ASSUME EntriesConsistent, laneOf' = laneOf, nextQueueSequence' = nextQueueSequence,
           generation \in [Lanes -> Nat], generation' \in [Lanes -> Nat],
           taskGeneration \in [Entries -> Nat],
           \A l \in Lanes : generation[l] <= generation'[l],
           \A x \in Entries :
              \/ phase'[x] = phase[x] /\ taskGeneration'[x] = taskGeneration[x]
              \/ /\ phase[x] = "queued" /\ phase'[x] = "running"
                 /\ taskGeneration'[x] = generation'[laneOf'[x]]
    PROVE  EntriesConsistent'
  <1> SUFFICES ASSUME NEW x \in Entries
               PROVE  IF x < nextQueueSequence
                      THEN /\ phase'[x] # "none" /\ laneOf[x] \in Lanes
                           /\ taskGeneration'[x] <= generation'[laneOf[x]]
                      ELSE phase'[x] = "none" /\ taskGeneration'[x] = 0
    BY DEF EntriesConsistent
  <1>1. IF x < nextQueueSequence
        THEN /\ phase[x] # "none" /\ laneOf[x] \in Lanes
             /\ taskGeneration[x] <= generation[laneOf[x]]
        ELSE phase[x] = "none" /\ taskGeneration[x] = 0
    BY DEF EntriesConsistent
  <1>2. \/ phase'[x] = phase[x] /\ taskGeneration'[x] = taskGeneration[x]
        \/ /\ phase[x] = "queued" /\ phase'[x] = "running"
           /\ taskGeneration'[x] = generation'[laneOf[x]]
    OBVIOUS
  <1>3. laneOf[x] \in Lanes => /\ generation[laneOf[x]] \in Nat /\ generation'[laneOf[x]] \in Nat
                               /\ generation[laneOf[x]] <= generation'[laneOf[x]]
    OBVIOUS
  <1>4. taskGeneration[x] \in Nat
    OBVIOUS
  <1>5. QED
    BY <1>1, <1>2, <1>3, <1>4

\* A concurrency change pumps the lane unless it pauses it.
LEMMA SetConcurrencyStep ==
    ASSUME LaneInv, NEW l \in Lanes, NEW n \in Nat, SetCommandLaneConcurrency(l, n)
    PROVE  /\ LaneInv' /\ StartsInOrder /\ Moved({})
           /\ \A k \in Lanes : activeTaskIds[k] \subseteq activeTaskIds'[k]
  <1> DEFINE cap == IF l \in ProbeLanes /\ n < 1 THEN 1 ELSE n
             D == IF cap > 0 THEN {l} ELSE {}
  <1>1. /\ lanes' = lanes \cup {l} /\ maxConcurrent' = [maxConcurrent EXCEPT ![l] = cap]
        /\ generation' = generation /\ laneOf' = laneOf
        /\ Pump(D, queue, activeTaskIds, phase)
        /\ gatewayDraining' = gatewayDraining /\ priority' = priority
        /\ hasTimeout' = hasTimeout /\ nextQueueSequence' = nextQueueSequence
        /\ progressed' = progressed
        /\ waiter' = waiter /\ captured' = captured /\ waiterTimed' = waiterTimed
    BY DEF SetCommandLaneConcurrency, waiterVars
  <1>2. TypeOK /\ EntriesConsistent
    BY DEF LaneInv
  <1>3. cap \in Nat /\ D \in SUBSET Lanes
    BY QueueAssumption
  <1>4. cap > 0 \/ cap = 0
    BY <1>3
  <1>a. l \in D \/ cap = 0
    BY <1>4
  <1> HIDE DEF cap, D
  <1>5. /\ maxConcurrent' \in [Lanes -> Nat] /\ maxConcurrent'[l] = cap
        /\ \A k \in Lanes : k # l => maxConcurrent'[k] = maxConcurrent[k]
    BY <1>1, <1>2, <1>3 DEF TypeOK
  <1>6. ASSUME NEW k \in Lanes \ D, queue[k] # <<>>
        PROVE  Cardinality(activeTaskIds[k]) >= maxConcurrent'[k]
    <2>1. CASE k = l
      <3>1. Cardinality(activeTaskIds[k]) \in Nat
        BY <1>2, EntriesFinite DEF TypeOK
      <3>2. QED
        BY <2>1, <3>1, <1>a, <1>5
    <2>2. CASE k # l
      BY <2>2, <1>5, <1>6 DEF LaneInv, NoStrandedWork
    <2>3. QED
      BY <2>1, <2>2
  <1>7. /\ ActiveOf(activeTaskIds, phase, laneOf', taskGeneration, generation')
        /\ QueuedOf(queue, phase, laneOf') /\ OrderedOf(queue, priority')
    BY <1>1, LaneInvForms
  <1>8. /\ queue' \in [Lanes -> Seq(Entries)] /\ activeTaskIds' \in [Lanes -> SUBSET Entries]
        /\ phase' \in [Entries -> Phases] /\ taskGeneration' \in [Entries -> Nat]
        /\ ActiveIsCurrent' /\ QueuedExactlyOnce' /\ QueueOrdered' /\ NoStrandedWork'
        /\ \A k \in Lanes : activeTaskIds[k] \subseteq activeTaskIds'[k]
        /\ \A x \in Entries :
             \/ phase'[x] = phase[x] /\ taskGeneration'[x] = taskGeneration[x]
             \/ /\ phase[x] = "queued" /\ phase'[x] = "running"
                /\ taskGeneration'[x] = generation'[laneOf'[x]]
        /\ \A k \in Lanes : \A x \in activeTaskIds'[k] \ activeTaskIds[k] :
             /\ Cardinality(activeTaskIds'[k]) <= maxConcurrent'[k]
             /\ \A i \in DOMAIN queue'[k] : Ahead(priority', x, queue'[k][i])
    <2>1. /\ queue \in [Lanes -> Seq(Entries)] /\ activeTaskIds \in [Lanes -> SUBSET Entries]
          /\ phase \in [Entries -> Phases] /\ generation' \in [Lanes -> Nat]
          /\ taskGeneration \in [Entries -> Nat]
          /\ laneOf' \in [Entries -> Lanes \cup {NoLane}]
      BY <1>1, <1>2 DEF TypeOK
    <2>2. QED
      BY <2>1, <1>1, <1>3, <1>5, <1>6, <1>7, PumpKeeps
  <1>9. TypeOK'
    BY <1>1, <1>2, <1>5, <1>8 DEF TypeOK
  <1>10. EntriesConsistent'
    BY <1>1, <1>2, <1>8, PumpedEntries DEF TypeOK
  <1>11. StartsInOrder /\ Moved({})
    BY <1>8 DEF StartsInOrder, Moved
  <1>12. QED
    BY <1>8, <1>9, <1>10, <1>11 DEF LaneInv

\* Clearing a lane empties its queue and settles every entry that was in it.
LEMMA ClearStep ==
    ASSUME LaneInv, NEW l \in Lanes, ClearCommandLane(l)
    PROVE  LaneInv' /\ StartsInOrder /\ activeTaskIds' = activeTaskIds /\ Moved({})
  <1>1. /\ queue' = [queue EXCEPT ![l] = <<>>]
        /\ phase' = [e \in Entries |->
              IF \E i \in DOMAIN queue[l] : queue[l][i] = e THEN "cleared" ELSE phase[e]]
        /\ gatewayDraining' = gatewayDraining /\ lanes' = lanes
        /\ activeTaskIds' = activeTaskIds /\ maxConcurrent' = maxConcurrent
        /\ generation' = generation /\ laneOf' = laneOf /\ priority' = priority
        /\ hasTimeout' = hasTimeout /\ nextQueueSequence' = nextQueueSequence
        /\ taskGeneration' = taskGeneration /\ progressed' = progressed
        /\ waiter' = waiter /\ captured' = captured /\ waiterTimed' = waiterTimed
    BY DEF ClearCommandLane, entryVars, waiterVars
  <1>2. TypeOK /\ EntriesConsistent
    BY DEF LaneInv
  <1>3. /\ queue' \in [Lanes -> Seq(Entries)] /\ queue'[l] = <<>> /\ DOMAIN queue'[l] = {}
        /\ \A k \in Lanes : k # l => queue'[k] = queue[k]
    <2>1. queue \in [Lanes -> Seq(Entries)] /\ <<>> \in Seq(Entries) /\ DOMAIN <<>> = {}
      BY <1>2 DEF TypeOK
    <2>2. QED
      BY <2>1, <1>1
  <1>4. phase' \in [Entries -> Phases]
    BY <1>1, <1>2 DEF TypeOK, Phases
  <1>5. \A k \in Lanes : \A i \in DOMAIN queue[k] :
           /\ queue[k][i] \in Entries /\ phase[queue[k][i]] = "queued" /\ laneOf[queue[k][i]] = k
           /\ \A j \in DOMAIN queue[k] : queue[k][i] = queue[k][j] => i = j
    <2>1. \A k \in Lanes : queue[k] \in Seq(Entries)
      BY <1>2 DEF TypeOK
    <2>2. \A k \in Lanes : \A i \in DOMAIN queue[k] : queue[k][i] \in Entries
      BY <2>1
    <2>3. QED
      BY <2>2, Zenon DEF LaneInv, QueuedExactlyOnce
  <1>6. \A x \in Entries : \/ phase'[x] = phase[x]
                           \/ phase[x] = "queued" /\ phase'[x] = "cleared"
    BY <1>1, <1>5
  <1>7. TypeOK'
    BY <1>1, <1>2, <1>3, <1>4 DEF TypeOK
  <1>8. EntriesConsistent'
    BY <1>1, <1>2, <1>6 DEF EntriesConsistent
  <1>9. ActiveIsCurrent'
    <2> SUFFICES ASSUME NEW k \in Lanes, NEW x \in Entries
                 PROVE  x \in activeTaskIds[k] <=>
                          phase'[x] = "running" /\ laneOf[x] = k /\ taskGeneration[x] = generation[k]
      BY <1>1, <1>2 DEF ActiveIsCurrent, TypeOK
    <2>1. x \in activeTaskIds[k] <=>
            phase[x] = "running" /\ laneOf[x] = k /\ taskGeneration[x] = generation[k]
      BY DEF LaneInv, ActiveIsCurrent
    <2>2. QED
      BY <2>1, <1>6
  <1>10. QueuedExactlyOnce'
    <2>1. ASSUME NEW k \in Lanes, NEW i \in DOMAIN queue'[k]
          PROVE  /\ phase'[queue'[k][i]] = "queued" /\ laneOf'[queue'[k][i]] = k
                 /\ \A j \in DOMAIN queue'[k] : queue'[k][i] = queue'[k][j] => i = j
      <3>1. k # l /\ queue'[k] = queue[k]
        BY <1>3
      <3>2. ~ \E j \in DOMAIN queue[l] : queue[l][j] = queue[k][i]
        BY <3>1, <1>5
      <3>3. phase'[queue[k][i]] = "queued"
        BY <3>1, <3>2, <1>1, <1>5
      <3>4. QED
        BY <3>1, <3>3, <1>1, <1>5
    <2>2. ASSUME NEW x \in Entries, phase'[x] = "queued"
          PROVE  \E k \in Lanes : \E i \in DOMAIN queue'[k] : queue'[k][i] = x
      <3>1. phase[x] = "queued" /\ ~ \E i \in DOMAIN queue[l] : queue[l][i] = x
        BY <2>2, <1>1
      <3>2. PICK k \in Lanes : \E i \in DOMAIN queue[k] : queue[k][i] = x
        BY <3>1 DEF LaneInv, QueuedExactlyOnce
      <3>3. QED
        BY <3>1, <3>2, <1>3
    <2>3. QED
      BY <2>1, <2>2 DEF QueuedExactlyOnce
  <1>11. QueueOrdered'
    <2> SUFFICES ASSUME NEW k \in Lanes, NEW i \in DOMAIN queue'[k], NEW j \in DOMAIN queue'[k],
                        i < j
                 PROVE  Ahead(priority', queue'[k][i], queue'[k][j])
      BY DEF QueueOrdered, Ahead
    <2>1. queue'[k] = queue[k]
      BY <1>3
    <2>2. QED
      BY <2>1, <1>1 DEF LaneInv, QueueOrdered
  <1>12. NoStrandedWork'
    BY <1>1, <1>3 DEF LaneInv, NoStrandedWork
  <1>13. StartsInOrder
    BY <1>1 DEF StartsInOrder
  <1>14. Moved({})
    BY <1>6 DEF Moved
  <1>15. QED
    BY <1>1, <1>7, <1>8, <1>9, <1>10, <1>11, <1>12, <1>13, <1>14 DEF LaneInv

\* A reset makes every running task of the lanes stale, so their active sets
\* start empty in the new generation.
LEMMA ResetStep ==
    ASSUME LaneInv, NEW D \in SUBSET Lanes, ResetLanes(D), gatewayDraining' \in BOOLEAN
    PROVE  /\ LaneInv' /\ StartsInOrder /\ Notify(activeTaskIds') /\ captured' = captured
           /\ Moved({})
  <1> DEFINE idle == [l \in Lanes |-> IF l \in D THEN {} ELSE activeTaskIds[l]]
  <1>1. /\ generation' = [l \in Lanes |-> IF l \in D THEN generation[l] + 1 ELSE generation[l]]
        /\ lanes' = lanes /\ maxConcurrent' = maxConcurrent /\ laneOf' = laneOf
        /\ priority' = priority /\ hasTimeout' = hasTimeout
        /\ nextQueueSequence' = nextQueueSequence /\ progressed' = progressed
        /\ captured' = captured /\ waiterTimed' = waiterTimed
        /\ Pump(D, queue, idle, phase) /\ Notify(activeTaskIds')
    BY DEF ResetLanes, entryVars
  <1>2. TypeOK /\ EntriesConsistent
    BY DEF LaneInv
  <1>3. /\ idle \in [Lanes -> SUBSET Entries]
        /\ \A k \in Lanes \ D : idle[k] = activeTaskIds[k]
        /\ \A k \in Lanes : idle[k] \subseteq activeTaskIds[k]
    BY <1>2 DEF TypeOK
  <1>4. /\ generation' \in [Lanes -> Nat]
        /\ \A k \in Lanes : generation[k] \in Nat /\ generation[k] <= generation'[k]
        /\ \A k \in D : generation[k] < generation'[k]
        /\ \A k \in Lanes \ D : generation'[k] = generation[k]
    BY <1>1, <1>2 DEF TypeOK
  <1>5. ActiveOf(idle, phase, laneOf', taskGeneration, generation')
    <2> SUFFICES ASSUME NEW k \in Lanes, NEW x \in Entries
                 PROVE  x \in idle[k] <=>
                          phase[x] = "running" /\ laneOf[x] = k /\ taskGeneration[x] = generation'[k]
      BY <1>1, <1>3 DEF ActiveOf
    <2>1. CASE k \in D
      <3>1. x \notin idle[k]
        BY <2>1
      <3>2. phase[x] = "running" /\ laneOf[x] = k => taskGeneration[x] <= generation[k]
        BY <1>2 DEF EntriesConsistent
      <3>3. taskGeneration[x] \in Nat /\ generation[k] \in Nat /\ generation'[k] \in Nat
            /\ generation[k] < generation'[k]
        BY <2>1, <1>2, <1>4 DEF TypeOK
      <3>4. QED
        BY <3>1, <3>2, <3>3
    <2>2. CASE k \notin D
      <3>1. x \in activeTaskIds[k] <=>
              phase[x] = "running" /\ laneOf[x] = k /\ taskGeneration[x] = generation[k]
        BY DEF LaneInv, ActiveIsCurrent
      <3>2. idle[k] = activeTaskIds[k] /\ generation'[k] = generation[k]
        BY <2>2, <1>4
      <3>3. QED
        BY <3>1, <3>2
    <2>3. QED
      BY <2>1, <2>2
  <1> HIDE DEF idle
  <1>6. QueuedOf(queue, phase, laneOf') /\ OrderedOf(queue, priority')
    BY <1>1, LaneInvForms
  <1>7. \A k \in Lanes \ D : queue[k] # <<>> => Cardinality(idle[k]) >= maxConcurrent'[k]
    BY <1>1, <1>3 DEF LaneInv, NoStrandedWork
  <1>8. /\ queue' \in [Lanes -> Seq(Entries)] /\ activeTaskIds' \in [Lanes -> SUBSET Entries]
        /\ phase' \in [Entries -> Phases] /\ taskGeneration' \in [Entries -> Nat]
        /\ ActiveIsCurrent' /\ QueuedExactlyOnce' /\ QueueOrdered' /\ NoStrandedWork'
        /\ \A x \in Entries :
             \/ phase'[x] = phase[x] /\ taskGeneration'[x] = taskGeneration[x]
             \/ /\ phase[x] = "queued" /\ phase'[x] = "running"
                /\ taskGeneration'[x] = generation'[laneOf'[x]]
        /\ \A k \in Lanes : \A x \in activeTaskIds'[k] \ idle[k] :
             /\ Cardinality(activeTaskIds'[k]) <= maxConcurrent'[k]
             /\ \A i \in DOMAIN queue'[k] : Ahead(priority', x, queue'[k][i])
    <2>1. /\ queue \in [Lanes -> Seq(Entries)] /\ maxConcurrent' \in [Lanes -> Nat]
          /\ phase \in [Entries -> Phases] /\ taskGeneration \in [Entries -> Nat]
          /\ laneOf' \in [Entries -> Lanes \cup {NoLane}]
      BY <1>1, <1>2 DEF TypeOK
    <2>2. QED
      BY <2>1, <1>1, <1>3, <1>4, <1>5, <1>6, <1>7, PumpKeeps
  <1>9. TypeOK'
    <2>1. waiter' \in [Waiters -> WaiterStates]
      BY <1>1, <1>2, NotifyTyped DEF TypeOK
    <2>2. QED
      BY <2>1, <1>1, <1>2, <1>4, <1>8 DEF TypeOK
  <1>10. EntriesConsistent'
    <2>1. generation \in [Lanes -> Nat] /\ taskGeneration \in [Entries -> Nat]
      BY <1>2 DEF TypeOK
    <2>2. QED
      BY <2>1, <1>1, <1>2, <1>4, <1>8, PumpedEntries
  <1>11. StartsInOrder
    <2> SUFFICES ASSUME NEW k \in Lanes, NEW x \in activeTaskIds'[k] \ activeTaskIds[k]
                 PROVE  /\ Cardinality(activeTaskIds'[k]) <= maxConcurrent'[k]
                        /\ \A i \in DOMAIN queue'[k] : Ahead(priority', x, queue'[k][i])
      BY DEF StartsInOrder
    <2>1. x \in activeTaskIds'[k] \ idle[k]
      <3>1. idle[k] \subseteq activeTaskIds[k]
        BY <1>3
      <3>2. QED
        BY <3>1
    <2>2. QED
      BY <2>1, <1>8
  <1>12. Moved({})
    BY <1>8 DEF Moved
  <1>13. QED
    BY <1>1, <1>8, <1>9, <1>10, <1>11, <1>12 DEF LaneInv

\* Steps that touch neither the lanes nor the place of an entry.
LEMMA QuietStep ==
    ASSUME LaneInv, TypeOK', UNCHANGED <<laneVars, entryVars, taskGeneration>>,
           \A e \in Entries : \/ phase'[e] = phase[e]
                              \/ phase[e] = "late" /\ phase'[e] = "done"
    PROVE  LaneInv' /\ StartsInOrder
  <1>1. /\ queue' = queue /\ activeTaskIds' = activeTaskIds /\ maxConcurrent' = maxConcurrent
        /\ generation' = generation /\ laneOf' = laneOf /\ priority' = priority
        /\ nextQueueSequence' = nextQueueSequence /\ taskGeneration' = taskGeneration
    BY DEF laneVars, entryVars
  <1>2. TypeOK /\ EntriesConsistent
    BY DEF LaneInv
  <1>3. EntriesConsistent'
    BY <1>1, <1>2 DEF EntriesConsistent
  <1>4. ActiveIsCurrent'
    <2> SUFFICES ASSUME NEW k \in Lanes, NEW x \in Entries
                 PROVE  x \in activeTaskIds[k] <=>
                          phase'[x] = "running" /\ laneOf[x] = k /\ taskGeneration[x] = generation[k]
      BY <1>1, <1>2 DEF ActiveIsCurrent, TypeOK
    <2>1. x \in activeTaskIds[k] <=>
            phase[x] = "running" /\ laneOf[x] = k /\ taskGeneration[x] = generation[k]
      BY DEF LaneInv, ActiveIsCurrent
    <2>2. QED
      BY <2>1
  <1>5. QueuedExactlyOnce'
    <2>1. \A x \in Entries : phase'[x] = "queued" <=> phase[x] = "queued"
      OBVIOUS
    <2>2. \A k \in Lanes : \A i \in DOMAIN queue[k] : queue[k][i] \in Entries
      <3>1. \A k \in Lanes : queue[k] \in Seq(Entries)
        BY <1>2 DEF TypeOK
      <3>2. QED
        BY <3>1
    <2>3. QueuedExactlyOnce
      BY DEF LaneInv
    <2>4. QED
      BY <2>1, <2>2, <2>3, <1>1 DEF QueuedExactlyOnce
  <1>6. QueueOrdered' /\ NoStrandedWork'
    <2>1. QueueOrdered /\ NoStrandedWork
      BY DEF LaneInv
    <2>2. QueueOrdered'
      BY <2>1, <1>1 DEF QueueOrdered, Ahead
    <2>3. NoStrandedWork'
      BY <2>1, <1>1 DEF NoStrandedWork
    <2>4. QED
      BY <2>2, <2>3
  <1>7. QED
    BY <1>1, <1>3, <1>4, <1>5, <1>6 DEF LaneInv, StartsInOrder

-----------------------------------------------------------------------------
(***************************************************************************)
(* Waiters and the theorems.                                               *)
(***************************************************************************)

IInv == LaneInv /\ WaiterHasReason

\* A waiter that Notify leaves waiting still has a captured task in the active
\* sets Notify looked at, hence in any that contain them.
LEMMA NotifyReason ==
    ASSUME WaiterHasReason, NEW active, Notify(active), captured' = captured,
           TypeOK,
           \A l \in Lanes : active[l] \subseteq activeTaskIds'[l]
    PROVE  WaiterHasReason'
  <1> SUFFICES ASSUME NEW w \in Waiters, waiter'[w] = "waiting"
               PROVE  \E l \in Lanes : captured[w] \cap activeTaskIds'[l] # {}
    BY DEF WaiterHasReason
  <1>1. \E l \in Lanes : captured[w] \cap active[l] # {}
    BY DEF Notify
  <1>2. QED
    BY <1>1

\* Waiters keep their reason while the active sets only grow.
LEMMA GrowReason ==
    ASSUME WaiterHasReason, UNCHANGED <<waiter, captured>>,
           \A l \in Lanes : activeTaskIds[l] \subseteq activeTaskIds'[l]
    PROVE  WaiterHasReason'
  <1> SUFFICES ASSUME NEW w \in Waiters, waiter[w] = "waiting"
               PROVE  \E l \in Lanes : captured[w] \cap activeTaskIds'[l] # {}
    BY DEF WaiterHasReason
  <1>1. \E l \in Lanes : captured[w] \cap activeTaskIds[l] # {}
    BY DEF WaiterHasReason
  <1>2. QED
    BY <1>1

\* Every step of the queue keeps the invariant and starts entries in order.
LEMMA NextKeeps ==
    ASSUME IInv, Next
    PROVE  IInv' /\ StartsInOrder
  <1>0. LaneInv /\ WaiterHasReason /\ TypeOK
    BY DEF IInv, LaneInv
  <1>1. ASSUME NEW l \in Lanes, NEW p \in CallerPriorities, NEW timed \in BOOLEAN,
               EnqueueCommandInLane(l, p, timed)
        PROVE  IInv' /\ StartsInOrder
    <2>1. /\ LaneInv' /\ StartsInOrder
          /\ \A k \in Lanes : activeTaskIds[k] \subseteq activeTaskIds'[k]
      BY <1>0, <1>1, EnqueueStep, QueueAssumption
    <2>2. UNCHANGED <<waiter, captured>>
      BY <1>1 DEF EnqueueCommandInLane, waiterVars
    <2>3. QED
      BY <2>1, <2>2, <1>0, GrowReason DEF IInv
  <1>2. ASSUME NEW e \in Entries, NEW next \in {"done", "late"},
               phase[e] = "running", ReleaseSlot(e, next)
        PROVE  IInv' /\ StartsInOrder
    <2>1. next \in Phases \ {"none", "queued", "running"}
      BY <1>2 DEF Phases
    <2>2. /\ LaneInv' /\ StartsInOrder /\ captured' = captured
          /\ \/ UNCHANGED <<activeTaskIds, waiter>>
             \/ \E freed \in [Lanes -> SUBSET Entries] :
                   Notify(freed) /\ \A k \in Lanes : Refilled(freed[k], activeTaskIds'[k])
      BY <2>1, <1>0, <1>2, ReleaseStep
    <2>3. CASE UNCHANGED <<activeTaskIds, waiter>>
      BY <2>2, <2>3, <1>0, GrowReason DEF IInv
    <2>4. CASE \E freed \in [Lanes -> SUBSET Entries] :
                   Notify(freed) /\ \A k \in Lanes : Refilled(freed[k], activeTaskIds'[k])
      BY <2>2, <2>4, <1>0, NotifyReason DEF IInv, Refilled
    <2>5. QED
      BY <2>2, <2>3, <2>4
  <1>3. ASSUME NEW e \in Entries, TimerRearms(e) \/ ReportProgress(e) \/ LateTaskEnds(e)
        PROVE  IInv' /\ StartsInOrder
    <2>1. /\ UNCHANGED <<gatewayDraining, laneVars, entryVars, taskGeneration, waiterVars>>
          /\ progressed' \in SUBSET Entries
          /\ phase' = phase \/ (phase[e] = "late" /\ phase' = [phase EXCEPT ![e] = "done"])
      BY <1>0, <1>3 DEF TimerRearms, ReportProgress, LateTaskEnds, TypeOK
    <2>2. /\ phase' \in [Entries -> Phases]
          /\ \A x \in Entries : phase'[x] = phase[x] \/ (phase[x] = "late" /\ phase'[x] = "done")
      BY <2>1, <1>0 DEF TypeOK, Phases
    <2>3. TypeOK'
      BY <2>1, <2>2, <1>0 DEF TypeOK, laneVars, entryVars, waiterVars
    <2>4. LaneInv' /\ StartsInOrder
      BY <2>1, <2>2, <2>3, <1>0, QuietStep
    <2>5. WaiterHasReason'
      BY <2>1, <1>0 DEF WaiterHasReason, laneVars, waiterVars
    <2>6. QED
      BY <2>4, <2>5 DEF IInv
  <1>4. CASE MarkGatewayDraining
    <2>1. /\ gatewayDraining' = TRUE
          /\ UNCHANGED <<laneVars, entryVars, taskGeneration, phase, progressed, waiterVars>>
      BY <1>4 DEF MarkGatewayDraining
    <2>2. TypeOK'
      BY <2>1, <1>0 DEF TypeOK, laneVars, entryVars, waiterVars
    <2>3. LaneInv' /\ StartsInOrder
      BY <2>1, <2>2, <1>0, QuietStep
    <2>4. WaiterHasReason'
      BY <2>1, <1>0 DEF WaiterHasReason, laneVars, waiterVars
    <2>5. QED
      BY <2>3, <2>4 DEF IInv
  <1>5. ASSUME NEW l \in Lanes, NEW n \in 0..MaxConcurrency, SetCommandLaneConcurrency(l, n)
        PROVE  IInv' /\ StartsInOrder
    <2>1. /\ LaneInv' /\ StartsInOrder
          /\ \A k \in Lanes : activeTaskIds[k] \subseteq activeTaskIds'[k]
      BY <1>0, <1>5, SetConcurrencyStep, QueueAssumption
    <2>2. UNCHANGED <<waiter, captured>>
      BY <1>5 DEF SetCommandLaneConcurrency, waiterVars
    <2>3. QED
      BY <2>1, <2>2, <1>0, GrowReason DEF IInv
  <1>6. ASSUME NEW l \in Lanes, ClearCommandLane(l)
        PROVE  IInv' /\ StartsInOrder
    <2>1. LaneInv' /\ StartsInOrder /\ activeTaskIds' = activeTaskIds
      BY <1>0, <1>6, ClearStep
    <2>2. UNCHANGED <<waiter, captured>>
      BY <1>6 DEF ClearCommandLane, waiterVars
    <2>3. QED
      BY <2>1, <2>2, <1>0, GrowReason DEF IInv
  <1>7. ASSUME NEW D \in SUBSET Lanes, ResetLanes(D), gatewayDraining' \in BOOLEAN
        PROVE  IInv' /\ StartsInOrder
    <2>1. LaneInv' /\ StartsInOrder /\ Notify(activeTaskIds') /\ captured' = captured
      BY <1>0, <1>7, ResetStep
    <2>2. QED
      BY <2>1, <1>0, NotifyReason DEF IInv
  <1>8. ASSUME NEW w \in Waiters, NEW t \in {"none", "expired", "pending"},
               WaitForActiveTasks(w, t) \/ WaiterTimesOut(w)
        PROVE  IInv' /\ StartsInOrder
    <2> DEFINE activeAtStart == UNION {activeTaskIds[l] : l \in Lanes}
    <2>1. /\ UNCHANGED <<gatewayDraining, laneVars, entryVars, taskGeneration, phase, progressed>>
          /\ waiter' \in [Waiters -> WaiterStates]
          /\ captured' \in [Waiters -> SUBSET Entries]
          /\ waiterTimed' \in [Waiters -> BOOLEAN]
      <3>1. activeAtStart \in SUBSET Entries
        BY <1>0 DEF TypeOK
      <3>2. CASE WaitForActiveTasks(w, t)
        BY <3>1, <3>2, <1>0 DEF WaitForActiveTasks, TypeOK, WaiterStates
      <3>3. CASE WaiterTimesOut(w)
        BY <3>3, <1>0 DEF WaiterTimesOut, TypeOK, WaiterStates
      <3>4. QED
        BY <3>2, <3>3, <1>8
    <2>2. TypeOK'
      BY <2>1, <1>0 DEF TypeOK, laneVars, entryVars
    <2>3. LaneInv' /\ StartsInOrder
      BY <2>1, <2>2, <1>0, QuietStep
    <2>4. WaiterHasReason'
      <3> SUFFICES ASSUME NEW v \in Waiters, waiter'[v] = "waiting"
                   PROVE  \E l \in Lanes : captured'[v] \cap activeTaskIds[l] # {}
        BY <2>1 DEF WaiterHasReason, laneVars
      <3>1. CASE v = w
        <4>1. WaitForActiveTasks(w, t)
          BY <3>1, <1>0, <1>8 DEF WaiterTimesOut, TypeOK
        <4>2. captured'[w] = activeAtStart /\ activeAtStart # {}
          BY <3>1, <4>1, <1>0 DEF WaitForActiveTasks, TypeOK
        <4>3. QED
          BY <3>1, <4>2
      <3>2. CASE v # w
        <4>1. waiter'[v] = waiter[v] /\ captured'[v] = captured[v]
          BY <3>2, <1>0, <1>8 DEF WaitForActiveTasks, WaiterTimesOut, TypeOK
        <4>2. QED
          BY <4>1, <1>0 DEF WaiterHasReason
      <3>3. QED
        BY <3>1, <3>2
    <2>5. QED
      BY <2>3, <2>4 DEF IInv
  <1>9. \A e \in Entries : TaskSettles(e) \/ TaskTimesOut(e) => IInv' /\ StartsInOrder
    BY <1>2 DEF TaskSettles, TaskTimesOut
  <1>10. \A l \in Lanes : ResetCommandLane(l) => IInv' /\ StartsInOrder
    <2> SUFFICES ASSUME NEW l \in Lanes, ResetCommandLane(l) PROVE IInv' /\ StartsInOrder
      OBVIOUS
    <2>1. {l} \in SUBSET Lanes /\ ResetLanes({l}) /\ gatewayDraining' = gatewayDraining
      BY DEF ResetCommandLane
    <2>2. QED
      BY <2>1, <1>0, <1>7 DEF TypeOK
  <1>11. ResetAllLanes => IInv' /\ StartsInOrder
    <2> SUFFICES ASSUME ResetAllLanes PROVE IInv' /\ StartsInOrder
      OBVIOUS
    <2>1. lanes \in SUBSET Lanes /\ ResetLanes(lanes) /\ gatewayDraining' = FALSE
      BY <1>0 DEF ResetAllLanes, TypeOK
    <2>2. QED
      BY <2>1, <1>7
  <1>12. QED
    BY <1>1, <1>3, <1>4, <1>5, <1>6, <1>8, <1>9, <1>10, <1>11 DEF Next

\* Stuttering.
LEMMA StutterKeeps ==
    ASSUME IInv, UNCHANGED vars
    PROVE  IInv' /\ StartsInOrder
  <1>1. LaneInv /\ WaiterHasReason /\ TypeOK
    BY DEF IInv, LaneInv
  <1>2. /\ UNCHANGED <<gatewayDraining, laneVars, entryVars, taskGeneration, phase, progressed>>
        /\ UNCHANGED waiterVars
    BY DEF vars
  <1>3. TypeOK'
    BY <1>1, <1>2 DEF TypeOK, laneVars, entryVars, waiterVars
  <1>4. LaneInv' /\ StartsInOrder
    BY <1>1, <1>2, <1>3, QuietStep
  <1>5. WaiterHasReason'
    BY <1>1, <1>2 DEF WaiterHasReason, laneVars, waiterVars
  <1>6. QED
    BY <1>4, <1>5 DEF IInv

\* The queue keeps its inductive invariant.
THEOREM QueueInvariant == Spec => []IInv
  <1>1. Init => IInv
    <2>1. Init => LaneInv
      BY InitLaneInv
    <2>2. Init => WaiterHasReason
      BY DEF Init, WaiterHasReason
    <2>3. QED
      BY <2>1, <2>2 DEF IInv
  <1>2. IInv /\ [Next]_vars => IInv'
    BY NextKeeps, StutterKeeps
  <1>3. QED
    BY <1>1, <1>2, PTL DEF Spec

\* Every variable of the queue has its type.
THEOREM QueueTypeOK == Spec => []TypeOK
  <1>1. IInv => TypeOK
    BY DEF IInv, LaneInv
  <1>2. QED
    BY <1>1, QueueInvariant, PTL

\* No lane holds queued work beside a free slot: every operation that frees a
\* slot, adds work or raises the cap pumps the lane (drainLane).
THEOREM QueueNeverStrandsWork == Spec => []NoStrandedWork
  <1>1. IInv => NoStrandedWork
    BY DEF IInv, LaneInv
  <1>2. QED
    BY <1>1, QueueInvariant, PTL

\* completeTask neither leaks nor double-frees a slot.
THEOREM QueueSlotsExact == Spec => []ActiveIsCurrent
  <1>1. IInv => ActiveIsCurrent
    BY DEF IInv, LaneInv
  <1>2. QED
    BY <1>1, QueueInvariant, PTL

\* Pump, clear and reset neither lose nor duplicate a queued entry.
THEOREM QueueLosesNothing == Spec => []QueuedExactlyOnce
  <1>1. IInv => QueuedExactlyOnce
    BY DEF IInv, LaneInv
  <1>2. QED
    BY <1>1, QueueInvariant, PTL

\* enqueueLaneEntry and drainLane keep every queue in order of priority, then
\* arrival.
THEOREM QueueKeepsOrder == Spec => []QueueOrdered
  <1>1. IInv => QueueOrdered
    BY DEF IInv, LaneInv
  <1>2. QED
    BY <1>1, QueueInvariant, PTL

\* No wake-up of waitForActiveTasks is lost.
THEOREM QueueWaitersHaveReason == Spec => []WaiterHasReason
  <1>1. IInv => WaiterHasReason
    BY DEF IInv
  <1>2. QED
    BY <1>1, QueueInvariant, PTL

\* A step starts entries only within the lane's cap and in start order.
THEOREM QueueStartsWithinCap == Spec => StartsWithinCap
  <1>1. IInv /\ [Next]_vars => [StartsInOrder]_vars
    BY NextKeeps, StutterKeeps
  <1>2. QED
    BY <1>1, QueueInvariant, PTL DEF Spec, StartsWithinCap

-----------------------------------------------------------------------------
(***************************************************************************)
(* That a waiter is told "drained" only when nothing it waits for holds a  *)
(* slot.  The notification looks at the active sets before the pump, which *)
(* may then start more; what it starts was queued, and nothing a waiter    *)
(* has captured is.                                                        *)
(***************************************************************************)

CapturedStarted ==
    \A w \in Waiters : \A x \in captured[w] : phase[x] \notin {"none", "queued"}

\* The step DrainedMeansIdle speaks of.
DrainedIdle ==
    \A w \in Waiters : waiter[w] # "drained" /\ waiter'[w] = "drained" =>
        \A l \in Lanes : captured'[w] \cap activeTaskIds'[l] = {}

\* An entry that has been started is never queued again.
LEMMA CapturedKept ==
    ASSUME TypeOK, CapturedStarted, captured' = captured,
           \A x \in Entries :
              phase[x] \notin {"none", "queued"} => phase'[x] \notin {"none", "queued"}
    PROVE  CapturedStarted'
  <1>1. \A w \in Waiters : captured[w] \subseteq Entries
    BY DEF TypeOK
  <1>2. QED
    BY <1>1 DEF CapturedStarted

\* A notification followed by a pump.
LEMMA NotifiedIdle ==
    ASSUME TypeOK, CapturedStarted, captured' = captured, NEW freed, Notify(freed),
           \A k \in Lanes : Refilled(freed[k], activeTaskIds'[k])
    PROVE  DrainedIdle
  <1> SUFFICES ASSUME NEW w \in Waiters, waiter[w] # "drained", waiter'[w] = "drained",
                      NEW l \in Lanes, NEW x \in captured[w], x \in activeTaskIds'[l]
               PROVE  FALSE
    BY DEF DrainedIdle
  <1>1. \A k \in Lanes : captured[w] \cap freed[k] = {}
    BY DEF Notify
  <1>2. phase[x] # "queued"
    BY DEF CapturedStarted
  <1>3. x \notin freed[l]
    BY <1>1
  <1>4. QED
    BY <1>2, <1>3 DEF Refilled

\* Every step keeps CapturedStarted and says "drained" only of an idle set.
LEMMA WaitersStep ==
    ASSUME IInv, CapturedStarted, Next
    PROVE  CapturedStarted' /\ DrainedIdle
  <1>0. LaneInv /\ TypeOK
    BY DEF IInv, LaneInv
  <1>1. ASSUME NEW l \in Lanes, NEW p \in CallerPriorities, NEW timed \in BOOLEAN,
               EnqueueCommandInLane(l, p, timed)
        PROVE  CapturedStarted' /\ DrainedIdle
    <2>1. Moved({nextQueueSequence}) /\ phase[nextQueueSequence] = "none"
      BY <1>0, <1>1, EnqueueStep, QueueAssumption
    <2>2. UNCHANGED <<waiter, captured>>
      BY <1>1 DEF EnqueueCommandInLane, waiterVars
    <2>3. \A x \in Entries :
             phase[x] \notin {"none", "queued"} => phase'[x] \notin {"none", "queued"}
      BY <2>1 DEF Moved
    <2>4. QED
      BY <2>2, <2>3, <1>0, CapturedKept DEF DrainedIdle
  <1>2. ASSUME NEW e \in Entries, NEW next \in {"done", "late"},
               phase[e] = "running", ReleaseSlot(e, next)
        PROVE  CapturedStarted' /\ DrainedIdle
    <2>1. next \in Phases \ {"none", "queued", "running"}
      BY <1>2 DEF Phases
    <2>2. /\ captured' = captured /\ Moved({e}) /\ phase'[e] = next
          /\ \/ UNCHANGED <<activeTaskIds, waiter>>
             \/ \E freed \in [Lanes -> SUBSET Entries] :
                   Notify(freed) /\ \A k \in Lanes : Refilled(freed[k], activeTaskIds'[k])
      BY <2>1, <1>0, <1>2, ReleaseStep
    <2>3. CapturedStarted'
      <3>1. \A x \in Entries :
               phase[x] \notin {"none", "queued"} => phase'[x] \notin {"none", "queued"}
        BY <2>2, <1>2 DEF Moved
      <3>2. QED
        BY <2>2, <3>1, <1>0, CapturedKept
    <2>4. CASE UNCHANGED <<activeTaskIds, waiter>>
      BY <2>3, <2>4 DEF DrainedIdle
    <2>5. CASE \E freed \in [Lanes -> SUBSET Entries] :
                   Notify(freed) /\ \A k \in Lanes : Refilled(freed[k], activeTaskIds'[k])
      BY <2>2, <2>3, <2>5, <1>0, NotifiedIdle
    <2>6. QED
      BY <2>2, <2>4, <2>5
  <1>3. ASSUME NEW e \in Entries, TimerRearms(e) \/ ReportProgress(e) \/ LateTaskEnds(e)
        PROVE  CapturedStarted' /\ DrainedIdle
    <2>1. /\ UNCHANGED waiterVars
          /\ phase' = phase \/ (phase[e] = "late" /\ phase' = [phase EXCEPT ![e] = "done"])
      BY <1>3 DEF TimerRearms, ReportProgress, LateTaskEnds
    <2>2. waiter' = waiter /\ captured' = captured
      BY <2>1 DEF waiterVars
    <2>3. \A x \in Entries :
             phase[x] \notin {"none", "queued"} => phase'[x] \notin {"none", "queued"}
      BY <2>1, <1>0 DEF TypeOK
    <2>4. QED
      BY <2>2, <2>3, <1>0, CapturedKept DEF DrainedIdle
  <1>4. ASSUME MarkGatewayDraining PROVE CapturedStarted' /\ DrainedIdle
    <2>1. phase' = phase /\ waiter' = waiter /\ captured' = captured
      BY <1>4 DEF MarkGatewayDraining, waiterVars
    <2>2. QED
      BY <2>1, <1>0, CapturedKept DEF DrainedIdle
  <1>5. ASSUME NEW l \in Lanes, NEW n \in 0..MaxConcurrency, SetCommandLaneConcurrency(l, n)
        PROVE  CapturedStarted' /\ DrainedIdle
    <2>1. Moved({})
      BY <1>0, <1>5, SetConcurrencyStep, QueueAssumption
    <2>2. UNCHANGED <<waiter, captured>>
      BY <1>5 DEF SetCommandLaneConcurrency, waiterVars
    <2>3. \A x \in Entries :
             phase[x] \notin {"none", "queued"} => phase'[x] \notin {"none", "queued"}
      BY <2>1 DEF Moved
    <2>4. QED
      BY <2>2, <2>3, <1>0, CapturedKept DEF DrainedIdle
  <1>6. ASSUME NEW l \in Lanes, ClearCommandLane(l)
        PROVE  CapturedStarted' /\ DrainedIdle
    <2>1. Moved({})
      BY <1>0, <1>6, ClearStep
    <2>2. UNCHANGED <<waiter, captured>>
      BY <1>6 DEF ClearCommandLane, waiterVars
    <2>3. \A x \in Entries :
             phase[x] \notin {"none", "queued"} => phase'[x] \notin {"none", "queued"}
      BY <2>1 DEF Moved
    <2>4. QED
      BY <2>2, <2>3, <1>0, CapturedKept DEF DrainedIdle
  <1>7. ASSUME NEW D \in SUBSET Lanes, ResetLanes(D), gatewayDraining' \in BOOLEAN
        PROVE  CapturedStarted' /\ DrainedIdle
    <2>1. Notify(activeTaskIds') /\ captured' = captured /\ Moved({})
      BY <1>0, <1>7, ResetStep
    <2>2. \A x \in Entries :
             phase[x] \notin {"none", "queued"} => phase'[x] \notin {"none", "queued"}
      BY <2>1 DEF Moved
    <2>3. \A k \in Lanes : Refilled(activeTaskIds'[k], activeTaskIds'[k])
      BY DEF Refilled
    <2>4. QED
      BY <2>1, <2>2, <2>3, <1>0, CapturedKept, NotifiedIdle
  <1>8. ASSUME NEW w \in Waiters, NEW t \in {"none", "expired", "pending"}, WaitForActiveTasks(w, t)
        PROVE  CapturedStarted' /\ DrainedIdle
    <2> DEFINE active == UNION {activeTaskIds[l] : l \in Lanes}
    <2>1. /\ phase' = phase /\ activeTaskIds' = activeTaskIds
          /\ captured' = [captured EXCEPT ![w] = active]
          /\ waiter' = [waiter EXCEPT ![w] = IF active = {} THEN "drained"
                           ELSE IF t = "expired" THEN "timedOut" ELSE "waiting"]
      BY <1>8 DEF WaitForActiveTasks, laneVars
    <2>2. \A x \in active : phase[x] = "running"
      BY <1>0 DEF LaneInv, ActiveIsCurrent
    <2>3. \A l \in Lanes : activeTaskIds[l] \subseteq active
      OBVIOUS
    <2> HIDE DEF active
    <2>4. CapturedStarted'
      BY <2>1, <2>2, <1>0 DEF CapturedStarted, TypeOK
    <2>5. DrainedIdle
      <3> SUFFICES ASSUME NEW v \in Waiters, waiter[v] # "drained", waiter'[v] = "drained",
                          NEW l \in Lanes
                   PROVE  captured'[v] \cap activeTaskIds'[l] = {}
        BY DEF DrainedIdle
      <3>1. v = w
        BY <2>1, <1>0 DEF TypeOK
      <3>2. active = {} /\ captured'[v] = active
        BY <2>1, <3>1, <1>0 DEF TypeOK
      <3>3. QED
        BY <3>2
    <2>6. QED
      BY <2>4, <2>5
  <1>9. ASSUME NEW w \in Waiters, WaiterTimesOut(w)
        PROVE  CapturedStarted' /\ DrainedIdle
    <2>1. phase' = phase /\ captured' = captured /\ waiter' = [waiter EXCEPT ![w] = "timedOut"]
      BY <1>9 DEF WaiterTimesOut
    <2>2. CapturedStarted'
      BY <2>1, <1>0, CapturedKept
    <2>3. \A v \in Waiters : waiter'[v] = "drained" => waiter[v] = "drained"
      BY <2>1, <1>0 DEF TypeOK
    <2>4. QED
      BY <2>2, <2>3 DEF DrainedIdle
  <1>10. \A e \in Entries : TaskSettles(e) \/ TaskTimesOut(e) => CapturedStarted' /\ DrainedIdle
    BY <1>2 DEF TaskSettles, TaskTimesOut
  <1>11. \A l \in Lanes : ResetCommandLane(l) => CapturedStarted' /\ DrainedIdle
    <2> SUFFICES ASSUME NEW l \in Lanes, ResetCommandLane(l) PROVE CapturedStarted' /\ DrainedIdle
      OBVIOUS
    <2>1. {l} \in SUBSET Lanes /\ ResetLanes({l}) /\ gatewayDraining' = gatewayDraining
      BY DEF ResetCommandLane
    <2>2. QED
      BY <2>1, <1>0, <1>7 DEF TypeOK
  <1>12. ResetAllLanes => CapturedStarted' /\ DrainedIdle
    <2> SUFFICES ASSUME ResetAllLanes PROVE CapturedStarted' /\ DrainedIdle
      OBVIOUS
    <2>1. lanes \in SUBSET Lanes /\ ResetLanes(lanes) /\ gatewayDraining' = FALSE
      BY <1>0 DEF ResetAllLanes, TypeOK
    <2>2. QED
      BY <2>1, <1>7
  <1>13. QED
    BY <1>1, <1>3, <1>4, <1>5, <1>6, <1>8, <1>9, <1>10, <1>11, <1>12 DEF Next

\* waitForActiveTasks reports drained = true only when no task it captured holds a
\* slot, although completeTask notifies before it pumps and a reset after.
THEOREM QueueDrainedMeansIdle == Spec => DrainedMeansIdle
  <1>1. Init => CapturedStarted
    BY DEF Init, CapturedStarted
  <1>2. CapturedStarted /\ IInv /\ UNCHANGED vars => CapturedStarted'
    BY CapturedKept DEF IInv, LaneInv, vars, waiterVars
  <1>3. CapturedStarted /\ IInv /\ [Next]_vars => CapturedStarted'
    BY <1>2, WaitersStep
  <1>4. CapturedStarted /\ IInv /\ [Next]_vars => [DrainedIdle]_vars
    BY WaitersStep
  <1>5. DrainedMeansIdle <=> [][DrainedIdle]_vars
    BY PTL DEF DrainedMeansIdle, DrainedIdle
  <1>6. QED
    BY <1>1, <1>3, <1>4, <1>5, QueueInvariant, PTL DEF Spec

-----------------------------------------------------------------------------
(***************************************************************************)
(* Runs on the lanes.  LaneInv is kept by every step of RunLanes as well.  *)
(* What it needs beside it is that a job's entries are its own, that an    *)
(* outer entry holds its slot while the inner one waits or runs, and that  *)
(* a session's lane stays narrow.                                          *)
(***************************************************************************)

JobTypes ==
    /\ chain \in [Jobs -> Seq(Entries)]
    /\ config \in [ConfiguredLanes -> Nat \ {0}]
    /\ resumeTimer \in [Lanes -> Nat]
    /\ suspensions \in Nat

\* A job's entries were queued in the lanes of its path, with the path's timeouts.
ChainsMatch ==
    \A j \in Jobs :
        /\ Len(chain[j]) <= Len(Path(j))
        /\ \A i \in 1..Len(chain[j]) :
              /\ chain[j][i] < nextQueueSequence
              /\ laneOf[chain[j][i]] = Path(j)[i]
              /\ hasTimeout[chain[j][i]] = TimedAt(j, i)

\* No entry belongs to two jobs, or twice to one.
ChainsApart ==
    \A j, k \in Jobs : \A i \in 1..Len(chain[j]), m \in 1..Len(chain[k]) :
        chain[j][i] = chain[k][m] => j = k /\ i = m

\* The outer task keeps its slot as long as the inner one waits or runs.
OuterHolds ==
    \A j \in Jobs : \A i, m \in 1..Len(chain[j]) :
        m = i + 1 /\ phase[chain[j][m]] \in {"queued", "running"} => phase[chain[j][i]] = "running"

LateAreTimed == \A e \in Entries : phase[e] = "late" => hasTimeout[e]

\* Nothing widens the lane of a session.
SessionsNarrow ==
    \A l \in Lanes : IsSessionLane(l) =>
        /\ maxConcurrent[l] <= 1 /\ resumeTimer[l] = 0
        /\ Cardinality(activeTaskIds[l]) <= 1

FirstGeneration == \A l \in Lanes : generation[l] = 0

JobsInv ==
    /\ LaneInv /\ JobTypes /\ ChainsMatch /\ ChainsApart /\ OuterHolds
    /\ LateAreTimed /\ SessionsNarrow /\ FirstGeneration

\* A path leads through the session's lane to a global lane, and ends there.
LEMMA PathFacts ==
    ASSUME NEW j \in Jobs
    PROVE  /\ Path(j) \in Seq(Lanes) /\ Len(Path(j)) \in {2, 3}
           /\ Path(j)[Len(Path(j)) - 1] = JobOf[j].session
           /\ JobOf[j].session \in Lanes /\ IsSessionLane(JobOf[j].session)
           /\ JobOf[j].timed \in BOOLEAN /\ JobOf[j].priority \in Priorities
  <1> DEFINE s == JobOf[j].session
             g == ResolveGlobalLane(JobOf[j].lane)
  <1>1. JobOf[j] \in JobKinds
    BY LanesAssumption
  <1>2. /\ s \in Lanes /\ JobOf[j].timed \in BOOLEAN /\ JobOf[j].priority \in Priorities
    BY <1>1 DEF JobKinds
  <1>3. IsSessionLane(s)
    BY DEF IsSessionLane
  <1>4. \A i \in DOMAIN Path(j) : Path(j)[i] \in Lanes
    BY PathsAssumption
  <1> HIDE DEF s, g
  <1>5. Path(j) = IF JobOf[j].kind = "cron" THEN <<"cron">> \o <<s, g>> ELSE <<s, g>>
    BY DEF Path, s, g
  <1>6. CASE JobOf[j].kind = "cron"
    <2> DEFINE T == {"cron", s, g}
    <2>1. /\ <<"cron">> \in Seq(T) /\ Len(<<"cron">>) = 1
          /\ <<s, g>> \in Seq(T) /\ Len(<<s, g>>) = 2 /\ <<s, g>>[1] = s
      OBVIOUS
    <2>2. Path(j) = <<"cron">> \o <<s, g>>
      BY <1>5, <1>6
    <2> HIDE DEF T
    <2>3. /\ Path(j) \in Seq(T) /\ Len(Path(j)) = 3 /\ Path(j)[1] = <<"cron">>[1]
          /\ \A i \in 1..2 : Path(j)[1 + i] = <<s, g>>[i]
      BY <2>1, <2>2
    <2>4. Path(j)[1] = "cron" /\ Path(j)[2] = s /\ Path(j)[3] = g /\ DOMAIN Path(j) = 1..3
      <3>1. <<"cron">>[1] = "cron" /\ <<s, g>>[2] = g /\ 1 + 1 = 2 /\ 1 + 2 = 3
        OBVIOUS
      <3>2. QED
        BY <2>1, <2>3, <3>1
    <2>5. Path(j) \in Seq(Lanes)
      <3>1. "cron" \in Lanes /\ g \in Lanes /\ s \in Lanes
        BY <2>4, <1>2, <1>4 DEF s
      <3>2. <<"cron">> \in Seq(Lanes) /\ <<s, g>> \in Seq(Lanes)
        BY <3>1
      <3>3. QED
        BY <2>2, <3>2
    <2>6. QED
      BY <2>3, <2>4, <2>5, <1>2, <1>3 DEF s
  <1>7. CASE JobOf[j].kind # "cron"
    <2>2. Path(j) = <<s, g>>
      BY <1>5, <1>7
    <2>3. Len(Path(j)) = 2 /\ Path(j)[1] = s /\ DOMAIN Path(j) = 1..2
      BY <2>2
    <2>4. g \in Lanes
      BY <1>4, <2>2, <2>3
    <2>5. Path(j) \in Seq(Lanes)
      BY <2>2, <2>4, <1>2 DEF s
    <2>6. QED
      BY <2>3, <2>5, <1>2, <1>3 DEF s
  <1>8. QED
    BY <1>6, <1>7

\* An outer entry has no timeout.
LEMMA OuterUntimed ==
    ASSUME JobTypes, ChainsMatch, NEW j \in Jobs, NEW i \in 1..Len(chain[j]), i < Len(chain[j])
    PROVE  hasTimeout[chain[j][i]] = FALSE
  <1>1. Len(chain[j]) \in Nat /\ Len(Path(j)) \in Nat
    BY PathFacts DEF JobTypes
  <1>2. Len(chain[j]) <= Len(Path(j)) /\ hasTimeout[chain[j][i]] = TimedAt(j, i)
    BY DEF ChainsMatch
  <1>3. i # Len(Path(j))
    BY <1>1, <1>2
  <1>4. TimedAt(j, i) = FALSE
    BY <1>3, Zenon DEF TimedAt
  <1>5. QED
    BY <1>2, <1>4

\* A step that gives no job a new entry keeps the chains, if the running entries it
\* ends had no inner one that waits or runs.
LEMMA ChainsKept ==
    ASSUME TypeOK, JobTypes, ChainsMatch, ChainsApart, OuterHolds, LateAreTimed,
           NEW S \in SUBSET Entries, Moved(S),
           UNCHANGED <<chain, laneOf, hasTimeout, nextQueueSequence>>,
           \A x \in S : phase'[x] = "done" \/ (phase'[x] = "late" /\ hasTimeout[x]),
           \A j \in Jobs : \A i, m \in 1..Len(chain[j]) :
              m = i + 1 /\ chain[j][i] \in S => phase[chain[j][m]] \notin {"queued", "running"}
    PROVE  ChainsMatch' /\ ChainsApart' /\ OuterHolds' /\ LateAreTimed'
  <1>1. ChainsMatch' /\ ChainsApart'
    BY SMTT(30) DEF ChainsMatch, ChainsApart
  <1>2. OuterHolds'
    <2> SUFFICES ASSUME NEW j \in Jobs, NEW i \in 1..Len(chain[j]), NEW m \in 1..Len(chain[j]),
                        m = i + 1, phase'[chain[j][m]] \in {"queued", "running"}
                 PROVE  phase'[chain[j][i]] = "running"
      BY DEF OuterHolds
    <2>1. chain[j][i] \in Entries /\ chain[j][m] \in Entries
      BY DEF JobTypes
    <2>2. phase[chain[j][m]] \in {"queued", "running"}
      <3>1. chain[j][m] \notin S
        OBVIOUS
      <3>2. QED
        BY <2>1, <3>1 DEF Moved
    <2>3. phase[chain[j][i]] = "running"
      BY <2>2 DEF OuterHolds
    <2>4. chain[j][i] \notin S
      BY <2>2
    <2>5. QED
      BY <2>1, <2>3, <2>4 DEF Moved
  <1>3. LateAreTimed'
    BY DEF LateAreTimed, Moved
  <1>4. QED
    BY <1>1, <1>2, <1>3

\* A job's new entry continues its path below an entry that runs.
LEMMA ChainGrows ==
    ASSUME TypeOK, JobTypes, ChainsMatch, ChainsApart, OuterHolds, LateAreTimed,
           NEW j \in Jobs, nextQueueSequence \in Entries, Moved({nextQueueSequence}),
           phase'[nextQueueSequence] \in {"queued", "running"},
           chain' = [chain EXCEPT ![j] = Append(chain[j], nextQueueSequence)],
           nextQueueSequence' = nextQueueSequence + 1,
           Len(chain[j]) + 1 <= Len(Path(j)),
           laneOf' = [laneOf EXCEPT ![nextQueueSequence] = Path(j)[Len(chain[j]) + 1]],
           hasTimeout' = [hasTimeout EXCEPT ![nextQueueSequence] = TimedAt(j, Len(chain[j]) + 1)],
           Len(chain[j]) > 0 => phase[chain[j][Len(chain[j])]] = "running"
    PROVE  /\ chain' \in [Jobs -> Seq(Entries)]
           /\ ChainsMatch' /\ ChainsApart' /\ OuterHolds' /\ LateAreTimed'
  <1> DEFINE e == nextQueueSequence
             n == Len(chain[j]) + 1
  <1>1. /\ chain \in [Jobs -> Seq(Entries)] /\ chain[j] \in Seq(Entries) /\ Len(chain[j]) \in Nat
        /\ \A k \in Jobs : Len(chain[k]) \in Nat /\ \A i \in 1..Len(chain[k]) : chain[k][i] \in Entries
    BY DEF JobTypes
  <1>2. /\ chain' \in [Jobs -> Seq(Entries)]
        /\ \A k \in Jobs : k # j => chain'[k] = chain[k]
        /\ Len(chain'[j]) = n /\ chain'[j][n] = e
        /\ \A i \in 1..(n - 1) : chain'[j][i] = chain[j][i]
    BY <1>1
  <1>3. n \in Nat /\ n > 0 /\ e \in Int
    BY <1>1 DEF Entries
  <1>4. \A k \in Jobs : \A i \in 1..Len(chain[k]) : chain[k][i] < e /\ chain[k][i] # e
    BY <1>1, <1>3 DEF ChainsMatch, Entries
  <1>5. /\ \A x \in Entries : x # e => laneOf'[x] = laneOf[x] /\ hasTimeout'[x] = hasTimeout[x]
        /\ laneOf'[e] = Path(j)[n] /\ hasTimeout'[e] = TimedAt(j, n)
    BY DEF TypeOK
  <1> HIDE DEF e, n
  \* Where the entries of a chain come from.
  <1>6. ASSUME NEW k \in Jobs, NEW i \in 1..Len(chain'[k])
        PROVE  \/ i \in 1..Len(chain[k]) /\ chain'[k][i] = chain[k][i] /\ chain[k][i] \in Entries
                  /\ chain[k][i] # e
               \/ k = j /\ i = n /\ chain'[k][i] = e
    <2>1. CASE k # j
      BY <2>1, <1>1, <1>2, <1>4
    <2>2. CASE k = j
      <3>1. Len(chain[j]) = n - 1
        BY <1>1 DEF n
      <3>2. CASE i = n
        BY <2>2, <3>2, <1>2
      <3>3. CASE i # n
        <4>1. i \in 1..(n - 1)
          BY <2>2, <3>3, <1>2, <1>3
        <4>2. QED
          BY <2>2, <3>1, <4>1, <1>1, <1>2, <1>4
      <3>4. QED
        BY <3>2, <3>3
    <2>3. QED
      BY <2>1, <2>2
  <1>7. ChainsMatch'
    <2>1. ASSUME NEW k \in Jobs PROVE Len(chain'[k]) <= Len(Path(k))
      BY <1>2 DEF ChainsMatch, n
    <2>2. ASSUME NEW k \in Jobs, NEW i \in 1..Len(chain'[k])
          PROVE  /\ chain'[k][i] < nextQueueSequence' /\ laneOf'[chain'[k][i]] = Path(k)[i]
                 /\ hasTimeout'[chain'[k][i]] = TimedAt(k, i)
      <3>1. CASE i \in 1..Len(chain[k]) /\ chain'[k][i] = chain[k][i] /\ chain[k][i] \in Entries
                 /\ chain[k][i] # e
        <4>1. chain[k][i] < e /\ e < e + 1 /\ chain[k][i] \in Int
          BY <3>1, <1>3, <1>4 DEF Entries
        <4>2. nextQueueSequence' = e + 1
          BY DEF e
        <4>3. laneOf[chain[k][i]] = Path(k)[i] /\ hasTimeout[chain[k][i]] = TimedAt(k, i)
          BY <3>1 DEF ChainsMatch
        <4>4. QED
          BY <3>1, <4>1, <4>2, <4>3, <1>3, <1>5, SMTT(30)
      <3>2. CASE k = j /\ i = n /\ chain'[k][i] = e
        <4>1. e < nextQueueSequence'
          BY <1>3 DEF e
        <4>2. QED
          BY <3>2, <4>1, <1>5
      <3>3. QED
        BY <3>1, <3>2, <1>6
    <2>3. QED
      BY <2>1, <2>2 DEF ChainsMatch
  <1>8. ChainsApart'
    <2> SUFFICES ASSUME NEW k \in Jobs, NEW h \in Jobs, NEW i \in 1..Len(chain'[k]),
                        NEW m \in 1..Len(chain'[h]), chain'[k][i] = chain'[h][m]
                 PROVE  k = h /\ i = m
      BY DEF ChainsApart
    <2>1. \/ i \in 1..Len(chain[k]) /\ chain'[k][i] = chain[k][i] /\ chain[k][i] # e
          \/ k = j /\ i = n /\ chain'[k][i] = e
      BY <1>6
    <2>2. \/ m \in 1..Len(chain[h]) /\ chain'[h][m] = chain[h][m] /\ chain[h][m] # e
          \/ h = j /\ m = n /\ chain'[h][m] = e
      BY <1>6
    <2>3. CASE chain'[k][i] = e
      BY <2>1, <2>2, <2>3
    <2>4. CASE chain'[k][i] # e
      <3>1. i \in 1..Len(chain[k]) /\ m \in 1..Len(chain[h]) /\ chain[k][i] = chain[h][m]
        BY <2>1, <2>2, <2>4
      <3>2. QED
        BY <3>1 DEF ChainsApart
    <2>5. QED
      BY <2>3, <2>4
  <1>9. OuterHolds'
    <2> SUFFICES ASSUME NEW k \in Jobs, NEW i \in 1..Len(chain'[k]), NEW m \in 1..Len(chain'[k]),
                        m = i + 1, phase'[chain'[k][m]] \in {"queued", "running"}
                 PROVE  phase'[chain'[k][i]] = "running"
      BY DEF OuterHolds
    <2>0. Len(chain'[k]) \in Nat
      BY <1>2
    <2>1. i \in 1..Len(chain[k]) /\ chain'[k][i] = chain[k][i] /\ chain[k][i] \in Entries
          /\ chain[k][i] # e
      <3>1. ~(k = j /\ i = n)
        BY <2>0, <1>2, <1>3
      <3>2. QED
        BY <3>1, <1>6
    <2>2. phase[chain[k][i]] = "running"
      <3>1. CASE m \in 1..Len(chain[k]) /\ chain'[k][m] = chain[k][m] /\ chain[k][m] \in Entries
                 /\ chain[k][m] # e
        <4>1. phase[chain[k][m]] \in {"queued", "running"}
          BY <3>1 DEF Moved, e
        <4>2. QED
          BY <2>1, <3>1, <4>1 DEF OuterHolds
      <3>2. CASE k = j /\ m = n /\ chain'[k][m] = e
        <4>1. i = Len(chain[j]) /\ Len(chain[j]) > 0
          BY <2>1, <3>2, <1>1 DEF n
        <4>2. QED
          BY <3>2, <4>1
      <3>3. QED
        BY <3>1, <3>2, <1>6
    <2>3. QED
      BY <2>1, <2>2 DEF Moved, e
  <1>10. LateAreTimed'
    <2> SUFFICES ASSUME NEW x \in Entries, phase'[x] = "late" PROVE hasTimeout'[x]
      BY DEF LateAreTimed
    <2>1. x # e
      BY DEF e
    <2>2. phase[x] = "late"
      BY <2>1 DEF Moved, e
    <2>3. QED
      BY <2>1, <2>2, <1>5 DEF LateAreTimed
  <1>11. QED
    BY <1>2, <1>7, <1>8, <1>9, <1>10

\* A lane whose cap is one runs one task: a step adds tasks only within the cap.
LEMMA NarrowKept ==
    ASSUME TypeOK, TypeOK', SessionsNarrow, StartsInOrder,
           \A l \in Lanes : IsSessionLane(l) => maxConcurrent'[l] <= 1 /\ resumeTimer'[l] = 0
    PROVE  SessionsNarrow'
  <1> SUFFICES ASSUME NEW l \in Lanes, IsSessionLane(l)
               PROVE  Cardinality(activeTaskIds'[l]) <= 1
    BY DEF SessionsNarrow, IsSessionLane
  <1>1. /\ activeTaskIds[l] \in SUBSET Entries /\ activeTaskIds'[l] \in SUBSET Entries
        /\ maxConcurrent'[l] \in Nat
    BY DEF TypeOK
  <1>2. /\ IsFiniteSet(activeTaskIds[l]) /\ Cardinality(activeTaskIds[l]) \in Nat
        /\ Cardinality(activeTaskIds'[l]) \in Nat
    BY <1>1, EntriesFinite
  <1>3. CASE activeTaskIds'[l] \subseteq activeTaskIds[l]
    <2>1. Cardinality(activeTaskIds'[l]) <= Cardinality(activeTaskIds[l])
      BY <1>2, <1>3, FS_Subset
    <2>2. QED
      BY <2>1, <1>2 DEF SessionsNarrow
  <1>4. CASE ~(activeTaskIds'[l] \subseteq activeTaskIds[l])
    <2>1. PICK x \in activeTaskIds'[l] \ activeTaskIds[l] : TRUE
      BY <1>4
    <2>2. Cardinality(activeTaskIds'[l]) <= maxConcurrent'[l]
      BY <2>1 DEF StartsInOrder
    <2>3. QED
      BY <2>2, <1>1, <1>2
  <1>5. QED
    BY <1>3, <1>4

\* The fields of a new entry.
LEMMA EnqueueFields ==
    ASSUME TypeOK, NEW l, NEW p, NEW timed, EnqueueCommandInLane(l, p, timed)
    PROVE  /\ nextQueueSequence \in Entries /\ nextQueueSequence' = nextQueueSequence + 1
           /\ laneOf' = [laneOf EXCEPT ![nextQueueSequence] = l]
           /\ hasTimeout' = [hasTimeout EXCEPT ![nextQueueSequence] = timed]
           /\ maxConcurrent' = maxConcurrent /\ generation' = generation
  BY DEF EnqueueCommandInLane, TypeOK, Entries

\* A job's next entry is queued, in the lane of its path.
LEMMA EnqueuedKeeps ==
    ASSUME JobsInv, NEW j \in Jobs, Len(chain[j]) + 1 <= Len(Path(j)),
           EnqueueCommandInLane(Path(j)[Len(chain[j]) + 1], PriorityAt(j, Len(chain[j]) + 1),
                                TimedAt(j, Len(chain[j]) + 1)),
           chain' = [chain EXCEPT ![j] = Append(chain[j], nextQueueSequence)],
           Len(chain[j]) > 0 => phase[chain[j][Len(chain[j])]] = "running",
           UNCHANGED <<config, resumeTimer, suspensions>>
    PROVE  JobsInv'
  <1> DEFINE n == Len(chain[j]) + 1
             l == Path(j)[n]
             p == PriorityAt(j, n)
             t == TimedAt(j, n)
  <1>1. LaneInv /\ TypeOK /\ JobTypes
    BY DEF JobsInv, LaneInv
  <1>2. Len(chain[j]) \in Nat /\ n \in 1..Len(Path(j))
    <2>1. Len(chain[j]) \in Nat /\ Len(Path(j)) \in Nat
      BY <1>1, PathFacts DEF JobTypes
    <2>2. QED
      BY <2>1
  <1>3. l \in Lanes /\ p \in Priorities /\ t \in BOOLEAN
    <2>1. l \in Lanes
      BY <1>2, PathFacts
    <2>2. p \in Priorities
      BY PathFacts DEF PriorityAt, Priorities
    <2>3. t \in BOOLEAN
      BY Zenon DEF TimedAt
    <2>4. QED
      BY <2>1, <2>2, <2>3
  <1> HIDE DEF n, l, p, t
  <1>4. EnqueueCommandInLane(l, p, t)
    BY DEF n, l, p, t
  <1>5. /\ LaneInv' /\ StartsInOrder /\ Moved({nextQueueSequence})
        /\ phase'[nextQueueSequence] \in {"queued", "running"}
    BY <1>1, <1>3, <1>4, EnqueueStep
  <1>6. /\ nextQueueSequence \in Entries /\ nextQueueSequence' = nextQueueSequence + 1
        /\ laneOf' = [laneOf EXCEPT ![nextQueueSequence] = l]
        /\ hasTimeout' = [hasTimeout EXCEPT ![nextQueueSequence] = t]
        /\ maxConcurrent' = maxConcurrent /\ generation' = generation
    BY <1>1, <1>4, EnqueueFields
  <1>7. /\ chain' \in [Jobs -> Seq(Entries)]
        /\ ChainsMatch' /\ ChainsApart' /\ OuterHolds' /\ LateAreTimed'
    BY <1>1, <1>5, <1>6, ChainGrows DEF JobsInv, n, l, t
  <1>8. SessionsNarrow'
    BY <1>1, <1>5, <1>6, NarrowKept DEF JobsInv, LaneInv, SessionsNarrow
  <1>9. FirstGeneration' /\ JobTypes'
    BY <1>1, <1>6, <1>7 DEF JobsInv, FirstGeneration, JobTypes
  <1>10. QED
    BY <1>5, <1>7, <1>8, <1>9 DEF JobsInv

\* A step of the lanes that gives no job a new entry and widens no session's lane.
LEMMA LaneStepKeeps ==
    ASSUME JobsInv, LaneInv', StartsInOrder, NEW S \in SUBSET Entries, Moved(S),
           UNCHANGED <<chain, laneOf, hasTimeout, nextQueueSequence, generation>>,
           JobTypes',
           \A l \in Lanes : IsSessionLane(l) => /\ maxConcurrent'[l] = maxConcurrent[l]
                                                /\ resumeTimer'[l] = resumeTimer[l],
           \A x \in S : phase'[x] = "done" \/ (phase'[x] = "late" /\ hasTimeout[x]),
           \A j \in Jobs : \A i, m \in 1..Len(chain[j]) :
              m = i + 1 /\ chain[j][i] \in S => phase[chain[j][m]] \notin {"queued", "running"}
    PROVE  JobsInv'
  <1>1. TypeOK /\ TypeOK'
    BY DEF JobsInv, LaneInv
  <1>2. ChainsMatch' /\ ChainsApart' /\ OuterHolds' /\ LateAreTimed'
    BY <1>1, ChainsKept DEF JobsInv
  <1>3. SessionsNarrow'
    <2>1. \A l \in Lanes : IsSessionLane(l) => maxConcurrent'[l] <= 1 /\ resumeTimer'[l] = 0
      BY DEF JobsInv, SessionsNarrow
    <2>2. QED
      BY <2>1, <1>1, NarrowKept DEF JobsInv
  <1>4. FirstGeneration'
    BY DEF JobsInv, FirstGeneration
  <1>5. QED
    BY <1>2, <1>3, <1>4 DEF JobsInv

\* A running entry's slot is released: because what it waited for has settled, or
\* because its timer fired, which only an innermost entry has.
LEMMA ReleasedKeeps ==
    ASSUME JobsInv, NEW e \in Entries, NEW next \in {"done", "late"}, phase[e] = "running",
           next = "late" => hasTimeout[e], ReleaseSlot(e, next), UNCHANGED jobVars,
           \A j \in Jobs : \A i, m \in 1..Len(chain[j]) :
              m = i + 1 /\ chain[j][i] = e => phase[chain[j][m]] \notin {"queued", "running"}
    PROVE  JobsInv'
  <1>1. LaneInv /\ next \in Phases \ {"none", "queued", "running"}
    BY DEF JobsInv, Phases
  <1>2. LaneInv' /\ StartsInOrder /\ Moved({e}) /\ phase'[e] = next
    BY <1>1, ReleaseStep
  <1>3. /\ maxConcurrent' = maxConcurrent /\ generation' = generation /\ laneOf' = laneOf
        /\ hasTimeout' = hasTimeout /\ nextQueueSequence' = nextQueueSequence
        /\ chain' = chain /\ config' = config /\ resumeTimer' = resumeTimer
        /\ suspensions' = suspensions
    BY DEF ReleaseSlot, entryVars, jobVars
  <1>4. JobTypes'
    BY <1>3 DEF JobsInv, JobTypes
  <1>5. {e} \in SUBSET Entries
    OBVIOUS
  <1>6. \A x \in {e} : phase'[x] = "done" \/ (phase'[x] = "late" /\ hasTimeout[x])
    BY <1>2
  <1>7. \A j \in Jobs : \A i, m \in 1..Len(chain[j]) :
           m = i + 1 /\ chain[j][i] \in {e} => phase[chain[j][m]] \notin {"queued", "running"}
    OBVIOUS
  <1>8. QED
    BY <1>2, <1>3, <1>4, <1>5, <1>6, <1>7, LaneStepKeeps

\* An entry with a timeout has no inner one.
LEMMA TimedIsInnermost ==
    ASSUME JobsInv, NEW e \in Entries, hasTimeout[e]
    PROVE  \A j \in Jobs : \A i, m \in 1..Len(chain[j]) : ~(m = i + 1 /\ chain[j][i] = e)
  <1> SUFFICES ASSUME NEW j \in Jobs, NEW i \in 1..Len(chain[j]), NEW m \in 1..Len(chain[j]),
                      m = i + 1, chain[j][i] = e
               PROVE  FALSE
    OBVIOUS
  <1>1. Len(chain[j]) \in Nat
    BY DEF JobsInv, JobTypes
  <1>2. i < Len(chain[j])
    BY <1>1
  <1>3. QED
    BY <1>2, OuterUntimed DEF JobsInv

\* Steps that change at most progress reports, the draining flag and late bodies.
LEMMA QuietKeeps ==
    ASSUME JobsInv, TypeOK', UNCHANGED <<laneVars, entryVars, taskGeneration>>, UNCHANGED jobVars,
           NEW S \in SUBSET Entries,
           \A e \in S : phase[e] = "late" /\ phase'[e] = "done",
           \A e \in Entries \ S : phase'[e] = phase[e]
    PROVE  JobsInv'
  <1>1. LaneInv' /\ StartsInOrder
    BY QuietStep DEF JobsInv
  <1>2. Moved(S)
    BY DEF Moved
  <1>3. /\ maxConcurrent' = maxConcurrent /\ generation' = generation /\ laneOf' = laneOf
        /\ hasTimeout' = hasTimeout /\ nextQueueSequence' = nextQueueSequence
        /\ chain' = chain /\ config' = config /\ resumeTimer' = resumeTimer
        /\ suspensions' = suspensions
    BY DEF laneVars, entryVars, jobVars
  <1>4. JobTypes'
    BY <1>3 DEF JobsInv, JobTypes
  <1>5. \A x \in S : phase'[x] = "done" \/ (phase'[x] = "late" /\ hasTimeout[x])
    OBVIOUS
  <1>6. \A j \in Jobs : \A i, m \in 1..Len(chain[j]) :
           m = i + 1 /\ chain[j][i] \in S => phase[chain[j][m]] \notin {"queued", "running"}
    <2>1. \A e \in S : hasTimeout[e]
      BY DEF JobsInv, LateAreTimed
    <2>2. QED
      BY <2>1, TimedIsInnermost
  <1>7. QED
    BY <1>1, <1>2, <1>3, <1>4, <1>5, <1>6, LaneStepKeeps

\* A reload sets the caps of the configured lanes and pumps them.
LEMMA ReloadStep ==
    ASSUME JobsInv, NEW n \in DOMAIN Configs, ApplyGatewayLaneConcurrency(n)
    PROVE  JobsInv'
  <1>1. LaneInv /\ TypeOK /\ EntriesConsistent
    BY DEF JobsInv, LaneInv
  <1>2. /\ n + 1 \in DOMAIN Configs /\ config' = Configs[n + 1]
        /\ lanes' = lanes \cup ConfiguredLanes
        /\ maxConcurrent' =
              [l \in Lanes |-> IF l \in ConfiguredLanes THEN config'[l] ELSE maxConcurrent[l]]
        /\ generation' = generation /\ laneOf' = laneOf
        /\ Pump(ConfiguredLanes, queue, activeTaskIds, phase)
        /\ gatewayDraining' = gatewayDraining /\ priority' = priority
        /\ hasTimeout' = hasTimeout /\ nextQueueSequence' = nextQueueSequence
        /\ progressed' = progressed
        /\ waiter' = waiter /\ captured' = captured /\ waiterTimed' = waiterTimed
        /\ chain' = chain /\ resumeTimer' = resumeTimer /\ suspensions' = suspensions
    BY DEF ApplyGatewayLaneConcurrency, waiterVars
  <1>3. config' \in [ConfiguredLanes -> Nat \ {0}] /\ ConfiguredLanes \in SUBSET Lanes
    <2>1. Configs \in Seq([ConfiguredLanes -> Nat \ {0}])
      BY LanesAssumption
    <2>2. config' \in [ConfiguredLanes -> Nat \ {0}]
      BY <2>1, <1>2
    <2>3. ConfiguredLanes \in SUBSET Lanes
      BY DEF ConfiguredLanes
    <2>4. QED
      BY <2>2, <2>3
  <1>4. /\ maxConcurrent' \in [Lanes -> Nat]
        /\ \A l \in Lanes \ ConfiguredLanes : maxConcurrent'[l] = maxConcurrent[l]
    BY <1>1, <1>2, <1>3 DEF TypeOK
  <1>5. \A k \in Lanes \ ConfiguredLanes :
           queue[k] # <<>> => Cardinality(activeTaskIds[k]) >= maxConcurrent'[k]
    BY <1>1, <1>4 DEF LaneInv, NoStrandedWork
  <1>6. /\ ActiveOf(activeTaskIds, phase, laneOf', taskGeneration, generation')
        /\ QueuedOf(queue, phase, laneOf') /\ OrderedOf(queue, priority')
    BY <1>1, <1>2, LaneInvForms
  <1>7. /\ queue' \in [Lanes -> Seq(Entries)] /\ activeTaskIds' \in [Lanes -> SUBSET Entries]
        /\ phase' \in [Entries -> Phases] /\ taskGeneration' \in [Entries -> Nat]
        /\ ActiveIsCurrent' /\ QueuedExactlyOnce' /\ QueueOrdered' /\ NoStrandedWork'
        /\ \A x \in Entries :
             \/ phase'[x] = phase[x] /\ taskGeneration'[x] = taskGeneration[x]
             \/ /\ phase[x] = "queued" /\ phase'[x] = "running"
                /\ taskGeneration'[x] = generation'[laneOf'[x]]
        /\ \A k \in Lanes : \A x \in activeTaskIds'[k] \ activeTaskIds[k] :
             /\ Cardinality(activeTaskIds'[k]) <= maxConcurrent'[k]
             /\ \A i \in DOMAIN queue'[k] : Ahead(priority', x, queue'[k][i])
    <2>1. /\ queue \in [Lanes -> Seq(Entries)] /\ activeTaskIds \in [Lanes -> SUBSET Entries]
          /\ phase \in [Entries -> Phases] /\ generation' \in [Lanes -> Nat]
          /\ taskGeneration \in [Entries -> Nat]
          /\ laneOf' \in [Entries -> Lanes \cup {NoLane}]
      BY <1>1, <1>2 DEF TypeOK
    <2>2. QED
      BY <2>1, <1>2, <1>3, <1>4, <1>5, <1>6, PumpKeeps
  <1>8. TypeOK'
    BY <1>1, <1>2, <1>3, <1>4, <1>7 DEF TypeOK
  <1>9. EntriesConsistent'
    BY <1>1, <1>2, <1>7, PumpedEntries DEF TypeOK
  <1>10. LaneInv' /\ StartsInOrder /\ Moved({})
    BY <1>7, <1>8, <1>9 DEF LaneInv, StartsInOrder, Moved
  <1>11. JobTypes'
    BY <1>2, <1>3 DEF JobsInv, JobTypes
  <1>12. \A l \in Lanes : IsSessionLane(l) => /\ maxConcurrent'[l] = maxConcurrent[l]
                                              /\ resumeTimer'[l] = resumeTimer[l]
    BY <1>2, <1>4, PathsAssumption
  <1>13. {} \in SUBSET Entries
    OBVIOUS
  <1>14. QED
    BY <1>2, <1>10, <1>11, <1>12, <1>13, LaneStepKeeps

\* A suspension pauses a lane that is no session's, and the resume timer that ends
\* it restores the cap of the same lane.
LEMMA ResizeKeeps ==
    ASSUME JobsInv, NEW l \in Lanes, ~IsSessionLane(l), NEW n \in Nat, NEW c \in Nat,
           SetCommandLaneConcurrency(l, n), resumeTimer' = [resumeTimer EXCEPT ![l] = c],
           UNCHANGED <<chain, config>>, suspensions' \in Nat
    PROVE  JobsInv'
  <1>1. LaneInv /\ TypeOK /\ JobTypes
    BY DEF JobsInv, LaneInv
  <1>2. LaneInv' /\ StartsInOrder /\ Moved({})
    BY <1>1, SetConcurrencyStep
  <1>3. /\ generation' = generation /\ laneOf' = laneOf
        /\ hasTimeout' = hasTimeout /\ nextQueueSequence' = nextQueueSequence
        /\ \A k \in Lanes : k # l => maxConcurrent'[k] = maxConcurrent[k]
    BY <1>1 DEF SetCommandLaneConcurrency, TypeOK
  <1>4. /\ JobTypes'
        /\ \A k \in Lanes : k # l => resumeTimer'[k] = resumeTimer[k]
    BY <1>1 DEF JobTypes
  <1>5. \A k \in Lanes : IsSessionLane(k) => /\ maxConcurrent'[k] = maxConcurrent[k]
                                             /\ resumeTimer'[k] = resumeTimer[k]
    BY <1>3, <1>4
  <1>6. {} \in SUBSET Entries
    OBVIOUS
  <1>7. QED
    BY <1>2, <1>3, <1>4, <1>5, <1>6, LaneStepKeeps

\* The same for steps that leave every phase alone.
LEMMA StillKeeps ==
    ASSUME JobsInv, TypeOK', UNCHANGED <<laneVars, entryVars, taskGeneration>>, UNCHANGED jobVars,
           phase' = phase
    PROVE  JobsInv'
  <1>1. /\ {} \in SUBSET Entries /\ \A e \in {} : phase[e] = "late" /\ phase'[e] = "done"
        /\ \A e \in Entries \ {} : phase'[e] = phase[e]
    OBVIOUS
  <1>2. QED
    BY <1>1, QuietKeeps, Zenon

\* Every step of the jobs keeps the invariant.
LEMMA LanesNextKeeps ==
    ASSUME JobsInv, LanesNext
    PROVE  JobsInv'
  <1>0. LaneInv /\ TypeOK /\ JobTypes /\ ChainsApart
    BY DEF JobsInv, LaneInv
  <1>a. \A j \in Jobs : /\ chain[j] \in Seq(Entries) /\ Len(chain[j]) \in Nat
                        /\ \A i \in 1..Len(chain[j]) : chain[j][i] \in Entries
    BY <1>0 DEF JobTypes
  <1>1. ASSUME NEW j \in Jobs, Submit(j) PROVE JobsInv'
    <2>1. /\ chain[j] = <<>> /\ chain' = [chain EXCEPT ![j] = <<nextQueueSequence>>]
          /\ EnqueueCommandInLane(Path(j)[1], PriorityAt(j, 1), TimedAt(j, 1))
          /\ UNCHANGED <<config, resumeTimer, suspensions>>
      BY <1>1 DEF Submit
    <2>2. Len(chain[j]) = 0 /\ Append(chain[j], nextQueueSequence) = <<nextQueueSequence>>
          /\ Len(chain[j]) + 1 = 1 /\ ~(Len(chain[j]) > 0)
      BY <2>1
    <2>3. Len(chain[j]) + 1 <= Len(Path(j))
      <3>1. Len(Path(j)) \in {2, 3}
        BY PathFacts
      <3>2. QED
        BY <2>2, <3>1, SMTT(30)
    <2>4. EnqueueCommandInLane(Path(j)[Len(chain[j]) + 1], PriorityAt(j, Len(chain[j]) + 1),
                               TimedAt(j, Len(chain[j]) + 1))
      <3>1. ASSUME NEW n, n = 1 PROVE EnqueueCommandInLane(Path(j)[n], PriorityAt(j, n), TimedAt(j, n))
        BY <2>1, <3>1
      <3>2. QED
        BY <2>2, <3>1
    <2>5. chain' = [chain EXCEPT ![j] = Append(chain[j], nextQueueSequence)]
      BY <2>1, <2>2
    <2>6. QED
      BY <2>1, <2>2, <2>3, <2>4, <2>5, EnqueuedKeeps
  <1>2. ASSUME NEW j \in Jobs, Descend(j) PROVE JobsInv'
    <2>1. /\ Len(chain[j]) + 1 \in 2..Len(Path(j)) /\ phase[chain[j][Len(chain[j])]] = "running"
          /\ EnqueueCommandInLane(Path(j)[Len(chain[j]) + 1], PriorityAt(j, Len(chain[j]) + 1),
                                  TimedAt(j, Len(chain[j]) + 1))
          /\ chain' = [chain EXCEPT ![j] = Append(chain[j], nextQueueSequence)]
          /\ UNCHANGED <<config, resumeTimer, suspensions>>
      BY <1>2 DEF Descend, Depth, Innermost
    <2>2. Len(chain[j]) + 1 <= Len(Path(j))
      BY <2>1, PathFacts
    <2>3. QED
      BY <2>1, <2>2, EnqueuedKeeps
  <1>3. ASSUME NEW j \in Jobs, NEW i \in 1..Len(Path(j)), Settle(j, i) PROVE JobsInv'
    <2> DEFINE e == chain[j][i]
    <2>1. /\ i \in 1..Len(chain[j]) /\ phase[e] = "running" /\ ReleaseSlot(e, "done")
          /\ UNCHANGED jobVars
          /\ i < Len(chain[j]) => phase[chain[j][i + 1]] \in {"done", "cleared", "late"}
      BY <1>3 DEF Settle, Depth, Resolved, TaskSettles
    <2>2. e \in Entries
      BY <2>1, <1>a
    <2> HIDE DEF e
    <2>3. ASSUME NEW k \in Jobs, NEW h \in 1..Len(chain[k]), NEW m \in 1..Len(chain[k]),
                 m = h + 1, chain[k][h] = e
          PROVE  phase[chain[k][m]] \notin {"queued", "running"}
      <3>1. k = j /\ h = i
        BY <2>1, <2>3, <1>0 DEF ChainsApart, e
      <3>2. i < Len(chain[j]) /\ m = i + 1
        BY <2>3, <3>1, <1>a
      <3>3. QED
        BY <2>1, <3>1, <3>2
    <2>4. QED
      BY <2>1, <2>2, <2>3, ReleasedKeeps
  <1>4. ASSUME NEW e \in Entries, Timer(e) PROVE JobsInv'
    <2>1. UNCHANGED jobVars /\ (TimerRearms(e) \/ TaskTimesOut(e))
      BY <1>4 DEF Timer
    <2>2. CASE TimerRearms(e)
      <3>1. /\ UNCHANGED <<gatewayDraining, laneVars, entryVars, taskGeneration, phase, waiterVars>>
            /\ progressed' = progressed \ {e}
        BY <2>2 DEF TimerRearms
      <3>2. TypeOK'
        BY <3>1, <1>0 DEF TypeOK, laneVars, entryVars, waiterVars
      <3>3. QED
        BY <2>1, <3>1, <3>2, StillKeeps
    <2>3. CASE TaskTimesOut(e)
      <3>1. phase[e] = "running" /\ hasTimeout[e] /\ ReleaseSlot(e, "late")
        BY <2>3 DEF TaskTimesOut
      <3>2. \A j \in Jobs : \A i, m \in 1..Len(chain[j]) : ~(m = i + 1 /\ chain[j][i] = e)
        BY <3>1, TimedIsInnermost
      <3>3. QED
        BY <2>1, <3>1, <3>2, ReleasedKeeps
    <2>4. QED
      BY <2>1, <2>2, <2>3
  <1>5. ASSUME NEW e \in Entries, BodyMakesProgress(e) PROVE JobsInv'
    <2>1. /\ UNCHANGED <<gatewayDraining, laneVars, entryVars, taskGeneration, phase, waiterVars>>
          /\ progressed' = progressed \cup {e} /\ UNCHANGED jobVars
      BY <1>5 DEF BodyMakesProgress, ReportProgress
    <2>2. TypeOK'
      BY <2>1, <1>0 DEF TypeOK, laneVars, entryVars, waiterVars
    <2>3. QED
      BY <2>1, <2>2, StillKeeps
  <1>6. ASSUME NEW e \in Entries, LateBodyEnds(e) PROVE JobsInv'
    <2>1. /\ UNCHANGED <<gatewayDraining, laneVars, entryVars, taskGeneration, progressed, waiterVars>>
          /\ phase[e] = "late" /\ phase' = [phase EXCEPT ![e] = "done"] /\ UNCHANGED jobVars
      BY <1>6 DEF LateBodyEnds, LateTaskEnds
    <2>2. /\ phase' \in [Entries -> Phases]
          /\ phase'[e] = "done" /\ \A x \in Entries \ {e} : phase'[x] = phase[x]
      BY <2>1, <1>0 DEF TypeOK, Phases
    <2>3. TypeOK'
      BY <2>1, <2>2, <1>0 DEF TypeOK, laneVars, entryVars, waiterVars
    <2>4. {e} \in SUBSET Entries /\ \A x \in {e} : phase[x] = "late" /\ phase'[x] = "done"
      BY <2>1, <2>2
    <2>5. QED
      BY <2>1, <2>2, <2>3, <2>4, QuietKeeps
  <1>7. CASE GatewayDrains
    <2>1. /\ UNCHANGED <<laneVars, entryVars, taskGeneration, phase, progressed, waiterVars>>
          /\ gatewayDraining' = TRUE /\ UNCHANGED jobVars
      BY <1>7 DEF GatewayDrains, MarkGatewayDraining
    <2>2. TypeOK'
      BY <2>1, <1>0 DEF TypeOK, laneVars, entryVars, waiterVars
    <2>3. QED
      BY <2>1, <2>2, StillKeeps
  <1>8. ASSUME NEW l \in Lanes, ClearSessionLane(l) PROVE JobsInv'
    <2>1. ClearCommandLane(l) /\ UNCHANGED jobVars
      BY <1>8 DEF ClearSessionLane
    <2>2. LaneInv' /\ StartsInOrder /\ Moved({})
      BY <2>1, <1>0, ClearStep
    <2>3. /\ maxConcurrent' = maxConcurrent /\ generation' = generation /\ laneOf' = laneOf
          /\ hasTimeout' = hasTimeout /\ nextQueueSequence' = nextQueueSequence
          /\ chain' = chain /\ config' = config /\ resumeTimer' = resumeTimer
          /\ suspensions' = suspensions
      BY <2>1 DEF ClearCommandLane, entryVars, jobVars
    <2>4. JobTypes' /\ {} \in SUBSET Entries
      BY <2>3, <1>0 DEF JobTypes
    <2>5. QED
      BY <2>2, <2>3, <2>4, LaneStepKeeps
  <1>9. ASSUME NEW l \in Lanes, SuspendSession(l) PROVE JobsInv'
    <2>1. /\ ~IsSessionLane(l) /\ SetCommandLaneConcurrency(l, 0)
          /\ resumeTimer' = [resumeTimer EXCEPT ![l] = ResumeConcurrency(l)]
          /\ suspensions' = suspensions + 1 /\ UNCHANGED <<chain, config>>
      BY <1>9 DEF SuspendSession
    <2>2. ResumeConcurrency(l) \in Nat /\ suspensions' \in Nat
      BY <2>1, <1>0 DEF ResumeConcurrency, JobTypes
    <2>3. QED
      BY <2>1, <2>2, ResizeKeeps
  <1>10. ASSUME NEW l \in Lanes, LaneAutoResumes(l) PROVE JobsInv'
    <2>1. /\ resumeTimer[l] > 0 /\ SetCommandLaneConcurrency(l, resumeTimer[l])
          /\ resumeTimer' = [resumeTimer EXCEPT ![l] = 0]
          /\ UNCHANGED <<chain, config, suspensions>>
      BY <1>10 DEF LaneAutoResumes
    <2>2. ~IsSessionLane(l) /\ resumeTimer[l] \in Nat /\ suspensions' \in Nat
      BY <2>1, <1>0 DEF JobsInv, SessionsNarrow, JobTypes
    <2>3. QED
      BY <2>1, <2>2, ResizeKeeps
  <1>11. QED
    BY <1>1, <1>2, <1>3, <1>4, <1>5, <1>6, <1>7, <1>8, <1>9, <1>10, ReloadStep DEF LanesNext

\* No job has been submitted, and every lane starts with one slot.
LEMMA LanesInitInv ==
    LanesInit => JobsInv
  <1> SUFFICES ASSUME LanesInit PROVE JobsInv
    OBVIOUS
  <1>1. Init /\ LaneInv /\ TypeOK
    BY InitLaneInv DEF LanesInit, LaneInv
  <1>2. JobTypes
    <2>1. Configs \in Seq([ConfiguredLanes -> Nat \ {0}]) /\ Configs # <<>>
      BY LanesAssumption
    <2>2. Configs[1] \in [ConfiguredLanes -> Nat \ {0}]
      BY <2>1
    <2>3. chain \in [Jobs -> Seq(Entries)]
      <3>1. <<>> \in Seq(Entries)
        OBVIOUS
      <3>2. QED
        BY <3>1, Zenon DEF LanesInit
    <2>4. QED
      BY <2>2, <2>3 DEF LanesInit, JobTypes
  <1>3. \A j \in Jobs : Len(chain[j]) = 0
    BY DEF LanesInit
  <1>4. ChainsMatch /\ ChainsApart /\ OuterHolds
    <2>1. ChainsMatch
      BY <1>3, PathFacts DEF ChainsMatch
    <2>2. ChainsApart /\ OuterHolds
      BY <1>3 DEF ChainsApart, OuterHolds
    <2>3. QED
      BY <2>1, <2>2
  <1>5. LateAreTimed /\ FirstGeneration
    BY <1>1 DEF Init, LateAreTimed, FirstGeneration
  <1>6. SessionsNarrow
    <2>1. Cardinality({}) = 0
      BY FS_EmptySet
    <2>2. QED
      BY <1>1, <2>1 DEF Init, LanesInit, SessionsNarrow
  <1>7. QED
    BY <1>1, <1>2, <1>4, <1>5, <1>6 DEF JobsInv

\* The jobs' invariant.
THEOREM LanesInvariant == LanesSpec => []JobsInv
  <1>1. JobsInv /\ UNCHANGED allVars => JobsInv'
    <2> SUFFICES ASSUME JobsInv, UNCHANGED allVars PROVE JobsInv'
      OBVIOUS
    <2>1. /\ UNCHANGED <<gatewayDraining, laneVars, entryVars, taskGeneration, phase, progressed>>
          /\ UNCHANGED waiterVars /\ UNCHANGED jobVars
      BY DEF allVars, vars
    <2>2. TypeOK'
      BY <2>1 DEF JobsInv, LaneInv, TypeOK, laneVars, entryVars, waiterVars
    <2>3. QED
      BY <2>1, <2>2, StillKeeps
  <1>2. JobsInv /\ [LanesNext]_allVars => JobsInv'
    BY <1>1, LanesNextKeeps
  <1>3. QED
    BY <1>2, LanesInitInv, PTL DEF LanesSpec

\* Nested enqueues, reloads, suspensions and resume timers leave no lane with queued
\* work beside a free slot, and no slot is leaked or freed twice: what holds of the
\* command queue by itself holds under its use by the runners.
THEOREM LanesStayPumped == LanesSpec => [](NoStrandedWork /\ ActiveIsCurrent /\ QueuedExactlyOnce)
  <1>1. JobsInv => NoStrandedWork /\ ActiveIsCurrent /\ QueuedExactlyOnce
    BY DEF JobsInv, LaneInv
  <1>2. QED
    BY <1>1, LanesInvariant, PTL

\* The lane of a session has one running entry.
LEMMA OneEntryPerSession ==
    ASSUME JobsInv, NEW l \in Lanes, IsSessionLane(l), NEW a \in Entries, NEW b \in Entries,
           phase[a] = "running", laneOf[a] = l, phase[b] = "running", laneOf[b] = l
    PROVE  a = b
  <1>1. LaneInv /\ TypeOK /\ EntriesConsistent /\ ActiveIsCurrent
    BY DEF JobsInv, LaneInv
  <1>2. generation[l] = 0
    BY DEF JobsInv, FirstGeneration
  <1>3. ASSUME NEW x \in {a, b} PROVE x \in activeTaskIds[l]
    <2>1. x \in Entries /\ phase[x] = "running" /\ laneOf[x] = l
      OBVIOUS
    <2>2. taskGeneration[x] \in Nat /\ (x < nextQueueSequence => taskGeneration[x] <= generation[l])
      BY <2>1, <1>1 DEF TypeOK, EntriesConsistent
    <2>3. x < nextQueueSequence
      BY <2>1, <1>1 DEF EntriesConsistent
    <2>4. taskGeneration[x] = generation[l]
      BY <2>2, <2>3, <1>2
    <2>5. QED
      BY <2>1, <2>4, <1>1 DEF ActiveIsCurrent
  <1>4. SUFFICES ASSUME a # b PROVE FALSE
    OBVIOUS
  <1>5. IsFiniteSet(activeTaskIds[l]) /\ Cardinality(activeTaskIds[l]) \in Nat
    BY <1>1, EntriesFinite DEF TypeOK
  <1>6. Cardinality(activeTaskIds[l]) <= 1
    BY DEF JobsInv, SessionsNarrow
  <1>7. {a, b} \subseteq activeTaskIds[l]
    BY <1>3
  <1>8. Cardinality({a, b}) = 2
    <2>1. IsFiniteSet({a}) /\ Cardinality({a}) = 1
      BY FS_Singleton
    <2>2. {a} \cup {b} = {a, b} /\ b \notin {a}
      BY <1>4
    <2>3. Cardinality({a} \cup {b}) = IF b \in {a} THEN Cardinality({a}) ELSE Cardinality({a}) + 1
      BY <2>1, FS_AddElement, Zenon
    <2>4. Cardinality({a, b}) = Cardinality({a}) + 1
      BY <2>2, <2>3, Zenon
    <2>5. QED
      BY <2>1, <2>4
  <1>9. Cardinality({a, b}) <= Cardinality(activeTaskIds[l])
    BY <1>5, <1>7, FS_Subset
  <1>10. QED
    BY <1>5, <1>6, <1>8, <1>9

\* A job whose body holds a slot of its global lane holds the slot of its session.
LEMMA BodyHoldsSession ==
    ASSUME JobsInv, NEW j \in Jobs, Depth(j) = Len(Path(j)), phase[Innermost(j)] = "running"
    PROVE  \E m \in 1..Len(chain[j]) :
              /\ chain[j][m] \in Entries /\ laneOf[chain[j][m]] = JobOf[j].session
              /\ phase[chain[j][m]] = "running"
  <1> DEFINE n == Len(chain[j])
  <1>1. n \in {2, 3} /\ n = Len(Path(j)) /\ Path(j)[n - 1] = JobOf[j].session
    BY PathFacts DEF Depth
  <1>2. phase[chain[j][n]] = "running"
    BY DEF Depth, Innermost
  <1>3. n - 1 \in 1..Len(chain[j]) /\ n \in 1..Len(chain[j]) /\ n = (n - 1) + 1
    BY <1>1
  <1>4. phase[chain[j][n - 1]] = "running"
    BY <1>2, <1>3 DEF JobsInv, OuterHolds
  <1>5. laneOf[chain[j][n - 1]] = JobOf[j].session
    BY <1>1, <1>3 DEF JobsInv, ChainsMatch
  <1>6. chain[j][n - 1] \in Entries
    BY <1>3 DEF JobsInv, JobTypes
  <1>7. QED
    BY <1>3, <1>4, <1>5, <1>6

\* A body that runs without its slot has a timeout.
LEMMA LateBodyTimed ==
    ASSUME JobsInv, NEW j \in Jobs, Depth(j) = Len(Path(j)), phase[Innermost(j)] = "late"
    PROVE  JobOf[j].timed
  <1> DEFINE n == Len(chain[j])
  <1>1. n \in {2, 3} /\ n = Len(Path(j))
    BY PathFacts DEF Depth
  <1>2. n \in 1..Len(chain[j]) /\ phase[chain[j][n]] = "late"
    BY <1>1 DEF Depth, Innermost
  <1>3. chain[j][n] \in Entries
    BY <1>2 DEF JobsInv, JobTypes
  <1>4. hasTimeout[chain[j][n]] /\ hasTimeout[chain[j][n]] = TimedAt(j, n)
    BY <1>2, <1>3 DEF JobsInv, LateAreTimed, ChainsMatch
  <1>5. QED
    BY <1>4, Zenon DEF TimedAt

\* Two bodies of one session do not both hold a slot.
LEMMA NoTwoHolders ==
    ASSUME JobsInv, NEW j \in Jobs, NEW other \in Jobs, j # other,
           JobOf[j].session = JobOf[other].session,
           Depth(j) = Len(Path(j)), Depth(other) = Len(Path(other)),
           phase[Innermost(j)] = "running", phase[Innermost(other)] = "running"
    PROVE  FALSE
  <1>1. PICK m \in 1..Len(chain[j]) :
              /\ chain[j][m] \in Entries /\ laneOf[chain[j][m]] = JobOf[j].session
              /\ phase[chain[j][m]] = "running"
    BY BodyHoldsSession
  <1>2. PICK k \in 1..Len(chain[other]) :
              /\ chain[other][k] \in Entries /\ laneOf[chain[other][k]] = JobOf[other].session
              /\ phase[chain[other][k]] = "running"
    BY BodyHoldsSession
  <1>3. JobOf[j].session \in Lanes /\ IsSessionLane(JobOf[j].session)
    BY PathFacts
  <1>4. chain[j][m] = chain[other][k]
    BY <1>1, <1>2, <1>3, OneEntryPerSession
  <1>5. QED
    BY <1>4 DEF JobsInv, ChainsApart

\* Two runs of a session overlap only while one of them is a body that its lane
\* timeout (runQueueEntryTask) has given up.
THEOREM OverlapNeedsTimeout == LanesSpec => []OverlapsAreAbandoned
  <1>1. JobsInv => OverlapsAreAbandoned
    <2> SUFFICES ASSUME JobsInv, NEW j \in Jobs, NEW other \in Jobs, j # other,
                        JobOf[j].session = JobOf[other].session, BodyRuns(j), BodyRuns(other)
                 PROVE  \E k \in {j, other} : JobOf[k].timed /\ phase[Innermost(k)] = "late"
      BY Zenon DEF OverlapsAreAbandoned
    <2>1. /\ Depth(j) = Len(Path(j)) /\ phase[Innermost(j)] \in {"running", "late"}
          /\ Depth(other) = Len(Path(other)) /\ phase[Innermost(other)] \in {"running", "late"}
      BY DEF BodyRuns
    <2>2. PICK k \in {j, other} : phase[Innermost(k)] = "late"
      BY <2>1, NoTwoHolders
    <2>3. k \in Jobs /\ Depth(k) = Len(Path(k))
      BY <2>1
    <2>4. JobOf[k].timed
      BY <2>2, <2>3, LateBodyTimed
    <2>5. QED
      BY <2>2, <2>4
  <1>2. QED
    BY <1>1, LanesInvariant, PTL

\* At most one agent run of a session executes, whichever global lanes its runs go
\* through and however those are reloaded, suspended and resumed, when runs that
\* share a session have no lane timeout.
THEOREM SessionRunsOneAtATime ==
    ASSUME SharedSessionsUntimed
    PROVE  LanesSpec => []OneRunPerSession
  <1>1. OverlapsAreAbandoned => OneRunPerSession
    <2> SUFFICES ASSUME OverlapsAreAbandoned, NEW j \in Jobs, NEW other \in Jobs, j # other,
                        JobOf[j].session = JobOf[other].session, BodyRuns(j), BodyRuns(other)
                 PROVE  FALSE
      BY Zenon DEF OneRunPerSession
    <2>1. PICK k \in {j, other} : JobOf[k].timed
      BY Zenon DEF OverlapsAreAbandoned
    <2>2. ~JobOf[j].timed /\ ~JobOf[other].timed
      BY DEF SharedSessionsUntimed
    <2>3. QED
      BY <2>1, <2>2
  <1>2. QED
    BY <1>1, OverlapNeedsTimeout, PTL
=============================================================================
