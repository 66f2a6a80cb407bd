------------------------ MODULE FollowupQueueProofs ------------------------
(***************************************************************************)
(* Proofs about FollowupQueue, for any messages, settings, number of       *)
(* drains and bounds.                                                      *)
(***************************************************************************)
EXTENDS FollowupQueue, FiniteSetTheorems, WellFoundedInduction, TLAPS

-----------------------------------------------------------------------------
(***************************************************************************)
(* What holds under every overflow policy.                                 *)
(***************************************************************************)

\* A turn for one message, or for several of one sender and one route.
Homogeneous(s) ==
    \/ Len(s) <= 1
    \/ /\ \A i, j \in DOMAIN s : AuthOf[s[i]] = AuthOf[s[j]]
       /\ ~CrossChannel(s)

\* The locals of a drain.
DrainOK(dr) ==
    /\ dr \in DrainStates
    /\ Homogeneous(dr.batch) /\ ~CrossChannel(dr.rest)
    /\ dr.pc = "aborting" => dr.index >= 1

\* The flag, the drain that owns the queue, and the queue in the map.
Ownership ==
    /\ OneDrainPerQueue
    /\ queue.present \/ queue = Absent
    /\ queue.draining => queue.present
    /\ \A d \in Drains : DrainOK(drains[d]) /\ (drains[d].pc = "none" => drains[d] = Idle)

\* The reply operation, and who runs.
OperationHeld ==
    /\ op = "main" <=> main = "running"
    /\ \A d \in Drains : op = d <=> drains[d].pc = "running"

\* Until a queue is cleared every drain owns its queue, and work is never stranded.
BackedUntilCleared ==
    clears = 0 =>
        /\ \A d \in Drains : drains[d].pc # "none" => drains[d].owns
        /\ Work(queue) => queue.draining \/ main # "none"

DrainInv == TypeOK /\ Ownership /\ OperationHeld /\ BackedUntilCleared

-----------------------------------------------------------------------------
(***************************************************************************)
(* What holds when the queue refuses new messages instead of dropping old  *)
(* ones.                                                                   *)
(***************************************************************************)

RefusesNew == \A s \in Settings : s.dropPolicy = "new"

NoSummary(q) ==
    q.dropPolicy = "new" /\ q.droppedCount = 0 /\ q.summaryLines = <<>> /\ q.summarySources = <<>>

Distinct(s) == \A i, j \in DOMAIN s : s[i] = s[j] => i = j

\* What a drain has in its hands.
Held(dr) == ToSet(dr.batch) \cup ToSet(dr.rest)

\* A drain runs messages one by one or in groups, never a summary.
Plain(dr) ==
    /\ dr.kind \in {"single", "group"} /\ ~dr.summary /\ dr.lines = {}
    /\ dr.kind = "single" => Len(dr.batch) <= 1

\* The drain's batch and the groups it will run next are the head of its queue; a
\* message it found aborted is still where it was found.
Aligned(dr, items) ==
    /\ Plain(dr)
    /\ dr.pc \in {"none", "debounce"} => dr.batch = <<>> /\ dr.rest = <<>>
    /\ dr.pc = "aborting" =>
          /\ dr.index \in DOMAIN items /\ dr.batch = <<items[dr.index]>> /\ dr.rest = <<>>
          /\ items[dr.index] \in aborted
    /\ dr.pc \in {"starting", "running", "failing"} =>
          /\ Len(dr.batch) >= 1 /\ Len(dr.batch) + Len(dr.rest) <= Len(items)
          /\ \A i \in DOMAIN dr.batch : dr.batch[i] = items[i]
          /\ \A i \in DOMAIN dr.rest : dr.rest[i] = items[Len(dr.batch) + i]

\* A drain whose queue was cleared works on cleared messages nobody else has.
OrphanOK(d) ==
    LET dr == drains[d]
    IN  /\ Plain(dr) /\ Distinct(dr.batch) /\ Distinct(dr.rest) /\ ToSet(dr.batch) \cap ToSet(dr.rest) = {}
        /\ Held(dr) \cap ToSet(queue.items) = {}
        /\ \A other \in Drains : other # d /\ ~drains[other].owns => Held(dr) \cap Held(drains[other]) = {}

\* A message in somebody's hands was accepted and had no turn yet.
Fresh(m) == m \in recent /\ turns[m] = 0

MessagesTracked ==
    /\ NoSummary(queue) /\ Distinct(queue.items)
    /\ \A d \in Drains : IF drains[d].owns THEN Aligned(drains[d], queue.items) ELSE OrphanOK(d)
    /\ \A m \in ToSet(queue.items) : Fresh(m)
    /\ \A d \in Drains : ~drains[d].owns => \A m \in Held(drains[d]) : Fresh(m) /\ m \in cleared \cap completed

\* Where an accepted message is, or what became of it.
Accounted(m) ==
    /\ m \in recent <=> m \in accepted
    /\ turns[m] <= 1 /\ (turns[m] > 0 => m \in recent)
    /\ m \in accepted => m \in ToSet(queue.items) \/ (m \in completed /\ (turns[m] > 0 \/ m \in aborted \cup cleared))

QueueInv == MessagesTracked /\ \A m \in Messages : Accounted(m)

-----------------------------------------------------------------------------
(***************************************************************************)
(* Sequences and the operators on them.                                    *)
(***************************************************************************)

\* A non-empty set of naturals has a least element.
LEMMA LeastNat ==
  ASSUME NEW S \in SUBSET Nat, S # {}
  PROVE  Min(S) \in S /\ \A y \in S : Min(S) <= y
  <1>1. \E x \in S : \A y \in S : x <= y
    <2>1. PICK x \in S : \A y \in S : ~(<<y, x>> \in OpToRel(<, Nat))
      BY NatLessThanWellFounded, WFMin
    <2>2. ASSUME NEW y \in S PROVE x <= y
      <3>1. <<y, x>> \in Nat \X Nat /\ <<y, x>>[1] = y /\ <<y, x>>[2] = x
        OBVIOUS
      <3>2. ~(y < x)
        BY <2>1, <3>1, Zenon DEF OpToRel
      <3> QED
        BY <3>1, <3>2
    <2> QED
      BY <2>2
  <1> QED
    BY <1>1 DEF Min

\* A non-empty set of naturals below a bound has a greatest element.
LEMMA GreatestNat ==
  ASSUME NEW n \in Nat, NEW S \in SUBSET (1..n), S # {}
  PROVE  Max(S) \in S /\ \A y \in S : Max(S) >= y
  <1> DEFINE T == {n - x : x \in S}
  <1>0. \A x \in S : n - x \in Nat
    OBVIOUS
  <1>1. T \in SUBSET Nat /\ T # {}
    BY <1>0
  <1>2. Min(T) \in T /\ \A y \in T : Min(T) <= y
    BY <1>1, LeastNat
  <1>3. PICK x \in S : Min(T) = n - x
    BY <1>2
  <1>4. ASSUME NEW y \in S PROVE x >= y
    <2>1. n - y \in T
      OBVIOUS
    <2>2. Min(T) <= n - y
      BY <1>2, <2>1
    <2>3. x \in Int /\ y \in Int
      OBVIOUS
    <2> QED
      BY <1>3, <2>2, <2>3
  <1> QED
    BY <1>4 DEF Max

\* dropAbortedFollowups finds an aborted message where it says, or none.
LEMMA LastAbortedFound ==
  ASSUME NEW items \in Seq(Messages), NEW i \in 0..Len(items)
  PROVE  /\ LastAborted(items, i) \in 0..i
         /\ LastAborted(items, i) > 0 => items[LastAborted(items, i)] \in aborted
  <1> DEFINE I == {k \in 1..i : items[k] \in aborted}
  <1>1. LastAborted(items, i) = IF I # {} THEN Max(I) ELSE 0
    BY DEF LastAborted, SelectLastInSubSeq
  <1>2. I # {} => Max(I) \in I
    <2>1. I \in SUBSET (1..i) /\ i \in Nat
      OBVIOUS
    <2> QED
      BY <2>1, GreatestNat
  <1> QED
    BY <1>1, <1>2

\* items.splice(0, n)
LEMMA ShiftElements ==
  ASSUME NEW items \in Seq(Messages), NEW n \in 0..Len(items)
  PROVE  /\ Shift(items, n) \in Seq(Messages) /\ Len(Shift(items, n)) = Len(items) - n
         /\ \A i \in 1..(Len(items) - n) : Shift(items, n)[i] = items[n + i]
  BY DEF Shift

\* The front of a sequence.
LEMMA FrontElements ==
  ASSUME NEW items \in Seq(Messages), NEW n \in 0..Len(items)
  PROVE  /\ SubSeq(items, 1, n) \in Seq(Messages) /\ Len(SubSeq(items, 1, n)) = n
         /\ \A i \in 1..n : SubSeq(items, 1, n)[i] = items[i]
  OBVIOUS

\* Two sequences joined.
LEMMA ConcatElements ==
  ASSUME NEW a \in Seq(Messages), NEW b \in Seq(Messages)
  PROVE  /\ a \o b \in Seq(Messages) /\ Len(a \o b) = Len(a) + Len(b)
         /\ \A k \in 1..Len(a) : (a \o b)[k] = a[k]
         /\ \A k \in 1..Len(b) : (a \o b)[Len(a) + k] = b[k]
  OBVIOUS

\* items.splice(i, 1)
LEMMA RemoveAtElements ==
  ASSUME NEW items \in Seq(Messages), NEW i \in 1..Len(items)
  PROVE  /\ RemoveAt(items, i) \in Seq(Messages) /\ Len(RemoveAt(items, i)) = Len(items) - 1
         /\ \A k \in 1..(i - 1) : RemoveAt(items, i)[k] = items[k]
         /\ \A k \in i..(Len(items) - 1) : RemoveAt(items, i)[k] = items[k + 1]
  <1> DEFINE a == SubSeq(items, 1, i - 1)
             b == SubSeq(items, i + 1, Len(items))
  <1>1. a \in Seq(Messages) /\ Len(a) = i - 1 /\ \A k \in 1..(i - 1) : a[k] = items[k]
    OBVIOUS
  <1>2. b \in Seq(Messages) /\ Len(b) = Len(items) - i /\ \A k \in 1..(Len(items) - i) : b[k] = items[i + k]
    OBVIOUS
  <1> HIDE DEF a, b
  <1>3. /\ a \o b \in Seq(Messages) /\ Len(a \o b) = Len(a) + Len(b)
        /\ \A k \in 1..Len(a) : (a \o b)[k] = a[k]
        /\ \A k \in 1..Len(b) : (a \o b)[Len(a) + k] = b[k]
    <2>1. a \in Seq(Messages) /\ b \in Seq(Messages)
      BY <1>1, <1>2
    <2> QED
      BY <2>1, ConcatElements
  <1>4. ASSUME NEW k \in i..(Len(items) - 1) PROVE (a \o b)[k] = items[k + 1]
    <2>1. k - (i - 1) \in 1..Len(b) /\ k = Len(a) + (k - (i - 1)) /\ i + (k - (i - 1)) = k + 1
      BY <1>1, <1>2
    <2>2. (a \o b)[k] = b[k - (i - 1)]
      BY <1>3, <2>1
    <2>3. b[k - (i - 1)] = items[i + (k - (i - 1))]
      BY <1>2, <2>1
    <2> QED
      BY <2>1, <2>2, <2>3
  <1>5. /\ Len(a \o b) = Len(items) - 1 /\ a \o b \in Seq(Messages)
        /\ \A k \in 1..(i - 1) : (a \o b)[k] = items[k]
    BY <1>1, <1>2, <1>3
  <1>6. RemoveAt(items, i) = a \o b
    BY DEF RemoveAt, a, b
  <1> QED
    BY <1>4, <1>5, <1>6

\* The elements of what is left, when nothing is queued twice.
LEMMA ShiftedSet ==
  ASSUME NEW items \in Seq(Messages), NEW n \in 0..Len(items)
  PROVE  /\ ToSet(Shift(items, n)) \subseteq ToSet(items)
         /\ ToSet(items) = ToSet(Shift(items, n)) \cup {items[i] : i \in 1..n}
         /\ Distinct(items) => /\ Distinct(Shift(items, n))
                               /\ ToSet(Shift(items, n)) \cap {items[i] : i \in 1..n} = {}
  <1> DEFINE s == Shift(items, n)
  <1>1. s \in Seq(Messages) /\ Len(s) = Len(items) - n /\ \A i \in 1..(Len(items) - n) : s[i] = items[n + i]
    BY ShiftElements
  <1>2. DOMAIN s = 1..(Len(items) - n) /\ DOMAIN items = 1..Len(items)
    BY <1>1
  <1> HIDE DEF s
  <1>0. \A i \in DOMAIN s : n + i \in DOMAIN items /\ s[i] = items[n + i] /\ n + i > n /\ i \in Int
    BY <1>1, <1>2
  <1>3. ToSet(s) \subseteq ToSet(items)
    BY <1>0 DEF ToSet
  <1>4. ASSUME NEW i \in 1..Len(items), i > n PROVE items[i] \in ToSet(s)
    <2>1. i - n \in DOMAIN s /\ s[i - n] = items[i]
      BY <1>1, <1>2, <1>4
    <2> QED
      BY <2>1 DEF ToSet
  <1>5. ToSet(items) = ToSet(s) \cup {items[i] : i \in 1..n}
    <2>1. ASSUME NEW x \in ToSet(items) PROVE x \in ToSet(s) \cup {items[i] : i \in 1..n}
      BY <1>2, <1>4, <2>1 DEF ToSet
    <2>2. \A i \in 1..n : items[i] \in ToSet(items)
      BY <1>2 DEF ToSet
    <2> QED
      BY <1>3, <2>1, <2>2
  <1>6. ASSUME Distinct(items) PROVE Distinct(s) /\ ToSet(s) \cap {items[i] : i \in 1..n} = {}
    <2>1. ASSUME NEW i \in DOMAIN s, NEW j \in DOMAIN s, s[i] = s[j] PROVE i = j
      <3>1. n + i = n + j /\ i \in Int /\ j \in Int
        BY <1>0, <1>6, <2>1 DEF Distinct
      <3> QED
        BY <3>1
    <2>2. ASSUME NEW i \in DOMAIN s, NEW j \in 1..n, s[i] = items[j] PROVE FALSE
      <3>1. n + i = j /\ n + i > n /\ j <= n
        BY <1>0, <1>2, <1>6, <2>2 DEF Distinct
      <3> QED
        BY <3>1
    <2> QED
      BY <2>1, <2>2 DEF Distinct, ToSet
  <1> QED
    BY <1>3, <1>5, <1>6 DEF s

\* The elements of what is left when one message is taken out.
LEMMA RemovedSet ==
  ASSUME NEW items \in Seq(Messages), NEW i \in 1..Len(items)
  PROVE  /\ ToSet(items) = ToSet(RemoveAt(items, i)) \cup {items[i]}
         /\ Distinct(items) => Distinct(RemoveAt(items, i)) /\ items[i] \notin ToSet(RemoveAt(items, i))
  <1> DEFINE s == RemoveAt(items, i)
  <1>1. /\ s \in Seq(Messages) /\ Len(s) = Len(items) - 1
        /\ \A k \in 1..(i - 1) : s[k] = items[k]
        /\ \A k \in i..(Len(items) - 1) : s[k] = items[k + 1]
    BY RemoveAtElements
  <1>2. DOMAIN s = 1..(Len(items) - 1) /\ DOMAIN items = 1..Len(items)
    BY <1>1
  <1> HIDE DEF s
  <1>3. ASSUME NEW k \in 1..Len(items), k # i PROVE items[k] \in ToSet(s)
    <2>1. CASE k < i
      <3>1. k \in DOMAIN s /\ s[k] = items[k]
        BY <1>1, <1>2, <2>1
      <3> QED
        BY <3>1 DEF ToSet
    <2>2. CASE k > i
      <3>1. k - 1 \in DOMAIN s /\ s[k - 1] = items[k]
        BY <1>1, <1>2, <2>2
      <3> QED
        BY <3>1 DEF ToSet
    <2> QED
      BY <1>3, <2>1, <2>2
  <1>4. ASSUME NEW k \in DOMAIN s
        PROVE  \E h \in 1..Len(items) : h # i /\ h = (IF k < i THEN k ELSE k + 1) /\ s[k] = items[h]
    BY <1>1, <1>2
  <1>5. ToSet(items) = ToSet(s) \cup {items[i]}
    <2>1. ToSet(s) \subseteq ToSet(items)
      BY <1>2, <1>4 DEF ToSet
    <2>2. ToSet(items) \subseteq ToSet(s) \cup {items[i]}
      BY <1>2, <1>3 DEF ToSet
    <2> QED
      BY <1>2, <2>1, <2>2 DEF ToSet
  <1>6. ASSUME Distinct(items) PROVE Distinct(s) /\ items[i] \notin ToSet(s)
    <2>1. items[i] \notin ToSet(s)
      BY <1>2, <1>4, <1>6 DEF Distinct, ToSet
    <2>2. ASSUME NEW k \in DOMAIN s, NEW h \in DOMAIN s, s[k] = s[h] PROVE k = h
      <3>1. k \in 1..(Len(items) - 1) /\ h \in 1..(Len(items) - 1)
        BY <1>2
      <3>2. (IF k < i THEN k ELSE k + 1) = (IF h < i THEN h ELSE h + 1)
        BY <1>2, <1>4, <1>6, <2>2 DEF Distinct
      <3> QED
        BY <3>1, <3>2
    <2> QED
      BY <2>1, <2>2 DEF Distinct
  <1> QED
    BY <1>5, <1>6 DEF s

\* The route keys of a sequence's messages are finitely many.
LEMMA RoutesFinite ==
  ASSUME NEW s \in Seq(Messages)
  PROVE  IsFiniteSet({RouteOf[m] : m \in ToSet(s)} \ {NoRoute})
  <1> DEFINE T == {RouteOf[m] : m \in ToSet(s)}
             f == [i \in 1..Len(s) |-> RouteOf[s[i]]]
  <1>1. DOMAIN s = 1..Len(s) /\ Len(s) \in Nat
    OBVIOUS
  <1>2. f \in [1..Len(s) -> T] /\ \A t \in T : \E i \in 1..Len(s) : f[i] = t
    BY <1>1 DEF ToSet
  <1>3. f \in Surjection(1..Len(s), T)
    BY <1>2 DEF Surjection
  <1>4. IsFiniteSet(T)
    BY <1>1, <1>3, FS_Interval, FS_Surjection
  <1> QED
    BY <1>4, FS_Subset

\* A part of a collectable sequence is collectable.
LEMMA PartNotCross ==
  ASSUME NEW s \in Seq(Messages), NEW t \in Seq(Messages), ToSet(s) \subseteq ToSet(t), ~CrossChannel(t)
  PROVE  ~CrossChannel(s)
  <1> DEFINE R(x) == {RouteOf[m] : m \in ToSet(x)} \ {NoRoute}
  <1>1. R(s) \in SUBSET R(t) /\ IsFiniteSet(R(t))
    BY RoutesFinite
  <1>2. Cardinality(R(s)) \in Nat /\ Cardinality(R(t)) \in Nat /\ Cardinality(R(s)) <= Cardinality(R(t))
    BY <1>1, FS_Subset, FS_CardinalityType
  <1>3. ~(Cardinality(R(t)) > 1) /\ ToSet(t) \cap RoomEvents = {}
    BY DEF CrossChannel
  <1>4. Unroutable \notin {RouteOf[m] : m \in ToSet(s)}
    BY DEF CrossChannel
  <1> HIDE DEF R
  <1>5. ~(Cardinality(R(s)) > 1) /\ ToSet(s) \cap RoomEvents = {}
    BY <1>2, <1>3
  <1> QED
    BY <1>4, <1>5 DEF R, CrossChannel

\* Two messages of a collectable sequence that both name a route name the same one.
LEMMA OneRoute ==
  ASSUME NEW s \in Seq(Messages), ~CrossChannel(s), NEW m \in ToSet(s), NEW n \in ToSet(s)
  PROVE  RouteOf[m] = RouteOf[n] \/ NoRoute \in {RouteOf[m], RouteOf[n]}
  <1> DEFINE R == {RouteOf[x] : x \in ToSet(s)} \ {NoRoute}
             T == {RouteOf[m]} \cup {RouteOf[n]}
  <1> SUFFICES ASSUME RouteOf[m] # RouteOf[n], NoRoute \notin {RouteOf[m], RouteOf[n]} PROVE FALSE
    OBVIOUS
  <1>1. T \in SUBSET R /\ IsFiniteSet(R)
    BY RoutesFinite
  <1>2. ~(Cardinality(R) > 1)
    BY DEF CrossChannel
  <1>3. Cardinality(T) = 2
    <2>1. IsFiniteSet({RouteOf[m]}) /\ Cardinality({RouteOf[m]}) = 1
      BY FS_Singleton
    <2>2. Cardinality({RouteOf[m]} \cup {RouteOf[n]}) = Cardinality({RouteOf[m]}) + 1
      BY <2>1, FS_AddElement
    <2> QED
      BY <2>1, <2>2
  <1>4. Cardinality(T) <= Cardinality(R) /\ Cardinality(R) \in Nat
    BY <1>1, FS_Subset, FS_CardinalityType
  <1> HIDE DEF R, T
  <1> QED
    BY <1>2, <1>3, <1>4

\* An empty sequence is collectable.
LEMMA EmptyNotCross == <<>> \in Seq(Messages) /\ ToSet(<<>>) = {} /\ ~CrossChannel(<<>>)
  <1>1. ToSet(<<>>) = {}
    BY DEF ToSet
  <1>2. {RouteOf[m] : m \in ToSet(<<>>)} \ {NoRoute} = {}
    BY <1>1
  <1> QED
    BY <1>1, <1>2, FS_EmptySet DEF CrossChannel

\* The first group of splitCollectItemsByAuthorization: not empty, of one sender, and
\* what it leaves is the rest.
LEMMA FirstGroupFound ==
  ASSUME NEW items \in Seq(Messages), items # <<>>
  PROVE  /\ FirstGroup(items) \in 1..Len(items)
         /\ \A i \in 1..FirstGroup(items) : AuthOf[items[i]] = AuthOf[items[1]]
  <1> DEFINE S == {i \in DOMAIN items : AuthOf[items[i]] # AuthOf[items[1]]} \cup {Len(items) + 1}
  <1>0. Len(items) \in Nat /\ Len(items) >= 1 /\ DOMAIN items = 1..Len(items)
    OBVIOUS
  <1>1. S \in SUBSET Nat /\ S # {}
    BY <1>0
  <1>2. Min(S) \in S /\ \A y \in S : Min(S) <= y
    BY <1>1, LeastNat
  <1>3. \A y \in S : y > 1 /\ y \in Nat
    BY <1>0
  <1>4. Min(S) \in Nat /\ Min(S) > 1 /\ Min(S) <= Len(items) + 1
    BY <1>2, <1>3
  <1>5. FirstGroup(items) = Min(S) - 1
    BY DEF FirstGroup
  <1>6. ASSUME NEW i \in 1..(Min(S) - 1) PROVE AuthOf[items[i]] = AuthOf[items[1]]
    <2>1. i \notin S
      <3>1. i \in S => Min(S) <= i
        BY <1>2
      <3>2. ~(Min(S) <= i)
        BY <1>4
      <3> QED
        BY <3>1, <3>2
    <2> QED
      BY <1>0, <1>4, <2>1
  <1> QED
    BY <1>0, <1>4, <1>5, <1>6

\* Both parts of a split sequence.
LEMMA GroupSplit ==
  ASSUME NEW items \in Seq(Messages), items # <<>>, ~CrossChannel(items)
  PROVE  LET n == FirstGroup(items) IN
         /\ n \in 1..Len(items)
         /\ Homogeneous(SubSeq(items, 1, n)) /\ ~CrossChannel(Shift(items, n))
  <1> DEFINE n == FirstGroup(items)
             s == SubSeq(items, 1, n)
  <1>1. n \in 1..Len(items) /\ \A i \in 1..n : AuthOf[items[i]] = AuthOf[items[1]]
    BY FirstGroupFound
  <1> HIDE DEF n
  <1>2. s \in Seq(Messages) /\ Len(s) = n /\ \A i \in 1..n : s[i] = items[i]
    BY <1>1, FrontElements
  <1>3. DOMAIN s = 1..n /\ DOMAIN items = 1..Len(items) /\ 1..n \subseteq 1..Len(items)
    BY <1>1, <1>2
  <1> HIDE DEF s
  <1>4. ToSet(s) \subseteq ToSet(items)
    BY <1>2, <1>3 DEF ToSet
  <1>5. Homogeneous(s)
    BY <1>1, <1>2, <1>3, <1>4, PartNotCross DEF Homogeneous
  <1>6. n \in 0..Len(items)
    BY <1>1
  <1>7. Shift(items, n) \in Seq(Messages) /\ ToSet(Shift(items, n)) \subseteq ToSet(items)
    BY <1>6, ShiftElements, ShiftedSet
  <1>8. ~CrossChannel(Shift(items, n))
    BY <1>7, PartNotCross
  <1> QED
    BY <1>1, <1>5, <1>8 DEF n, s

-----------------------------------------------------------------------------
(***************************************************************************)
(* What a drain does between two awaits, under every policy.               *)
(***************************************************************************)

\* The queue object of a drain that owns it.
Draining(q) == q \in QueueStates /\ q.present /\ q.draining

\* The loop was left and the queue deleted, or the drain waits again.
Continues(n) ==
    \/ n.queue = Absent /\ n.drain = Idle
    \/ /\ Draining(n.queue)
       /\ DrainOK(n.drain) /\ n.drain.owns /\ n.drain.pc \in {"aborting", "debounce", "starting"}

\* The drain waits on a queue that still holds `items`, aligned with it.
Follows(n, items) == NoSummary(n.queue) /\ n.queue.items = items /\ Aligned(n.drain, items)

\* A run of `batch` is about to start, with the groups of `rest` to follow.
Launched(n, q, batch, rest) ==
    /\ n.queue = q /\ DrainOK(n.drain) /\ n.drain.owns /\ n.drain.pc = "starting"
    /\ n.drain.batch = batch /\ n.drain.rest = rest

\* The updates of the queue object keep its type.
LEMMA QueueUpdates ==
  ASSUME NEW q \in QueueStates
  PROVE  /\ \A x \in Seq(Messages) : [q EXCEPT !.items = x] \in QueueStates
         /\ \A x \in Seq(Messages) : [q EXCEPT !.summaryLines = x] \in QueueStates
         /\ \A x \in Seq(Messages) : [q EXCEPT !.summarySources = x] \in QueueStates
         /\ \A x \in Nat : [q EXCEPT !.droppedCount = x] \in QueueStates
         /\ [q EXCEPT !.draining = TRUE] \in QueueStates
         /\ [q EXCEPT !.present = TRUE] \in QueueStates
         /\ \A x \in Modes : [q EXCEPT !.mode = x] \in QueueStates
         /\ \A x \in Nat \ {0} : [q EXCEPT !.cap = x] \in QueueStates
         /\ \A x \in DropPolicies : [q EXCEPT !.dropPolicy = x] \in QueueStates
  BY DEF QueueStates

\* The types of the fields of the queue object.
LEMMA QueueFields ==
  ASSUME NEW q \in QueueStates
  PROVE  /\ q.items \in Seq(Messages) /\ q.summaryLines \in Seq(Messages) /\ q.summarySources \in Seq(Messages)
         /\ q.droppedCount \in Nat /\ q.cap \in Nat \ {0} /\ q.mode \in Modes /\ q.dropPolicy \in DropPolicies
         /\ q.present \in BOOLEAN /\ q.draining \in BOOLEAN
  BY DEF QueueStates

\* A queue that is not in the map is empty.
LEMMA AbsentIsQueue ==
  /\ Absent \in QueueStates /\ Absent.items = <<>> /\ ~Absent.present /\ ~Absent.draining
  /\ NoSummary(Absent) /\ ~Work(Absent)
  BY DEF Absent, QueueStates, Modes, DropPolicies, NoSummary, Work

\* A drain that does not run.
LEMMA IdleIsDrain ==
  /\ DrainOK(Idle) /\ ~Idle.owns /\ Idle.pc = "none" /\ Idle.batch = <<>> /\ Idle.rest = <<>>
  BY EmptyNotCross DEF Idle, DrainOK, DrainStates, Homogeneous

\* clearFollowupQueueSummaryState leaves the rest of the queue object alone.
LEMMA WithoutSummaryFields ==
  ASSUME NEW q \in QueueStates
  PROVE  /\ WithoutSummary(q) \in QueueStates /\ WithoutSummary(q).items = q.items
         /\ WithoutSummary(q).present = q.present /\ WithoutSummary(q).draining = q.draining
         /\ WithoutSummary(q).dropPolicy = q.dropPolicy
         /\ WithoutSummary(q).droppedCount = 0 /\ WithoutSummary(q).summaryLines = <<>>
         /\ WithoutSummary(q).summarySources = <<>>
  <1> DEFINE q1 == [q EXCEPT !.droppedCount = 0]
             q2 == [q1 EXCEPT !.summaryLines = <<>>]
             q3 == [q2 EXCEPT !.summarySources = <<>>]
  <1>0. <<>> \in Seq(Messages) /\ 0 \in Nat
    OBVIOUS
  <1>1. q1 \in QueueStates
    BY <1>0, QueueUpdates
  <1> HIDE DEF q1
  <1>2. q2 \in QueueStates
    BY <1>0, <1>1, QueueUpdates
  <1> HIDE DEF q2
  <1>3. q3 \in QueueStates
    BY <1>0, <1>2, QueueUpdates
  <1>4. WithoutSummary(q) = q3
    BY DEF WithoutSummary, q1, q2
  <1>5. WithoutSummary(q) \in QueueStates
    BY <1>3, <1>4
  <1> QED
    BY <1>5 DEF WithoutSummary, QueueStates

\* A scan that waits for an aborted message to be handled.
LEMMA AbortingOK ==
  ASSUME NEW q, Draining(q), NEW scan \in {1, 2}, NEW i \in 1..Len(q.items), NEW force \in BOOLEAN,
         q.items[i] \in aborted
  PROVE  /\ Continues(Aborting(q, scan, i, force))
         /\ NoSummary(q) => Follows(Aborting(q, scan, i, force), q.items)
  <1> DEFINE dr == Aborting(q, scan, i, force).drain
  <1>1. q.items[i] \in Messages /\ i \in Nat /\ i \in DOMAIN q.items /\ i >= 1
    BY QueueFields DEF Draining
  <1>2. /\ dr = [pc |-> "aborting", owns |-> TRUE, force |-> force, scan |-> scan, index |-> i, kind |-> "single",
                 batch |-> <<q.items[i]>>, rest |-> <<>>, summary |-> FALSE, lines |-> {}]
        /\ Aborting(q, scan, i, force).queue = q
    BY DEF Aborting
  <1>3. dr \in DrainStates
    BY <1>1, <1>2 DEF DrainStates
  <1>4. /\ dr.owns /\ dr.pc = "aborting" /\ dr.batch = <<q.items[i]>> /\ dr.rest = <<>> /\ dr.index = i
        /\ dr.kind = "single" /\ dr.summary = FALSE /\ dr.lines = {}
    BY <1>2
  <1>5. DrainOK(dr)
    BY <1>1, <1>3, <1>4, EmptyNotCross DEF DrainOK, Homogeneous
  <1> HIDE DEF dr
  <1>6. Aligned(dr, q.items)
    <2>1. Len(<<q.items[i]>>) = 1
      OBVIOUS
    <2> QED
      BY <1>1, <1>4, <2>1 DEF Aligned, Plain
  <1>7. Aborting(q, scan, i, force).drain = dr
    BY DEF dr
  <1> QED
    BY <1>2, <1>4, <1>5, <1>6, <1>7 DEF Continues, Follows

\* A drain that waits for the queue to be quiet.
LEMMA DebouncingOK ==
  ASSUME NEW q, Draining(q), NEW force \in BOOLEAN
  PROVE  /\ Continues(Debouncing(q, force))
         /\ NoSummary(q) => Follows(Debouncing(q, force), q.items)
  <1> DEFINE dr == Debouncing(q, force).drain
  <1>2. /\ dr = [pc |-> "debounce", owns |-> TRUE, force |-> force, scan |-> 1, index |-> 0, kind |-> "single",
                 batch |-> <<>>, rest |-> <<>>, summary |-> FALSE, lines |-> {}]
        /\ Debouncing(q, force).queue = q
    BY DEF Debouncing
  <1>3. dr \in DrainStates
    BY <1>2, EmptyNotCross DEF DrainStates
  <1>4. /\ dr.owns /\ dr.pc = "debounce" /\ dr.batch = <<>> /\ dr.rest = <<>>
        /\ dr.kind = "single" /\ dr.summary = FALSE /\ dr.lines = {}
    BY <1>2
  <1>5. DrainOK(dr)
    BY <1>3, <1>4, EmptyNotCross DEF DrainOK, Homogeneous
  <1> HIDE DEF dr
  <1>6. Aligned(dr, q.items)
    BY <1>4 DEF Aligned, Plain
  <1>7. Debouncing(q, force).drain = dr
    BY DEF dr
  <1> QED
    BY <1>2, <1>4, <1>5, <1>6, <1>7 DEF Continues, Follows

\* A drain that starts a run.
LEMMA LaunchOK ==
  ASSUME NEW q \in QueueStates, NEW force \in BOOLEAN, NEW kind \in {"single", "group", "summaryItem", "summaryOnly"},
         NEW batch \in Seq(Messages), NEW rest \in Seq(Messages), NEW summary \in BOOLEAN,
         Homogeneous(batch), ~CrossChannel(rest)
  PROVE  /\ Launched(Launch(q, force, kind, batch, rest, summary), q, batch, rest)
         /\ ~summary /\ kind = "group" => Plain(Launch(q, force, kind, batch, rest, summary).drain)
         /\ ~summary /\ kind = "single" /\ Len(batch) <= 1 => Plain(Launch(q, force, kind, batch, rest, summary).drain)
  <1> DEFINE n == Launch(q, force, kind, batch, rest, summary)
             lines == IF summary THEN ToSet(q.summaryLines) ELSE {}
  <1>1. lines \in SUBSET Messages /\ (~summary => lines = {})
    BY QueueFields DEF ToSet
  <1>2. /\ n.drain = [pc |-> "starting", owns |-> TRUE, force |-> force, scan |-> 1, index |-> 0, kind |-> kind,
                      batch |-> batch, rest |-> rest, summary |-> summary, lines |-> lines]
        /\ n.queue = q
    BY DEF Launch
  <1> HIDE DEF lines, n
  <1>3. n.drain \in DrainStates
    BY <1>1, <1>2 DEF DrainStates
  <1>4. /\ n.drain.owns /\ n.drain.pc = "starting" /\ n.drain.kind = kind /\ n.drain.batch = batch
        /\ n.drain.rest = rest /\ n.drain.summary = summary /\ n.drain.lines = lines
    BY <1>2
  <1>5. Launched(n, q, batch, rest)
    BY <1>2, <1>3, <1>4 DEF DrainOK, Launched
  <1>6. /\ ~summary /\ kind = "group" => Plain(n.drain)
        /\ ~summary /\ kind = "single" /\ Len(batch) <= 1 => Plain(n.drain)
    BY <1>1, <1>4 DEF Plain
  <1> QED
    BY <1>5, <1>6 DEF n

\* A drain that starts a run waits again.
LEMMA LaunchedContinues ==
  ASSUME NEW q, Draining(q), NEW n, NEW batch, NEW rest, Launched(n, q, batch, rest)
  PROVE  Continues(n)
  BY DEF Launched, Continues

\* A run of the head of the queue is aligned with it.
LEMMA LaunchedFollows ==
  ASSUME NEW q \in QueueStates, NEW n, NEW batch \in Seq(Messages), NEW rest \in Seq(Messages),
         Launched(n, q, batch, rest), Plain(n.drain), NoSummary(q),
         Len(batch) >= 1, Len(batch) + Len(rest) <= Len(q.items),
         \A i \in 1..Len(batch) : batch[i] = q.items[i],
         \A i \in 1..Len(rest) : rest[i] = q.items[Len(batch) + i]
  PROVE  Follows(n, q.items)
  <1>1. DOMAIN batch = 1..Len(batch) /\ DOMAIN rest = 1..Len(rest)
    OBVIOUS
  <1> QED
    BY <1>1 DEF Launched, Follows, Aligned

\* A drain that starts the first group of the messages it collected.
LEMMA LaunchGroupOK ==
  ASSUME NEW q \in QueueStates, NEW force \in BOOLEAN, NEW items \in Seq(Messages), items # <<>>,
         ~CrossChannel(items), NEW summary \in BOOLEAN
  PROVE  \E k \in 1..Len(items) :
             /\ Launched(LaunchGroup(q, force, items, summary), q, SubSeq(items, 1, k), Shift(items, k))
             /\ ~summary => Plain(LaunchGroup(q, force, items, summary).drain)
  <1> DEFINE k == FirstGroup(items)
             b == SubSeq(items, 1, k)
             r == Shift(items, k)
             n == Launch(q, force, "group", b, r, summary)
  <1>1. k \in 1..Len(items) /\ Homogeneous(b) /\ ~CrossChannel(r)
    BY GroupSplit
  <1>2. LaunchGroup(q, force, items, summary) = n
    BY DEF LaunchGroup
  <1> HIDE DEF k
  <1>3. b \in Seq(Messages) /\ r \in Seq(Messages)
    BY <1>1, FrontElements, ShiftElements
  <1> HIDE DEF b, r
  <1>4. Launched(n, q, b, r) /\ (~summary => Plain(n.drain))
    BY <1>1, <1>3, LaunchOK
  <1> HIDE DEF n
  <1> QED
    BY <1>1, <1>2, <1>4 DEF b, r

\* The groups of the head of the queue are aligned with it.
LEMMA LaunchGroupFollows ==
  ASSUME NEW q \in QueueStates, NoSummary(q), NEW force \in BOOLEAN, NEW items \in Seq(Messages), items # <<>>,
         ~CrossChannel(items), Len(items) <= Len(q.items), \A i \in 1..Len(items) : items[i] = q.items[i]
  PROVE  Follows(LaunchGroup(q, force, items, FALSE), q.items)
  <1> DEFINE n == LaunchGroup(q, force, items, FALSE)
  <1>1. PICK k \in 1..Len(items) : Launched(n, q, SubSeq(items, 1, k), Shift(items, k)) /\ Plain(n.drain)
    BY LaunchGroupOK
  <1> HIDE DEF n
  <1> DEFINE b == SubSeq(items, 1, k)
             r == Shift(items, k)
  <1>2. b \in Seq(Messages) /\ Len(b) = k /\ \A i \in 1..k : b[i] = items[i]
    BY FrontElements
  <1>3. k \in 0..Len(items)
    OBVIOUS
  <1>4. r \in Seq(Messages) /\ Len(r) = Len(items) - k /\ \A i \in 1..(Len(items) - k) : r[i] = items[k + i]
    BY <1>3, ShiftElements
  <1>5. Launched(n, q, b, r)
    BY <1>1
  <1> HIDE DEF b, r
  <1>0. Len(items) \in Nat /\ Len(q.items) \in Nat
    BY QueueFields
  <1>6. Len(b) >= 1 /\ Len(b) + Len(r) <= Len(q.items) /\ \A i \in 1..Len(b) : b[i] = q.items[i]
    BY <1>0, <1>2, <1>4
  <1>7. ASSUME NEW i \in 1..Len(r) PROVE r[i] = q.items[Len(b) + i]
    <2>1. i \in 1..(Len(items) - k) /\ k + i \in 1..Len(items)
      BY <1>0, <1>4
    <2> QED
      BY <1>2, <1>4, <2>1
  <1>8. Follows(n, q.items)
    BY <1>1, <1>2, <1>4, <1>5, <1>6, <1>7, LaunchedFollows
  <1> QED
    BY <1>8 DEF n

\* What an idle drain and no queue are aligned with.
LEMMA NothingFollows == Follows([queue |-> Absent, drain |-> Idle], <<>>) /\ Aligned(Idle, <<>>)
  <1>1. /\ Idle.pc = "none" /\ Idle.batch = <<>> /\ Idle.rest = <<>> /\ Idle.kind = "single" /\ Idle.summary = FALSE
        /\ Idle.lines = {}
    BY DEF Idle
  <1>2. Aligned(Idle, <<>>)
    BY <1>1 DEF Aligned, Plain
  <1> QED
    BY <1>2, AbsentIsQueue DEF Follows

\* The head of the loop, and the finally block.
LEMMA LoopOK ==
  ASSUME NEW q, Draining(q), NEW force \in BOOLEAN
  PROVE  /\ Continues(Loop(q, force))
         /\ NoSummary(q) => Follows(Loop(q, force), q.items)
  <1> DEFINE i == LastAborted(q.items, Len(q.items))
  <1>1. q \in QueueStates /\ q.items \in Seq(Messages) /\ Len(q.items) \in 0..Len(q.items)
    BY QueueFields DEF Draining
  <1>2. i \in 0..Len(q.items) /\ (i > 0 => q.items[i] \in aborted)
    BY <1>1, LastAbortedFound
  <1>3. Loop(q, force) = CASE ~Work(q) -> [queue |-> Absent, drain |-> Idle]
                           [] Work(q) /\ i > 0 -> Aborting(q, 1, i, force)
                           [] OTHER -> Debouncing(q, force)
    BY DEF Loop
  <1> HIDE DEF i
  <1>4. CASE ~Work(q)
    <2>1. Loop(q, force) = [queue |-> Absent, drain |-> Idle]
      BY <1>3, <1>4
    <2>2. q.items = <<>>
      BY <1>4 DEF Work
    <2> QED
      BY <2>1, <2>2, NothingFollows DEF Continues
  <1>5. CASE Work(q) /\ i > 0
    <2>1. Loop(q, force) = Aborting(q, 1, i, force)
      BY <1>3, <1>5
    <2>2. i \in 1..Len(q.items) /\ q.items[i] \in aborted
      BY <1>1, <1>2, <1>5
    <2> QED
      BY <2>1, <2>2, AbortingOK
  <1>6. CASE Work(q) /\ ~(i > 0)
    <2>1. Loop(q, force) = Debouncing(q, force)
      BY <1>3, <1>6
    <2> QED
      BY <2>1, DebouncingOK
  <1> QED
    BY <1>4, <1>5, <1>6

\* break, and a caught error.
LEMMA FinallyOK ==
  ASSUME NEW q, Draining(q)
  PROVE  Continues(Finally(q)) /\ (NoSummary(q) => Follows(Finally(q), q.items))
  BY LoopOK DEF Finally

\* The choice of the next run.
LEMMA DecideOK ==
  ASSUME NEW q, Draining(q), NEW force \in BOOLEAN
  PROVE  /\ Continues(Decide(q, force))
         /\ NoSummary(q) => Follows(Decide(q, force), q.items)
  <1> DEFINE individually == CrossChannel(q.items) \/ (force /\ Len(q.items) <= 1)
             head == <<q.items[1]>>
             collect == q.mode = "collect"
             only == collect /\ HasSummary(q)
             empty == q.items = <<>>
  <1>0. q \in QueueStates /\ q.items \in Seq(Messages) /\ <<>> \in Seq(Messages)
    BY QueueFields DEF Draining
  <1>1. Homogeneous(<<>>) /\ ~CrossChannel(<<>>)
    BY EmptyNotCross DEF Homogeneous
  <1>2. Decide(q, force) = CASE empty /\ collect /\ HasSummary(q) -> Launch(q, force, "summaryOnly", <<>>, <<>>, TRUE)
          [] empty /\ ~only -> Finally(q)
          [] ~empty /\ collect /\ individually -> Launch(q, TRUE, "single", head, <<>>, FALSE)
          [] ~empty /\ collect /\ ~individually -> LaunchGroup(q, FALSE, q.items, HasSummary(q))
          [] ~empty /\ ~collect /\ HasSummary(q) -> Launch(q, force, "summaryItem", head, <<>>, TRUE)
          [] OTHER -> Launch(q, force, "single", head, <<>>, FALSE)
    BY DEF Decide
  <1>3. HasSummary(q) \in BOOLEAN /\ (NoSummary(q) => ~HasSummary(q))
    BY DEF HasSummary, NoSummary
  <1>4. ASSUME ~empty
        PROVE  /\ head \in Seq(Messages) /\ Homogeneous(head) /\ Len(head) = 1 /\ Len(head) <= 1 /\ Len(q.items) >= 1
               /\ DOMAIN head = 1..1 /\ head[1] = q.items[1]
    <2>1. q.items[1] \in Messages /\ Len(q.items) >= 1
      BY <1>0, <1>4
    <2> QED
      BY <2>1 DEF Homogeneous
  <1> HIDE DEF head, individually
  <1>5. CASE empty /\ only
    <2>1. Decide(q, force) = Launch(q, force, "summaryOnly", <<>>, <<>>, TRUE)
      BY <1>2, <1>5
    <2> DEFINE n == Launch(q, force, "summaryOnly", <<>>, <<>>, TRUE)
    <2>2. Launched(n, q, <<>>, <<>>)
      BY <1>0, <1>1, LaunchOK
    <2> HIDE DEF n
    <2>3. Continues(n)
      BY <2>2, LaunchedContinues
    <2>4. ~NoSummary(q)
      BY <1>3, <1>5
    <2> QED
      BY <2>1, <2>3, <2>4 DEF n
  <1>6. CASE empty /\ ~only
    <2>1. Decide(q, force) = Finally(q)
      BY <1>2, <1>6
    <2> QED
      BY <2>1, FinallyOK
  <1>7. ASSUME ~empty, NEW f \in BOOLEAN, NEW kind \in {"single", "summaryItem"}, NEW s \in BOOLEAN,
               s => kind = "summaryItem", ~s => kind = "single"
        PROVE  /\ Continues(Launch(q, f, kind, head, <<>>, s))
               /\ ~s /\ NoSummary(q) => Follows(Launch(q, f, kind, head, <<>>, s), q.items)
    <2> DEFINE n == Launch(q, f, kind, head, <<>>, s)
    <2>0. kind \in {"single", "group", "summaryItem", "summaryOnly"}
      OBVIOUS
    <2>1. Len(head) <= 1
      BY <1>4, <1>7
    <2>2. Launched(n, q, head, <<>>) /\ (~s => Plain(n.drain))
      BY <1>0, <1>1, <1>4, <1>7, <2>0, <2>1, LaunchOK
    <2> HIDE DEF n
    <2>3. Continues(n)
      BY <2>2, LaunchedContinues
    <2>4. ASSUME ~s, NoSummary(q) PROVE Follows(n, q.items)
      <3>1. /\ Len(head) >= 1 /\ Len(head) + Len(<<>>) <= Len(q.items)
            /\ \A i \in 1..Len(head) : head[i] = q.items[i]
        BY <1>0, <1>4, <1>7
      <3>2. \A i \in 1..Len(<<>>) : <<>>[i] = q.items[Len(head) + i]
        OBVIOUS
      <3>3. head \in Seq(Messages)
        BY <1>4, <1>7
      <3> QED
        BY <1>0, <2>2, <2>4, <3>1, <3>2, <3>3, LaunchedFollows
    <2> QED
      BY <2>3, <2>4 DEF n
  <1>8. CASE ~empty /\ collect /\ individually
    <2>1. Decide(q, force) = Launch(q, TRUE, "single", head, <<>>, FALSE)
      BY <1>2, <1>8
    <2> QED
      BY <1>7, <1>8, <2>1
  <1>9. CASE ~empty /\ collect /\ ~individually
    <2> DEFINE n == LaunchGroup(q, FALSE, q.items, HasSummary(q))
    <2>1. Decide(q, force) = n
      BY <1>2, <1>9
    <2>2. ~CrossChannel(q.items)
      BY <1>9 DEF individually
    <2>3. PICK k \in 1..Len(q.items) : Launched(n, q, SubSeq(q.items, 1, k), Shift(q.items, k))
      BY <1>0, <1>3, <1>9, <2>2, LaunchGroupOK
    <2> HIDE DEF n
    <2>4. Continues(n)
      BY <2>3, LaunchedContinues
    <2>5. ASSUME NoSummary(q) PROVE Follows(n, q.items)
      <3>1. n = LaunchGroup(q, FALSE, q.items, FALSE)
        <4>1. HasSummary(q) = FALSE
          BY <1>3, <2>5
        <4> QED
          BY <4>1 DEF n
      <3>2. Len(q.items) <= Len(q.items)
        BY <1>0
      <3> QED
        BY <1>0, <1>9, <2>2, <2>5, <3>1, <3>2, LaunchGroupFollows
    <2> QED
      BY <2>1, <2>4, <2>5
  <1>10. CASE ~empty /\ ~collect /\ HasSummary(q)
    <2>1. Decide(q, force) = Launch(q, force, "summaryItem", head, <<>>, TRUE)
      BY <1>2, <1>10
    <2> QED
      BY <1>3, <1>7, <1>10, <2>1
  <1>11. CASE ~empty /\ ~collect /\ ~HasSummary(q)
    <2>1. Decide(q, force) = Launch(q, force, "single", head, <<>>, FALSE)
      BY <1>2, <1>11
    <2> QED
      BY <1>7, <1>11, <2>1
  <1> QED
    BY <1>5, <1>6, <1>8, <1>9, <1>10, <1>11

\* The end of a scan.
LEMMA ScanEndsOK ==
  ASSUME NEW q, Draining(q), NEW scan \in {1, 2}, NEW force \in BOOLEAN, NEW removed \in BOOLEAN
  PROVE  /\ Continues(ScanEnds(q, scan, force, removed))
         /\ NoSummary(q) => Follows(ScanEnds(q, scan, force, removed), q.items)
  <1> DEFINE q1 == IF removed /\ q.items = <<>> THEN WithoutSummary(q) ELSE q
  <1>1. ScanEnds(q, scan, force, removed) = IF ~Work(q1) THEN Finally(q1)
          ELSE IF scan = 1 THEN Debouncing(q1, force) ELSE Decide(q1, force)
    BY DEF ScanEnds
  <1>2. Draining(q1) /\ q1.items = q.items /\ (NoSummary(q) => NoSummary(q1))
    <2>1. CASE removed /\ q.items = <<>>
      <3>1. q1 = WithoutSummary(q)
        BY <2>1
      <3> QED
        BY <3>1, WithoutSummaryFields DEF Draining, NoSummary
    <2>2. CASE ~(removed /\ q.items = <<>>)
      <3>1. q1 = q
        BY <2>2
      <3> QED
        BY <3>1
    <2> QED
      BY <2>1, <2>2
  <1> HIDE DEF q1
  <1>3. Continues(Finally(q1)) /\ (NoSummary(q1) => Follows(Finally(q1), q1.items))
    BY <1>2, FinallyOK
  <1>4. Continues(Debouncing(q1, force)) /\ (NoSummary(q1) => Follows(Debouncing(q1, force), q1.items))
    BY <1>2, DebouncingOK
  <1>5. Continues(Decide(q1, force)) /\ (NoSummary(q1) => Follows(Decide(q1, force), q1.items))
    BY <1>2, DecideOK
  <1> QED
    BY <1>1, <1>2, <1>3, <1>4, <1>5

\* dropAbortedFollowups, from a position that may be past the end.
LEMMA ScanOK ==
  ASSUME NEW q, Draining(q), NEW scan \in {1, 2}, NEW i \in Nat, NEW force \in BOOLEAN, NEW removed \in BOOLEAN
  PROVE  /\ Continues(Scan(q, scan, i, force, removed))
         /\ NoSummary(q) => Follows(Scan(q, scan, i, force, removed), q.items)
  <1> DEFINE k == LastAborted(q.items, i)
  <1>0. q.items \in Seq(Messages) /\ Len(q.items) \in Nat
    BY QueueFields DEF Draining
  <1>1. Scan(q, scan, i, force, removed) = CASE i > Len(q.items) -> Finally(q)
          [] i <= Len(q.items) /\ k > 0 -> Aborting(q, scan, k, force)
          [] OTHER -> ScanEnds(q, scan, force, removed)
    BY DEF Scan
  <1>2. i <= Len(q.items) => k \in 0..i /\ (k > 0 => q.items[k] \in aborted)
    <2>1. i <= Len(q.items) => i \in 0..Len(q.items)
      BY <1>0
    <2> QED
      BY <1>0, <2>1, LastAbortedFound
  <1> HIDE DEF k
  <1>3. CASE i > Len(q.items)
    BY <1>1, <1>3, FinallyOK
  <1>4. CASE i <= Len(q.items) /\ k > 0
    <2>1. k \in 1..Len(q.items) /\ q.items[k] \in aborted
      BY <1>0, <1>2, <1>4
    <2>2. Scan(q, scan, i, force, removed) = Aborting(q, scan, k, force)
      BY <1>0, <1>1, <1>4
    <2> QED
      BY <2>1, <2>2, AbortingOK
  <1>5. CASE i <= Len(q.items) /\ ~(k > 0)
    <2>2. Scan(q, scan, i, force, removed) = ScanEnds(q, scan, force, removed)
      BY <1>0, <1>1, <1>5
    <2> QED
      BY <2>2, ScanEndsOK
  <1> QED
    BY <1>0, <1>3, <1>4, <1>5

\* items.splice(0, n) of fewer than n messages empties the queue.
LEMMA ShiftTyped ==
  ASSUME NEW items \in Seq(Messages), NEW n \in Nat
  PROVE  Shift(items, n) \in Seq(Messages)
  <1>1. CASE n <= Len(items)
    <2>1. n \in 0..Len(items)
      BY <1>1
    <2> QED
      BY <2>1, ShiftElements
  <1>2. CASE n > Len(items)
    BY <1>2 DEF Shift
  <1> QED
    BY <1>1, <1>2

\* The continuation of a run that returned.
LEMMA AfterRunOK ==
  ASSUME NEW q, Draining(q), NEW dr, DrainOK(dr)
  PROVE  /\ Continues(AfterRun(q, dr))
         /\ (NoSummary(q) /\ Aligned(dr, q.items) /\ dr.pc \in {"running", "failing"}) =>
               /\ Len(dr.batch) \in 1..Len(q.items)
               /\ Follows(AfterRun(q, dr), Shift(q.items, Len(dr.batch)))
  <1> DEFINE n == CASE dr.kind = "group" -> Len(dr.batch)
                    [] dr.kind = "summaryOnly" -> 0
                    [] OTHER -> 1
             items == Shift(q.items, n)
             q1 == [q EXCEPT !.items = items]
             q2 == IF dr.summary THEN WithoutSummary(q1) ELSE q1
  <1>0. /\ q \in QueueStates /\ q.items \in Seq(Messages) /\ Len(q.items) \in Nat
        /\ dr.batch \in Seq(Messages) /\ dr.rest \in Seq(Messages) /\ dr.force \in BOOLEAN /\ dr.summary \in BOOLEAN
        /\ Len(dr.batch) \in Nat /\ Len(dr.rest) \in Nat /\ ~CrossChannel(dr.rest)
    BY QueueFields DEF Draining, DrainOK, DrainStates
  <1>1. AfterRun(q, dr) = IF dr.rest = <<>> THEN Loop(q2, dr.force) ELSE LaunchGroup(q2, dr.force, dr.rest, FALSE)
    BY DEF AfterRun
  <1>2. n \in Nat /\ (dr.kind = "group" => n = Len(dr.batch)) /\ (dr.kind = "single" => n = 1)
    BY <1>0
  <1> HIDE DEF n
  <1>3. items \in Seq(Messages)
    BY <1>0, <1>2, ShiftTyped
  <1> HIDE DEF items
  <1>4. Draining(q1) /\ q1.items = items /\ (NoSummary(q) => NoSummary(q1))
    <2>1. q1 \in QueueStates
      BY <1>0, <1>3, QueueUpdates
    <2> QED
      BY <1>0, <2>1 DEF Draining, NoSummary, QueueStates
  <1> HIDE DEF q1
  <1>5. Draining(q2) /\ q2.items = items /\ (NoSummary(q) => NoSummary(q2))
    <2>1. CASE dr.summary
      <3>1. q2 = WithoutSummary(q1)
        BY <2>1
      <3> QED
        BY <1>4, <3>1, WithoutSummaryFields DEF Draining, NoSummary
    <2>2. CASE ~dr.summary
      <3>1. q2 = q1
        BY <2>2
      <3> QED
        BY <1>4, <3>1
    <2> QED
      BY <2>1, <2>2
  <1> HIDE DEF q2
  <1>6. Continues(Loop(q2, dr.force)) /\ (NoSummary(q2) => Follows(Loop(q2, dr.force), items))
    BY <1>0, <1>5, LoopOK
  <1>7. ASSUME dr.rest # <<>> PROVE Continues(LaunchGroup(q2, dr.force, dr.rest, FALSE))
    <2>1. q2 \in QueueStates
      BY <1>5 DEF Draining
    <2>2. PICK k \in 1..Len(dr.rest) :
              Launched(LaunchGroup(q2, dr.force, dr.rest, FALSE), q2, SubSeq(dr.rest, 1, k), Shift(dr.rest, k))
      BY <1>0, <1>7, <2>1, LaunchGroupOK
    <2> QED
      BY <1>5, <2>2, LaunchedContinues
  <1>8. ASSUME NoSummary(q), Aligned(dr, q.items), dr.pc \in {"running", "failing"}
        PROVE  /\ Len(dr.batch) \in 1..Len(q.items)
               /\ Follows(AfterRun(q, dr), Shift(q.items, Len(dr.batch)))
    <2>1. /\ dr.kind \in {"single", "group"} /\ (dr.kind = "single" => Len(dr.batch) <= 1)
          /\ Len(dr.batch) >= 1 /\ Len(dr.batch) + Len(dr.rest) <= Len(q.items)
          /\ \A i \in DOMAIN dr.rest : dr.rest[i] = q.items[Len(dr.batch) + i]
      BY <1>8 DEF Aligned, Plain
    <2>2. n = Len(dr.batch) /\ Len(dr.batch) \in 1..Len(q.items) /\ n \in 0..Len(q.items)
      <3>1. ASSUME NEW b \in Nat, NEW r \in Nat, NEW l \in Nat, b >= 1, b + r <= l
            PROVE  b \in 1..l /\ b \in 0..l /\ (b <= 1 => b = 1)
        BY <3>1
      <3>2. /\ Len(dr.batch) \in 1..Len(q.items) /\ Len(dr.batch) \in 0..Len(q.items)
            /\ Len(dr.batch) <= 1 => Len(dr.batch) = 1
        BY <1>0, <2>1, <3>1
      <3>3. n = Len(dr.batch)
        BY <1>2, <2>1, <3>2
      <3> QED
        BY <3>2, <3>3
    <2>3. items = Shift(q.items, n) /\ Shift(q.items, Len(dr.batch)) = items
      BY <2>2 DEF items
    <2>4. CASE dr.rest = <<>>
      BY <1>1, <1>5, <1>6, <1>8, <2>2, <2>3, <2>4
    <2>5. CASE dr.rest # <<>>
      <3>1. Len(items) = Len(q.items) - n /\ \A i \in 1..(Len(q.items) - n) : items[i] = q.items[n + i]
        BY <1>0, <2>2, <2>3, ShiftElements, ZenonT(40)
      <3>2. Len(dr.rest) <= Len(items) /\ DOMAIN dr.rest = 1..Len(dr.rest)
        <4>1. ASSUME NEW b \in Nat, NEW r \in Nat, NEW l \in Nat, b + r <= l PROVE r <= l - b
          BY <4>1
        <4>2. Len(dr.rest) <= Len(q.items) - Len(dr.batch)
          BY <1>0, <2>1, <4>1
        <4>3. DOMAIN dr.rest = 1..Len(dr.rest)
          BY <1>0
        <4> QED
          BY <2>2, <3>1, <4>2, <4>3
      <3>3. ASSUME NEW i \in 1..Len(dr.rest) PROVE dr.rest[i] = items[i]
        <4>1. i \in 1..(Len(q.items) - n)
          BY <1>0, <1>2, <3>1, <3>2
        <4> QED
          BY <2>1, <2>2, <3>1, <3>2, <4>1
      <3>4. q2 \in QueueStates /\ NoSummary(q2) /\ q2.items = items
        BY <1>5, <1>8 DEF Draining
      <3>5. Follows(LaunchGroup(q2, dr.force, dr.rest, FALSE), q2.items)
        BY <1>0, <2>5, <3>2, <3>3, <3>4, LaunchGroupFollows
      <3> QED
        BY <1>1, <2>2, <2>3, <2>5, <3>4, <3>5
    <2> QED
      BY <2>4, <2>5
  <1> QED
    BY <1>1, <1>6, <1>7, <1>8

\* What a drain does whose queue was cleared: the rest of its groups, or nothing.
LEMMA OrphanContinues ==
  ASSUME NEW dr, DrainOK(dr), NEW ok \in BOOLEAN
  PROVE  /\ DrainOK(Orphan(dr, ok)) /\ ~Orphan(dr, ok).owns
         /\ \/ Orphan(dr, ok) = Idle
            \/ /\ Orphan(dr, ok).pc = "starting" /\ Plain(Orphan(dr, ok))
               /\ \E k \in 1..Len(dr.rest) : /\ Orphan(dr, ok).batch = SubSeq(dr.rest, 1, k)
                                             /\ Orphan(dr, ok).rest = Shift(dr.rest, k)
  <1> DEFINE l == LaunchGroup(Absent, FALSE, dr.rest, FALSE).drain
             o == [l EXCEPT !.owns = FALSE]
  <1>1. CASE ok /\ dr.rest # <<>>
    <2>1. dr.rest \in Seq(Messages) /\ ~CrossChannel(dr.rest)
      BY DEF DrainOK, DrainStates
    <2>2. PICK k \in 1..Len(dr.rest) :
              /\ Launched(LaunchGroup(Absent, FALSE, dr.rest, FALSE), Absent, SubSeq(dr.rest, 1, k), Shift(dr.rest, k))
              /\ Plain(l)
      BY <1>1, <2>1, AbsentIsQueue, LaunchGroupOK
    <2>3. DrainOK(l) /\ l.pc = "starting" /\ l.batch = SubSeq(dr.rest, 1, k) /\ l.rest = Shift(dr.rest, k)
      BY <2>2 DEF Launched
    <2>4. Orphan(dr, ok) = o
      BY <1>1 DEF Orphan
    <2> HIDE DEF l
    <2>5. /\ o \in DrainStates /\ o.owns = FALSE /\ o.pc = l.pc /\ o.batch = l.batch /\ o.rest = l.rest
          /\ o.kind = l.kind /\ o.summary = l.summary /\ o.lines = l.lines
      BY <2>3 DEF DrainOK, DrainStates
    <2> HIDE DEF o
    <2> QED
      BY <2>2, <2>3, <2>4, <2>5 DEF DrainOK, Plain
  <1>2. CASE ~(ok /\ dr.rest # <<>>)
    <2>1. Orphan(dr, ok) = Idle
      BY <1>2 DEF Orphan
    <2> QED
      BY <2>1, IdleIsDrain
  <1> QED
    BY <1>1, <1>2

-----------------------------------------------------------------------------
(***************************************************************************)
(* The flag and its drain, across steps.                                   *)
(***************************************************************************)

\* The queue and the drains of a consistent state.
Consistent ==
    queue \in QueueStates /\ drains \in [Drains -> DrainStates] /\ Ownership

\* A queue object that differs from the map's in its contents only.
SameFlag(q) ==
    q \in QueueStates /\ (q.present \/ q = Absent) /\ q.draining = queue.draining /\ (q.draining => q.present)

\* The queue of a drain that owns it is there.
LEMMA OwnerDrains ==
  ASSUME Ownership, queue \in QueueStates, NEW d \in Drains, drains[d].owns
  PROVE  Draining(queue) /\ \A e \in Drains : e # d => ~drains[e].owns
  BY DEF Ownership, OneDrainPerQueue, Draining

\* Only the contents change.
LEMMA ContentsChange ==
  ASSUME Consistent, NEW q, SameFlag(q), queue' = q, drains' = drains
  PROVE  Consistent'
  BY DEF Consistent, Ownership, OneDrainPerQueue, SameFlag

\* The drain that has the queue to itself goes on, or a new one takes it.
LEMMA DrainReplaced ==
  ASSUME Consistent, NEW d \in Drains, \A e \in Drains : e # d => ~drains[e].owns,
         NEW n, Continues(n), queue' = n.queue, drains' = [drains EXCEPT ![d] = n.drain]
  PROVE  /\ Consistent'
         /\ drains'[d] = n.drain /\ \A e \in Drains : e # d => drains'[e] = drains[e]
         /\ n.drain.pc \notin {"running", "failing"} /\ (n.drain.pc # "none" => n.drain.owns)
         /\ Work(queue') => queue'.draining
  <1>1. drains'[d] = n.drain /\ \A e \in Drains : e # d => drains'[e] = drains[e]
    BY DEF Consistent
  <1>2. DrainOK(n.drain) /\ n.drain \in DrainStates /\ n.queue \in QueueStates
    BY AbsentIsQueue, IdleIsDrain DEF Continues, Draining, DrainOK
  <1>3. n.drain.pc \notin {"running", "failing"} /\ (n.drain.pc # "none" => n.drain.owns)
    BY IdleIsDrain DEF Continues
  <1>4. /\ n.queue.draining <=> n.drain.owns
        /\ n.queue.present \/ n.queue = Absent
        /\ n.queue.draining => n.queue.present
        /\ n.drain.pc = "none" => n.drain = Idle
        /\ Work(n.queue) => n.queue.draining
    BY AbsentIsQueue, IdleIsDrain DEF Continues, Draining
  <1>5. drains' \in [Drains -> DrainStates]
    BY <1>2 DEF Consistent
  <1>6. Ownership'
    <2>1. OneDrainPerQueue'
      BY <1>1, <1>4 DEF OneDrainPerQueue
    <2>2. ASSUME NEW e \in Drains PROVE DrainOK(drains'[e]) /\ (drains'[e].pc = "none" => drains'[e] = Idle)
      BY <1>1, <1>2, <1>4 DEF Consistent, Ownership
    <2> QED
      BY <1>4, <2>1, <2>2 DEF Ownership
  <1> QED
    BY <1>1, <1>2, <1>3, <1>4, <1>5, <1>6 DEF Consistent

\* The queue is now q, which a new drain may have taken.
Taken(q) ==
    /\ Consistent'
    /\ \A e \in Drains : \/ drains'[e] = drains[e]
                         \/ /\ drains[e] = Idle /\ drains'[e].pc \notin {"running", "failing"}
                            /\ drains'[e].pc # "none" => drains'[e].owns
    /\ NoSummary(q) => /\ NoSummary(queue') /\ queue'.items = q.items
                       /\ \A e \in Drains : drains'[e] = drains[e] \/ Aligned(drains'[e], q.items)

\* scheduleFollowupDrain.
LEMMA ScheduleOK ==
  ASSUME Consistent, NEW q, SameFlag(q), Schedule(q)
  PROVE  Taken(q) /\ (Work(queue') => queue'.draining)
  <1>1. CASE ~q.present \/ q.draining
    <2>1. queue' = q /\ drains' = drains
      BY <1>1 DEF Schedule
    <2>2. Consistent'
      BY <2>1, ContentsChange
    <2>3. Work(q) => q.draining
      BY <1>1, AbsentIsQueue DEF SameFlag
    <2> QED
      BY <2>1, <2>2, <2>3 DEF Taken
  <1>2. CASE q.present /\ ~q.draining
    <2> DEFINE free == {d \in Drains : drains[d].pc = "none"}
               d == CHOOSE x \in free : TRUE
               q1 == [q EXCEPT !.draining = TRUE]
               n == Loop(q1, FALSE)
    <2>1. free # {} /\ queue' = n.queue /\ drains' = [drains EXCEPT ![d] = n.drain]
      BY <1>2 DEF Schedule
    <2>2. d \in Drains /\ drains[d].pc = "none"
      BY <2>1
    <2> HIDE DEF d
    <2>3. q1 \in QueueStates /\ q1.draining /\ q1.present /\ q1.items = q.items /\ (NoSummary(q) => NoSummary(q1))
      BY <1>2 DEF SameFlag, QueueStates, NoSummary
    <2> HIDE DEF q1
    <2>4. Continues(n) /\ (NoSummary(q1) => Follows(n, q1.items))
      BY <2>3, LoopOK DEF Draining
    <2> HIDE DEF n
    <2>5. \A e \in Drains : ~drains[e].owns
      BY <1>2 DEF Consistent, SameFlag, Ownership, OneDrainPerQueue
    <2>6. /\ Consistent'
          /\ drains'[d] = n.drain /\ \A e \in Drains : e # d => drains'[e] = drains[e]
          /\ n.drain.pc \notin {"running", "failing"} /\ (n.drain.pc # "none" => n.drain.owns)
          /\ Work(queue') => queue'.draining
      BY <2>1, <2>2, <2>4, <2>5, DrainReplaced
    <2>7. drains[d] = Idle
      BY <2>2 DEF Consistent, Ownership
    <2>8. NoSummary(q) => NoSummary(queue') /\ queue'.items = q.items /\ Aligned(drains'[d], q.items)
      BY <2>1, <2>3, <2>4, <2>6 DEF Follows
    <2> QED
      BY <2>6, <2>7, <2>8 DEF Taken
  <1> QED
    BY <1>1, <1>2 DEF SameFlag

\* A drain goes on, with its queue or after its queue was cleared.
LEMMA ResumeOK ==
  ASSUME Consistent, NEW d \in Drains, NEW n, drains[d].owns => Continues(n), NEW ok \in BOOLEAN, Resume(d, n, ok)
  PROVE  /\ Consistent'
         /\ \A e \in Drains : e # d => drains'[e] = drains[e]
         /\ drains'[d].pc \notin {"running", "failing"}
         /\ drains[d].owns => /\ queue' = n.queue /\ drains'[d] = n.drain
                              /\ drains'[d].pc # "none" => drains'[d].owns
                              /\ Work(queue') => queue'.draining
         /\ ~drains[d].owns => queue' = queue /\ drains'[d] = Orphan(drains[d], ok)
  <1>1. CASE drains[d].owns
    <2>1. queue' = n.queue /\ drains' = [drains EXCEPT ![d] = n.drain]
      BY <1>1 DEF Resume
    <2>2. \A e \in Drains : e # d => ~drains[e].owns
      BY <1>1, OwnerDrains DEF Consistent
    <2> QED
      BY <1>1, <2>1, <2>2, DrainReplaced
  <1>2. CASE ~drains[d].owns
    <2> DEFINE o == Orphan(drains[d], ok)
    <2>1. queue' = queue /\ drains' = [drains EXCEPT ![d] = o]
      BY <1>2 DEF Resume
    <2>2. DrainOK(o) /\ ~o.owns /\ (o = Idle \/ o.pc = "starting")
      <3>1. DrainOK(drains[d])
        BY DEF Consistent, Ownership
      <3> QED
        BY <3>1, OrphanContinues
    <2> HIDE DEF o
    <2>3. drains'[d] = o /\ \A e \in Drains : e # d => drains'[e] = drains[e]
      BY <2>1 DEF Consistent
    <2>4. o \in DrainStates /\ o.pc \notin {"running", "failing"} /\ (o.pc = "none" => o = Idle)
      BY <2>2, IdleIsDrain DEF DrainOK
    <2>5. \A e \in Drains : drains'[e].owns <=> drains[e].owns
      BY <1>2, <2>2, <2>3
    <2>6. Ownership'
      <3>1. OneDrainPerQueue'
        BY <2>1, <2>5 DEF Consistent, Ownership, OneDrainPerQueue
      <3>2. ASSUME NEW e \in Drains PROVE DrainOK(drains'[e]) /\ (drains'[e].pc = "none" => drains'[e] = Idle)
        BY <2>2, <2>3, <2>4 DEF Consistent, Ownership
      <3> QED
        BY <2>1, <3>1, <3>2 DEF Consistent, Ownership
    <2>7. Consistent'
      BY <2>1, <2>4, <2>6 DEF Consistent
    <2>8. drains'[d] = Orphan(drains[d], ok)
      BY <2>3 DEF o
    <2> QED
      BY <1>2, <2>1, <2>3, <2>4, <2>7, <2>8
  <1> QED
    BY <1>1, <1>2

\* A part of a sequence is one, whatever its bounds.
LEMMA PartTyped ==
  ASSUME NEW s \in Seq(Messages), NEW i \in Nat \ {0}, NEW j \in Int, j <= Len(s)
  PROVE  SubSeq(s, i, j) \in Seq(Messages)
  <1>1. CASE i <= j
    <2>1. \A k \in i..j : s[k] \in Messages
      BY <1>1
    <2> QED
      BY <1>1, <2>1
  <1>2. CASE j < i
    BY <1>2
  <1> QED
    BY <1>1, <1>2

\* The end of a sequence.
LEMMA LastOfTyped ==
  ASSUME NEW s \in Seq(Messages), NEW n \in Nat
  PROVE  LastOf(s, n) \in Seq(Messages)
  <1>1. CASE Len(s) <= n
    BY <1>1 DEF LastOf
  <1>2. CASE Len(s) > n
    <2>1. Len(s) - n + 1 \in Nat \ {0} /\ Len(s) \in Int /\ Len(s) <= Len(s)
      BY <1>2
    <2>2. LastOf(s, n) = SubSeq(s, Len(s) - n + 1, Len(s))
      BY <1>2 DEF LastOf
    <2> QED
      BY <2>1, <2>2, PartTyped
  <1> QED
    BY <1>1, <1>2

\* A message is pushed, and the overflow policy makes room for it.
LEMMA PushedOK ==
  ASSUME NEW q \in QueueStates, NEW m \in Messages
  PROVE  /\ Pushed(q, m) \in QueueStates
         /\ Pushed(q, m).present = q.present /\ Pushed(q, m).draining = q.draining
  <1> DEFINE out == Evicted(q)
             lines == LastOf(q.summaryLines \o out, q.cap)
             items == Append(Shift(q.items, Len(out)), m)
             sources == LastOf(q.summarySources \o out, Len(lines))
             kept == LastOf(q.summarySources, Len(q.summaryLines))
             q1 == [q EXCEPT !.items = items]
             q2 == [q1 EXCEPT !.droppedCount = q.droppedCount + Len(out)]
             q3 == [q2 EXCEPT !.summaryLines = lines]
             q4 == [q3 EXCEPT !.summarySources = sources]
             q5 == [q1 EXCEPT !.summarySources = kept]
  <1>0. /\ q.items \in Seq(Messages) /\ q.summaryLines \in Seq(Messages) /\ q.summarySources \in Seq(Messages)
        /\ q.droppedCount \in Nat /\ q.cap \in Nat \ {0}
    BY QueueFields
  <1>1. out \in Seq(Messages)
    <2>1. Len(q.items) - q.cap + 1 \in Int /\ Len(q.items) - q.cap + 1 <= Len(q.items) /\ 1 \in Nat \ {0}
      BY <1>0
    <2> QED
      BY <1>0, <2>1, PartTyped DEF Evicted
  <1> HIDE DEF out
  <1>2. lines \in Seq(Messages)
    BY <1>0, <1>1, ConcatElements, LastOfTyped
  <1> HIDE DEF lines
  <1>3. items \in Seq(Messages) /\ q.droppedCount + Len(out) \in Nat
    <2>1. Len(out) \in Nat
      BY <1>1
    <2>2. Shift(q.items, Len(out)) \in Seq(Messages)
      BY <1>0, <2>1, ShiftTyped
    <2> QED
      BY <1>0, <2>1, <2>2
  <1>4. sources \in Seq(Messages) /\ kept \in Seq(Messages)
    <2>1. q.summarySources \o out \in Seq(Messages) /\ Len(lines) \in Nat /\ Len(q.summaryLines) \in Nat
      BY <1>0, <1>1, <1>2, ConcatElements
    <2> QED
      BY <1>0, <2>1, LastOfTyped
  <1> HIDE DEF items, sources, kept
  <1>5. q1 \in QueueStates /\ q1.present = q.present /\ q1.draining = q.draining /\ q1.droppedCount = q.droppedCount
        /\ q1.summarySources = q.summarySources
    BY <1>3 DEF QueueStates
  <1>7. Pushed(q, m) = IF q.dropPolicy = "summarize" /\ out # <<>>
                       THEN [q1 EXCEPT !.droppedCount = @ + Len(out), !.summaryLines = lines,
                                       !.summarySources = LastOf(@ \o out, Len(lines))]
                       ELSE IF q.dropPolicy = "summarize"
                       THEN [q1 EXCEPT !.summarySources = LastOf(@, Len(q.summaryLines))]
                       ELSE q1
    BY DEF Pushed, out, lines, items
  <1> HIDE DEF q1
  <1>8. [q1 EXCEPT !.droppedCount = @ + Len(out), !.summaryLines = lines,
                   !.summarySources = LastOf(@ \o out, Len(lines))]
          = q4
    BY <1>5 DEF sources
  <1>9. [q1 EXCEPT !.summarySources = LastOf(@, Len(q.summaryLines))] = q5
    BY <1>5 DEF kept
  <1>10. q2 \in QueueStates /\ q2.present = q.present /\ q2.draining = q.draining
    BY <1>3, <1>5 DEF QueueStates
  <1> HIDE DEF q2
  <1>11. q3 \in QueueStates /\ q3.present = q.present /\ q3.draining = q.draining
    BY <1>2, <1>10 DEF QueueStates
  <1> HIDE DEF q3
  <1>12. q4 \in QueueStates /\ q4.present = q.present /\ q4.draining = q.draining
    BY <1>4, <1>11 DEF QueueStates
  <1>13. q5 \in QueueStates /\ q5.present = q.present /\ q5.draining = q.draining
    BY <1>4, <1>5 DEF QueueStates
  <1> HIDE DEF q4, q5
  <1> QED
    BY <1>5, <1>7, <1>8, <1>9, <1>12, <1>13

\* The queue object with the caller's settings.
Configured(s) == [queue EXCEPT !.present = TRUE, !.mode = s.mode, !.cap = s.cap, !.dropPolicy = s.dropPolicy]

\* getFollowupQueue creates the entry or updates its settings.
LEMMA ConfiguredOK ==
  ASSUME Consistent, NEW s \in Settings
  PROVE  LET q == Configured(s) IN
         /\ SameFlag(q) /\ q.present /\ q.items = queue.items /\ q.droppedCount = queue.droppedCount
         /\ q.summaryLines = queue.summaryLines /\ q.summarySources = queue.summarySources
         /\ q.dropPolicy = s.dropPolicy /\ q.cap = s.cap
  <1> DEFINE q1 == [queue EXCEPT !.present = TRUE]
             q2 == [q1 EXCEPT !.mode = s.mode]
             q3 == [q2 EXCEPT !.cap = s.cap]
             q4 == [q3 EXCEPT !.dropPolicy = s.dropPolicy]
  <1>0. s.mode \in Modes /\ s.cap \in Nat \ {0} /\ s.dropPolicy \in DropPolicies /\ queue \in QueueStates
    BY FollowupAssumption DEF Consistent
  <1>1. q1 \in QueueStates
    BY <1>0, QueueUpdates
  <1> HIDE DEF q1
  <1>2. q2 \in QueueStates
    BY <1>0, <1>1, QueueUpdates
  <1> HIDE DEF q2
  <1>3. q3 \in QueueStates
    BY <1>0, <1>2, QueueUpdates
  <1> HIDE DEF q3
  <1>4. q4 \in QueueStates
    BY <1>0, <1>3, QueueUpdates
  <1>5. Configured(s) = q4
    BY DEF Configured, q1, q2, q3
  <1>6. Configured(s) \in QueueStates
    BY <1>4, <1>5
  <1>7. LET q == Configured(s) IN
         /\ q.present /\ q.items = queue.items /\ q.droppedCount = queue.droppedCount
         /\ q.summaryLines = queue.summaryLines /\ q.summarySources = queue.summarySources
         /\ q.dropPolicy = s.dropPolicy /\ q.cap = s.cap /\ q.draining = queue.draining
    BY <1>0 DEF Configured, QueueStates
  <1> QED
    BY <1>6, <1>7 DEF SameFlag

-----------------------------------------------------------------------------
(***************************************************************************)
(* The invariant of the drains is preserved by every step.                 *)
(***************************************************************************)

\* The types of everything but the queue and the drains.
Recorded ==
    /\ op \in {"none", "main"} \cup Drains
    /\ main \in {"none", "running", "failing"}
    /\ pending \in SUBSET Messages /\ recent \in SUBSET Messages /\ aborted \in SUBSET Messages
    /\ accepted \in SUBSET Messages /\ summarised \in SUBSET Messages /\ dropped \in SUBSET Messages
    /\ cleared \in SUBSET Messages /\ completed \in SUBSET Messages
    /\ turns \in [Messages -> Nat]
    /\ mains \in 0..MaxMains /\ failures \in 0..MaxFailures /\ clears \in 0..MaxClears

\* The invariant in two halves.
LEMMA DrainInvParts == DrainInv <=> Consistent /\ Recorded /\ OperationHeld /\ BackedUntilCleared
  <1>1. TypeOK <=> queue \in QueueStates /\ drains \in [Drains -> DrainStates] /\ Recorded
    BY DEF TypeOK, Recorded
  <1> QED
    BY <1>1 DEF DrainInv, Consistent

\* The same, of the next state.
LEMMA DrainInvPartsNext == DrainInv' <=> Consistent' /\ Recorded' /\ OperationHeld' /\ BackedUntilCleared'
  <1>1. TypeOK' <=> queue' \in QueueStates /\ drains' \in [Drains -> DrainStates] /\ Recorded'
    BY DEF TypeOK, Recorded
  <1> QED
    BY <1>1 DEF DrainInv, Consistent

\* The elements of a sequence of messages.
LEMMA ToSetTyped ==
  ASSUME NEW s \in Seq(Messages)
  PROVE  ToSet(s) \in SUBSET Messages
  BY DEF ToSet

\* The map's own queue object.
LEMMA SameQueue ==
  ASSUME Consistent
  PROVE  SameFlag(queue)
  BY DEF Consistent, Ownership, SameFlag

\* The caller's second look at the active run.
LEMMA RecheckOK ==
  ASSUME Consistent, NEW q, SameFlag(q), Recheck(q)
  PROVE  Taken(q) /\ (op = "none" => (Work(queue') => queue'.draining)) /\ (op # "none" => queue' = q)
  <1>1. CASE op = "none"
    <2>1. Schedule(q)
      BY <1>1 DEF Recheck
    <2> QED
      BY <1>1, <2>1, ScheduleOK
  <1>2. CASE op # "none"
    <2>1. queue' = q /\ drains' = drains
      BY <1>2 DEF Recheck
    <2>2. Consistent'
      BY <2>1, ContentsChange
    <2> QED
      BY <1>2, <2>1, <2>2 DEF Taken
  <1> QED
    BY <1>1, <1>2

\* Whoever holds the reply operation keeps the queue from being stranded.
LEMMA HolderBacks ==
  ASSUME DrainInv, op # "none", clears = 0
  PROVE  queue.draining \/ main # "none"
  <1>1. CASE op = "main"
    BY <1>1 DEF DrainInv, OperationHeld
  <1>2. CASE op \in Drains
    <2>1. drains[op].pc = "running"
      BY <1>2 DEF DrainInv, OperationHeld
    <2>2. drains[op].owns
      BY <1>2, <2>1 DEF DrainInv, BackedUntilCleared
    <2> QED
      BY <1>2, <2>2 DEF DrainInv, Ownership, OneDrainPerQueue
  <1> QED
    BY <1>1, <1>2 DEF DrainInv, TypeOK

\* Steps of the callers that leave who runs alone.
LEMMA TakenKeeps ==
  ASSUME DrainInv, NEW q, Taken(q), op' = op, main' = main
  PROVE  OperationHeld' /\ (clears = 0 => \A d \in Drains : drains'[d].pc # "none" => drains'[d].owns)
  <1>1. \A d \in Drains : drains'[d].pc = "running" <=> drains[d].pc = "running"
    BY IdleIsDrain DEF Taken
  <1>2. OperationHeld'
    BY <1>1 DEF DrainInv, OperationHeld
  <1>3. clears = 0 => \A d \in Drains : drains'[d].pc # "none" => drains'[d].owns
    BY DEF Taken, DrainInv, BackedUntilCleared
  <1> QED
    BY <1>2, <1>3

\* enqueueFollowupRun and the caller's recheck.
LEMMA EnqueueKeepsDrains ==
  ASSUME DrainInv, NEW m \in Messages, NEW s \in Settings, EnqueueFollowupRun(m, s)
  PROVE  DrainInv'
  <1> DEFINE q == Configured(s)
             q1 == Pushed(q, m)
             gone == (ToSet(q.items) \cup ToSet(q.summaryLines)) \ (ToSet(q1.items) \cup ToSet(q1.summaryLines))
  <1>0. Consistent /\ Recorded /\ OperationHeld /\ BackedUntilCleared
    BY DrainInvParts
  <1>1. SameFlag(queue) /\ SameFlag(q) /\ q.present /\ q \in QueueStates
    BY <1>0, SameQueue, ConfiguredOK DEF SameFlag
  <1>2. /\ m \in pending /\ pending' = pending \ {m}
        /\ op' = op /\ main' = main /\ aborted' = aborted /\ turns' = turns /\ summarised' = summarised
        /\ cleared' = cleared /\ mains' = mains /\ failures' = failures /\ clears' = clears
    BY DEF EnqueueFollowupRun, counters
  <1>3. \/ Recheck(queue) /\ UNCHANGED <<recent, accepted, dropped, completed>>
        \/ Recheck(q) /\ UNCHANGED <<recent, accepted, dropped, completed>>
        \/ /\ Recheck(q1) /\ recent' = recent \cup {m} /\ accepted' = accepted \cup {m}
           /\ dropped' = dropped \cup gone
           /\ completed' = completed \cup ((gone \cup ToSet(q.summarySources)) \ ToSet(q1.summarySources))
    BY DEF EnqueueFollowupRun, Configured
  <1> HIDE DEF q
  <1>4. SameFlag(q1)
    <2>1. q1 \in QueueStates /\ q1.present = q.present /\ q1.draining = q.draining
      BY <1>1, PushedOK
    <2> QED
      BY <1>1, <2>1 DEF SameFlag
  <1> HIDE DEF q1
  <1>5. PICK r : r \in {queue, q, q1} /\ Recheck(r)
    BY <1>3
  <1>6. SameFlag(r)
    BY <1>1, <1>4, <1>5
  <1>7. Taken(r) /\ (op = "none" => (Work(queue') => queue'.draining)) /\ (op # "none" => queue' = r)
    BY <1>0, <1>5, <1>6, RecheckOK
  <1>8. OperationHeld' /\ (clears = 0 => \A d \in Drains : drains'[d].pc # "none" => drains'[d].owns)
    BY <1>2, <1>7, TakenKeeps
  <1>9. BackedUntilCleared'
    <2>1. op # "none" /\ clears = 0 => queue'.draining \/ main # "none"
      BY <1>6, <1>7, HolderBacks DEF SameFlag
    <2> QED
      BY <1>2, <1>7, <1>8, <2>1 DEF BackedUntilCleared
  <1>10. gone \in SUBSET Messages /\ ToSet(q.summarySources) \in SUBSET Messages
    BY <1>1, QueueFields, ToSetTyped
  <1> HIDE DEF gone
  <1>11. /\ recent' \in SUBSET Messages /\ accepted' \in SUBSET Messages /\ dropped' \in SUBSET Messages
         /\ completed' \in SUBSET Messages
    BY <1>0, <1>3, <1>10 DEF Recorded
  <1>12. Recorded'
    BY <1>0, <1>2, <1>11 DEF Recorded
  <1> QED
    BY <1>7, <1>8, <1>9, <1>12, DrainInvPartsNext DEF Taken

\* The runs outside the queue.
LEMMA MainKeepsDrains ==
  ASSUME DrainInv, MainStarts \/ MainCompletes \/ MainFails \/ MainFailureReturns
  PROVE  DrainInv'
  <1>0. Consistent /\ Recorded /\ OperationHeld /\ BackedUntilCleared
    BY DrainInvParts
  <1>00. "main" \notin Drains /\ "none" \notin Drains
    BY FollowupAssumption
  <1>1. ASSUME Schedule(queue)
        PROVE  /\ Consistent' /\ (Work(queue') => queue'.draining)
               /\ \A d \in Drains : drains'[d].pc = "running" <=> drains[d].pc = "running"
               /\ clears = 0 => \A d \in Drains : drains'[d].pc # "none" => drains'[d].owns
    <2>1. Taken(queue) /\ (Work(queue') => queue'.draining)
      BY <1>0, <1>1, SameQueue, ScheduleOK
    <2> QED
      BY <1>0, <2>1, IdleIsDrain DEF Taken, BackedUntilCleared
  <1>2. CASE MainStarts
    <2>1. queue' = queue /\ drains' = drains /\ Recorded'
      <3>1. mains + 1 \in 0..MaxMains
        BY <1>0, <1>2, FollowupAssumption DEF MainStarts, Recorded
      <3> QED
        BY <1>0, <1>2, <3>1 DEF MainStarts, Recorded, history
    <2>2. Consistent' /\ BackedUntilCleared'
      BY <1>0, <1>2, <2>1 DEF MainStarts, Consistent, Ownership, OneDrainPerQueue, BackedUntilCleared
    <2>3. OperationHeld'
      BY <1>0, <1>00, <1>2, <2>1 DEF MainStarts, OperationHeld
    <2> QED
      BY <2>1, <2>2, <2>3, DrainInvPartsNext
  <1>3. CASE MainCompletes
    <2>1. Schedule(queue) /\ op' = "none" /\ main' = "none" /\ main = "running" /\ clears' = clears
      BY <1>3 DEF MainCompletes, counters
    <2>2. Recorded'
      BY <1>0, <1>3 DEF MainCompletes, Recorded, history, counters
    <2>3. OperationHeld' /\ BackedUntilCleared'
      BY <1>0, <1>00, <1>1, <2>1 DEF OperationHeld, BackedUntilCleared
    <2> QED
      BY <1>1, <2>1, <2>2, <2>3, DrainInvPartsNext
  <1>4. CASE MainFails
    <2>1. queue' = queue /\ drains' = drains /\ Recorded'
      BY <1>0, <1>4 DEF MainFails, Recorded, history, counters
    <2>2. Consistent' /\ BackedUntilCleared'
      BY <1>0, <1>4, <2>1 DEF MainFails, Consistent, Ownership, OneDrainPerQueue, BackedUntilCleared, counters
    <2>3. OperationHeld'
      BY <1>0, <1>00, <1>4, <2>1 DEF MainFails, OperationHeld
    <2> QED
      BY <2>1, <2>2, <2>3, DrainInvPartsNext
  <1>5. CASE MainFailureReturns
    <2>1. Schedule(queue) /\ op' = op /\ main' = "none" /\ main = "failing" /\ clears' = clears
      BY <1>5 DEF MainFailureReturns, counters
    <2>2. Recorded'
      BY <1>0, <1>5 DEF MainFailureReturns, Recorded, history, counters
    <2>3. OperationHeld' /\ BackedUntilCleared'
      BY <1>0, <1>00, <1>1, <2>1 DEF OperationHeld, BackedUntilCleared
    <2> QED
      BY <1>1, <2>1, <2>2, <2>3, DrainInvPartsNext
  <1> QED
    BY <1>2, <1>3, <1>4, <1>5

\* A message arrives, or is withdrawn by its channel.
LEMMA MessageKeepsDrains ==
  ASSUME DrainInv, NEW m \in Messages, Arrive(m) \/ AbortMessage(m)
  PROVE  DrainInv'
  <1>0. Consistent /\ Recorded /\ OperationHeld /\ BackedUntilCleared
    BY DrainInvParts
  <1>1. queue' = queue /\ drains' = drains /\ op' = op /\ main' = main /\ clears' = clears
    BY DEF Arrive, AbortMessage, counters
  <1>2. Recorded'
    BY <1>0 DEF Arrive, AbortMessage, Recorded, history, counters
  <1>3. Consistent' /\ OperationHeld' /\ BackedUntilCleared'
    BY <1>0, <1>1 DEF Consistent, Ownership, OneDrainPerQueue, OperationHeld, BackedUntilCleared
  <1> QED
    BY <1>2, <1>3, DrainInvPartsNext

\* Two drains with the same locals.
LEMMA DrainEqual ==
  ASSUME NEW a \in DrainStates, NEW b \in DrainStates, a.pc = b.pc, a.owns = b.owns, a.force = b.force,
         a.scan = b.scan, a.index = b.index, a.kind = b.kind, a.batch = b.batch, a.rest = b.rest,
         a.summary = b.summary, a.lines = b.lines
  PROVE  a = b
  BY DEF DrainStates

\* A drain that has lost its queue.
LEMMA Disowned ==
  ASSUME NEW dr, DrainOK(dr), dr.pc = "none" => dr = Idle
  PROVE  LET o == [dr EXCEPT !.owns = FALSE] IN
         /\ DrainOK(o) /\ ~o.owns /\ o.pc = dr.pc /\ (o.pc = "none" => o = Idle)
         /\ o.batch = dr.batch /\ o.rest = dr.rest /\ (Plain(dr) => Plain(o))
  <1> DEFINE o == [dr EXCEPT !.owns = FALSE]
  <1>1. /\ o \in DrainStates /\ o.owns = FALSE /\ o.pc = dr.pc /\ o.batch = dr.batch /\ o.rest = dr.rest
        /\ o.index = dr.index /\ o.kind = dr.kind /\ o.summary = dr.summary /\ o.lines = dr.lines
    BY DEF DrainOK, DrainStates
  <1>2. Idle = [Idle EXCEPT !.owns = FALSE]
    <2> DEFINE i == [Idle EXCEPT !.owns = FALSE]
    <2>1. Idle \in DrainStates /\ Idle.owns = FALSE
      BY IdleIsDrain DEF DrainOK, Idle
    <2>2. /\ i \in DrainStates /\ i.pc = Idle.pc /\ i.owns = Idle.owns /\ i.force = Idle.force
          /\ i.scan = Idle.scan /\ i.index = Idle.index /\ i.kind = Idle.kind /\ i.batch = Idle.batch
          /\ i.rest = Idle.rest /\ i.summary = Idle.summary /\ i.lines = Idle.lines
      BY <2>1 DEF DrainStates
    <2> HIDE DEF i
    <2>3. i = Idle
      BY <2>1, <2>2, DrainEqual
    <2> QED
      BY <2>3 DEF i
  <1>3. o.pc = "none" => o = Idle
    BY <1>1, <1>2
  <1> HIDE DEF o
  <1>4. DrainOK(o) /\ (Plain(dr) => Plain(o))
    BY <1>1 DEF DrainOK, Plain
  <1> QED
    BY <1>1, <1>3, <1>4 DEF o

\* clearSessionQueues.
LEMMA ClearKeepsDrains ==
  ASSUME DrainInv, ClearSessionQueues
  PROVE  DrainInv'
  <1>0. Consistent /\ Recorded /\ OperationHeld /\ BackedUntilCleared
    BY DrainInvParts
  <1> DEFINE gone == UNION {ToSet(queue.items), ToSet(queue.summaryLines), ToSet(queue.summarySources)}
  <1>1. gone \in SUBSET Messages
    <2>1. /\ ToSet(queue.items) \in SUBSET Messages /\ ToSet(queue.summaryLines) \in SUBSET Messages
          /\ ToSet(queue.summarySources) \in SUBSET Messages
      BY <1>0, QueueFields, ToSetTyped DEF Consistent
    <2> QED
      BY <2>1
  <1>2. /\ queue' = Absent /\ drains' = [d \in Drains |-> [drains[d] EXCEPT !.owns = FALSE]]
        /\ op' = op /\ main' = main /\ clears' = clears + 1 /\ clears < MaxClears
        /\ cleared' = cleared \cup gone /\ completed' = completed \cup gone
    BY DEF ClearSessionQueues
  <1> HIDE DEF gone
  <1>3. clears' \in 0..MaxClears /\ clears' # 0
    BY <1>0, <1>2, FollowupAssumption DEF Recorded
  <1>4. Recorded'
    BY <1>0, <1>1, <1>2, <1>3 DEF ClearSessionQueues, Recorded
  <1>5. ASSUME NEW d \in Drains
        PROVE  DrainOK(drains'[d]) /\ ~drains'[d].owns /\ drains'[d].pc = drains[d].pc
               /\ (drains'[d].pc = "none" => drains'[d] = Idle)
    <2>1. DrainOK(drains[d]) /\ (drains[d].pc = "none" => drains[d] = Idle)
      BY <1>0 DEF Consistent, Ownership
    <2>2. drains'[d] = [drains[d] EXCEPT !.owns = FALSE]
      BY <1>2
    <2> QED
      BY <2>1, <2>2, Disowned
  <1>6. drains' \in [Drains -> DrainStates]
    <2>1. DOMAIN drains' = Drains /\ drains' = [d \in Drains |-> drains'[d]]
      BY <1>2
    <2>2. \A d \in Drains : drains'[d] \in DrainStates
      BY <1>5 DEF DrainOK
    <2> QED
      BY <2>1, <2>2
  <1>7. Consistent'
    BY <1>2, <1>5, <1>6, AbsentIsQueue DEF Consistent, Ownership, OneDrainPerQueue
  <1>8. OperationHeld' /\ BackedUntilCleared'
    BY <1>0, <1>2, <1>3, <1>5 DEF OperationHeld, BackedUntilCleared
  <1> QED
    BY <1>4, <1>7, <1>8, DrainInvPartsNext

\* A drain waits somewhere else, and the reply operation is free or someone else's.
LEMMA ResumeKeeps ==
  ASSUME DrainInv, NEW d \in Drains, NEW n, drains[d].owns => Continues(n), NEW ok \in BOOLEAN, Resume(d, n, ok),
         drains[d].pc # "none", main' = main, clears' = clears, op' = IF drains[d].pc = "running" THEN "none" ELSE op
  PROVE  Consistent' /\ OperationHeld' /\ BackedUntilCleared'
  <1>0. Consistent /\ Recorded /\ OperationHeld /\ BackedUntilCleared /\ "none" \notin Drains /\ "main" \notin Drains
    BY DrainInvParts, FollowupAssumption
  <1>1. /\ Consistent'
        /\ \A e \in Drains : e # d => drains'[e] = drains[e]
        /\ drains'[d].pc \notin {"running", "failing"}
        /\ drains[d].owns => /\ drains'[d].pc # "none" => drains'[d].owns
                             /\ Work(queue') => queue'.draining
    BY <1>0, ResumeOK
  <1>2. OperationHeld'
    BY <1>0, <1>1 DEF OperationHeld
  <1>3. BackedUntilCleared'
    BY <1>0, <1>1 DEF BackedUntilCleared
  <1> QED
    BY <1>1, <1>2, <1>3

\* The run of a drain opens the reply operation, or the agent fails and releases it.
LEMMA RunKeepsDrains ==
  ASSUME DrainInv, NEW d \in Drains, RunBegins(d) \/ AgentFails(d)
  PROVE  DrainInv'
  <1>0. Consistent /\ Recorded /\ OperationHeld /\ BackedUntilCleared /\ "none" \notin Drains /\ "main" \notin Drains
    BY DrainInvParts, FollowupAssumption
  <1>1. PICK pc \in {"running", "failing"} : drains' = [drains EXCEPT ![d].pc = pc]
    BY DEF RunBegins, AgentFails
  <1>2. queue' = queue /\ main' = main /\ clears' = clears
    BY DEF RunBegins, AgentFails, counters
  <1>3. \A e \in Drains : e # d => drains'[e] = drains[e]
    BY <1>0, <1>1 DEF Consistent
  <1>4. drains'[d] = [drains[d] EXCEPT !.pc = pc]
    BY <1>0, <1>1 DEF Consistent
  <1>5. DrainOK(drains[d]) /\ drains[d].pc # "none"
    BY <1>0 DEF Consistent, Ownership, RunBegins, AgentFails
  <1>6. /\ DrainOK(drains'[d]) /\ drains'[d].pc = pc /\ drains'[d].owns = drains[d].owns
    <2>1. /\ drains'[d] \in DrainStates /\ drains'[d].pc = pc /\ drains'[d].owns = drains[d].owns
          /\ drains'[d].batch = drains[d].batch /\ drains'[d].rest = drains[d].rest
      BY <1>4, <1>5 DEF DrainOK, DrainStates
    <2> QED
      BY <1>5, <2>1 DEF DrainOK
  <1>7. \A e \in Drains : drains'[e].owns <=> drains[e].owns
    BY <1>3, <1>6
  <1>8. Consistent'
    <2>1. drains' \in [Drains -> DrainStates]
      BY <1>0, <1>1, <1>4, <1>6 DEF Consistent, DrainOK
    <2>2. ASSUME NEW e \in Drains PROVE DrainOK(drains'[e]) /\ (drains'[e].pc = "none" => drains'[e] = Idle)
      BY <1>0, <1>3, <1>6 DEF Consistent, Ownership
    <2>3. OneDrainPerQueue'
      BY <1>0, <1>2, <1>7 DEF Consistent, Ownership, OneDrainPerQueue
    <2> QED
      BY <1>0, <1>2, <2>1, <2>2, <2>3 DEF Consistent, Ownership
  <1>9. BackedUntilCleared'
    <2>1. \A e \in Drains : drains'[e].pc # "none" => drains[e].pc # "none"
      BY <1>3, <1>5
    <2> QED
      BY <1>0, <1>2, <1>7, <2>1 DEF BackedUntilCleared
  <1>10. CASE RunBegins(d)
    <2>1. op = "none" /\ op' = d /\ drains'[d].pc = "running"
      <3>1. drains'[d] = [drains[d] EXCEPT !.pc = "running"]
        BY <1>0, <1>10 DEF RunBegins, Consistent
      <3> QED
        BY <1>5, <1>10, <3>1 DEF RunBegins, DrainOK, DrainStates
    <2>2. OperationHeld'
      BY <1>0, <1>2, <1>3, <2>1 DEF OperationHeld
    <2>3. Recorded'
      BY <1>0, <1>10 DEF RunBegins, Recorded, history, counters
    <2> QED
      BY <1>8, <1>9, <2>2, <2>3, DrainInvPartsNext
  <1>11. CASE AgentFails(d)
    <2>1. op = d /\ op' = "none" /\ drains'[d].pc = "failing"
      <3>1. drains'[d] = [drains[d] EXCEPT !.pc = "failing"]
        BY <1>0, <1>11 DEF AgentFails, Consistent
      <3> QED
        BY <1>0, <1>5, <1>11, <3>1 DEF AgentFails, DrainOK, DrainStates, OperationHeld
    <2>2. OperationHeld'
      BY <1>0, <1>2, <1>3, <2>1 DEF OperationHeld
    <2>3. failures' \in 0..MaxFailures
      BY <1>0, <1>11, FollowupAssumption DEF AgentFails, Recorded
    <2>4. Recorded'
      BY <1>0, <1>11, <2>3 DEF AgentFails, Recorded, history
    <2> QED
      BY <1>8, <1>9, <2>2, <2>4, DrainInvPartsNext
  <1> QED
    BY <1>10, <1>11

\* The steps of a drain from one await to the next.
LEMMA StepKeepsDrains ==
  ASSUME DrainInv, NEW d \in Drains,
         AbortedHandled(d) \/ DebounceEnds(d) \/ RunRefused(d) \/ RunUnprepared(d) \/ RunEscapes(d) \/ RunReturns(d)
  PROVE  DrainInv'
  <1> DEFINE dr == drains[d]
  <1>0. /\ Consistent /\ Recorded /\ OperationHeld /\ BackedUntilCleared
        /\ queue \in QueueStates /\ drains \in [Drains -> DrainStates]
    BY DrainInvParts DEF Consistent
  <1>1. DrainOK(dr) /\ dr \in DrainStates
    BY <1>0 DEF Consistent, Ownership
  <1>2. dr.owns => Draining(queue)
    BY <1>0, OwnerDrains DEF Consistent
  <1>3. /\ ToSet(dr.batch) \in SUBSET Messages /\ ToSet(queue.summarySources) \in SUBSET Messages
        /\ ToSet(queue.summaryLines) \in SUBSET Messages /\ dr.lines \in SUBSET Messages
    <2>1. dr.batch \in Seq(Messages) /\ dr.lines \in SUBSET Messages
      BY <1>1 DEF DrainStates
    <2> QED
      BY <1>0, <2>1, QueueFields, ToSetTyped
  <1>4. dr.force \in BOOLEAN /\ dr.scan \in {1, 2} /\ dr.index \in Nat /\ dr.summary \in BOOLEAN
    BY <1>1 DEF DrainStates
  <1>5. ASSUME RunThrows(d), dr.pc # "none", op' = IF dr.pc = "running" THEN "none" ELSE op,
               failures' \in 0..MaxFailures
        PROVE  DrainInv'
    <2> DEFINE q == IF dr.summary THEN [queue EXCEPT !.summarySources = <<>>] ELSE queue
    <2>1. dr.owns => Draining(q)
      <3>1. [queue EXCEPT !.summarySources = <<>>] \in QueueStates
        BY <1>0, EmptyNotCross, QueueUpdates
      <3>2. dr.owns => Draining([queue EXCEPT !.summarySources = <<>>])
        BY <1>0, <1>2, <3>1 DEF Draining, QueueStates
      <3> QED
        BY <1>2, <3>2
    <2>2. Resume(d, Finally(q), FALSE) /\ main' = main /\ clears' = clears
      BY <1>5 DEF RunThrows
    <2> HIDE DEF q
    <2>3. dr.owns => Continues(Finally(q))
      BY <2>1, FinallyOK
    <2>4. Consistent' /\ OperationHeld' /\ BackedUntilCleared'
      BY <1>5, <2>2, <2>3, ResumeKeeps
    <2>5. completed' \in SUBSET Messages
      BY <1>0, <1>3, <1>5 DEF RunThrows, RunCleansUp, SummarySources, Recorded
    <2>6. Recorded'
      BY <1>0, <1>5, <2>5 DEF RunThrows, Recorded
    <2> QED
      BY <2>4, <2>6, DrainInvPartsNext
  <1>6. CASE RunRefused(d)
    <2>1. RunThrows(d) /\ dr.pc = "starting" /\ op' = op /\ failures' = failures
      BY <1>6 DEF RunRefused
    <2> QED
      BY <1>0, <1>5, <2>1 DEF Recorded
  <1>7. CASE RunUnprepared(d) \/ RunEscapes(d)
    <2>1. /\ RunThrows(d) /\ dr.pc \in {"starting", "running"} /\ op' = IF dr.pc = "running" THEN "none" ELSE op
          /\ failures' = failures + 1 /\ failures < MaxFailures
      BY <1>7 DEF RunUnprepared, RunEscapes
    <2>2. failures' \in 0..MaxFailures
      BY <1>0, <2>1, FollowupAssumption DEF Recorded
    <2> QED
      BY <1>5, <2>1, <2>2
  <1>8. CASE DebounceEnds(d)
    <2> DEFINE n == Scan(queue, 2, Len(queue.items), dr.force, FALSE)
    <2>1. /\ dr.pc = "debounce" /\ Resume(d, n, FALSE) /\ main' = main /\ clears' = clears /\ op' = op
      BY <1>8 DEF DebounceEnds, counters
    <2>2. Len(queue.items) \in Nat
      BY <1>0, QueueFields
    <2>3. dr.owns => Continues(n)
      BY <1>2, <1>4, <2>2, ScanOK
    <2> HIDE DEF n
    <2>4. Consistent' /\ OperationHeld' /\ BackedUntilCleared'
      BY <2>1, <2>3, ResumeKeeps
    <2>5. Recorded'
      BY <1>0, <1>8 DEF DebounceEnds, Recorded, history, counters
    <2> QED
      BY <2>4, <2>5, DrainInvPartsNext
  <1>9. CASE AbortedHandled(d)
    <2> DEFINE items == IF dr.index <= Len(queue.items) THEN RemoveAt(queue.items, dr.index) ELSE queue.items
               q == [queue EXCEPT !.items = items]
               n == Scan(q, dr.scan, dr.index - 1, dr.force, TRUE)
    <2>1. dr.pc = "aborting" /\ Resume(d, n, FALSE) /\ main' = main /\ clears' = clears /\ op' = op
      BY <1>9 DEF AbortedHandled, counters
    <2>2. dr.index >= 1 /\ dr.index - 1 \in Nat /\ queue.items \in Seq(Messages)
      BY <1>0, <1>1, <1>4, <2>1, QueueFields DEF DrainOK
    <2>3. items \in Seq(Messages)
      <3>1. dr.index <= Len(queue.items) => dr.index \in 1..Len(queue.items)
        BY <1>4, <2>2
      <3> QED
        BY <2>2, <3>1, RemoveAtElements
    <2> HIDE DEF items
    <2>4. dr.owns => Draining(q)
      <3>1. q \in QueueStates
        BY <1>0, <2>3, QueueUpdates
      <3> QED
        BY <1>0, <1>2, <3>1 DEF Draining, QueueStates
    <2>5. /\ completed' = completed \cup ToSet(dr.batch) \cup
                (IF dr.owns THEN ToSet(queue.summarySources) \ ToSet(n.queue.summarySources) ELSE {})
          /\ dropped' = dropped \cup
                (IF dr.owns THEN ToSet(queue.summaryLines) \ ToSet(n.queue.summaryLines) ELSE {})
      BY <1>9 DEF AbortedHandled, items
    <2> HIDE DEF q
    <2>6. dr.owns => Continues(n)
      BY <1>4, <2>2, <2>4, ScanOK
    <2> HIDE DEF n
    <2>7. Consistent' /\ OperationHeld' /\ BackedUntilCleared'
      BY <2>1, <2>6, ResumeKeeps
    <2>8. completed' \in SUBSET Messages /\ dropped' \in SUBSET Messages
      BY <1>0, <1>3, <2>5 DEF Recorded
    <2>9. Recorded'
      BY <1>0, <1>9, <2>8 DEF AbortedHandled, Recorded, counters
    <2> QED
      BY <2>7, <2>9, DrainInvPartsNext
  <1>10. CASE RunReturns(d)
    <2> DEFINE n == AfterRun(queue, dr)
    <2>1. /\ dr.pc \in {"running", "failing"} /\ Resume(d, n, TRUE) /\ main' = main /\ clears' = clears
          /\ op' = IF dr.pc = "running" THEN "none" ELSE op
          /\ turns' = [m \in Messages |-> turns[m] + IF m \in Prompts(dr) THEN 1 ELSE 0]
      BY <1>10 DEF RunReturns, counters
    <2>2. dr.owns => Continues(n)
      BY <1>1, <1>2, AfterRunOK
    <2> HIDE DEF n
    <2>3. Consistent' /\ OperationHeld' /\ BackedUntilCleared'
      BY <2>1, <2>2, ResumeKeeps
    <2>4. completed' \in SUBSET Messages
      BY <1>0, <1>3, <1>10 DEF RunReturns, RunCleansUp, SummarySources, Recorded
    <2>5. turns' \in [Messages -> Nat]
      BY <1>0, <2>1 DEF Recorded
    <2>6. Recorded'
      BY <1>0, <1>3, <1>10, <2>1, <2>4, <2>5 DEF RunReturns, Recorded, counters
    <2> QED
      BY <2>3, <2>6, DrainInvPartsNext
  <1> QED
    BY <1>6, <1>7, <1>8, <1>9, <1>10

\* The initial state.
LEMMA DrainInvInit == Init => DrainInv
  <1> SUFFICES ASSUME Init PROVE DrainInv
    OBVIOUS
  <1>0. queue = Absent /\ drains = [d \in Drains |-> Idle] /\ "none" \notin Drains /\ "main" \notin Drains
    BY FollowupAssumption DEF Init
  <1>1. \A d \in Drains : drains[d] = Idle /\ DrainOK(Idle) /\ Idle \in DrainStates /\ ~Idle.owns /\ Idle.pc = "none"
    BY <1>0, IdleIsDrain DEF DrainOK
  <1>2. Consistent
    <2>1. drains \in [Drains -> DrainStates]
      BY <1>0, <1>1
    <2> QED
      BY <1>0, <1>1, <2>1, AbsentIsQueue DEF Consistent, Ownership, OneDrainPerQueue
  <1>3. Recorded
    BY FollowupAssumption DEF Init, Recorded
  <1>4. OperationHeld
    BY <1>0, <1>1 DEF Init, OperationHeld
  <1>5. BackedUntilCleared
    BY <1>0, <1>1, AbsentIsQueue DEF BackedUntilCleared
  <1> QED
    BY <1>2, <1>3, <1>4, <1>5, DrainInvParts

\* Every step.
LEMMA DrainInvStep == DrainInv /\ [Next]_vars => DrainInv'
  <1> SUFFICES ASSUME DrainInv, [Next]_vars PROVE DrainInv'
    OBVIOUS
  <1>1. ASSUME NEW m \in Messages, Arrive(m) \/ AbortMessage(m) PROVE DrainInv'
    BY <1>1, MessageKeepsDrains
  <1>2. ASSUME NEW m \in Messages, NEW s \in Settings, EnqueueFollowupRun(m, s) PROVE DrainInv'
    BY <1>2, EnqueueKeepsDrains
  <1>3. CASE MainStarts \/ MainCompletes \/ MainFails \/ MainFailureReturns
    BY <1>3, MainKeepsDrains
  <1>4. CASE ClearSessionQueues
    BY <1>4, ClearKeepsDrains
  <1>5. ASSUME NEW d \in Drains, DrainStep(d) PROVE DrainInv'
    <2>1. CASE RunBegins(d) \/ AgentFails(d)
      BY <2>1, RunKeepsDrains
    <2>2. CASE AbortedHandled(d) \/ DebounceEnds(d) \/ RunRefused(d) \/ RunUnprepared(d) \/ RunEscapes(d) \/ RunReturns(d)
      BY <2>2, StepKeepsDrains
    <2> QED
      BY <1>5, <2>1, <2>2 DEF DrainStep
  <1>6. CASE UNCHANGED vars
    BY <1>6 DEF vars, history, counters, DrainInv, TypeOK, Ownership, OneDrainPerQueue, OperationHeld,
                BackedUntilCleared
  <1> QED
    BY <1>1, <1>2, <1>3, <1>4, <1>5, <1>6 DEF Next

\* The invariant of the drains, under every overflow policy and with clears at any time.
THEOREM DrainInvariant == Spec => []DrainInv
  BY DrainInvInit, DrainInvStep, PTL DEF Spec

\* The state of the followup queue has its types.
THEOREM FollowupTypes == Spec => []TypeOK
  <1>1. DrainInv => TypeOK
    BY DEF DrainInv
  <1> QED
    BY <1>1, DrainInvariant, PTL

\* scheduleFollowupDrain's flag: one drain per queue, however the ends of runs, the callers'
\* rechecks, the drains' own restarts and clearSessionQueues interleave.
THEOREM OneDrain == Spec => []OneDrainPerQueue
  <1>1. DrainInv => OneDrainPerQueue
    BY DEF DrainInv, Ownership
  <1> QED
    BY <1>1, DrainInvariant, PTL

\* splitCollectItemsByAuthorization and isCrossChannel: a turn for several messages is for those
\* of one sender authorization and one route, also when the settings change between turns.
THEOREM SendersKeptApart == Spec => []BatchesHomogeneous
  <1>1. DrainInv => BatchesHomogeneous
    <2> SUFFICES ASSUME DrainInv, NEW d \in Drains,
                        NEW m \in ToSet(drains[d].batch), NEW n \in ToSet(drains[d].batch), m # n
                 PROVE  /\ AuthOf[m] = AuthOf[n]
                        /\ RouteOf[m] = RouteOf[n] \/ NoRoute \in {RouteOf[m], RouteOf[n]}
                        /\ Unroutable \notin {RouteOf[m], RouteOf[n]}
                        /\ m \notin RoomEvents
      BY DEF BatchesHomogeneous
    <2> DEFINE s == drains[d].batch
    <2>1. s \in Seq(Messages) /\ Homogeneous(s)
      BY DEF DrainInv, Ownership, DrainOK, DrainStates
    <2>2. PICK i \in DOMAIN s, j \in DOMAIN s : m = s[i] /\ n = s[j]
      BY DEF ToSet
    <2>3. m \in ToSet(s) /\ n \in ToSet(s)
      OBVIOUS
    <2> HIDE DEF s
    <2>4. Len(s) > 1
      BY <2>1, <2>2
    <2>5. (\A h, k \in DOMAIN s : AuthOf[s[h]] = AuthOf[s[k]]) /\ ~CrossChannel(s)
      BY <2>1, <2>4 DEF Homogeneous
    <2>6. AuthOf[m] = AuthOf[n]
      BY <2>2, <2>5
    <2>7. RouteOf[m] = RouteOf[n] \/ NoRoute \in {RouteOf[m], RouteOf[n]}
      BY <2>1, <2>3, <2>5, OneRoute
    <2>8. Unroutable \notin {RouteOf[m], RouteOf[n]} /\ m \notin RoomEvents
      BY <2>3, <2>5 DEF CrossChannel
    <2> QED
      BY <2>6, <2>7, <2>8
  <1> QED
    BY <1>1, DrainInvariant, PTL

\* agent-runner's recheck after the enqueue: queued work always has a drain, or a run whose end
\* starts one, as long as no queue is cleared under its drain.
THEOREM WorkNeverStranded ==
  ASSUME MaxClears = 0
  PROVE  Spec => []NeverStranded
  <1>1. DrainInv => NeverStranded
    <2>1. DrainInv => clears = 0
      BY DEF DrainInv, TypeOK
    <2> QED
      BY <2>1 DEF DrainInv, BackedUntilCleared, NeverStranded
  <1> QED
    BY <1>1, DrainInvariant, PTL

-----------------------------------------------------------------------------
(***************************************************************************)
(* Where the messages are, when the queue refuses new ones.                *)
(***************************************************************************)

\* What a drain holds is at the head of its queue, each message once.
LEMMA AlignedHeld ==
  ASSUME NEW dr \in DrainStates, NEW items \in Seq(Messages), Distinct(items), Aligned(dr, items)
  PROVE  /\ Plain(dr) /\ Distinct(dr.batch) /\ Distinct(dr.rest) /\ ToSet(dr.batch) \cap ToSet(dr.rest) = {}
         /\ Held(dr) \subseteq ToSet(items)
  <1> DEFINE b == dr.batch
             r == dr.rest
  <1>0. /\ b \in Seq(Messages) /\ r \in Seq(Messages) /\ Len(items) \in Nat /\ DOMAIN items = 1..Len(items)
        /\ dr.pc \in {"none", "aborting", "debounce", "starting", "running", "failing"}
    BY DEF DrainStates
  <1>00. Len(b) \in Nat /\ Len(r) \in Nat /\ DOMAIN b = 1..Len(b) /\ DOMAIN r = 1..Len(r)
    BY <1>0
  <1>1. Plain(dr)
    BY DEF Aligned
  <1>2. CASE b = <<>> /\ r = <<>>
    BY <1>1, <1>2 DEF Distinct, Held, ToSet
  <1>3. CASE dr.pc = "aborting"
    <2>1. dr.index \in DOMAIN items /\ b = <<items[dr.index]>> /\ r = <<>>
      BY <1>3 DEF Aligned
    <2>2. DOMAIN b = {1} /\ b[1] = items[dr.index] /\ DOMAIN r = {}
      BY <2>1
    <2> HIDE DEF b, r
    <2>3. ToSet(b) = {items[dr.index]} /\ ToSet(r) = {} /\ Distinct(b) /\ Distinct(r)
      BY <2>2 DEF ToSet, Distinct
    <2>4. items[dr.index] \in ToSet(items)
      BY <2>1 DEF ToSet
    <2> QED
      BY <1>1, <2>3, <2>4 DEF Held, b, r
  <1>4. CASE dr.pc \in {"starting", "running", "failing"}
    <2>1. /\ Len(b) >= 1 /\ Len(b) + Len(r) <= Len(items)
          /\ \A i \in DOMAIN b : b[i] = items[i]
          /\ \A i \in DOMAIN r : r[i] = items[Len(b) + i]
      BY <1>4 DEF Aligned
    <2> HIDE DEF b, r
    <2>2. \A i \in DOMAIN b : i \in DOMAIN items /\ i <= Len(b) /\ i \in Int
      BY <1>0, <1>00, <2>1
    <2>3. \A i \in DOMAIN r : Len(b) + i \in DOMAIN items /\ Len(b) + i > Len(b) /\ i \in Int
      BY <1>0, <1>00, <2>1
    <2>4. Distinct(b)
      BY <2>1, <2>2 DEF Distinct
    <2>5. Distinct(r)
      <3>1. ASSUME NEW i \in DOMAIN r, NEW j \in DOMAIN r, r[i] = r[j] PROVE i = j
        <4>1. Len(b) + i = Len(b) + j
          BY <2>1, <2>3, <3>1 DEF Distinct
        <4> QED
          BY <1>00, <2>3, <4>1
      <3> QED
        BY <3>1 DEF Distinct
    <2>6. ToSet(b) \cap ToSet(r) = {}
      <3>1. ASSUME NEW i \in DOMAIN b, NEW j \in DOMAIN r, b[i] = r[j] PROVE FALSE
        <4>1. i = Len(b) + j
          BY <2>1, <2>2, <2>3, <3>1 DEF Distinct
        <4> QED
          BY <1>00, <2>2, <2>3, <4>1
      <3> QED
        BY <3>1 DEF ToSet
    <2>7. ToSet(b) \subseteq ToSet(items) /\ ToSet(r) \subseteq ToSet(items)
      BY <2>1, <2>2, <2>3 DEF ToSet
    <2> QED
      BY <1>1, <2>4, <2>5, <2>6, <2>7 DEF Held, b, r
  <1> QED
    BY <1>0, <1>2, <1>3, <1>4 DEF Aligned

\* The alignment of a drain survives what is pushed behind it.
LEMMA AlignedPushed ==
  ASSUME NEW dr \in DrainStates, NEW items \in Seq(Messages), NEW m \in Messages, Aligned(dr, items)
  PROVE  Aligned(dr, Append(items, m))
  <1> DEFINE t == Append(items, m)
  <1>1. /\ t \in Seq(Messages) /\ Len(t) = Len(items) + 1 /\ Len(items) \in Nat
        /\ DOMAIN items = 1..Len(items) /\ DOMAIN t = 1..(Len(items) + 1)
        /\ \A i \in 1..Len(items) : t[i] = items[i]
    OBVIOUS
  <1> HIDE DEF t
  <1>2. \A i \in DOMAIN items : i \in DOMAIN t /\ t[i] = items[i]
    BY <1>1
  <1>3. CASE dr.pc \notin {"starting", "running", "failing"}
    <2>1. Aligned(dr, t)
      BY <1>2, <1>3 DEF Aligned
    <2> QED
      BY <2>1 DEF t
  <1>4. CASE dr.pc \in {"starting", "running", "failing"}
    <2> DEFINE b == dr.batch
               r == dr.rest
    <2>0. b \in Seq(Messages) /\ r \in Seq(Messages)
      BY DEF DrainStates
    <2>1. Len(b) \in Nat /\ Len(r) \in Nat /\ DOMAIN b = 1..Len(b) /\ DOMAIN r = 1..Len(r)
      BY <2>0
    <2>2. /\ Plain(dr) /\ Len(b) >= 1 /\ Len(b) + Len(r) <= Len(items)
          /\ \A i \in DOMAIN b : b[i] = items[i]
          /\ \A i \in DOMAIN r : r[i] = items[Len(b) + i]
      BY <1>4 DEF Aligned
    <2> HIDE DEF b, r
    <2>3. \A i \in DOMAIN b : i \in DOMAIN items
      BY <1>1, <2>1, <2>2
    <2>4. \A i \in DOMAIN r : Len(b) + i \in DOMAIN items
      BY <1>1, <2>1, <2>2
    <2>5. Len(b) + Len(r) <= Len(t)
      BY <1>1, <2>1, <2>2
    <2>6. /\ \A i \in DOMAIN b : b[i] = t[i]
          /\ \A i \in DOMAIN r : r[i] = t[Len(b) + i]
      BY <1>2, <2>2, <2>3, <2>4
    <2>7. Aligned(dr, t)
      BY <1>4, <2>2, <2>5, <2>6 DEF Aligned, b, r
    <2> QED
      BY <2>7 DEF t
  <1> QED
    BY <1>3, <1>4

\* What an orphan has left after a run: a part of what it had.
LEMMA OrphanHeld ==
  ASSUME NEW dr, DrainOK(dr), Distinct(dr.rest), NEW ok \in BOOLEAN
  PROVE  LET o == Orphan(dr, ok) IN
         /\ Plain(o) /\ Distinct(o.batch) /\ Distinct(o.rest) /\ ToSet(o.batch) \cap ToSet(o.rest) = {}
         /\ Held(o) \subseteq ToSet(dr.rest)
  <1> DEFINE o == Orphan(dr, ok)
             s == dr.rest
  <1>0. s \in Seq(Messages)
    BY DEF DrainOK, DrainStates
  <1>1. \/ o = Idle
        \/ Plain(o) /\ \E k \in 1..Len(s) : o.batch = SubSeq(s, 1, k) /\ o.rest = Shift(s, k)
    BY OrphanContinues
  <1> HIDE DEF o
  <1>2. CASE o = Idle
    <2>1. o.batch = <<>> /\ o.rest = <<>> /\ o.kind = "single" /\ o.summary = FALSE /\ o.lines = {}
      BY <1>2 DEF Idle
    <2>2. Plain(o)
      BY <2>1 DEF Plain
    <2>3. ToSet(<<>>) = {} /\ Distinct(<<>>)
      BY DEF ToSet, Distinct
    <2> QED
      BY <2>1, <2>2, <2>3 DEF Held, o
  <1>3. CASE o # Idle
    <2>1. PICK k \in 1..Len(s) : o.batch = SubSeq(s, 1, k) /\ o.rest = Shift(s, k)
      BY <1>1, <1>3
    <2>2. Plain(o)
      BY <1>1, <1>3
    <2>3. k \in 0..Len(s)
      OBVIOUS
    <2> DEFINE b == SubSeq(s, 1, k)
    <2>4. b \in Seq(Messages) /\ Len(b) = k /\ \A i \in 1..k : b[i] = s[i]
      BY <1>0, <2>3, FrontElements
    <2>5. DOMAIN b = 1..k /\ DOMAIN s = 1..Len(s)
      BY <1>0, <2>4
    <2> HIDE DEF b, s
    <2>6. ToSet(b) = {s[i] : i \in 1..k} /\ ToSet(b) \subseteq ToSet(s) /\ Distinct(b)
      <3>1. \A i \in 1..k : i \in DOMAIN s
        BY <1>0, <2>5
      <3>2. Distinct(s)
        BY DEF s
      <3> QED
        BY <2>4, <2>5, <3>1, <3>2 DEF ToSet, Distinct
    <2>7. /\ ToSet(Shift(s, k)) \subseteq ToSet(s) /\ Distinct(Shift(s, k))
          /\ ToSet(Shift(s, k)) \cap {s[i] : i \in 1..k} = {}
      BY <1>0, <2>3, ShiftedSet DEF s
    <2>8. o.batch = b /\ o.rest = Shift(s, k)
      BY <2>1 DEF b
    <2> QED
      BY <2>2, <2>6, <2>7, <2>8 DEF Held, o, s
  <1> QED
    BY <1>2, <1>3

\* What a step of a drain does to the records: the messages of `ran` had a turn.
Ran(ran) ==
    /\ recent' = recent /\ accepted' = accepted /\ aborted' = aborted /\ cleared' = cleared
    /\ completed \subseteq completed'
    /\ \A m \in Messages : turns'[m] = IF m \in ran THEN turns[m] + 1 ELSE turns[m]

\* The alignment does not look at what a step of a drain changes.
LEMMA AlignedNext ==
  ASSUME aborted \subseteq aborted', NEW d \in Drains, Aligned(drains'[d], queue'.items)
  PROVE  Aligned(drains[d], queue.items)'
  BY DEF Aligned, Plain

\* A drain with nothing in its hands is an orphan of any queue.
LEMMA IdleOrphan ==
  /\ Plain(Idle) /\ Distinct(Idle.batch) /\ Distinct(Idle.rest) /\ ToSet(Idle.batch) \cap ToSet(Idle.rest) = {}
  /\ Held(Idle) = {}
  <1>1. /\ Idle.pc = "none" /\ Idle.batch = <<>> /\ Idle.rest = <<>> /\ Idle.kind = "single" /\ Idle.summary = FALSE
        /\ Idle.lines = {}
    BY DEF Idle
  <1>2. ToSet(<<>>) = {} /\ Distinct(<<>>)
    BY DEF ToSet, Distinct
  <1> QED
    BY <1>1, <1>2 DEF Plain, Held

\* The drain that owns the queue goes on and removes messages from it.
LEMMA OwnerStep ==
  ASSUME QueueInv, Consistent, Consistent', turns \in [Messages -> Nat],
         NEW d \in Drains, drains[d].owns, \A e \in Drains : e # d => drains'[e] = drains[e],
         drains'[d].pc # "none" => drains'[d].owns, Aligned(drains'[d], queue'.items),
         NoSummary(queue'), Distinct(queue'.items),
         NEW ran \in SUBSET ToSet(queue.items), Ran(ran),
         ToSet(queue'.items) \subseteq ToSet(queue.items) \ ran,
         \A m \in ToSet(queue.items) : m \in ToSet(queue'.items) \/ (m \in ran \cup aborted /\ m \in completed')
  PROVE  QueueInv'
  <1>0. /\ \A e \in Drains : e # d => ~drains[e].owns
        /\ ToSet(queue.items) \in SUBSET Messages
    <2>1. \A e \in Drains : e # d => ~drains[e].owns
      BY OwnerDrains DEF Consistent
    <2> QED
      BY <2>1, QueueFields, ToSetTyped DEF Consistent
  <1>1. MessagesTracked /\ \A m \in Messages : Accounted(m)
    BY DEF QueueInv
  <1>2. /\ recent' = recent /\ accepted' = accepted /\ aborted' = aborted /\ cleared' = cleared
        /\ completed \subseteq completed'
        /\ \A m \in Messages : turns'[m] = IF m \in ran THEN turns[m] + 1 ELSE turns[m]
    BY DEF Ran
  <1>3. \A m \in Messages : turns[m] \in Nat
    OBVIOUS
  <1>4. \A m \in ToSet(queue.items) : Fresh(m) /\ m \in Messages
    BY <1>0, <1>1 DEF MessagesTracked
  <1>5. drains'[d].owns \/ drains'[d] = Idle
    BY DEF Consistent, Ownership
  <1>6. ASSUME NEW e \in Drains, e # d
        PROVE  /\ ~drains'[e].owns /\ drains'[e] = drains[e] /\ OrphanOK(e)
               /\ \A m \in Held(drains[e]) : Fresh(m) /\ m \in cleared \cap completed /\ m \notin ToSet(queue.items)
    BY <1>0, <1>1, <1>6 DEF MessagesTracked, OrphanOK
  <1>7. \A m \in ToSet(queue'.items) : Fresh(m)'
    BY <1>2, <1>4 DEF Fresh
  <1>8. ASSUME NEW e \in Drains, ~drains'[e].owns
        PROVE  OrphanOK(e)' /\ \A m \in Held(drains'[e]) : Fresh(m)' /\ m \in cleared' \cap completed'
    <2>1. CASE e = d
      <3>1. drains'[e] = Idle
        BY <1>5, <1>8, <2>1
      <3> QED
        BY <3>1, IdleOrphan DEF OrphanOK
    <2>2. CASE e # d
      <3>1. /\ Plain(drains[e]) /\ Distinct(drains[e].batch) /\ Distinct(drains[e].rest)
            /\ ToSet(drains[e].batch) \cap ToSet(drains[e].rest) = {}
            /\ Held(drains[e]) \cap ToSet(queue.items) = {}
            /\ \A o \in Drains : o # e /\ ~drains[o].owns => Held(drains[e]) \cap Held(drains[o]) = {}
            /\ drains'[e] = drains[e]
        BY <1>6, <2>2 DEF OrphanOK
      <3>2. ASSUME NEW o \in Drains, o # e, ~drains'[o].owns PROVE Held(drains'[e]) \cap Held(drains'[o]) = {}
        <4>1. CASE o = d
          BY <1>5, <3>2, <4>1, IdleOrphan
        <4>2. CASE o # d
          BY <1>6, <3>1, <3>2, <4>2
        <4> QED
          BY <4>1, <4>2
      <3>3. OrphanOK(e)'
        BY <3>1, <3>2 DEF OrphanOK
      <3>4. ASSUME NEW m \in Held(drains'[e]) PROVE Fresh(m)' /\ m \in cleared' \cap completed'
        <4>1. Fresh(m) /\ m \in cleared \cap completed /\ m \notin ran
          BY <1>6, <2>2, <3>1, <3>4
        <4>2. m \in Messages
          <5>1. drains[e].batch \in Seq(Messages) /\ drains[e].rest \in Seq(Messages)
            BY DEF Consistent, DrainStates
          <5> QED
            BY <3>1, <3>4, <5>1, ToSetTyped DEF Held
        <4> QED
          BY <1>2, <4>1, <4>2 DEF Fresh
      <3> QED
        BY <3>3, <3>4
    <2> QED
      BY <2>1, <2>2
  <1>9. MessagesTracked'
    <2>1. ASSUME NEW e \in Drains, drains'[e].owns PROVE Aligned(drains[e], queue.items)'
      <3>1. e = d
        BY <1>6, <2>1
      <3> QED
        BY <1>2, <3>1, AlignedNext
    <2> QED
      BY <1>7, <1>8, <2>1 DEF MessagesTracked
  <1>10. ASSUME NEW m \in Messages PROVE Accounted(m)'
    <2>1. Accounted(m)
      BY <1>1
    <2>2. CASE m \in ToSet(queue.items)
      <3>1. m \in recent /\ turns[m] = 0
        BY <1>4, <2>2 DEF Fresh
      <3>2. turns'[m] = IF m \in ran THEN 1 ELSE 0
        BY <1>2, <3>1
      <3> QED
        BY <1>2, <2>1, <2>2, <3>1, <3>2 DEF Accounted
    <2>3. CASE m \notin ToSet(queue.items)
      <3>1. turns'[m] = turns[m]
        BY <1>2, <2>3
      <3> QED
        BY <1>2, <2>1, <2>3, <3>1 DEF Accounted
    <2> QED
      BY <2>2, <2>3
  <1> QED
    BY <1>9, <1>10 DEF QueueInv

\* A drain whose queue was cleared goes on.
LEMMA OrphanStep ==
  ASSUME QueueInv, Consistent, Consistent', turns \in [Messages -> Nat],
         NEW d \in Drains, ~drains[d].owns, \A e \in Drains : e # d => drains'[e] = drains[e],
         NEW ok \in BOOLEAN, queue' = queue, drains'[d] = Orphan(drains[d], ok),
         NEW ran \in SUBSET ToSet(drains[d].batch), Ran(ran)
  PROVE  QueueInv'
  <1>1. MessagesTracked /\ \A m \in Messages : Accounted(m)
    BY DEF QueueInv
  <1>2. /\ recent' = recent /\ accepted' = accepted /\ aborted' = aborted /\ cleared' = cleared
        /\ completed \subseteq completed'
        /\ \A m \in Messages : turns'[m] = IF m \in ran THEN turns[m] + 1 ELSE turns[m]
    BY DEF Ran
  <1>3. /\ DrainOK(drains[d]) /\ Distinct(drains[d].rest) /\ ToSet(drains[d].batch) \cap ToSet(drains[d].rest) = {}
        /\ Held(drains[d]) \cap ToSet(queue.items) = {}
        /\ \A o \in Drains : o # d /\ ~drains[o].owns => Held(drains[d]) \cap Held(drains[o]) = {}
        /\ \A m \in Held(drains[d]) : Fresh(m) /\ m \in cleared \cap completed
    BY <1>1 DEF Consistent, Ownership, MessagesTracked, OrphanOK
  <1>4. /\ Plain(drains'[d]) /\ Distinct(drains'[d].batch) /\ Distinct(drains'[d].rest)
        /\ ToSet(drains'[d].batch) \cap ToSet(drains'[d].rest) = {}
        /\ Held(drains'[d]) \subseteq ToSet(drains[d].rest) /\ ~drains'[d].owns
    <2> DEFINE o == Orphan(drains[d], ok)
    <2>1. /\ Plain(o) /\ Distinct(o.batch) /\ Distinct(o.rest) /\ ToSet(o.batch) \cap ToSet(o.rest) = {}
          /\ Held(o) \subseteq ToSet(drains[d].rest)
      BY <1>3, OrphanHeld
    <2>2. ~o.owns
      BY <1>3, OrphanContinues
    <2> QED
      BY <2>1, <2>2
  <1>5. Held(drains'[d]) \subseteq Held(drains[d]) /\ ran \subseteq Held(drains[d]) /\ Held(drains'[d]) \cap ran = {}
    BY <1>3, <1>4 DEF Held
  <1>6. \A e \in Drains : drains'[e].owns <=> drains[e].owns
    BY <1>4
  <1>7. ASSUME NEW e \in Drains PROVE Held(drains[e]) \in SUBSET Messages
    <2>1. drains[e].batch \in Seq(Messages) /\ drains[e].rest \in Seq(Messages)
      BY DEF Consistent, DrainStates
    <2> QED
      BY <2>1, ToSetTyped DEF Held
  <1>8. ASSUME NEW e \in Drains, ~drains[e].owns PROVE OrphanOK(e)'
    <2>1. CASE e = d
      BY <1>3, <1>4, <1>5, <1>6, <2>1 DEF OrphanOK
    <2>2. CASE e # d
      <3>1. OrphanOK(e) /\ drains'[e] = drains[e]
        BY <1>1, <1>8, <2>2 DEF MessagesTracked
      <3>2. ASSUME NEW o \in Drains, o # e, ~drains'[o].owns PROVE Held(drains'[e]) \cap Held(drains'[o]) = {}
        <4>1. CASE o = d
          BY <1>3, <1>5, <1>8, <2>2, <3>1, <4>1
        <4>2. CASE o # d
          BY <3>1, <3>2, <4>2 DEF OrphanOK
        <4> QED
          BY <4>1, <4>2
      <3> QED
        BY <3>1, <3>2 DEF OrphanOK
    <2> QED
      BY <2>1, <2>2
  <1>9. ASSUME NEW e \in Drains, ~drains[e].owns, NEW m \in Held(drains'[e])
        PROVE  Fresh(m)' /\ m \in cleared' \cap completed'
    <2>1. m \in Held(drains[e]) /\ m \notin ran /\ m \in Messages
      BY <1>3, <1>5, <1>7, <1>9
    <2>2. Fresh(m) /\ m \in cleared \cap completed
      BY <1>1, <1>9, <2>1 DEF MessagesTracked
    <2> QED
      BY <1>2, <2>1, <2>2 DEF Fresh
  <1>10. ASSUME NEW m \in ToSet(queue'.items) PROVE Fresh(m)'
    <2>1. m \in Messages /\ Fresh(m)
      BY <1>1, <1>10, QueueFields, ToSetTyped DEF Consistent, MessagesTracked
    <2>2. m \notin ran
      BY <1>3, <1>5, <1>10
    <2> QED
      BY <1>2, <2>1, <2>2 DEF Fresh
  <1>11. ASSUME NEW e \in Drains, drains'[e].owns PROVE Aligned(drains[e], queue.items)'
    <2>1. e # d /\ drains'[e] = drains[e] /\ drains[e].owns
      BY <1>6, <1>11
    <2>2. Aligned(drains'[e], queue'.items)
      BY <1>1, <2>1 DEF MessagesTracked
    <2> QED
      BY <1>2, <2>2, AlignedNext
  <1>12. MessagesTracked'
    <2>1. NoSummary(queue)' /\ Distinct(queue.items)'
      BY <1>1 DEF MessagesTracked
    <2> QED
      BY <1>6, <1>8, <1>9, <1>10, <1>11, <2>1 DEF MessagesTracked
  <1>13. ASSUME NEW m \in Messages PROVE Accounted(m)'
    <2>1. Accounted(m)
      BY <1>1
    <2>2. CASE m \in ran
      <3>1. m \in recent /\ turns[m] = 0 /\ m \in cleared \cap completed
        BY <1>3, <1>5, <2>2 DEF Fresh
      <3>2. turns'[m] = 1
        BY <1>2, <2>2, <3>1
      <3> QED
        BY <1>2, <2>1, <3>1, <3>2 DEF Accounted
    <2>3. CASE m \notin ran
      <3>1. turns'[m] = turns[m]
        BY <1>2, <2>3
      <3> QED
        BY <1>2, <2>1, <3>1 DEF Accounted
    <2> QED
      BY <2>2, <2>3
  <1> QED
    BY <1>12, <1>13 DEF QueueInv

\* The steps of a drain track the messages.
LEMMA StepTracks ==
  ASSUME QueueInv, DrainInv, DrainInv', NEW d \in Drains,
         AbortedHandled(d) \/ DebounceEnds(d) \/ RunRefused(d) \/ RunUnprepared(d) \/ RunEscapes(d) \/ RunReturns(d)
  PROVE  QueueInv'
  <1> DEFINE dr == drains[d]
             items == queue.items
  <1>0. Consistent /\ Consistent' /\ Recorded
    BY DrainInvParts, DrainInvPartsNext
  <1>1. /\ DrainOK(dr) /\ dr \in DrainStates /\ queue \in QueueStates /\ items \in Seq(Messages) /\ Len(items) \in Nat
        /\ turns \in [Messages -> Nat]
    BY <1>0, QueueFields DEF Consistent, Ownership, Recorded
  <1>2. dr.owns => Draining(queue)
    BY <1>0, OwnerDrains DEF Consistent
  <1>3. NoSummary(queue) /\ Distinct(items) /\ (dr.owns => Aligned(dr, items)) /\ (~dr.owns => OrphanOK(d)) /\ Plain(dr)
    <2>1. NoSummary(queue) /\ Distinct(items) /\ (dr.owns => Aligned(dr, items)) /\ (~dr.owns => OrphanOK(d))
      BY DEF QueueInv, MessagesTracked
    <2> QED
      BY <2>1 DEF Aligned, OrphanOK
  <1>4. dr.force \in BOOLEAN /\ dr.scan \in {1, 2} /\ dr.index \in Nat /\ dr.summary = FALSE
    BY <1>1, <1>3 DEF DrainStates, Plain
  <1>5. ASSUME NEW n, dr.owns => Continues(n), NEW ok \in BOOLEAN, Resume(d, n, ok),
               NEW ran \in SUBSET ToSet(dr.batch), Ran(ran), NEW left,
               dr.owns => /\ Follows(n, left) /\ ran \subseteq ToSet(items)
                          /\ ToSet(left) \subseteq ToSet(items) \ ran /\ Distinct(left)
                          /\ \A m \in ToSet(items) : m \in ToSet(left) \/ (m \in ran \cup aborted /\ m \in completed')
        PROVE  QueueInv'
    <2>1. /\ \A e \in Drains : e # d => drains'[e] = drains[e]
          /\ dr.owns => /\ queue' = n.queue /\ drains'[d] = n.drain
                        /\ drains'[d].pc # "none" => drains'[d].owns
          /\ ~dr.owns => queue' = queue /\ drains'[d] = Orphan(dr, ok)
      BY <1>0, <1>5, ResumeOK
    <2>2. CASE dr.owns
      <3>1. /\ NoSummary(queue') /\ queue'.items = left /\ Aligned(drains'[d], queue'.items)
            /\ drains'[d].pc # "none" => drains'[d].owns
        BY <1>5, <2>1, <2>2 DEF Follows
      <3>2. ran \in SUBSET ToSet(items)
        BY <1>5, <2>2
      <3>3. /\ Distinct(queue'.items) /\ ToSet(queue'.items) \subseteq ToSet(items) \ ran
            /\ \A m \in ToSet(items) : m \in ToSet(queue'.items) \/ (m \in ran \cup aborted /\ m \in completed')
        BY <1>5, <2>2, <3>1
      <3> QED
        BY <1>0, <1>1, <1>5, <2>1, <2>2, <3>1, <3>2, <3>3, OwnerStep
    <2>3. CASE ~dr.owns
      BY <1>0, <1>1, <1>5, <2>1, <2>3, OrphanStep
    <2> QED
      BY <2>2, <2>3
  <1>6. ASSUME NEW n, dr.owns => Continues(n) /\ Follows(n, items), Resume(d, n, FALSE), Ran({}) PROVE QueueInv'
    <2>1. {} \in SUBSET ToSet(dr.batch) /\ {} \subseteq ToSet(items) /\ ToSet(items) \subseteq ToSet(items) \ {}
      OBVIOUS
    <2> QED
      BY <1>3, <1>5, <1>6, <2>1
  <1>7. CASE RunRefused(d) \/ RunUnprepared(d) \/ RunEscapes(d)
    <2>1. RunThrows(d)
      BY <1>7 DEF RunRefused, RunUnprepared, RunEscapes
    <2>2. Resume(d, Finally(queue), FALSE)
      BY <1>4, <2>1 DEF RunThrows
    <2>3. Ran({})
      BY <2>1 DEF RunThrows, RunCleansUp, Ran
    <2>4. dr.owns => Continues(Finally(queue)) /\ Follows(Finally(queue), items)
      BY <1>2, <1>3, FinallyOK
    <2> QED
      BY <1>6, <2>2, <2>3, <2>4
  <1>8. CASE DebounceEnds(d)
    <2> DEFINE n == Scan(queue, 2, Len(items), dr.force, FALSE)
    <2>1. Resume(d, n, FALSE) /\ Ran({})
      BY <1>8 DEF DebounceEnds, Ran, history
    <2>2. dr.owns => Continues(n) /\ Follows(n, items)
      BY <1>1, <1>2, <1>3, <1>4, ScanOK
    <2> HIDE DEF n
    <2> QED
      BY <1>6, <2>1, <2>2
  <1>9. CASE AbortedHandled(d)
    <2> DEFINE left == IF dr.index <= Len(items) THEN RemoveAt(items, dr.index) ELSE items
               q == [queue EXCEPT !.items = left]
               n == Scan(q, dr.scan, dr.index - 1, dr.force, TRUE)
    <2>1. dr.pc = "aborting" /\ Resume(d, n, FALSE) /\ ToSet(dr.batch) \subseteq completed'
      BY <1>9 DEF AbortedHandled
    <2>2. Ran({})
      BY <1>9 DEF AbortedHandled, Ran
    <2>3. CASE dr.owns
      <3>1. dr.index \in DOMAIN items /\ dr.batch = <<items[dr.index]>> /\ items[dr.index] \in aborted
        BY <1>3, <2>1, <2>3 DEF Aligned
      <3>2. dr.index \in 1..Len(items) /\ dr.index - 1 \in Nat /\ dr.index <= Len(items)
        BY <1>1, <1>4, <3>1
      <3>3. left = RemoveAt(items, dr.index)
        BY <3>2
      <3>4. /\ left \in Seq(Messages) /\ ToSet(items) = ToSet(left) \cup {items[dr.index]} /\ Distinct(left)
        BY <1>1, <1>3, <3>2, <3>3, RemoveAtElements, RemovedSet
      <3> HIDE DEF left
      <3>5. Draining(q) /\ NoSummary(q) /\ q.items = left
        <4>1. q \in QueueStates
          BY <1>1, <3>4, QueueUpdates
        <4> QED
          BY <1>1, <1>2, <1>3, <2>3, <4>1 DEF Draining, NoSummary, QueueStates
      <3> HIDE DEF q
      <3>6. Continues(n) /\ Follows(n, left)
        BY <1>4, <3>2, <3>5, ScanOK
      <3> HIDE DEF n
      <3>7. items[dr.index] \in completed'
        <4>1. items[dr.index] \in ToSet(dr.batch)
          <5>1. DOMAIN dr.batch = {1} /\ dr.batch[1] = items[dr.index]
            BY <3>1
          <5> QED
            BY <5>1 DEF ToSet
        <4> QED
          BY <2>1, <4>1
      <3>8. /\ {} \in SUBSET ToSet(dr.batch) /\ {} \subseteq ToSet(items) /\ ToSet(left) \subseteq ToSet(items) \ {}
            /\ \A m \in ToSet(items) : m \in ToSet(left) \/ (m \in {} \cup aborted /\ m \in completed')
        BY <3>1, <3>4, <3>7
      <3> QED
        BY <1>5, <2>1, <2>2, <2>3, <3>4, <3>6, <3>8
    <2>4. CASE ~dr.owns
      <3> HIDE DEF n
      <3> QED
        BY <1>6, <2>1, <2>2, <2>4
    <2> QED
      BY <2>3, <2>4
  <1>10. CASE RunReturns(d)
    <2> DEFINE n == AfterRun(queue, dr)
               left == Shift(items, Len(dr.batch))
               ran == ToSet(dr.batch)
    <2>1. /\ dr.pc \in {"running", "failing"} /\ Resume(d, n, TRUE) /\ ToSet(dr.batch) \subseteq completed'
          /\ turns' = [m \in Messages |-> turns[m] + IF m \in Prompts(dr) THEN 1 ELSE 0]
      BY <1>10 DEF RunReturns, RunCleansUp
    <2>2. Prompts(dr) = ran
      BY <1>3 DEF Prompts, Plain
    <2>3. Ran(ran)
      <3>1. ASSUME NEW m \in Messages PROVE turns'[m] = IF m \in ran THEN turns[m] + 1 ELSE turns[m]
        <4>1. turns'[m] = turns[m] + IF m \in ran THEN 1 ELSE 0
          BY <2>1, <2>2
        <4>2. turns[m] \in Nat
          BY <1>1
        <4> HIDE DEF ran
        <4> QED
          BY <4>1, <4>2
      <3> QED
        BY <1>10, <3>1 DEF RunReturns, RunCleansUp, Ran
    <2>4. dr.owns => Continues(n)
      BY <1>1, <1>2, AfterRunOK
    <2>5. ASSUME dr.owns
          PROVE  /\ Follows(n, left) /\ ran \subseteq ToSet(items)
                 /\ ToSet(left) \subseteq ToSet(items) \ ran /\ Distinct(left)
                 /\ \A m \in ToSet(items) : m \in ToSet(left) \/ (m \in ran \cup aborted /\ m \in completed')
      <3>1. Len(dr.batch) \in 1..Len(items) /\ Follows(n, left)
        BY <1>1, <1>2, <1>3, <2>1, <2>5, AfterRunOK
      <3>2. Len(dr.batch) \in 0..Len(items)
        BY <3>1
      <3>3. /\ ToSet(items) = ToSet(left) \cup {items[i] : i \in 1..Len(dr.batch)} /\ Distinct(left)
            /\ ToSet(left) \cap {items[i] : i \in 1..Len(dr.batch)} = {}
        BY <1>1, <1>3, <3>2, ShiftedSet
      <3>4. ran = {items[i] : i \in 1..Len(dr.batch)}
        <4>1. dr.batch \in Seq(Messages)
          BY <1>1 DEF DrainStates
        <4>2. DOMAIN dr.batch = 1..Len(dr.batch)
          BY <4>1
        <4>3. \A i \in DOMAIN dr.batch : dr.batch[i] = items[i]
          BY <1>3, <2>1, <2>5 DEF Aligned
        <4> QED
          BY <4>2, <4>3 DEF ToSet
      <3> HIDE DEF ran, left
      <3>5. ran \subseteq completed'
        BY <2>1 DEF ran
      <3> QED
        BY <3>1, <3>3, <3>4, <3>5
    <2> HIDE DEF n, left
    <2> QED
      BY <1>5, <2>1, <2>3, <2>4, <2>5
  <1> QED
    BY <1>7, <1>8, <1>9, <1>10

\* A step of a caller, after which the queue is r.
LEMMA TakenTracks ==
  ASSUME QueueInv, Consistent, NEW r, Taken(r), NoSummary(r), Distinct(r.items),
         \A e \in Drains : drains[e].owns => Aligned(drains[e], r.items),
         \A e \in Drains : ~drains[e].owns => Held(drains[e]) \cap ToSet(r.items) = {},
         \A m \in ToSet(r.items) : Fresh(m)',
         aborted' = aborted, cleared' = cleared, turns' = turns,
         recent \subseteq recent', completed \subseteq completed'
  PROVE  MessagesTracked' /\ queue'.items = r.items
  <1>1. /\ NoSummary(queue') /\ queue'.items = r.items /\ Consistent'
        /\ \A e \in Drains : drains'[e] = drains[e] \/ Aligned(drains'[e], r.items)
        /\ \A e \in Drains : drains'[e] = drains[e] \/ (drains[e] = Idle /\ (drains'[e].pc # "none" => drains'[e].owns))
    BY DEF Taken
  <1>2. MessagesTracked
    BY DEF QueueInv
  <1>3. ASSUME NEW e \in Drains, ~drains'[e].owns PROVE drains'[e] = drains[e]
    BY <1>1, <1>3 DEF Consistent, Ownership
  <1>4. ASSUME NEW e \in Drains, drains'[e].owns PROVE Aligned(drains[e], queue.items)'
    <2>1. Aligned(drains'[e], queue'.items)
      BY <1>1, <1>4
    <2> QED
      BY <2>1, AlignedNext
  <1>5. ASSUME NEW e \in Drains, ~drains'[e].owns
        PROVE  OrphanOK(e)' /\ \A m \in Held(drains'[e]) : Fresh(m)' /\ m \in cleared' \cap completed'
    <2>1. drains'[e] = drains[e] /\ ~drains[e].owns /\ OrphanOK(e)
      BY <1>2, <1>3, <1>5 DEF MessagesTracked
    <2>2. \A o \in Drains : ~drains'[o].owns => drains'[o] = drains[o] /\ ~drains[o].owns
      BY <1>3
    <2>3. OrphanOK(e)'
      BY <1>1, <2>1, <2>2 DEF OrphanOK
    <2>4. \A m \in Held(drains[e]) : Fresh(m) /\ m \in cleared \cap completed
      BY <1>2, <2>1 DEF MessagesTracked
    <2> QED
      BY <2>1, <2>3, <2>4 DEF Fresh
  <1> QED
    BY <1>1, <1>4, <1>5 DEF MessagesTracked

\* A message pushed on a queue with room.
LEMMA PushedBehind ==
  ASSUME NEW q \in QueueStates, NEW m \in Messages, NoSummary(q), Len(q.items) < q.cap
  PROVE  Pushed(q, m).items = Append(q.items, m) /\ NoSummary(Pushed(q, m))
  <1>0. q.items \in Seq(Messages) /\ q.cap \in Nat \ {0} /\ Len(q.items) \in Nat
    BY QueueFields
  <1>1. Evicted(q) = <<>>
    BY <1>0 DEF Evicted
  <1>2. Shift(q.items, Len(<<>>)) = q.items
    BY <1>0 DEF Shift
  <1>3. Pushed(q, m) = [q EXCEPT !.items = Append(q.items, m)]
    <2>1. q.dropPolicy # "summarize"
      BY DEF NoSummary
    <2> QED
      BY <1>1, <1>2, <2>1 DEF Pushed
  <1> QED
    BY <1>0, <1>3 DEF NoSummary, QueueStates

\* A message pushed is there, behind the others.
LEMMA AppendedSet ==
  ASSUME NEW items \in Seq(Messages), NEW m \in Messages
  PROVE  /\ ToSet(Append(items, m)) = ToSet(items) \cup {m}
         /\ Distinct(items) /\ m \notin ToSet(items) => Distinct(Append(items, m))
  <1> DEFINE t == Append(items, m)
  <1>1. /\ DOMAIN t = 1..(Len(items) + 1) /\ Len(items) \in Nat /\ DOMAIN items = 1..Len(items)
        /\ \A i \in 1..Len(items) : t[i] = items[i]
        /\ t[Len(items) + 1] = m
    OBVIOUS
  <1> HIDE DEF t
  <1>2. DOMAIN t = DOMAIN items \cup {Len(items) + 1} /\ Len(items) + 1 \notin DOMAIN items
    BY <1>1
  <1>3. \A i \in DOMAIN items : t[i] = items[i]
    BY <1>1
  <1>4. ToSet(t) = ToSet(items) \cup {m}
    BY <1>1, <1>2, <1>3 DEF ToSet
  <1>5. Distinct(items) /\ m \notin ToSet(items) => Distinct(t)
    BY <1>1, <1>2, <1>3 DEF ToSet, Distinct
  <1> QED
    BY <1>4, <1>5 DEF t

\* The end of a run outside the queue.
LEMMA ScheduleTracks ==
  ASSUME QueueInv, DrainInv, Taken(queue), UNCHANGED <<recent, aborted, accepted, turns, cleared, completed>>
  PROVE  QueueInv'
  <1>0. Consistent
    BY DrainInvParts
  <1>1. MessagesTracked /\ \A m \in Messages : Accounted(m)
    BY DEF QueueInv
  <1>2. /\ NoSummary(queue) /\ Distinct(queue.items)
        /\ \A e \in Drains : drains[e].owns => Aligned(drains[e], queue.items)
        /\ \A e \in Drains : ~drains[e].owns => Held(drains[e]) \cap ToSet(queue.items) = {}
        /\ \A m \in ToSet(queue.items) : Fresh(m)'
    BY <1>1 DEF MessagesTracked, OrphanOK, Fresh
  <1>3. MessagesTracked' /\ queue'.items = queue.items
    BY <1>0, <1>2, TakenTracks
  <1>4. \A m \in Messages : Accounted(m)'
    BY <1>1, <1>3 DEF Accounted
  <1> QED
    BY <1>3, <1>4 DEF QueueInv

\* enqueueFollowupRun and the caller's recheck.
LEMMA EnqueueTracks ==
  ASSUME QueueInv, DrainInv, RefusesNew, NEW m \in Messages, NEW s \in Settings, EnqueueFollowupRun(m, s)
  PROVE  QueueInv'
  <1> DEFINE q == Configured(s)
             q1 == Pushed(q, m)
  <1>0. Consistent /\ Recorded
    BY DrainInvParts
  <1>1. MessagesTracked /\ \A x \in Messages : Accounted(x)
    BY DEF QueueInv
  <1>2. /\ aborted' = aborted /\ turns' = turns /\ cleared' = cleared
    BY DEF EnqueueFollowupRun
  <1>3. \/ Recheck(queue) /\ UNCHANGED <<recent, accepted, dropped, completed>>
        \/ Recheck(q) /\ UNCHANGED <<recent, accepted, dropped, completed>>
        \/ /\ ~Duplicate(q, m) /\ ~(Len(q.items) >= q.cap /\ q.dropPolicy = "new")
           /\ Recheck(q1) /\ recent' = recent \cup {m} /\ accepted' = accepted \cup {m}
           /\ completed \subseteq completed'
    BY DEF EnqueueFollowupRun, Configured
  <1>4. /\ SameFlag(q) /\ q.items = queue.items /\ q.droppedCount = queue.droppedCount
        /\ q.summaryLines = queue.summaryLines /\ q.summarySources = queue.summarySources
        /\ q.dropPolicy = s.dropPolicy /\ q.cap = s.cap
    BY <1>0, ConfiguredOK
  <1> HIDE DEF q
  <1>5. NoSummary(q) /\ NoSummary(queue) /\ Distinct(queue.items)
    BY <1>1, <1>4 DEF RefusesNew, MessagesTracked, NoSummary
  <1>6. /\ \A e \in Drains : drains[e].owns => Aligned(drains[e], queue.items)
        /\ \A e \in Drains : ~drains[e].owns => Held(drains[e]) \cap ToSet(queue.items) = {}
        /\ \A x \in ToSet(queue.items) : Fresh(x)
        /\ \A e \in Drains : ~drains[e].owns => \A x \in Held(drains[e]) : Fresh(x)
    BY <1>1 DEF MessagesTracked, OrphanOK
  <1>7. queue \in QueueStates /\ q \in QueueStates /\ queue.items \in Seq(Messages) /\ SameFlag(queue)
    BY <1>0, <1>4, QueueFields, SameQueue DEF Consistent, SameFlag
  <1>8. ASSUME NEW r \in {queue, q}, Recheck(r), UNCHANGED <<recent, accepted, dropped, completed>> PROVE QueueInv'
    <2>1. SameFlag(r) /\ NoSummary(r) /\ r.items = queue.items
      BY <1>4, <1>5, <1>7, <1>8
    <2>2. Taken(r)
      BY <1>0, <1>8, <2>1, RecheckOK
    <2>3. \A x \in ToSet(r.items) : Fresh(x)'
      BY <1>2, <1>6, <1>8, <2>1 DEF Fresh
    <2>4. MessagesTracked' /\ queue'.items = queue.items
      BY <1>0, <1>2, <1>5, <1>6, <1>8, <2>1, <2>2, <2>3, TakenTracks
    <2>5. \A x \in Messages : Accounted(x)'
      BY <1>1, <1>2, <1>8, <2>4 DEF Accounted
    <2> QED
      BY <2>4, <2>5 DEF QueueInv
  <1>9. ASSUME ~Duplicate(q, m), ~(Len(q.items) >= q.cap /\ q.dropPolicy = "new"),
               Recheck(q1), recent' = recent \cup {m}, accepted' = accepted \cup {m}, completed \subseteq completed'
        PROVE  QueueInv'
    <2>1. m \notin recent /\ m \notin ToSet(queue.items)
      BY <1>4, <1>9 DEF Duplicate
    <2>2. Len(q.items) < q.cap
      <3>1. Len(q.items) \in Nat /\ q.cap \in Nat
        BY <1>7, QueueFields
      <3> QED
        BY <1>5, <1>9, <3>1 DEF NoSummary
    <2>3. q1.items = Append(queue.items, m) /\ NoSummary(q1)
      BY <1>4, <1>5, <1>7, <2>2, PushedBehind
    <2>4. SameFlag(q1)
      <3>1. q1 \in QueueStates /\ q1.present = q.present /\ q1.draining = q.draining
        BY <1>7, PushedOK
      <3>2. q.present
        BY <1>0, ConfiguredOK DEF q
      <3> QED
        BY <1>4, <3>1, <3>2 DEF SameFlag
    <2> HIDE DEF q1
    <2>5. Taken(q1)
      BY <1>0, <1>9, <2>4, RecheckOK
    <2>6. ToSet(q1.items) = ToSet(queue.items) \cup {m} /\ Distinct(q1.items)
      BY <1>5, <1>7, <2>1, <2>3, AppendedSet
    <2>7. ASSUME NEW e \in Drains, drains[e].owns PROVE Aligned(drains[e], q1.items)
      <3>1. drains[e] \in DrainStates
        BY <1>0 DEF Consistent
      <3> QED
        BY <1>6, <1>7, <2>3, <2>7, <3>1, AlignedPushed
    <2>8. \A e \in Drains : ~drains[e].owns => Held(drains[e]) \cap ToSet(q1.items) = {}
      BY <1>6, <2>1, <2>6 DEF Fresh
    <2>9. turns[m] = 0
      <3>1. turns[m] \in Nat /\ ~(turns[m] > 0)
        BY <1>0, <1>1, <2>1 DEF Recorded, Accounted
      <3> QED
        BY <3>1
    <2>10. \A x \in ToSet(q1.items) : Fresh(x)'
      BY <1>2, <1>6, <1>9, <2>6, <2>9 DEF Fresh
    <2>11. recent \subseteq recent'
      BY <1>9
    <2>12. MessagesTracked' /\ queue'.items = q1.items
      BY <1>0, <1>2, <1>9, <2>3, <2>5, <2>6, <2>7, <2>8, <2>10, <2>11, TakenTracks
    <2>13. ASSUME NEW x \in Messages PROVE Accounted(x)'
      <3>1. Accounted(x)
        BY <1>1
      <3> QED
        BY <1>2, <1>9, <2>6, <2>12, <3>1 DEF Accounted
    <2> QED
      BY <2>12, <2>13 DEF QueueInv
  <1> QED
    BY <1>3, <1>8, <1>9

\* clearSessionQueues: the queue's drain keeps the messages it holds, which nobody else has.
LEMMA ClearTracks ==
  ASSUME QueueInv, DrainInv, ClearSessionQueues
  PROVE  QueueInv'
  <1>0. Consistent /\ Recorded /\ queue \in QueueStates /\ queue.items \in Seq(Messages)
    BY DrainInvParts, QueueFields DEF Consistent
  <1>1. MessagesTracked /\ \A m \in Messages : Accounted(m)
    BY DEF QueueInv
  <1>2. /\ queue' = Absent /\ drains' = [d \in Drains |-> [drains[d] EXCEPT !.owns = FALSE]]
        /\ recent' = recent /\ aborted' = aborted /\ accepted' = accepted /\ turns' = turns
        /\ cleared \cup ToSet(queue.items) \subseteq cleared' /\ completed \cup ToSet(queue.items) \subseteq completed'
    BY DEF ClearSessionQueues
  <1>3. ASSUME NEW d \in Drains
        PROVE  /\ ~drains'[d].owns /\ Held(drains'[d]) = Held(drains[d])
               /\ drains'[d].batch = drains[d].batch /\ drains'[d].rest = drains[d].rest
               /\ Plain(drains[d]) => Plain(drains'[d])
    <2>1. DrainOK(drains[d]) /\ (drains[d].pc = "none" => drains[d] = Idle)
      BY <1>0 DEF Consistent, Ownership
    <2>2. drains'[d] = [drains[d] EXCEPT !.owns = FALSE]
      BY <1>2
    <2> QED
      BY <2>1, <2>2, Disowned DEF Held
  <1>4. ASSUME NEW d \in Drains
        PROVE  /\ Plain(drains[d]) /\ Distinct(drains[d].batch) /\ Distinct(drains[d].rest)
               /\ ToSet(drains[d].batch) \cap ToSet(drains[d].rest) = {}
               /\ drains[d].owns => Held(drains[d]) \subseteq ToSet(queue.items)
               /\ ~drains[d].owns => Held(drains[d]) \cap ToSet(queue.items) = {}
    <2>1. CASE drains[d].owns
      <3>1. Aligned(drains[d], queue.items) /\ Distinct(queue.items) /\ drains[d] \in DrainStates
        BY <1>0, <1>1, <2>1 DEF MessagesTracked, Consistent
      <3> QED
        BY <1>0, <2>1, <3>1, AlignedHeld
    <2>2. CASE ~drains[d].owns
      BY <1>1, <2>2 DEF MessagesTracked, OrphanOK
    <2> QED
      BY <2>1, <2>2
  <1>5. ASSUME NEW d \in Drains, NEW e \in Drains, d # e PROVE Held(drains[d]) \cap Held(drains[e]) = {}
    <2>1. CASE drains[d].owns
      <3>1. ~drains[e].owns
        BY <1>0, <1>5, <2>1, OwnerDrains DEF Consistent
      <3> QED
        BY <1>4, <2>1, <3>1
    <2>2. CASE ~drains[d].owns /\ drains[e].owns
      BY <1>4, <2>2
    <2>3. CASE ~drains[d].owns /\ ~drains[e].owns
      BY <1>1, <1>5, <2>3 DEF MessagesTracked, OrphanOK
    <2> QED
      BY <2>1, <2>2, <2>3
  <1>6. queue'.items = <<>> /\ NoSummary(queue') /\ ToSet(queue'.items) = {} /\ Distinct(queue'.items)
    BY <1>2, AbsentIsQueue, EmptyNotCross DEF Distinct
  <1>7. ASSUME NEW d \in Drains PROVE OrphanOK(d)'
    <2>1. \A e \in Drains : e # d => Held(drains'[d]) \cap Held(drains'[e]) = {}
      BY <1>3, <1>5
    <2> QED
      BY <1>3, <1>4, <1>6, <2>1 DEF OrphanOK
  <1>8. ASSUME NEW d \in Drains, NEW m \in Held(drains'[d]) PROVE Fresh(m)' /\ m \in cleared' \cap completed'
    <2>1. m \in Held(drains[d])
      BY <1>3, <1>8
    <2>2. CASE drains[d].owns
      <3>1. m \in ToSet(queue.items)
        BY <1>4, <2>1, <2>2
      <3> QED
        BY <1>1, <1>2, <3>1 DEF MessagesTracked, Fresh
    <2>3. CASE ~drains[d].owns
      BY <1>1, <1>2, <2>1, <2>3 DEF MessagesTracked, Fresh
    <2> QED
      BY <2>2, <2>3
  <1>9. MessagesTracked'
    BY <1>3, <1>6, <1>7, <1>8 DEF MessagesTracked
  <1>10. ASSUME NEW m \in Messages PROVE Accounted(m)'
    <2>1. Accounted(m)
      BY <1>1
    <2> QED
      BY <1>2, <1>6, <2>1 DEF Accounted
  <1> QED
    BY <1>9, <1>10 DEF QueueInv

\* A run opens the reply operation, or its agent fails.
LEMMA RunTracks ==
  ASSUME QueueInv, DrainInv, NEW d \in Drains, RunBegins(d) \/ AgentFails(d)
  PROVE  QueueInv'
  <1>0. Consistent
    BY DrainInvParts
  <1>1. MessagesTracked /\ \A m \in Messages : Accounted(m)
    BY DEF QueueInv
  <1>2. /\ queue' = queue /\ recent' = recent /\ aborted' = aborted /\ accepted' = accepted /\ turns' = turns
        /\ cleared' = cleared /\ completed' = completed
    BY DEF RunBegins, AgentFails, history
  <1>3. PICK pc \in {"running", "failing"} : drains' = [drains EXCEPT ![d].pc = pc]
    BY DEF RunBegins, AgentFails
  <1>4. drains[d].pc \in {"starting", "running"} /\ drains[d] \in DrainStates
    BY <1>0 DEF RunBegins, AgentFails, Consistent
  <1>5. /\ \A e \in Drains : e # d => drains'[e] = drains[e]
        /\ drains'[d] = [drains[d] EXCEPT !.pc = pc]
    BY <1>0, <1>3 DEF Consistent
  <1>6. /\ drains'[d].pc = pc /\ drains'[d].owns = drains[d].owns /\ drains'[d].batch = drains[d].batch
        /\ drains'[d].rest = drains[d].rest /\ drains'[d].kind = drains[d].kind
        /\ drains'[d].summary = drains[d].summary /\ drains'[d].lines = drains[d].lines
    BY <1>4, <1>5 DEF DrainStates
  <1>7. ASSUME NEW e \in Drains
        PROVE  /\ drains'[e].owns <=> drains[e].owns
               /\ drains'[e].batch = drains[e].batch /\ drains'[e].rest = drains[e].rest
               /\ Held(drains'[e]) = Held(drains[e])
               /\ Plain(drains[e]) => Plain(drains'[e])
    <2>1. CASE e = d
      BY <1>6, <2>1 DEF Held, Plain
    <2>2. CASE e # d
      BY <1>5, <2>2
    <2> QED
      BY <2>1, <2>2
  <1>8. ASSUME NEW e \in Drains, drains[e].owns PROVE Aligned(drains[e], queue.items)'
    <2>1. Aligned(drains[e], queue.items)
      BY <1>1, <1>8 DEF MessagesTracked
    <2>2. Aligned(drains'[e], queue'.items)
      <3>1. CASE e = d
        <4> DEFINE b == drains[d].batch
                   r == drains[d].rest
        <4>1. /\ Plain(drains[d]) /\ Len(b) >= 1 /\ Len(b) + Len(r) <= Len(queue.items)
              /\ \A i \in DOMAIN b : b[i] = queue.items[i]
              /\ \A i \in DOMAIN r : r[i] = queue.items[Len(b) + i]
          BY <1>4, <2>1, <3>1 DEF Aligned
        <4>2. Plain(drains'[d]) /\ drains'[d].batch = b /\ drains'[d].rest = r
              /\ drains'[d].pc \in {"running", "failing"}
          BY <1>6, <4>1 DEF Plain
        <4> HIDE DEF b, r
        <4> QED
          BY <1>2, <3>1, <4>1, <4>2 DEF Aligned
      <3>2. CASE e # d
        BY <1>2, <1>5, <2>1, <3>2
      <3> QED
        BY <3>1, <3>2
    <2> QED
      BY <1>2, <2>2, AlignedNext
  <1>9. ASSUME NEW e \in Drains, ~drains[e].owns PROVE OrphanOK(e)'
    <2>1. OrphanOK(e)
      BY <1>1, <1>9 DEF MessagesTracked
    <2> QED
      BY <1>2, <1>7, <2>1 DEF OrphanOK
  <1>10. MessagesTracked'
    <2>1. /\ NoSummary(queue)' /\ Distinct(queue.items)'
          /\ \A m \in ToSet(queue'.items) : Fresh(m)'
          /\ \A e \in Drains : ~drains'[e].owns =>
                \A m \in Held(drains'[e]) : Fresh(m)' /\ m \in cleared' \cap completed'
      BY <1>1, <1>2, <1>7 DEF MessagesTracked, Fresh
    <2> QED
      BY <1>7, <1>8, <1>9, <2>1 DEF MessagesTracked
  <1>11. \A m \in Messages : Accounted(m)'
    BY <1>1, <1>2 DEF Accounted
  <1> QED
    BY <1>10, <1>11 DEF QueueInv

\* A message arrives or is withdrawn, or a run outside the queue starts or fails.
LEMMA OutsideTracks ==
  ASSUME QueueInv, UNCHANGED <<queue, drains, recent, accepted, turns, cleared, completed>>, aborted \subseteq aborted'
  PROVE  QueueInv'
  <1>1. MessagesTracked /\ \A m \in Messages : Accounted(m)
    BY DEF QueueInv
  <1>2. ASSUME NEW e \in Drains, drains[e].owns PROVE Aligned(drains[e], queue.items)'
    <2>1. Aligned(drains'[e], queue'.items)
      BY <1>1, <1>2 DEF MessagesTracked
    <2> QED
      BY <2>1, AlignedNext
  <1>3. ASSUME NEW e \in Drains, ~drains[e].owns PROVE OrphanOK(e)'
    <2>1. OrphanOK(e)
      BY <1>1, <1>3 DEF MessagesTracked
    <2> QED
      BY <2>1 DEF OrphanOK
  <1>4. MessagesTracked'
    <2>1. /\ NoSummary(queue)' /\ Distinct(queue.items)'
          /\ \A m \in ToSet(queue'.items) : Fresh(m)'
          /\ \A e \in Drains : ~drains'[e].owns =>
                \A m \in Held(drains'[e]) : Fresh(m)' /\ m \in cleared' \cap completed'
      BY <1>1 DEF MessagesTracked, Fresh
    <2> QED
      BY <1>2, <1>3, <2>1 DEF MessagesTracked
  <1>5. \A m \in Messages : Accounted(m)'
    BY <1>1 DEF Accounted
  <1> QED
    BY <1>4, <1>5 DEF QueueInv

\* The initial state.
LEMMA QueueInvInit == Init => QueueInv
  <1> SUFFICES ASSUME Init PROVE QueueInv
    OBVIOUS
  <1>1. /\ queue = Absent /\ \A d \in Drains : drains[d] = Idle
        /\ recent = {} /\ accepted = {} /\ \A m \in Messages : turns[m] = 0
    BY DEF Init
  <1>2. queue.items = <<>> /\ NoSummary(queue) /\ ToSet(queue.items) = {} /\ Distinct(queue.items)
    BY <1>1, AbsentIsQueue, EmptyNotCross DEF Distinct
  <1>3. \A d \in Drains : ~drains[d].owns /\ OrphanOK(d) /\ Held(drains[d]) = {}
    BY <1>1, <1>2, IdleIsDrain, IdleOrphan DEF OrphanOK
  <1>4. MessagesTracked
    BY <1>2, <1>3 DEF MessagesTracked
  <1>5. \A m \in Messages : Accounted(m)
    BY <1>1 DEF Accounted
  <1> QED
    BY <1>4, <1>5 DEF QueueInv

\* Every step.
LEMMA QueueInvStep ==
  ASSUME RefusesNew
  PROVE  QueueInv /\ DrainInv /\ DrainInv' /\ [Next]_vars => QueueInv'
  <1> SUFFICES ASSUME QueueInv, DrainInv, DrainInv', [Next]_vars PROVE QueueInv'
    OBVIOUS
  <1>1. ASSUME NEW m \in Messages, Arrive(m) \/ AbortMessage(m) PROVE QueueInv'
    BY <1>1, OutsideTracks DEF Arrive, AbortMessage, history
  <1>2. ASSUME NEW m \in Messages, NEW s \in Settings, EnqueueFollowupRun(m, s) PROVE QueueInv'
    BY <1>2, EnqueueTracks
  <1>3. CASE MainStarts \/ MainFails
    BY <1>3, OutsideTracks DEF MainStarts, MainFails, history
  <1>4. CASE MainCompletes \/ MainFailureReturns
    <2>1. Schedule(queue) /\ UNCHANGED <<recent, aborted, accepted, turns, cleared, completed>>
      BY <1>4 DEF MainCompletes, MainFailureReturns, history
    <2>2. Consistent
      BY DrainInvParts
    <2>3. Taken(queue)
      BY <2>1, <2>2, SameQueue, ScheduleOK
    <2> QED
      BY <2>1, <2>3, ScheduleTracks
  <1>5. CASE ClearSessionQueues
    BY <1>5, ClearTracks
  <1>6. ASSUME NEW d \in Drains, DrainStep(d) PROVE QueueInv'
    <2>1. CASE RunBegins(d) \/ AgentFails(d)
      BY <2>1, RunTracks
    <2>2. CASE AbortedHandled(d) \/ DebounceEnds(d) \/ RunRefused(d) \/ RunUnprepared(d) \/ RunEscapes(d) \/ RunReturns(d)
      BY <2>2, StepTracks
    <2> QED
      BY <1>6, <2>1, <2>2 DEF DrainStep
  <1>7. CASE UNCHANGED vars
    BY <1>7, OutsideTracks DEF vars, history
  <1> QED
    BY <1>1, <1>2, <1>3, <1>4, <1>5, <1>6, <1>7 DEF Next

\* The invariant of the messages.
THEOREM QueueInvariant ==
  ASSUME RefusesNew
  PROVE  Spec => []QueueInv
  <1>1. QueueInv /\ DrainInv /\ DrainInv' /\ [Next]_vars => QueueInv'
    BY QueueInvStep
  <1> QED
    BY <1>1, QueueInvInit, DrainInvariant, PTL DEF Spec

\* The drain's positional shift and splice: an accepted message is queued, answered, withdrawn by
\* its channel or cleared by the user, also when drains of cleared queues are still running.
THEOREM AcceptedNeverLost ==
  ASSUME RefusesNew
  PROVE  Spec => []NothingLost
  <1>1. DrainInv /\ QueueInv => NothingLost
    <2>1. DrainInv => accepted \subseteq Messages
      BY DEF DrainInv, TypeOK
    <2> QED
      BY <2>1 DEF QueueInv, Accounted, NothingLost
  <1> QED
    BY <1>1, DrainInvariant, QueueInvariant, PTL

\* A redelivered, retried or cleared message has at most one turn that the runner ends by returning.
THEOREM MessageAnsweredOnce ==
  ASSUME RefusesNew
  PROVE  Spec => []AnsweredOnce
  <1>1. QueueInv => AnsweredOnce
    BY DEF QueueInv, Accounted, AnsweredOnce
  <1> QED
    BY <1>1, QueueInvariant, PTL

\* The queued lifecycle of a room event that left the queue was completed, whichever of the run, the
\* scan for aborted messages and clearSessionQueues took it out.
THEOREM LifecyclesCompleted ==
  ASSUME RefusesNew
  PROVE  Spec => []LifecyclesComplete
  <1>1. DrainInv /\ QueueInv => LifecyclesComplete
    <2>1. DrainInv => accepted \subseteq Messages
      BY DEF DrainInv, TypeOK
    <2> QED
      BY <2>1 DEF QueueInv, Accounted, LifecyclesComplete
  <1> QED
    BY <1>1, DrainInvariant, QueueInvariant, PTL
=============================================================================
