------------------------- MODULE DeliveryQueueProofs -------------------------
(***************************************************************************)
(* Proofs about DeliveryQueue, for any number of deliveries and drains and *)
(* any bounds.                                                             *)
(***************************************************************************)
EXTENDS DeliveryQueue, TLAPS

-----------------------------------------------------------------------------
(***************************************************************************)
(* The inductive invariant: shapes, and what is true of each delivery.     *)
(***************************************************************************)

\* Where a worker has an entry in its hands.
Holding == {"load", "reconcile", "deliver", "ack", "fail", "failing", "move", "prune"}

LiveStates == [pc : LivePCs, snap : Entry \cup {None}, marked : BOOLEAN]
WorkerStates == [pc : WorkerPCs, todo : SUBSET Deliveries, cur : Deliveries \cup {None},
                 snap : Entry \cup {None}]

\* Whoever is about to rewrite a file has read one.
LiveOK(l) == l \in LiveStates /\ (l.pc \in {"marking", "committing", "failing"} => l.snap # None)
WorkerOK(r) ==
    /\ r \in WorkerStates
    /\ r.cur # None <=> r.pc \in Holding
    /\ r.pc = "failing" => r.snap # None
DeferOK(r) == r.pc = "read" => r.snap # None

Shape ==
    /\ TypeOK
    /\ \A e \in Deliveries : LiveOK(live[e]) /\ DeferOK(deferring[e])
    /\ \A w \in Workers : WorkerOK(worker[w])

\* OneOwner, for one delivery.
OwnedOnce(e) ==
    /\ e \in claimed <=> LiveHolds(e) \/ \E w \in Workers : Cur(w) = e
    /\ \A w \in Workers : Cur(w) = e => ~LiveHolds(e)
    /\ \A w, v \in Workers : Cur(w) = e /\ Cur(v) = e => w = v

\* Nothing is known of a delivery before its file is written.
Untouched(e) ==
    /\ e \notin intended =>
          /\ disk[e] = None /\ e \notin failedDir /\ e \notin withdrawn /\ e \notin liveSent
          /\ live[e].pc \in {"new", "done"} /\ deferring[e].pc = "no"
          /\ \A w \in Workers : e \notin worker[w].todo /\ Cur(w) # e
    /\ live[e].pc = "new" => e \notin intended /\ accepted[e] = 0

\* An entry is only acknowledged when it has an outcome.
AckJustified(e) ==
    /\ e \in liveSent => accepted[e] > 0
    /\ live[e].pc \in {"returned", "committing", "ack"} => accepted[e] > 0 \/ e \in withdrawn
    /\ \A w \in Workers : Cur(w) = e /\ worker[w].pc = "ack" /\ "bestEffort" \notin kind[e] =>
          accepted[e] > 0 \/ e \in withdrawn

\* NothingLost, for a delivery whose payload errors throw.
Kept(e) ==
    e \in intended /\ "bestEffort" \notin kind[e] =>
        disk[e] # None \/ accepted[e] > 0 \/ e \in failedDir \/ e \in withdrawn

\* A required live send is on its way or on the platform, and no unclaimed write
\* has replaced its file by older content.
Traceable(e) ==
    "required" \in kind[e] /\ e \notin overwritten /\ (e \in liveSent \/ live[e].pc = "send")

\* Its mark is in the file and in every copy that will be written back, so that no
\* worker sends it again.
MarkKept(e) ==
    Traceable(e) =>
        /\ disk[e] # None => disk[e].recoveryState # "none"
        /\ live[e].pc \in {"committing", "failing"} => live[e].snap.recoveryState # "none"
        /\ \A w \in Workers : Cur(w) = e =>
              /\ worker[w].pc = "failing" => worker[w].snap.recoveryState # "none"
              /\ worker[w].pc # "deliver"

Good(e) == OwnedOnce(e) /\ Untouched(e) /\ AckJustified(e) /\ Kept(e) /\ MarkKept(e)

DeliveryInv == Shape /\ \A e \in Deliveries : Good(e)

-----------------------------------------------------------------------------
(***************************************************************************)
(* Operators.                                                              *)
(***************************************************************************)

\* Counting up to a limit.
LEMMA MinOfTwo ==
  ASSUME NEW a \in Int, NEW b \in Int
  PROVE  Min({a, b}) = IF a <= b THEN a ELSE b
  BY DEF Min

\* failDelivery and the marks make entries of entries.
LEMMA RetriedIsEntry ==
  ASSUME NEW entry \in Entry
  PROVE  /\ Retried(entry) \in Entry
         /\ Retried(entry).recoveryState = entry.recoveryState
  <1>1. entry.retryCount \in Nat /\ MaxRetries \in Nat
    BY DeliveryAssumption DEF Entry
  <1>2. Min({entry.retryCount + 1, MaxRetries}) =
            IF entry.retryCount + 1 <= MaxRetries THEN entry.retryCount + 1 ELSE MaxRetries
    BY <1>1, MinOfTwo
  <1> QED
    BY <1>1, <1>2 DEF Retried, Entry

\* A mark makes an entry of an entry, and is what recovery will read.
LEMMA MarkedIsEntry ==
  ASSUME NEW entry \in Entry, NEW state \in {"started", "unknown"}
  PROVE  /\ Marked(entry, state) \in Entry
         /\ Marked(entry, state).recoveryState = state
  BY DEF Marked, Entry

\* A new file holds an entry.
LEMMA FreshIsEntry == Fresh \in Entry
  BY DeliveryAssumption DEF Fresh, Entry

\* An acceptance is counted, for the delivery it is about.
LEMMA AcceptsCounts ==
  ASSUME NEW e \in Deliveries, accepted \in [Deliveries -> 0..2], Accepts(e)
  PROVE  /\ accepted' \in [Deliveries -> 0..2]
         /\ accepted'[e] > 0
         /\ \A x \in Deliveries : x # e => accepted'[x] = accepted[x]
         /\ \A x \in Deliveries : accepted'[x] >= accepted[x]
  <1>1. accepted[e] \in Nat
    OBVIOUS
  <1>2. Min({accepted[e] + 1, 2}) = IF accepted[e] + 1 <= 2 THEN accepted[e] + 1 ELSE 2
    BY <1>1, MinOfTwo
  <1> QED
    BY <1>1, <1>2 DEF Accepts

-----------------------------------------------------------------------------
(***************************************************************************)
(* The initial states.                                                     *)
(***************************************************************************)

\* At the start no delivery has a file, a claim or an outcome.
LEMMA InitGood == Init => DeliveryInv
  <1> SUFFICES ASSUME Init PROVE DeliveryInv
    OBVIOUS
  <1>1. TypeOK
    BY DeliveryAssumption DEF Init, TypeOK, Idle, Call, Loop, NotDeferring, LivePCs, WorkerPCs
  <1>2. Shape
    BY <1>1, DeliveryAssumption
    DEF Init, Shape, TypeOK, LiveOK, WorkerOK, DeferOK, Holding, Idle, Call, Loop, NotDeferring, LiveStates,
        WorkerStates
  <1>3. ASSUME NEW e \in Deliveries PROVE Good(e)
    BY DeliveryAssumption
    DEF Init, Good, OwnedOnce, Untouched, AckJustified, Kept, MarkKept, Traceable, LiveHolds, Cur, Idle, Call,
        Loop, NotDeferring
  <1> QED
    BY <1>2, <1>3 DEF DeliveryInv

-----------------------------------------------------------------------------
(***************************************************************************)
(* A step of the live call of delivery e touches nothing else.             *)
(***************************************************************************)

LiveStep(e, l) ==
    /\ LiveOK(l) /\ live' = [live EXCEPT ![e] = l]
    /\ disk' \in [Deliveries -> Entry \cup {None}] /\ accepted' \in [Deliveries -> 0..2]
    /\ claimed' \subseteq Deliveries /\ intended' \subseteq Deliveries
    /\ liveSent' \subseteq Deliveries /\ withdrawn' \subseteq Deliveries
    /\ faults' \in 0..MaxFaults
    /\ kind' = kind /\ failedDir' = failedDir /\ worker' = worker /\ deferring' = deferring
    /\ crashes' = crashes /\ overruns' = overruns /\ overwritten' = overwritten
    /\ \A x \in Deliveries \ {e} :
          /\ disk'[x] = disk[x] /\ accepted'[x] = accepted[x]
          /\ x \in claimed' <=> x \in claimed
          /\ x \in intended' <=> x \in intended
          /\ x \in liveSent' <=> x \in liveSent
          /\ x \in withdrawn' <=> x \in withdrawn

\* So the invariant is kept when the delivery it is about is left in order.
LEMMA LiveStepKeeps ==
  ASSUME DeliveryInv, NEW e \in Deliveries, NEW l, LiveStep(e, l), Good(e)'
  PROVE  DeliveryInv'
  <1>1. live' \in [Deliveries -> LiveStates] /\ live'[e] = l
        /\ \A x \in Deliveries \ {e} : live'[x] = live[x]
    BY DEF LiveStep, LiveOK, DeliveryInv, Shape, TypeOK, LiveStates
  <1>2. TypeOK'
    BY <1>1 DEF LiveStep, DeliveryInv, Shape, TypeOK, LiveStates
  <1>3. Shape'
    BY <1>1, <1>2 DEF LiveStep, DeliveryInv, Shape
  <1>4. ASSUME NEW x \in Deliveries, x # e PROVE Good(x)'
    BY <1>1, <1>4
    DEF LiveStep, DeliveryInv, Good, OwnedOnce, Untouched, AckJustified, Kept, MarkKept, Traceable,
        LiveHolds, Cur
  <1> QED
    BY <1>3, <1>4 DEF DeliveryInv

-----------------------------------------------------------------------------
(***************************************************************************)
(* The steps of the live call.  Each is a LiveStep, and leaves the delivery *)
(* it is about in order.                                                   *)
(***************************************************************************)

\* The parts of the invariant that speak of one delivery only.
LEMMA Facts ==
  ASSUME DeliveryInv, NEW e \in Deliveries
  PROVE  /\ Good(e) /\ kind[e] \in SUBSET Flags
         /\ disk[e] \in Entry \cup {None} /\ disk \in [Deliveries -> Entry \cup {None}]
         /\ live \in [Deliveries -> LiveStates]
         /\ live[e] \in LiveStates /\ live[e].snap \in Entry \cup {None} /\ live[e].marked \in BOOLEAN
         /\ live[e].pc \in {"marking", "committing", "failing"} => live[e].snap \in Entry
         /\ claimed \subseteq Deliveries /\ intended \subseteq Deliveries
         /\ liveSent \subseteq Deliveries /\ withdrawn \subseteq Deliveries
         /\ accepted \in [Deliveries -> 0..2] /\ accepted[e] \in 0..2
         /\ faults \in 0..MaxFaults
  BY DeliveryAssumption DEF DeliveryInv, Shape, TypeOK, LiveOK, LiveStates

\* The invariant of one delivery, part by part.
LEMMA GoodParts ==
  ASSUME DeliveryInv, NEW e \in Deliveries
  PROVE  /\ OwnedOnce(e) /\ Untouched(e) /\ AckJustified(e) /\ Kept(e) /\ MarkKept(e)
         /\ accepted[e] \in 0..2
  BY Facts DEF Good

\* A call that holds no copy needs none.
LEMMA CallOK ==
  ASSUME NEW pc \in LivePCs, NEW snap \in Entry \cup {None}, NEW marked \in BOOLEAN,
         pc \in {"marking", "committing", "failing"} => snap # None
  PROVE  LiveOK(Call(pc, snap, marked))
  BY DEF LiveOK, LiveStates, Call

\* A file error is counted up to its bound.
LEMMA FaultCounts ==
  ASSUME faults \in 0..MaxFaults, Fault
  PROVE  faults' \in 0..MaxFaults
  BY DeliveryAssumption DEF Fault

\* enqueueDelivery: the file is written before anything is sent.
LEMMA LiveEnqueuesKeeps ==
  ASSUME DeliveryInv, NEW e \in Deliveries, LiveEnqueues(e)
  PROVE  DeliveryInv'
  <1> DEFINE l == Call("queued", None, live[e].marked)
  <1>1. LiveOK(l)
    BY Facts, CallOK DEF LivePCs
  <1>2. LiveStep(e, l)
    BY <1>1, Facts, FreshIsEntry DEF LiveEnqueues, LiveGoes, LiveStep, Write, bounds
  <1>3. live'[e] = l /\ l.pc = "queued" /\ disk'[e] = Fresh /\ e \in intended'
    BY Facts DEF LiveEnqueues, LiveGoes, Write, Call
  <1>4. Good(e)'
    BY <1>2, <1>3, Facts, FreshIsEntry, DeliveryAssumption
    DEF LiveEnqueues, LiveAt, LiveStep, Good, OwnedOnce, Untouched, AckJustified, Kept, MarkKept, Traceable,
        LiveHolds, Cur
  <1> QED
    BY <1>2, <1>4, LiveStepKeeps

\* Nothing is left to send, or the caller aborted: the outcome is on record before the ack.
LEMMA LiveWithdrawsKeeps ==
  ASSUME DeliveryInv, NEW e \in Deliveries, LiveWithdraws(e)
  PROVE  DeliveryInv'
  <1> DEFINE l == Call("ack", None, live[e].marked)
  <1>1. LiveOK(l)
    BY Facts, CallOK DEF LivePCs
  <1>2. LiveStep(e, l)
    BY <1>1, Facts
    DEF LiveWithdraws, LiveGoes, LiveStep, files, bounds, observed
  <1>3. live'[e] = l /\ l.pc = "ack"
    BY Facts
    DEF LiveWithdraws, LiveGoes, Call
  <1>4. Good(e)'
    BY <1>2, <1>3, Facts
    DEF LiveWithdraws, files, observed, LiveAt, LiveStep, Good, OwnedOnce, Untouched, AckJustified, Kept, MarkKept,
        Traceable, LiveHolds, Cur
  <1> QED
    BY <1>2, <1>4, LiveStepKeeps

\* An error before the send leaves the file to failDelivery.
LEMMA LiveErrsEarlyKeeps ==
  ASSUME DeliveryInv, NEW e \in Deliveries, LiveErrsEarly(e)
  PROVE  DeliveryInv'
  <1> DEFINE l == Call("fail", None, live[e].marked)
  <1>1. LiveOK(l)
    BY Facts, CallOK DEF LivePCs
  <1>2. LiveStep(e, l)
    BY <1>1, Facts
    DEF LiveErrsEarly, LiveGoes, LiveStep, files, bounds, observed
  <1>3. live'[e] = l /\ l.pc = "fail"
    BY Facts
    DEF LiveErrsEarly, LiveGoes, Call
  <1>4. Good(e)'
    BY <1>2, <1>3, Facts
    DEF LiveErrsEarly, files, observed, LiveAt, LiveStep, Good, OwnedOnce, Untouched, AckJustified, Kept, MarkKept,
        Traceable, LiveHolds, Cur
  <1> QED
    BY <1>2, <1>4, LiveStepKeeps

\* An unmarked send goes straight to its ack, which its acceptance justifies.
LEMMA LiveSkipsCommitKeeps ==
  ASSUME DeliveryInv, NEW e \in Deliveries, LiveSkipsCommit(e)
  PROVE  DeliveryInv'
  <1> DEFINE l == Call("ack", None, live[e].marked)
  <1>1. LiveOK(l)
    BY Facts, CallOK DEF LivePCs
  <1>2. LiveStep(e, l)
    BY <1>1, Facts
    DEF LiveSkipsCommit, LiveGoes, LiveStep, files, bounds, observed
  <1>3. live'[e] = l /\ l.pc = "ack"
    BY Facts
    DEF LiveSkipsCommit, LiveGoes, Call
  <1>4. Good(e)'
    BY <1>2, <1>3, Facts
    DEF LiveSkipsCommit, files, observed, LiveAt, LiveStep, Good, OwnedOnce, Untouched, AckJustified, Kept,
        MarkKept, Traceable, LiveHolds, Cur
  <1> QED
    BY <1>2, <1>4, LiveStepKeeps

\* The mark is made on a copy of the file.
LEMMA LiveReadsToMarkKeeps ==
  ASSUME DeliveryInv, NEW e \in Deliveries, LiveReadsToMark(e)
  PROVE  DeliveryInv'
  <1> DEFINE l == Call("marking", disk[e], live[e].marked)
  <1>1. LiveOK(l)
    BY Facts, CallOK DEF LivePCs, LiveReadsToMark
  <1>2. LiveStep(e, l)
    BY <1>1, Facts
    DEF LiveReadsToMark, LiveReads, LiveStep, files, bounds, observed
  <1>3. live'[e] = l /\ l.pc = "marking" /\ l.snap = disk[e]
    BY Facts
    DEF LiveReadsToMark, LiveReads, Call
  <1>4. Good(e)'
    BY <1>2, <1>3, Facts
    DEF LiveReadsToMark, files, observed, LiveAt, LiveStep, Good, OwnedOnce, Untouched, AckJustified, Kept,
        MarkKept, Traceable, LiveHolds, Cur
  <1> QED
    BY <1>2, <1>4, LiveStepKeeps

\* The second mark is made on a copy that carries the first.
LEMMA LiveReadsToCommitKeeps ==
  ASSUME DeliveryInv, NEW e \in Deliveries, LiveReadsToCommit(e)
  PROVE  DeliveryInv'
  <1> DEFINE l == Call("committing", disk[e], live[e].marked)
  <1>1. LiveOK(l)
    BY Facts, CallOK DEF LivePCs, LiveReadsToCommit
  <1>2. LiveStep(e, l)
    BY <1>1, Facts
    DEF LiveReadsToCommit, LiveReads, LiveStep, files, bounds, observed
  <1>3. /\ live'[e] = l /\ l.pc = "committing" /\ l.snap = disk[e]
        /\ live[e].pc = "returned" /\ disk[e] # None
        /\ UNCHANGED <<disk, failedDir, claimed, intended, accepted, liveSent, withdrawn>>
    BY Facts
    DEF LiveReadsToCommit, LiveReads, LiveAt, Call, files, observed
  <1>4. Good(e)'
    BY <1>2, <1>3, Facts
    DEF LiveStep, Good, OwnedOnce, Untouched, AckJustified, Kept, MarkKept, Traceable, LiveHolds, Cur
  <1> QED
    BY <1>2, <1>4, LiveStepKeeps

\* failDelivery works on a copy that carries the mark of a send that may be out.
LEMMA LiveReadsToFailKeeps ==
  ASSUME DeliveryInv, NEW e \in Deliveries, LiveReadsToFail(e)
  PROVE  DeliveryInv'
  <1> DEFINE l == Call("failing", disk[e], live[e].marked)
  <1>1. LiveOK(l)
    BY Facts, CallOK DEF LivePCs, LiveReadsToFail
  <1>2. LiveStep(e, l)
    BY <1>1, Facts
    DEF LiveReadsToFail, LiveReads, LiveStep, files, bounds, observed
  <1>3. live'[e] = l /\ l.pc = "failing" /\ l.snap = disk[e]
    BY Facts
    DEF LiveReadsToFail, LiveReads, Call
  <1>4. Good(e)'
    BY <1>2, <1>3, Facts
    DEF LiveReadsToFail, files, observed, LiveAt, LiveStep, Good, OwnedOnce, Untouched, AckJustified, Kept,
        MarkKept, Traceable, LiveHolds, Cur
  <1> QED
    BY <1>2, <1>4, LiveStepKeeps

\* Without a file nothing is intended, even when the message goes out.
LEMMA LiveEnqueueFailsKeeps ==
  ASSUME DeliveryInv, NEW e \in Deliveries, LiveEnqueueFails(e)
  PROVE  DeliveryInv'
  <1> DEFINE l == Call("done", None, live[e].marked)
  <1>1. LiveOK(l)
    BY Facts, CallOK DEF LivePCs
  <1>2. /\ accepted' \in [Deliveries -> 0..2]
        /\ \A x \in Deliveries \ {e} : accepted'[x] = accepted[x]
    BY Facts, AcceptsCounts DEF LiveEnqueueFails
  <1>3. LiveStep(e, l)
    BY <1>1, <1>2, Facts, FaultCounts DEF LiveEnqueueFails, LiveGoes, LiveStep, files
  <1>4. /\ live'[e] = l /\ l.pc = "done" /\ live[e].pc = "new"
        /\ UNCHANGED <<disk, failedDir, claimed, intended, liveSent, withdrawn>>
    BY Facts DEF LiveEnqueueFails, LiveGoes, LiveAt, Call, files
  <1>5. Good(e)'
    BY <1>3, <1>4, Facts
    DEF LiveStep, Good, OwnedOnce, Untouched, AckJustified, Kept, MarkKept, Traceable, LiveHolds, Cur
  <1> QED
    BY <1>3, <1>5, LiveStepKeeps

\* The claim goes to the live call only when nobody holds the entry.
LEMMA LiveClaimsKeeps ==
  ASSUME DeliveryInv, NEW e \in Deliveries, LiveClaims(e)
  PROVE  DeliveryInv'
  <1>1. CASE e \in claimed
    <2> DEFINE l == Call("done", None, live[e].marked)
    <2>1. LiveOK(l)
      BY Facts, CallOK DEF LivePCs
    <2>2. LiveStep(e, l)
      BY <1>1, <2>1, Facts DEF LiveClaims, LiveGoes, LiveStep, files, bounds, observed
    <2>3. live'[e] = l /\ l.pc = "done" /\ live[e].pc = "queued" /\ UNCHANGED <<files, claimed, observed>>
      BY <1>1, Facts DEF LiveClaims, LiveGoes, LiveAt, Call
    <2>4. Good(e)'
      BY <2>2, <2>3, Facts
      DEF LiveStep, files, observed, Good, OwnedOnce, Untouched, AckJustified, Kept, MarkKept, Traceable,
          LiveHolds, Cur
    <2> QED
      BY <2>2, <2>4, LiveStepKeeps
  <1>2. CASE e \notin claimed
    <2> DEFINE l == Call("core", None, live[e].marked)
    <2>1. LiveOK(l)
      BY Facts, CallOK DEF LivePCs
    <2>2. LiveStep(e, l)
      BY <1>2, <2>1, Facts DEF LiveClaims, LiveGoes, LiveStep, files, bounds, observed
    <2>3. /\ live'[e] = l /\ l.pc = "core" /\ live[e].pc = "queued" /\ e \in claimed'
          /\ UNCHANGED <<files, observed>>
      BY <1>2, Facts DEF LiveClaims, LiveGoes, LiveAt, Call
    <2>4. Good(e)'
      BY <1>2, <2>2, <2>3, Facts
      DEF LiveStep, files, observed, Good, OwnedOnce, Untouched, AckJustified, Kept, MarkKept, Traceable,
          LiveHolds, Cur
    <2> QED
      BY <2>2, <2>4, LiveStepKeeps
  <1> QED
    BY <1>1, <1>2

\* The file is marked before a required send can reach the platform.
LEMMA LiveMarksKeeps ==
  ASSUME DeliveryInv, NEW e \in Deliveries, LiveMarks(e)
  PROVE  DeliveryInv'
  <1> DEFINE l == Call("send", None, TRUE)
  <1>1. LiveOK(l)
    BY CallOK DEF LivePCs
  <1>2. /\ Marked(live[e].snap, "started") \in Entry
        /\ Marked(live[e].snap, "started").recoveryState = "started"
    BY Facts, MarkedIsEntry DEF LiveMarks, LiveAt
  <1>3. LiveStep(e, l)
    BY <1>1, <1>2, Facts DEF LiveMarks, LiveStep, Write, bounds, observed
  <1>4. /\ live'[e] = l /\ l.pc = "send" /\ live[e].pc = "marking"
        /\ disk'[e] \in Entry /\ disk'[e].recoveryState = "started"
        /\ claimed' = claimed /\ intended' = intended /\ accepted' = accepted
        /\ liveSent' = liveSent /\ withdrawn' = withdrawn
    BY <1>2, Facts DEF LiveMarks, LiveAt, Write, Call, observed
  <1>5. Good(e)'
    <2>1. OwnedOnce(e) /\ Untouched(e) /\ AckJustified(e) /\ Kept(e) /\ MarkKept(e)
          /\ accepted[e] \in 0..2 /\ None \notin Entry
      BY GoodParts, DeliveryAssumption
    <2>2. OwnedOnce(e)'
      BY <2>1, <1>3, <1>4
      DEF LiveStep, OwnedOnce, LiveHolds, Cur
    <2>3. Untouched(e)'
      BY <2>1, <1>3, <1>4
      DEF LiveStep, OwnedOnce, Untouched, LiveHolds, Cur
    <2>4. AckJustified(e)'
      BY <2>1, <1>3, <1>4
      DEF LiveStep, OwnedOnce, Untouched, AckJustified, LiveHolds, Cur
    <2>5. Kept(e)'
      BY <2>1, <1>3, <1>4
      DEF LiveStep, Kept, Untouched, AckJustified, OwnedOnce, LiveHolds, Cur
    <2>6. MarkKept(e)'
      BY <2>1, <1>3, <1>4
      DEF LiveStep, MarkKept, Traceable, OwnedOnce, Untouched, LiveHolds, Cur
    <2> QED
      BY <2>2, <2>3, <2>4, <2>5, <2>6 DEF Good
  <1> QED
    BY <1>3, <1>5, LiveStepKeeps

\* A required send whose mark failed does not reach the platform.
LEMMA LiveMarkFailsKeeps ==
  ASSUME DeliveryInv, NEW e \in Deliveries, LiveMarkFails(e)
  PROVE  DeliveryInv'
  <1> DEFINE pc == IF e \in Required THEN "fail" ELSE "send"
             l == Call(pc, None, live[e].marked)
  <1>1. LiveOK(l)
    BY Facts, CallOK DEF LivePCs
  <1>2. faults' \in 0..MaxFaults
    BY Facts, FaultCounts DEF LiveMarkFails
  <1>3. LiveStep(e, l)
    BY <1>1, <1>2, Facts DEF LiveMarkFails, LiveGoes, LiveStep, files, bounds, observed
  <1>4. /\ live'[e] = l /\ l.pc = pc /\ live[e].pc \in {"core", "marking"}
        /\ UNCHANGED <<disk, failedDir, claimed, observed>>
    BY Facts DEF LiveMarkFails, LiveGoes, LiveAt, Call, files, Required
  <1>5. Good(e)'
    BY <1>3, <1>4, Facts
    DEF Required, LiveStep, observed, Good, OwnedOnce, Untouched, AckJustified, Kept, MarkKept, Traceable,
        LiveHolds, Cur
  <1> QED
    BY <1>3, <1>5, LiveStepKeeps

\* Whatever the platform answers, an accepted message is on record and its mark is in the file.
LEMMA LivePlatformAnswersKeeps ==
  ASSUME DeliveryInv, NEW e \in Deliveries, LivePlatformAnswers(e)
  PROVE  DeliveryInv'
  <1>1. PICK taken \in BOOLEAN, answer \in {"ok", "nothing", "error", "abort"} :
          /\ answer = "ok" => taken
          /\ IF taken THEN Accepts(e) /\ liveSent' = liveSent \cup {e}
                      ELSE UNCHANGED <<accepted, liveSent>>
          /\ withdrawn' = IF answer \in {"nothing", "abort"} THEN withdrawn \cup {e} ELSE withdrawn
          /\ LiveGoes(e, CASE answer \in {"ok", "nothing"} -> "returned"
                           [] answer = "error" -> "fail"
                           [] answer = "abort" -> "ack")
    BY Zenon DEF LivePlatformAnswers
  <1>2. PICK pc \in {"returned", "fail", "ack"} :
          /\ LiveGoes(e, pc)
          /\ pc \in {"returned", "ack"} => taken \/ e \in withdrawn'
          /\ withdrawn' \in {withdrawn, withdrawn \cup {e}}
    BY <1>1
  <1> DEFINE l == Call(pc, None, live[e].marked)
  <1>3. LiveOK(l)
    BY Facts, CallOK DEF LivePCs
  <1>4. /\ accepted' \in [Deliveries -> 0..2]
        /\ \A x \in Deliveries \ {e} : accepted'[x] = accepted[x]
        /\ accepted'[e] >= accepted[e]
        /\ taken => accepted'[e] > 0 /\ liveSent' = liveSent \cup {e}
        /\ ~taken => liveSent' = liveSent
    BY <1>1, Facts, AcceptsCounts
  <1>5. LiveStep(e, l)
    BY <1>2, <1>3, <1>4, Facts DEF LivePlatformAnswers, LiveGoes, LiveStep, files, bounds
  <1>6. /\ live'[e] = l /\ l.pc = pc /\ live[e].pc = "send"
        /\ UNCHANGED <<disk, failedDir, claimed, intended>>
    BY <1>2, Facts DEF LivePlatformAnswers, LiveGoes, LiveAt, Call, files
  <1>7. Good(e)'
    BY <1>2, <1>4, <1>5, <1>6, Facts
    DEF LiveStep, Good, OwnedOnce, Untouched, AckJustified, Kept, MarkKept, Traceable, LiveHolds, Cur
  <1> QED
    BY <1>5, <1>7, LiveStepKeeps

\* The file becomes unknown_after_send; the mark stays one that recovery reconciles.
LEMMA LiveCommitsKeeps ==
  ASSUME DeliveryInv, NEW e \in Deliveries, LiveCommits(e)
  PROVE  DeliveryInv'
  <1> DEFINE l == Call("ack", None, live[e].marked)
  <1>1. LiveOK(l)
    BY Facts, CallOK DEF LivePCs
  <1>2. /\ Marked(live[e].snap, "unknown") \in Entry
        /\ Marked(live[e].snap, "unknown").recoveryState = "unknown"
    BY Facts, MarkedIsEntry DEF LiveCommits, LiveAt
  <1>3. LiveStep(e, l)
    BY <1>1, <1>2, Facts DEF LiveCommits, LiveGoes, LiveStep, Write, bounds, observed
  <1>4. /\ live'[e] = l /\ l.pc = "ack" /\ live[e].pc = "committing"
        /\ disk'[e] \in Entry /\ disk'[e].recoveryState = "unknown"
        /\ UNCHANGED <<failedDir, claimed, observed>>
    BY <1>2, Facts DEF LiveCommits, LiveGoes, LiveAt, Write, Call
  <1>5. Good(e)'
    BY <1>3, <1>4, Facts, DeliveryAssumption
    DEF LiveStep, observed, Good, OwnedOnce, Untouched, AckJustified, Kept, MarkKept, Traceable, LiveHolds, Cur
  <1> QED
    BY <1>3, <1>5, LiveStepKeeps

\* The ends of a call share what they do to it.
LEMMA LiveEndsForm ==
  ASSUME DeliveryInv, NEW e \in Deliveries, LiveEnds(e), LiveHolds(e)
  PROVE  /\ live' = [live EXCEPT ![e] = Call("done", None, FALSE)]
         /\ live'[e].pc = "done" /\ LiveOK(Call("done", None, FALSE))
         /\ e \notin claimed' /\ claimed' = claimed \ {e}
         /\ \A w \in Workers : Cur(w) # e
  <1>1. LiveOK(Call("done", None, FALSE))
    BY CallOK DEF LivePCs
  <1>2. \A w \in Workers : Cur(w) # e
    BY Facts DEF Good, OwnedOnce
  <1> QED
    BY <1>1, <1>2, Facts DEF LiveEnds, Call

\* A commit that fails leaves the mark of the send.
LEMMA LiveCommitFailsKeeps ==
  ASSUME DeliveryInv, NEW e \in Deliveries, LiveCommitFails(e)
  PROVE  DeliveryInv'
  <1>1. /\ faults' \in 0..MaxFaults /\ live[e].pc \in {"returned", "committing"}
        /\ UNCHANGED <<kind, files, worker, deferring, crashes, overruns, observed>>
    BY Facts, FaultCounts DEF LiveCommitFails, LiveAt
  <1>2. CASE e \in Required
    <2>1. LiveEnds(e) /\ LiveHolds(e)
      BY <1>1, <1>2 DEF LiveCommitFails, LiveHolds
    <2>0. /\ live' = [live EXCEPT ![e] = Call("done", None, FALSE)]
          /\ live'[e].pc = "done" /\ LiveOK(Call("done", None, FALSE))
          /\ e \notin claimed' /\ claimed' = claimed \ {e}
          /\ \A w \in Workers : Cur(w) # e
      BY <2>1, LiveEndsForm
    <2>2. LiveStep(e, Call("done", None, FALSE))
      BY <1>1, <2>0, Facts DEF LiveStep, files, bounds, observed
    <2>3. Good(e)'
      <3>1. OwnedOnce(e) /\ Untouched(e) /\ AckJustified(e) /\ Kept(e) /\ MarkKept(e)
            /\ accepted[e] \in 0..2 /\ None \notin Entry
        BY GoodParts, DeliveryAssumption
      <3>2. OwnedOnce(e)'
        BY <3>1, <1>1, <2>0
        DEF files, observed, OwnedOnce, LiveHolds, Cur
      <3>3. Untouched(e)'
        BY <3>1, <1>1, <2>0
        DEF files, observed, OwnedOnce, Untouched, LiveHolds, Cur
      <3>4. AckJustified(e)'
        BY <3>1, <1>1, <2>0
        DEF files, observed, OwnedOnce, Untouched, AckJustified, LiveHolds, Cur
      <3>5. Kept(e)'
        BY <3>1, <1>1, <2>0
        DEF files, observed, Kept, Untouched, AckJustified, OwnedOnce, LiveHolds, Cur
      <3>6. MarkKept(e)'
        BY <3>1, <1>1, <2>0
        DEF files, observed, MarkKept, Traceable, OwnedOnce, Untouched, LiveHolds, Cur
      <3> QED
        BY <3>2, <3>3, <3>4, <3>5, <3>6 DEF Good
    <2> QED
      BY <2>2, <2>3, LiveStepKeeps
  <1>3. CASE e \notin Required
    <2> DEFINE l == Call("ack", None, live[e].marked)
    <2>1. LiveOK(l)
      BY Facts, CallOK DEF LivePCs
    <2>2. LiveGoes(e, "ack") /\ claimed' = claimed
      BY <1>3 DEF LiveCommitFails
    <2>3. LiveStep(e, l)
      BY <1>1, <2>1, <2>2, Facts DEF LiveGoes, LiveStep, files, bounds, observed
    <2>4. live'[e] = l /\ l.pc = "ack"
      BY <2>2, Facts DEF LiveGoes, Call
    <2>5. Good(e)'
      BY <1>1, <2>2, <2>4, Facts
      DEF files, observed, Good, OwnedOnce, Untouched, AckJustified, Kept, MarkKept, Traceable, LiveHolds, Cur
    <2> QED
      BY <2>3, <2>5, LiveStepKeeps
  <1> QED
    BY <1>2, <1>3

\* The file goes away only when the delivery has an outcome.
LEMMA LiveAcksKeeps ==
  ASSUME DeliveryInv, NEW e \in Deliveries, LiveAcks(e)
  PROVE  DeliveryInv'
  <1>1. /\ live[e].pc = "ack" /\ LiveEnds(e) /\ LiveHolds(e)
        /\ UNCHANGED <<kind, failedDir, worker, deferring, crashes, overruns, observed>>
    BY DEF LiveAcks, LiveAt, LiveHolds
  <1>2. /\ faults' \in 0..MaxFaults /\ disk' \in [Deliveries -> Entry \cup {None}]
        /\ \A x \in Deliveries \ {e} : disk'[x] = disk[x]
        /\ disk'[e] \in {None, disk[e]}
    BY Facts, FaultCounts DEF LiveAcks, Remove
  <1>0. /\ live' = [live EXCEPT ![e] = Call("done", None, FALSE)]
        /\ live'[e].pc = "done" /\ LiveOK(Call("done", None, FALSE))
        /\ e \notin claimed' /\ claimed' = claimed \ {e}
        /\ \A w \in Workers : Cur(w) # e
    BY <1>1, LiveEndsForm
  <1>3. LiveStep(e, Call("done", None, FALSE))
    BY <1>1, <1>2, <1>0, Facts DEF LiveStep, observed
  <1>4. Good(e)'
    <2>1. OwnedOnce(e) /\ Untouched(e) /\ AckJustified(e) /\ Kept(e) /\ MarkKept(e)
          /\ accepted[e] \in 0..2 /\ None \notin Entry
      BY GoodParts, DeliveryAssumption
    <2>2. OwnedOnce(e)'
      BY <2>1, <1>1, <1>2, <1>0
      DEF observed, OwnedOnce, LiveHolds, Cur
    <2>3. Untouched(e)'
      BY <2>1, <1>1, <1>2, <1>0
      DEF observed, OwnedOnce, Untouched, LiveHolds, Cur
    <2>4. AckJustified(e)'
      BY <2>1, <1>1, <1>2, <1>0
      DEF observed, OwnedOnce, Untouched, AckJustified, LiveHolds, Cur
    <2>5. Kept(e)'
      BY <2>1, <1>1, <1>2, <1>0
      DEF observed, Kept, Untouched, AckJustified, OwnedOnce, LiveHolds, Cur
    <2>6. MarkKept(e)'
      BY <2>1, <1>1, <1>2, <1>0
      DEF observed, MarkKept, Traceable, OwnedOnce, Untouched, LiveHolds, Cur
    <2> QED
      BY <2>2, <2>3, <2>4, <2>5, <2>6 DEF Good
  <1> QED
    BY <1>3, <1>4, LiveStepKeeps

\* failDelivery writes back the copy it read, with its mark.
LEMMA LiveFailsKeeps ==
  ASSUME DeliveryInv, NEW e \in Deliveries, LiveFails(e)
  PROVE  DeliveryInv'
  <1>1. /\ live[e].pc \in {"fail", "failing"} /\ LiveEnds(e) /\ LiveHolds(e)
        /\ UNCHANGED <<kind, failedDir, worker, deferring, crashes, overruns, observed>>
    BY DEF LiveFails, LiveAt, LiveHolds
  <1>2. /\ faults' \in 0..MaxFaults
        /\ \/ disk' = disk
           \/ /\ live[e].pc = "failing" /\ live[e].snap \in Entry
              /\ disk' = [disk EXCEPT ![e] = Retried(live[e].snap)]
    BY Facts, FaultCounts DEF LiveFails, LiveAt, Write
  <1>3. /\ disk' \in [Deliveries -> Entry \cup {None}]
        /\ \A x \in Deliveries \ {e} : disk'[x] = disk[x]
        /\ \/ disk'[e] = disk[e]
           \/ /\ live[e].pc = "failing"
              /\ disk'[e] \in Entry /\ disk'[e].recoveryState = live[e].snap.recoveryState
    BY <1>2, Facts, RetriedIsEntry
  <1>0. /\ live' = [live EXCEPT ![e] = Call("done", None, FALSE)]
        /\ live'[e].pc = "done" /\ LiveOK(Call("done", None, FALSE))
        /\ e \notin claimed' /\ claimed' = claimed \ {e}
        /\ \A w \in Workers : Cur(w) # e
    BY <1>1, LiveEndsForm
  <1>4. LiveStep(e, Call("done", None, FALSE))
    BY <1>1, <1>2, <1>3, <1>0, Facts DEF LiveStep, observed
  <1>5. Good(e)'
    <2>1. OwnedOnce(e) /\ Untouched(e) /\ AckJustified(e) /\ Kept(e) /\ MarkKept(e)
          /\ accepted[e] \in 0..2 /\ None \notin Entry
      BY GoodParts, DeliveryAssumption
    <2>2. OwnedOnce(e)'
      BY <2>1, <1>1, <1>3, <1>0
      DEF observed, OwnedOnce, LiveHolds, Cur
    <2>3. Untouched(e)'
      BY <2>1, <1>1, <1>3, <1>0
      DEF observed, OwnedOnce, Untouched, LiveHolds, Cur
    <2>4. AckJustified(e)'
      BY <2>1, <1>1, <1>3, <1>0
      DEF observed, OwnedOnce, Untouched, AckJustified, LiveHolds, Cur
    <2>5. Kept(e)'
      BY <2>1, <1>1, <1>3, <1>0
      DEF observed, Kept, Untouched, AckJustified, OwnedOnce, LiveHolds, Cur
    <2>6. MarkKept(e)'
      BY <2>1, <1>1, <1>3, <1>0
      DEF observed, MarkKept, Traceable, OwnedOnce, Untouched, LiveHolds, Cur
    <2> QED
      BY <2>2, <2>3, <2>4, <2>5, <2>6 DEF Good
  <1> QED
    BY <1>4, <1>5, LiveStepKeeps

-----------------------------------------------------------------------------
(***************************************************************************)
(* A step of worker w touches at most the delivery c in its hands.         *)
(***************************************************************************)

WorkerStep(w, r, c) ==
    /\ WorkerOK(r) /\ worker' = [worker EXCEPT ![w] = r]
    /\ disk' \in [Deliveries -> Entry \cup {None}] /\ accepted' \in [Deliveries -> 0..2]
    /\ claimed' \subseteq Deliveries /\ failedDir' \subseteq Deliveries /\ withdrawn' \subseteq Deliveries
    /\ faults' \in 0..MaxFaults
    /\ kind' = kind /\ live' = live /\ deferring' = deferring /\ crashes' = crashes /\ overruns' = overruns
    /\ intended' = intended /\ liveSent' = liveSent /\ overwritten' = overwritten
    /\ \A x \in r.todo : x \in worker[w].todo \/ disk[x] # None
    /\ \A x \in Deliveries : x # c =>
          /\ disk'[x] = disk[x] /\ accepted'[x] = accepted[x]
          /\ x \in claimed' <=> x \in claimed
          /\ x \in failedDir' <=> x \in failedDir
          /\ x \in withdrawn' <=> x \in withdrawn
          /\ Cur(w) # x /\ r.cur # x

\* So the invariant is kept when that delivery is left in order.
LEMMA WorkerStepKeeps ==
  ASSUME DeliveryInv, NEW w \in Workers, NEW r, NEW c, WorkerStep(w, r, c),
         c \in Deliveries => Good(c)'
  PROVE  DeliveryInv'
  <1>1. worker' \in [Workers -> WorkerStates] /\ worker'[w] = r
        /\ \A v \in Workers \ {w} : worker'[v] = worker[v]
    BY DEF WorkerStep, WorkerOK, DeliveryInv, Shape, TypeOK, WorkerStates
  <1>2. TypeOK'
    BY <1>1 DEF WorkerStep, DeliveryInv, Shape, TypeOK, WorkerStates
  <1>3. Shape'
    BY <1>1, <1>2 DEF WorkerStep, DeliveryInv, Shape
  <1>4. ASSUME NEW x \in Deliveries, x # c PROVE Good(x)'
    <2>1. OwnedOnce(x) /\ Untouched(x) /\ AckJustified(x) /\ Kept(x) /\ MarkKept(x)
      BY DEF DeliveryInv, Good
    <2>2. /\ disk'[x] = disk[x] /\ accepted'[x] = accepted[x]
          /\ x \in claimed' <=> x \in claimed
          /\ x \in failedDir' <=> x \in failedDir
          /\ x \in withdrawn' <=> x \in withdrawn
          /\ kind' = kind /\ live' = live /\ deferring' = deferring
          /\ intended' = intended /\ liveSent' = liveSent /\ overwritten' = overwritten
          /\ x \in r.todo => x \in worker[w].todo \/ disk[x] # None
      BY <1>4 DEF WorkerStep
    <2>3. \A v \in Workers : worker'[v].cur = x <=> worker[v].cur = x
      BY <1>1, <1>4 DEF WorkerStep, Cur
    <2>4. \A v \in Workers : worker'[v].cur = x => worker'[v] = worker[v]
      BY <1>1, <1>4 DEF WorkerStep, Cur
    <2>5. OwnedOnce(x)'
      BY <2>1, <2>2, <2>3 DEF OwnedOnce, LiveHolds, Cur
    <2>6. Untouched(x)'
      BY <1>1, <2>1, <2>2, <2>3 DEF Untouched, Cur
    <2>7. AckJustified(x)'
      BY <2>1, <2>2, <2>3, <2>4 DEF AckJustified, Cur
    <2>8. Kept(x)'
      BY <2>1, <2>2 DEF Kept
    <2>9. MarkKept(x)'
      BY <2>1, <2>2, <2>3, <2>4 DEF MarkKept, Traceable, Cur
    <2> QED
      BY <2>5, <2>6, <2>7, <2>8, <2>9 DEF Good
  <1>5. ASSUME NEW x \in Deliveries PROVE Good(x)'
    BY <1>4
  <1> QED
    BY <1>3, <1>5 DEF DeliveryInv

\* What the invariant says of a worker, and of the entry in its hands.
LEMMA WorkerFacts ==
  ASSUME DeliveryInv, NEW w \in Workers
  PROVE  /\ WorkerOK(worker[w]) /\ worker \in [Workers -> WorkerStates]
         /\ worker[w].pc \in WorkerPCs /\ worker[w].todo \subseteq Deliveries
         /\ Cur(w) \in Deliveries \cup {None} /\ worker[w].snap \in Entry \cup {None}
         /\ Cur(w) # None <=> worker[w].pc \in Holding
         /\ worker[w].pc \in Holding => Cur(w) \in Deliveries
         /\ worker[w].pc = "failing" => worker[w].snap \in Entry
         /\ disk \in [Deliveries -> Entry \cup {None}] /\ accepted \in [Deliveries -> 0..2]
         /\ claimed \subseteq Deliveries /\ failedDir \subseteq Deliveries /\ withdrawn \subseteq Deliveries
         /\ faults \in 0..MaxFaults
  BY DEF DeliveryInv, Shape, TypeOK, WorkerOK, WorkerStates, Cur

\* A loop has an entry exactly where it works on one.
LEMMA LoopOK ==
  ASSUME NEW pc \in WorkerPCs, NEW todo \in SUBSET Deliveries, NEW cur \in Deliveries \cup {None},
         NEW snap \in Entry \cup {None}, cur # None <=> pc \in Holding, pc = "failing" => snap # None
  PROVE  /\ WorkerOK(Loop(pc, todo, cur, snap))
         /\ Loop(pc, todo, cur, snap).pc = pc /\ Loop(pc, todo, cur, snap).todo = todo
         /\ Loop(pc, todo, cur, snap).cur = cur /\ Loop(pc, todo, cur, snap).snap = snap
  BY DEF WorkerOK, WorkerStates, Loop

\* A worker goes on with the entry in its hands; what is on disk does not change.
GoesOn(w, r, c) ==
    /\ Cur(w) = c /\ c \in Deliveries /\ WorkerOK(r) /\ r.cur = c /\ r.todo = worker[w].todo
    /\ worker' = [worker EXCEPT ![w] = r]
    /\ accepted' \in [Deliveries -> 0..2] /\ accepted'[c] >= accepted[c]
    /\ \A x \in Deliveries : x # c => accepted'[x] = accepted[x]
    /\ withdrawn' \subseteq withdrawn \cup {c} /\ withdrawn \subseteq withdrawn'
    /\ faults' \in 0..MaxFaults
    /\ UNCHANGED <<kind, disk, failedDir, claimed, live, deferring, crashes, overruns, intended, liveSent, overwritten>>

\* It may acknowledge what has an outcome, and send what no live send brought out.
LEMMA GoesOnKeeps ==
  ASSUME DeliveryInv, NEW w \in Workers, NEW r, NEW c, GoesOn(w, r, c),
         r.pc = "ack" /\ "bestEffort" \notin kind[c] => accepted'[c] > 0 \/ c \in withdrawn',
         Traceable(c) => r.pc # "deliver" /\ (r.pc = "failing" => r.snap.recoveryState # "none")
  PROVE  DeliveryInv'
  <1>0. /\ c \in Deliveries /\ worker[w].cur = c
        /\ kind' = kind /\ disk' = disk /\ failedDir' = failedDir /\ claimed' = claimed /\ live' = live
        /\ deferring' = deferring /\ intended' = intended /\ liveSent' = liveSent /\ overwritten' = overwritten
        /\ accepted'[c] >= accepted[c] /\ accepted[c] \in 0..2 /\ accepted'[c] \in 0..2
        /\ c \in withdrawn => c \in withdrawn'
    BY DEF GoesOn, Cur, DeliveryInv, Shape, TypeOK
  <1>1. OwnedOnce(c) /\ Untouched(c) /\ AckJustified(c) /\ Kept(c) /\ MarkKept(c)
    BY <1>0, GoodParts
  <1>2. worker'[w] = r /\ r.cur = c /\ \A v \in Workers \ {w} : worker'[v] = worker[v] /\ worker[v].cur # c
    BY <1>0, <1>1, WorkerFacts DEF GoesOn, OwnedOnce, Cur
  <1>3. WorkerStep(w, r, c)
    BY WorkerFacts DEF GoesOn, WorkerStep
  <1>4. OwnedOnce(c)'
    BY <1>0, <1>1, <1>2 DEF OwnedOnce, LiveHolds, Cur
  <1>5. Untouched(c)'
    BY <1>0, <1>1, <1>2 DEF Untouched, OwnedOnce, LiveHolds, Cur
  <1>6. AckJustified(c)'
    BY <1>0, <1>1, <1>2 DEF AckJustified, OwnedOnce, LiveHolds, Cur
  <1>7. Kept(c)'
    BY <1>0, <1>1 DEF Kept
  <1>8. MarkKept(c)'
    BY <1>0, <1>1, <1>2 DEF MarkKept, Traceable, OwnedOnce, LiveHolds, Cur
  <1> QED
    BY <1>3, <1>4, <1>5, <1>6, <1>7, <1>8, WorkerStepKeeps DEF Good

\* A worker puts its entry back, having changed at most that entry's file.
PutsBack(w, r, c) ==
    /\ Cur(w) = c /\ c \in Deliveries /\ WorkerOK(r) /\ r.cur = None /\ r.todo \subseteq worker[w].todo
    /\ worker' = [worker EXCEPT ![w] = r] /\ claimed' = claimed \ {c}
    /\ disk' \in [Deliveries -> Entry \cup {None}]
    /\ \A x \in Deliveries : x # c => disk'[x] = disk[x]
    /\ failedDir \subseteq failedDir' /\ failedDir' \subseteq failedDir \cup {c}
    /\ faults' \in 0..MaxFaults
    /\ UNCHANGED <<kind, live, deferring, crashes, overruns, observed>>

\* It may do so when the delivery is not lost and its mark is still in the file.
LEMMA PutsBackKeeps ==
  ASSUME DeliveryInv, NEW w \in Workers, NEW r, NEW c, PutsBack(w, r, c), Kept(c)',
         Traceable(c) /\ disk'[c] # None => disk'[c].recoveryState # "none"
  PROVE  DeliveryInv'
  <1>0. /\ c \in Deliveries /\ worker[w].cur = c /\ c # None
        /\ kind' = kind /\ claimed' = claimed \ {c} /\ live' = live
        /\ deferring' = deferring /\ intended' = intended /\ liveSent' = liveSent /\ overwritten' = overwritten
        /\ accepted' = accepted /\ withdrawn' = withdrawn
    BY DeliveryAssumption DEF PutsBack, Cur, observed
  <1>1. OwnedOnce(c) /\ Untouched(c) /\ AckJustified(c) /\ Kept(c) /\ MarkKept(c)
    BY <1>0, GoodParts
  <1>2. worker'[w] = r /\ r.cur = None /\ \A v \in Workers \ {w} : worker'[v] = worker[v] /\ worker[v].cur # c
    BY <1>0, <1>1, WorkerFacts DEF PutsBack, OwnedOnce, Cur
  <1>3. WorkerStep(w, r, c)
    <2>1. None \notin Deliveries /\ accepted \in [Deliveries -> 0..2] /\ claimed \subseteq Deliveries
          /\ failedDir \subseteq Deliveries /\ withdrawn \subseteq Deliveries
      BY WorkerFacts, DeliveryAssumption
    <2> QED
      BY <1>0, <2>1 DEF PutsBack, WorkerStep, Cur
  <1>4. OwnedOnce(c)'
    BY <1>0, <1>1, <1>2 DEF OwnedOnce, LiveHolds, Cur
  <1>5. Untouched(c)'
    BY <1>0, <1>1, <1>2 DEF Untouched, OwnedOnce, LiveHolds, Cur
  <1>6. AckJustified(c)'
    BY <1>0, <1>1, <1>2 DEF AckJustified, OwnedOnce, LiveHolds, Cur
  <1>8. MarkKept(c)'
    BY <1>0, <1>1, <1>2 DEF MarkKept, Traceable, OwnedOnce, LiveHolds, Cur
  <1> QED
    BY <1>3, <1>4, <1>5, <1>6, <1>8, WorkerStepKeeps DEF Good

-----------------------------------------------------------------------------
(***************************************************************************)
(* The steps of the workers.                                               *)
(***************************************************************************)

\* A loop starts with the entries on disk.
LEMMA LoadsPendingKeeps ==
  ASSUME DeliveryInv, NEW w \in Workers, LoadsPending(w)
  PROVE  DeliveryInv'
  <1> DEFINE todo == {e \in Deliveries : disk[e] # None}
             r == Loop("next", todo, worker[w].cur, worker[w].snap)
  <1>1. /\ worker' = [worker EXCEPT ![w] = r] /\ worker[w].pc = "ready" /\ Cur(w) = None
        /\ UNCHANGED <<kind, files, claimed, live, deferring, bounds, observed>>
    BY WorkerFacts DEF LoadsPending, At, Holding
  <1>2. WorkerOK(r) /\ r.todo = todo /\ r.cur = None
    BY <1>1, WorkerFacts, LoopOK DEF WorkerPCs, Holding, Cur
  <1>3. WorkerStep(w, r, None)
    BY <1>1, <1>2, WorkerFacts, DeliveryAssumption DEF WorkerStep, files, bounds, observed
  <1> QED
    BY <1>3, WorkerStepKeeps, DeliveryAssumption

\* A loop ends with nothing in its hands.
LEMMA LoopEndsKeeps ==
  ASSUME DeliveryInv, NEW w \in Workers, LoopEnds(w)
  PROVE  DeliveryInv'
  <1> DEFINE pc == IF w = Recovery THEN "over" ELSE "ready"
             r == Loop(pc, worker[w].todo, worker[w].cur, worker[w].snap)
  <1>1. /\ worker' = [worker EXCEPT ![w] = r] /\ worker[w].pc = "next" /\ Cur(w) = None
        /\ UNCHANGED <<kind, files, claimed, live, deferring, bounds, observed>>
    BY WorkerFacts DEF LoopEnds, Goes, At, Holding
  <1>2. WorkerOK(r) /\ r.todo = worker[w].todo /\ r.cur = None
    BY <1>1, WorkerFacts, LoopOK DEF WorkerPCs, Holding, Cur
  <1>3. WorkerStep(w, r, None)
    BY <1>1, <1>2, WorkerFacts, DeliveryAssumption DEF WorkerStep, files, bounds, observed
  <1> QED
    BY <1>3, WorkerStepKeeps, DeliveryAssumption

\* An entry somebody holds is passed over, a free one claimed.
LEMMA PicksKeeps ==
  ASSUME DeliveryInv, NEW w \in Workers, NEW e \in Deliveries, Picks(w, e)
  PROVE  DeliveryInv'
  <1>0. /\ worker[w].pc = "next" /\ Cur(w) = None /\ e \in worker[w].todo /\ worker[w].todo \ {e} \subseteq Deliveries
        /\ UNCHANGED <<kind, files, live, deferring, bounds, observed>>
    BY WorkerFacts DEF Picks, At, Holding
  <1>1. CASE e \in claimed
    <2> DEFINE r == Loop("next", worker[w].todo \ {e}, worker[w].cur, worker[w].snap)
    <2>1. worker' = [worker EXCEPT ![w] = r] /\ claimed' = claimed
      BY <1>1 DEF Picks
    <2>2. WorkerOK(r) /\ r.todo \subseteq worker[w].todo /\ r.cur = None
      BY <1>0, WorkerFacts, LoopOK DEF WorkerPCs, Holding, Cur
    <2>3. WorkerStep(w, r, None)
      BY <1>0, <2>1, <2>2, WorkerFacts, DeliveryAssumption DEF WorkerStep, files, bounds, observed
    <2> QED
      BY <2>3, WorkerStepKeeps, DeliveryAssumption
  <1>2. CASE e \notin claimed
    <2> DEFINE r == Loop("load", worker[w].todo \ {e}, e, worker[w].snap)
    <2>1. worker' = [worker EXCEPT ![w] = r] /\ claimed' = claimed \cup {e}
      BY <1>2 DEF Picks
    <2>2. WorkerOK(r) /\ r.todo \subseteq worker[w].todo /\ r.cur = e /\ r.pc = "load"
      BY <1>0, WorkerFacts, LoopOK, DeliveryAssumption DEF WorkerPCs, Holding, Cur
    <2>3. WorkerStep(w, r, e)
      BY <1>0, <2>1, <2>2, WorkerFacts, DeliveryAssumption DEF WorkerStep, files, bounds, observed
    <2>4. /\ kind' = kind /\ disk' = disk /\ failedDir' = failedDir /\ live' = live /\ deferring' = deferring
          /\ intended' = intended /\ liveSent' = liveSent /\ overwritten' = overwritten
          /\ accepted' = accepted /\ withdrawn' = withdrawn
      BY <1>0 DEF files, observed
    <2>5. OwnedOnce(e) /\ Untouched(e) /\ AckJustified(e) /\ Kept(e) /\ MarkKept(e)
      BY GoodParts
    <2>6. ~LiveHolds(e) /\ \A v \in Workers : worker[v].cur # e
      BY <1>2, <2>5 DEF OwnedOnce, Cur
    <2>7. worker'[w] = r /\ \A v \in Workers \ {w} : worker'[v] = worker[v]
      BY <2>1, WorkerFacts
    <2>8. OwnedOnce(e)'
      BY <2>1, <2>2, <2>4, <2>6, <2>7 DEF OwnedOnce, LiveHolds, Cur
    <2>9. Untouched(e)'
      BY <1>0, <2>2, <2>4, <2>5, <2>6, <2>7 DEF Untouched, Cur
    <2>10. AckJustified(e)'
      BY <2>2, <2>4, <2>5, <2>6, <2>7 DEF AckJustified, Cur
    <2>11. Kept(e)'
      BY <2>4, <2>5 DEF Kept
    <2>12. MarkKept(e)'
      BY <2>2, <2>4, <2>5, <2>6, <2>7 DEF MarkKept, Traceable, Cur
    <2> QED
      BY <2>3, <2>8, <2>9, <2>10, <2>11, <2>12, WorkerStepKeeps DEF Good
  <1> QED
    BY <1>1, <1>2

\* A worker goes on with the entry in its hands.
LEMMA GoesFacts ==
  ASSUME DeliveryInv, NEW w \in Workers, worker[w].pc \in Holding, NEW pc \in Holding \ {"failing"}, Goes(w, pc)
  PROVE  LET r == Loop(pc, worker[w].todo, worker[w].cur, worker[w].snap) IN
         /\ worker' = [worker EXCEPT ![w] = r] /\ WorkerOK(r)
         /\ r.cur = Cur(w) /\ r.todo = worker[w].todo /\ r.pc = pc /\ Cur(w) \in Deliveries
  <1>1. Cur(w) \in Deliveries /\ Cur(w) # None
    BY WorkerFacts
  <1> QED
    BY <1>1, WorkerFacts, LoopOK DEF Goes, WorkerPCs, Holding, Cur

\* The entry is released.
LEMMA ReleasesFacts ==
  ASSUME DeliveryInv, NEW w \in Workers, worker[w].pc \in Holding, Releases(w)
  PROVE  LET r == Loop("next", worker[w].todo, None, None) IN
         /\ worker' = [worker EXCEPT ![w] = r] /\ WorkerOK(r) /\ claimed' = claimed \ {Cur(w)}
         /\ r.cur = None /\ r.todo = worker[w].todo /\ Cur(w) \in Deliveries
  <1>1. Cur(w) \in Deliveries
    BY WorkerFacts
  <1> QED
    BY <1>1, WorkerFacts, LoopOK DEF Releases, WorkerPCs, Holding, Cur

\* An entry that is gone or waits for its backoff is put back as it was.
LEMMA SkipsEntryKeeps ==
  ASSUME DeliveryInv, NEW w \in Workers, SkipsEntry(w)
  PROVE  DeliveryInv'
  <1>c. PICK c : c = Cur(w)
    OBVIOUS
  <1> DEFINE r == Loop("next", worker[w].todo, None, None)
  <1>1. worker[w].pc \in Holding /\ Releases(w) /\ UNCHANGED <<kind, files, live, deferring, bounds, observed>>
    BY <1>c DEF SkipsEntry, At, Holding
  <1>2. /\ worker' = [worker EXCEPT ![w] = r] /\ WorkerOK(r) /\ claimed' = claimed \ {c}
        /\ r.cur = None /\ r.todo = worker[w].todo /\ c \in Deliveries
    BY <1>c, <1>1, ReleasesFacts
  <1>3. PutsBack(w, r, c)
    BY <1>c, <1>1, <1>2, WorkerFacts DEF PutsBack, files, bounds
  <1>4. Kept(c) /\ MarkKept(c)
    BY <1>c, <1>2, GoodParts
  <1>5. Kept(c)' /\ (Traceable(c) /\ disk'[c] # None => disk'[c].recoveryState # "none")
    BY <1>c, <1>1, <1>4 DEF Kept, MarkKept, files, observed
  <1> QED
    BY <1>3, <1>5, PutsBackKeeps

\* A marked entry is reconciled, only an unmarked one is sent again.
LEMMA TakesEntryKeeps ==
  ASSUME DeliveryInv, NEW w \in Workers, TakesEntry(w)
  PROVE  DeliveryInv'
  <1> DEFINE c == Cur(w)
             pc == IF disk[c].recoveryState = "none" THEN "deliver" ELSE "reconcile"
             r == Loop(pc, worker[w].todo, worker[w].cur, disk[c])
  <1>1. /\ worker[w].pc = "load" /\ disk[c] # None /\ worker' = [worker EXCEPT ![w] = r]
        /\ UNCHANGED <<kind, files, claimed, live, deferring, bounds, observed>>
    BY DEF TakesEntry, At
  <1>2. c \in Deliveries /\ c # None /\ disk[c] \in Entry \cup {None}
    BY <1>1, WorkerFacts DEF Holding
  <1>3. WorkerOK(r) /\ r.pc = pc /\ r.cur = c /\ r.todo = worker[w].todo
    BY <1>2, WorkerFacts, LoopOK DEF WorkerPCs, Holding, Cur
  <1>4. GoesOn(w, r, c)
    BY <1>1, <1>2, <1>3, WorkerFacts DEF GoesOn, files, bounds, observed
  <1>5. MarkKept(c)
    BY <1>2, GoodParts
  <1>6. r.pc \in {"deliver", "reconcile"} /\ (Traceable(c) => r.pc # "deliver")
    BY <1>1, <1>3, <1>5 DEF MarkKept
  <1> HIDE DEF r
  <1> QED
    BY <1>4, <1>6, GoesOnKeeps

\* An entry without attempts left is kept until it has been moved.
LEMMA ExhaustsEntryKeeps ==
  ASSUME DeliveryInv, NEW w \in Workers, ExhaustsEntry(w)
  PROVE  DeliveryInv'
  <1> DEFINE c == Cur(w)
             r == Loop("prune", worker[w].todo, worker[w].cur, worker[w].snap)
  <1>1. /\ worker[w].pc \in Holding /\ Goes(w, "prune")
        /\ UNCHANGED <<kind, files, claimed, live, deferring, bounds, observed>>
    BY DEF ExhaustsEntry, At, Holding
  <1>2. /\ worker' = [worker EXCEPT ![w] = r] /\ WorkerOK(r)
        /\ r.cur = c /\ r.todo = worker[w].todo /\ r.pc = "prune" /\ c \in Deliveries
    BY <1>1, GoesFacts DEF Holding
  <1>3. GoesOn(w, r, c)
    BY <1>1, <1>2, WorkerFacts DEF GoesOn, files, bounds, observed
  <1> QED
    BY <1>2, <1>3, GoesOnKeeps

\* The adapter is asked; a message that the platform took is not sent again.
LEMMA ReconcilesUnknownKeeps ==
  ASSUME DeliveryInv, NEW w \in Workers, ReconcilesUnknown(w)
  PROVE  DeliveryInv'
  <1> DEFINE c == Cur(w)
  <1>1. /\ worker[w].pc \in Holding /\ worker[w].pc = "reconcile"
        /\ UNCHANGED <<kind, files, claimed, live, deferring, bounds, observed>>
    BY DEF ReconcilesUnknown, At, Holding
  <1>2. PICK pc \in {"move", "ack", "deliver", "fail"} :
          /\ Goes(w, pc)
          /\ pc = "ack" => accepted[c] > 0
          /\ pc = "deliver" => accepted[c] = 0
    BY DEF ReconcilesUnknown
  <1> DEFINE r == Loop(pc, worker[w].todo, worker[w].cur, worker[w].snap)
  <1>3. /\ worker' = [worker EXCEPT ![w] = r] /\ WorkerOK(r)
        /\ r.cur = c /\ r.todo = worker[w].todo /\ r.pc = pc /\ c \in Deliveries
    BY <1>1, <1>2, GoesFacts DEF Holding
  <1>4. GoesOn(w, r, c)
    BY <1>1, <1>3, WorkerFacts DEF GoesOn, files, bounds, observed
  <1>5. OwnedOnce(c) /\ AckJustified(c)
    BY <1>3, GoodParts
  <1>6. live[c].pc # "send"
    BY <1>5 DEF OwnedOnce, LiveHolds
  <1>7. Traceable(c) => pc # "deliver"
    BY <1>2, <1>5, <1>6 DEF AckJustified, Traceable
  <1>8. accepted' = accepted
    BY <1>1 DEF observed
  <1>9. /\ r.pc = "ack" => accepted'[c] > 0
        /\ Traceable(c) => r.pc # "deliver" /\ (r.pc = "failing" => r.snap.recoveryState # "none")
    BY <1>2, <1>3, <1>7, <1>8
  <1> HIDE DEF r
  <1> QED
    BY <1>4, <1>9, GoesOnKeeps

\* A replay ends in an ack only with an outcome, or under bestEffort.
LEMMA DeliversKeeps ==
  ASSUME DeliveryInv, NEW w \in Workers, Delivers(w)
  PROVE  DeliveryInv'
  <1> DEFINE c == Cur(w)
  <1>1. /\ worker[w].pc \in Holding /\ worker[w].pc = "deliver"
        /\ UNCHANGED <<kind, files, claimed, live, deferring, bounds, intended, liveSent, overwritten>>
    BY DEF Delivers, At, Holding
  <1>2. PICK taken \in BOOLEAN, answer \in {"ok", "error", "permanent", "nothing"} :
          /\ answer = "ok" => taken
          /\ answer = "nothing" => ~taken
          /\ IF taken THEN Accepts(c) ELSE UNCHANGED accepted
          /\ withdrawn' = IF answer = "nothing" THEN withdrawn \cup {c} ELSE withdrawn
          /\ \/ answer \in {"ok", "nothing"} /\ Goes(w, "ack")
             \/ answer = "error" /\ c \in BestEffort /\ Goes(w, "ack")
             \/ answer = "error" /\ Goes(w, "fail")
             \/ answer = "permanent" /\ Goes(w, "move")
    BY Zenon DEF Delivers
  <1>3. PICK pc \in {"move", "ack", "fail"} :
          /\ Goes(w, pc)
          /\ pc = "ack" => taken \/ answer = "nothing" \/ c \in BestEffort
    BY <1>2
  <1> DEFINE r == Loop(pc, worker[w].todo, worker[w].cur, worker[w].snap)
  <1>4. /\ worker' = [worker EXCEPT ![w] = r] /\ WorkerOK(r)
        /\ r.cur = c /\ r.todo = worker[w].todo /\ r.pc = pc /\ c \in Deliveries
    BY <1>1, <1>3, GoesFacts DEF Holding
  <1>5. /\ accepted' \in [Deliveries -> 0..2] /\ accepted'[c] >= accepted[c]
        /\ \A x \in Deliveries : x # c => accepted'[x] = accepted[x]
        /\ taken => accepted'[c] > 0
    BY <1>2, <1>4, WorkerFacts, AcceptsCounts
  <1>6. GoesOn(w, r, c)
    BY <1>1, <1>2, <1>4, <1>5, WorkerFacts DEF GoesOn, files, bounds
  <1>7. r.pc = "ack" /\ "bestEffort" \notin kind[c] => accepted'[c] > 0 \/ c \in withdrawn'
    BY <1>2, <1>3, <1>4, <1>5 DEF BestEffort
  <1>8. r.pc # "deliver" /\ r.pc # "failing"
    BY <1>4
  <1> HIDE DEF r
  <1> QED
    BY <1>6, <1>7, <1>8, GoesOnKeeps

\* The worker removes the file of a delivery with an outcome, or goes on to fail it.
LEMMA AcksKeeps ==
  ASSUME DeliveryInv, NEW w \in Workers, Acks(w)
  PROVE  DeliveryInv'
  <1>c. PICK c : c = Cur(w)
    OBVIOUS
  <1>0. /\ worker[w].pc \in Holding /\ worker[w].pc = "ack"
        /\ UNCHANGED <<kind, failedDir, live, deferring, crashes, overruns, observed>>
    BY <1>c DEF Acks, At, Holding
  <1>1. CASE Remove(c) /\ Releases(w) /\ UNCHANGED faults
    <2> DEFINE r == Loop("next", worker[w].todo, None, None)
    <2>1. /\ worker' = [worker EXCEPT ![w] = r] /\ WorkerOK(r) /\ claimed' = claimed \ {c}
          /\ r.cur = None /\ r.todo = worker[w].todo /\ c \in Deliveries
      BY <1>c, <1>0, <1>1, ReleasesFacts
    <2>2. disk' = [disk EXCEPT ![c] = None] /\ faults' = faults
      BY <1>c, <1>1 DEF Remove
    <2>3. disk' \in [Deliveries -> Entry \cup {None}] /\ disk'[c] = None
          /\ \A x \in Deliveries : x # c => disk'[x] = disk[x]
      BY <2>1, <2>2, WorkerFacts
    <2>4. PutsBack(w, r, c)
      BY <1>c, <1>0, <2>1, <2>2, <2>3, WorkerFacts DEF PutsBack
    <2>5. AckJustified(c)
      BY <1>c, <2>1, GoodParts
    <2>6. Kept(c)'
      BY <1>c, <1>0, <2>5 DEF AckJustified, Kept, observed, Cur
    <2> QED
      BY <2>3, <2>4, <2>6, PutsBackKeeps
  <1>2. CASE Fault /\ Goes(w, "fail") /\ UNCHANGED <<disk, claimed>>
    <2> DEFINE r == Loop("fail", worker[w].todo, worker[w].cur, worker[w].snap)
    <2>1. /\ worker' = [worker EXCEPT ![w] = r] /\ WorkerOK(r)
          /\ r.cur = c /\ r.todo = worker[w].todo /\ r.pc = "fail" /\ c \in Deliveries
      BY <1>c, <1>0, <1>2, GoesFacts DEF Holding
    <2>2. GoesOn(w, r, c)
      BY <1>c, <1>0, <1>2, <2>1, WorkerFacts, FaultCounts DEF GoesOn, observed
    <2> QED
      BY <2>1, <2>2, GoesOnKeeps
  <1> QED
    BY <1>c, <1>1, <1>2 DEF Acks

\* The worker's copy carries the mark.
LEMMA ReadsToFailKeeps ==
  ASSUME DeliveryInv, NEW w \in Workers, ReadsToFail(w)
  PROVE  DeliveryInv'
  <1> DEFINE c == Cur(w)
             r == Loop("failing", worker[w].todo, worker[w].cur, disk[c])
  <1>1. /\ worker[w].pc = "fail" /\ disk[c] # None /\ worker' = [worker EXCEPT ![w] = r]
        /\ UNCHANGED <<kind, files, claimed, live, deferring, bounds, observed>>
    BY DEF ReadsToFail, At
  <1>2. c \in Deliveries /\ c # None /\ disk[c] \in Entry \cup {None}
    BY <1>1, WorkerFacts DEF Holding
  <1>3. WorkerOK(r) /\ r.pc = "failing" /\ r.cur = c /\ r.todo = worker[w].todo /\ r.snap = disk[c]
    BY <1>1, <1>2, WorkerFacts, LoopOK DEF WorkerPCs, Holding, Cur
  <1>4. GoesOn(w, r, c)
    BY <1>1, <1>2, <1>3, WorkerFacts DEF GoesOn, files, bounds, observed
  <1>5. MarkKept(c)
    BY <1>2, GoodParts
  <1>6. Traceable(c) => r.snap.recoveryState # "none"
    BY <1>1, <1>3, <1>5 DEF MarkKept
  <1> HIDE DEF r
  <1> QED
    BY <1>3, <1>4, <1>6, GoesOnKeeps

\* It writes that copy back.
LEMMA FailsKeeps ==
  ASSUME DeliveryInv, NEW w \in Workers, Fails(w)
  PROVE  DeliveryInv'
  <1>c. PICK c : c = Cur(w)
    OBVIOUS
  <1> DEFINE r == Loop("next", worker[w].todo, None, None)
  <1>1. /\ worker[w].pc \in Holding /\ Releases(w)
        /\ UNCHANGED <<kind, failedDir, live, deferring, crashes, overruns, observed>>
    BY <1>c DEF Fails, At, Holding
  <1>2. /\ worker' = [worker EXCEPT ![w] = r] /\ WorkerOK(r) /\ claimed' = claimed \ {c}
        /\ r.cur = None /\ r.todo = worker[w].todo /\ c \in Deliveries
    BY <1>c, <1>1, ReleasesFacts
  <1>3. /\ faults' \in 0..MaxFaults
        /\ \/ disk' = disk
           \/ /\ worker[w].pc = "failing" /\ worker[w].snap \in Entry
              /\ disk' = [disk EXCEPT ![c] = Retried(worker[w].snap)]
    BY <1>c, WorkerFacts, FaultCounts DEF Fails, At, Write
  <1>4. /\ disk' \in [Deliveries -> Entry \cup {None}]
        /\ \A x \in Deliveries : x # c => disk'[x] = disk[x]
        /\ \/ disk'[c] = disk[c]
           \/ /\ worker[w].pc = "failing"
              /\ disk'[c] \in Entry /\ disk'[c].recoveryState = worker[w].snap.recoveryState
    BY <1>c, <1>2, <1>3, WorkerFacts, RetriedIsEntry
  <1>5. PutsBack(w, r, c)
    BY <1>c, <1>1, <1>2, <1>3, <1>4 DEF PutsBack
  <1>6. Kept(c) /\ MarkKept(c) /\ None \notin Entry
    BY <1>c, <1>2, GoodParts, DeliveryAssumption
  <1>7. Kept(c)'
    BY <1>c, <1>1, <1>4, <1>6 DEF Kept, observed
  <1>8. Traceable(c) /\ disk'[c] # None => disk'[c].recoveryState # "none"
    BY <1>c, <1>4, <1>6 DEF MarkKept, Cur
  <1> QED
    BY <1>5, <1>7, <1>8, PutsBackKeeps

\* A delivery that is moved ends up in failed/.
LEMMA MovesToFailedKeeps ==
  ASSUME DeliveryInv, NEW w \in Workers, MovesToFailed(w)
  PROVE  DeliveryInv'
  <1>c. PICK c : c = Cur(w)
    OBVIOUS
  <1> DEFINE r == Loop("next", worker[w].todo, None, None)
  <1>1. /\ worker[w].pc \in Holding /\ Releases(w) /\ disk' = [disk EXCEPT ![c] = None]
        /\ failedDir' = IF disk[c] = None THEN failedDir ELSE failedDir \cup {c}
        /\ UNCHANGED <<kind, live, deferring, bounds, observed>>
    BY <1>c DEF MovesToFailed, Remove, Holding
  <1>2. /\ worker' = [worker EXCEPT ![w] = r] /\ WorkerOK(r) /\ claimed' = claimed \ {c}
        /\ r.cur = None /\ r.todo = worker[w].todo /\ c \in Deliveries
    BY <1>c, <1>1, ReleasesFacts
  <1>3. disk' \in [Deliveries -> Entry \cup {None}] /\ disk'[c] = None
        /\ \A x \in Deliveries : x # c => disk'[x] = disk[x]
    BY <1>c, <1>1, <1>2, WorkerFacts
  <1>4. PutsBack(w, r, c)
    BY <1>c, <1>1, <1>2, <1>3, WorkerFacts DEF PutsBack, bounds
  <1>5. Kept(c)
    BY <1>c, <1>2, GoodParts
  <1>6. Kept(c)'
    BY <1>c, <1>1, <1>5 DEF Kept, observed
  <1> QED
    BY <1>3, <1>4, <1>6, PutsBackKeeps

\* A move that fails leaves the file.
LEMMA MoveFailsKeeps ==
  ASSUME DeliveryInv, NEW w \in Workers, MoveFails(w)
  PROVE  DeliveryInv'
  <1>c. PICK c : c = Cur(w)
    OBVIOUS
  <1>1. /\ worker[w].pc \in Holding /\ faults' \in 0..MaxFaults
        /\ UNCHANGED <<kind, files, live, deferring, crashes, overruns, observed>>
    BY <1>c, WorkerFacts, FaultCounts DEF MoveFails, Holding
  <1>2. c \in Deliveries
    BY <1>c, <1>1, WorkerFacts
  <1>3. PICK r : /\ worker' = [worker EXCEPT ![w] = r] /\ WorkerOK(r) /\ claimed' = claimed \ {c}
                 /\ r.cur = None /\ r.todo \subseteq worker[w].todo
    <2>1. CASE At(w, "prune") /\ w # Recovery
      <3>1. WorkerOK(Idle) /\ Idle.cur = None /\ Idle.todo = {}
        BY <1>c, LoopOK DEF Idle, WorkerPCs, Holding
      <3> QED
        BY <1>c, <2>1, <3>1 DEF MoveFails
    <2>2. CASE ~(At(w, "prune") /\ w # Recovery)
      <3>1. Releases(w)
        BY <1>c, <2>2 DEF MoveFails
      <3> QED
        BY <1>c, <1>1, <3>1, ReleasesFacts
    <2> QED
      BY <2>1, <2>2
  <1>4. PutsBack(w, r, c)
    BY <1>c, <1>1, <1>2, <1>3, WorkerFacts DEF PutsBack, files
  <1>5. Kept(c) /\ MarkKept(c)
    BY <1>c, <1>2, GoodParts
  <1>6. Kept(c)' /\ (Traceable(c) /\ disk'[c] # None => disk'[c].recoveryState # "none")
    BY <1>c, <1>1, <1>5 DEF Kept, MarkKept, files, observed
  <1> QED
    BY <1>4, <1>6, PutsBackKeeps

-----------------------------------------------------------------------------
(***************************************************************************)
(* The unclaimed writes of the budget path, and crashes.                   *)
(***************************************************************************)

\* The recovery gives up its list; only deliveries with a file are on it.
LEMMA BudgetEndsKeeps ==
  ASSUME DeliveryInv, BudgetEnds
  PROVE  DeliveryInv'
  <1> DEFINE r == Loop("over", {}, worker[Recovery].cur, worker[Recovery].snap)
  <1>1. /\ worker[Recovery].pc = "next" /\ worker' = [worker EXCEPT ![Recovery] = r]
        /\ deferring' = [e \in Deliveries |-> IF e \in worker[Recovery].todo THEN [pc |-> "unread", snap |-> None]
                                              ELSE deferring[e]]
        /\ overruns' \in 0..MaxOverruns
        /\ UNCHANGED <<kind, files, claimed, live, crashes, faults, observed>>
    BY DeliveryAssumption DEF BudgetEnds, At, DeliveryInv, Shape, TypeOK
  <1>2. Recovery \in Workers
    BY DEF Workers
  <1>3. worker[Recovery].cur = None /\ WorkerOK(r) /\ r.pc = "over" /\ r.todo = {} /\ r.cur = None
    BY <1>1, <1>2, WorkerFacts, LoopOK DEF WorkerPCs, Holding, Cur
  <1>4. /\ worker'[Recovery] = r /\ worker' \in [Workers -> WorkerStates]
        /\ \A v \in Workers \ {Recovery} : worker'[v] = worker[v]
    BY <1>1, <1>2, <1>3, WorkerFacts DEF WorkerOK
  <1>5. \A e \in Deliveries :
            deferring'[e] = IF e \in worker[Recovery].todo THEN [pc |-> "unread", snap |-> None] ELSE deferring[e]
    BY <1>1
  <1>6. deferring' \in [Deliveries -> [pc : {"no", "unread", "read"}, snap : Entry \cup {None}]]
    BY <1>1 DEF DeliveryInv, Shape, TypeOK
  <1>7. TypeOK'
    BY <1>1, <1>4, <1>6 DEF DeliveryInv, Shape, TypeOK, WorkerStates, files, observed
  <1>8. Shape'
    BY <1>1, <1>3, <1>4, <1>5, <1>7 DEF DeliveryInv, Shape, DeferOK
  <1>9. ASSUME NEW e \in Deliveries PROVE Good(e)'
    <2>1. OwnedOnce(e) /\ Untouched(e) /\ AckJustified(e) /\ Kept(e) /\ MarkKept(e)
      BY GoodParts
    <2>2. /\ kind' = kind /\ disk' = disk /\ failedDir' = failedDir /\ claimed' = claimed /\ live' = live
          /\ intended' = intended /\ liveSent' = liveSent /\ overwritten' = overwritten
          /\ accepted' = accepted /\ withdrawn' = withdrawn
      BY <1>1 DEF files, observed
    <2>3. \A v \in Workers : worker'[v].cur = worker[v].cur /\ worker'[v].todo \subseteq worker[v].todo
      BY <1>2, <1>3, <1>4
    <2>4. e # None
      BY DeliveryAssumption
    <2>5. \A v \in Workers : worker[v].cur = e => worker'[v] = worker[v]
      BY <1>3, <1>4, <2>4
    <2>6. OwnedOnce(e)'
      BY <2>1, <2>2, <2>3 DEF OwnedOnce, LiveHolds, Cur
    <2>7. Untouched(e)'
      BY <1>2, <1>5, <2>1, <2>2, <2>3 DEF Untouched, Cur
    <2>8. AckJustified(e)'
      BY <2>1, <2>2, <2>3, <2>5 DEF AckJustified, Cur
    <2>9. Kept(e)'
      BY <2>1, <2>2 DEF Kept
    <2>10. MarkKept(e)'
      BY <2>1, <2>2, <2>3, <2>5 DEF MarkKept, Traceable, Cur
    <2> QED
      BY <2>6, <2>7, <2>8, <2>9, <2>10 DEF Good
  <1> QED
    BY <1>8, <1>9 DEF DeliveryInv

\* An unclaimed call of failDelivery touches its own delivery only.
DeferStep(e, r) ==
    /\ r \in [pc : {"no", "unread", "read"}, snap : Entry \cup {None}] /\ DeferOK(r)
    /\ deferring' = [deferring EXCEPT ![e] = r]
    /\ disk' \in [Deliveries -> Entry \cup {None}] /\ overwritten' \subseteq Deliveries
    /\ \A x \in Deliveries : x # e => disk'[x] = disk[x] /\ (x \in overwritten' <=> x \in overwritten)
    /\ UNCHANGED <<kind, failedDir, claimed, live, worker, bounds, intended, accepted, liveSent, withdrawn>>

\* So the invariant is kept when that delivery is left in order.
LEMMA DeferStepKeeps ==
  ASSUME DeliveryInv, NEW e \in Deliveries, NEW r, DeferStep(e, r), Good(e)'
  PROVE  DeliveryInv'
  <1>1. /\ deferring' \in [Deliveries -> [pc : {"no", "unread", "read"}, snap : Entry \cup {None}]]
        /\ deferring'[e] = r /\ \A x \in Deliveries \ {e} : deferring'[x] = deferring[x]
    BY DEF DeferStep, DeliveryInv, Shape, TypeOK
  <1>2. TypeOK'
    BY <1>1 DEF DeferStep, DeliveryInv, Shape, TypeOK, bounds
  <1>3. Shape'
    BY <1>1, <1>2 DEF DeferStep, DeliveryInv, Shape
  <1>4. ASSUME NEW x \in Deliveries, x # e PROVE Good(x)'
    <2>1. OwnedOnce(x) /\ Untouched(x) /\ AckJustified(x) /\ Kept(x) /\ MarkKept(x)
      BY GoodParts
    <2>2. /\ disk'[x] = disk[x] /\ (x \in overwritten' <=> x \in overwritten) /\ deferring'[x] = deferring[x]
          /\ kind' = kind /\ failedDir' = failedDir /\ claimed' = claimed /\ live' = live /\ worker' = worker
          /\ intended' = intended /\ liveSent' = liveSent /\ accepted' = accepted /\ withdrawn' = withdrawn
      BY <1>1, <1>4 DEF DeferStep
    <2> QED
      BY <2>1, <2>2
      DEF Good, OwnedOnce, Untouched, AckJustified, Kept, MarkKept, Traceable, LiveHolds, Cur
  <1> QED
    BY <1>3, <1>4 DEF DeliveryInv

\* The copy is taken without a claim.
LEMMA DeferReadsKeeps ==
  ASSUME DeliveryInv, NEW e \in Deliveries, DeferReads(e)
  PROVE  DeliveryInv'
  <1> DEFINE r == IF disk[e] = None THEN NotDeferring ELSE [pc |-> "read", snap |-> disk[e]]
  <1>1. /\ deferring[e].pc = "unread" /\ deferring' = [deferring EXCEPT ![e] = r]
        /\ UNCHANGED <<kind, files, claimed, live, worker, bounds, observed>>
    BY DEF DeferReads
  <1>2. r \in [pc : {"no", "unread", "read"}, snap : Entry \cup {None}] /\ DeferOK(r)
    BY Facts DEF NotDeferring, DeferOK
  <1>3. DeferStep(e, r)
    BY <1>1, <1>2, Facts DEF DeferStep, DeliveryInv, Shape, TypeOK, files, observed
  <1>4. OwnedOnce(e) /\ Untouched(e) /\ AckJustified(e) /\ Kept(e) /\ MarkKept(e)
    BY GoodParts
  <1>5. /\ e \in intended
        /\ kind' = kind /\ disk' = disk /\ failedDir' = failedDir /\ claimed' = claimed /\ live' = live
        /\ worker' = worker /\ intended' = intended /\ liveSent' = liveSent /\ accepted' = accepted
        /\ withdrawn' = withdrawn /\ overwritten' = overwritten
    BY <1>1, <1>4 DEF Untouched, files, observed
  <1>6. Good(e)'
    BY <1>4, <1>5
    DEF Good, OwnedOnce, Untouched, AckJustified, Kept, MarkKept, Traceable, LiveHolds, Cur
  <1> QED
    BY <1>3, <1>6, DeferStepKeeps

\* The write puts back what was read, or the delivery counts as overwritten.
LEMMA DeferWritesKeeps ==
  ASSUME DeliveryInv, NEW e \in Deliveries, DeferWrites(e)
  PROVE  DeliveryInv'
  <1> DEFINE old == deferring[e].snap
  <1>1. /\ deferring[e].pc = "read" /\ disk' = [disk EXCEPT ![e] = Retried(old)]
        /\ deferring' = [deferring EXCEPT ![e] = NotDeferring]
        /\ overwritten' = IF disk[e] = old THEN overwritten ELSE overwritten \cup {e}
        /\ UNCHANGED <<kind, failedDir, claimed, live, worker, bounds, intended, accepted, liveSent, withdrawn>>
    BY DEF DeferWrites, Write
  <1>2. old \in Entry
    BY <1>1 DEF DeliveryInv, Shape, TypeOK, DeferOK
  <1>3. NotDeferring \in [pc : {"no", "unread", "read"}, snap : Entry \cup {None}] /\ DeferOK(NotDeferring)
    BY DEF NotDeferring, DeferOK
  <1>4. /\ disk' \in [Deliveries -> Entry \cup {None}] /\ \A x \in Deliveries : x # e => disk'[x] = disk[x]
        /\ disk'[e] \in Entry /\ disk'[e].recoveryState = old.recoveryState
    BY <1>1, <1>2, Facts, RetriedIsEntry
  <1>5. DeferStep(e, NotDeferring)
    BY <1>1, <1>3, <1>4 DEF DeferStep, DeliveryInv, Shape, TypeOK
  <1>6. OwnedOnce(e) /\ Untouched(e) /\ AckJustified(e) /\ Kept(e) /\ MarkKept(e) /\ None \notin Entry
    BY GoodParts, DeliveryAssumption
  <1>7. /\ e \in intended /\ (e \notin overwritten' => disk[e] = old /\ e \notin overwritten)
        /\ kind' = kind /\ failedDir' = failedDir /\ claimed' = claimed /\ live' = live
        /\ worker' = worker /\ intended' = intended /\ liveSent' = liveSent /\ accepted' = accepted
        /\ withdrawn' = withdrawn
    BY <1>1, <1>6 DEF Untouched
  <1>8. Good(e)'
    <2>1. OwnedOnce(e)' /\ Untouched(e)' /\ AckJustified(e)'
      BY <1>6, <1>7 DEF OwnedOnce, Untouched, AckJustified, LiveHolds, Cur
    <2>2. Kept(e)'
      BY <1>4, <1>6 DEF Kept
    <2>3. MarkKept(e)'
      BY <1>2, <1>4, <1>6, <1>7 DEF MarkKept, Traceable, Cur
    <2> QED
      BY <2>1, <2>2, <2>3 DEF Good
  <1> QED
    BY <1>5, <1>8, DeferStepKeeps

\* Only the files survive a crash; what they say is enough.
LEMMA CrashKeeps ==
  ASSUME DeliveryInv, Crash
  PROVE  DeliveryInv'
  <1>1. /\ claimed' = {} /\ worker' = [w \in Workers |-> Idle]
        /\ live' = [e \in Deliveries |-> IF LiveAt(e, "new") THEN live[e] ELSE Call("done", None, FALSE)]
        /\ deferring' = [e \in Deliveries |-> NotDeferring]
        /\ crashes' \in 0..MaxCrashes
        /\ UNCHANGED <<kind, files, faults, overruns, observed>>
    BY DeliveryAssumption DEF Crash, DeliveryInv, Shape, TypeOK
  <1>2. WorkerOK(Idle) /\ Idle.cur = None /\ Idle.todo = {} /\ Idle.pc = "ready"
    BY LoopOK DEF Idle, WorkerPCs, Holding
  <1>3. LiveOK(Call("done", None, FALSE)) /\ Call("done", None, FALSE).pc = "done"
    BY CallOK DEF LivePCs, Call
  <1>4. \A e \in Deliveries : LiveOK(live'[e]) /\ live'[e].pc \in {"new", "done"}
                              /\ (live'[e].pc = "new" => live[e].pc = "new")
    BY <1>1, <1>3 DEF DeliveryInv, Shape, LiveAt
  <1>5. live' \in [Deliveries -> LiveStates] /\ worker' \in [Workers -> WorkerStates]
    BY <1>1, <1>2, <1>4 DEF LiveOK, WorkerOK
  <1>6. \A e \in Deliveries : deferring'[e] = NotDeferring
    BY <1>1
  <1>7. TypeOK'
    BY <1>1, <1>5 DEF DeliveryInv, Shape, TypeOK, LiveStates, WorkerStates, NotDeferring, files, observed
  <1>8. Shape'
    BY <1>1, <1>2, <1>4, <1>6, <1>7 DEF Shape, DeferOK, NotDeferring
  <1>9. ASSUME NEW e \in Deliveries PROVE Good(e)'
    <2>1. OwnedOnce(e) /\ Untouched(e) /\ AckJustified(e) /\ Kept(e) /\ MarkKept(e) /\ e # None
      BY GoodParts, DeliveryAssumption
    <2>2. /\ kind' = kind /\ disk' = disk /\ failedDir' = failedDir /\ claimed' = {}
          /\ intended' = intended /\ liveSent' = liveSent /\ overwritten' = overwritten
          /\ accepted' = accepted /\ withdrawn' = withdrawn
          /\ deferring'[e].pc = "no"
          /\ \A w \in Workers : worker'[w].cur = None /\ worker'[w].todo = {} 
      BY <1>1, <1>2 DEF files, observed, NotDeferring
    <2>3. OwnedOnce(e)'
      BY <1>4, <2>1, <2>2 DEF OwnedOnce, LiveHolds, Cur
    <2>4. Untouched(e)'
      BY <1>4, <2>1, <2>2 DEF Untouched, Cur
    <2>5. AckJustified(e)'
      BY <1>4, <2>1, <2>2 DEF AckJustified, Cur
    <2>6. Kept(e)'
      BY <2>1, <2>2 DEF Kept
    <2>7. MarkKept(e)'
      BY <1>4, <2>1, <2>2 DEF MarkKept, Traceable, Cur
    <2> QED
      BY <2>3, <2>4, <2>5, <2>6, <2>7 DEF Good
  <1> QED
    BY <1>8, <1>9 DEF DeliveryInv

-----------------------------------------------------------------------------
(***************************************************************************)
(* The invariant, and what follows from it.                                *)
(***************************************************************************)

\* Every step keeps the invariant.
LEMMA StepKeeps == DeliveryInv /\ [Next]_vars => DeliveryInv'
  <1> SUFFICES ASSUME DeliveryInv, [Next]_vars PROVE DeliveryInv'
    OBVIOUS
  <1>1. ASSUME NEW e \in Deliveries, LiveEnqueues(e) \/ LiveEnqueueFails(e) \/ LiveContinues(e)
        PROVE  DeliveryInv'
    BY <1>1, LiveEnqueuesKeeps, LiveEnqueueFailsKeeps, LiveClaimsKeeps, LiveWithdrawsKeeps, LiveErrsEarlyKeeps,
       LiveReadsToMarkKeeps, LiveMarksKeeps, LiveMarkFailsKeeps, LivePlatformAnswersKeeps,
       LiveReadsToCommitKeeps, LiveCommitsKeeps, LiveSkipsCommitKeeps, LiveCommitFailsKeeps, LiveAcksKeeps,
       LiveReadsToFailKeeps, LiveFailsKeeps
    DEF LiveContinues
  <1>2. ASSUME NEW w \in Workers, WorkerContinues(w)
        PROVE  DeliveryInv'
    BY <1>2, LoadsPendingKeeps, LoopEndsKeeps, PicksKeeps, SkipsEntryKeeps, TakesEntryKeeps, ExhaustsEntryKeeps,
       ReconcilesUnknownKeeps, DeliversKeeps, AcksKeeps, ReadsToFailKeeps, FailsKeeps, MovesToFailedKeeps,
       MoveFailsKeeps
    DEF WorkerContinues
  <1>3. CASE UNCHANGED vars
    <2>1. /\ kind' = kind /\ disk' = disk /\ failedDir' = failedDir /\ claimed' = claimed /\ live' = live
          /\ worker' = worker /\ deferring' = deferring
          /\ crashes' = crashes /\ faults' = faults /\ overruns' = overruns
          /\ intended' = intended /\ accepted' = accepted /\ liveSent' = liveSent /\ withdrawn' = withdrawn
          /\ overwritten' = overwritten
      BY <1>3 DEF vars, files, bounds, observed
    <2>2. Shape'
      BY <2>1 DEF DeliveryInv, Shape, TypeOK
    <2>3. ASSUME NEW e \in Deliveries PROVE Good(e)'
      BY <2>1, GoodParts
      DEF Good, OwnedOnce, Untouched, AckJustified, Kept, MarkKept, Traceable, LiveHolds, Cur
    <2> QED
      BY <2>2, <2>3 DEF DeliveryInv
  <1> QED
    BY <1>1, <1>2, <1>3, BudgetEndsKeeps, DeferReadsKeeps, DeferWritesKeeps, CrashKeeps DEF Next

\* The invariant holds in every state the queue, its sender and its workers reach.
THEOREM DeliveryInvariant == Spec => []DeliveryInv
  BY InitGood, StepKeeps, PTL DEF Spec

\* The queue's state keeps its shape: files hold entries, a claim is of a delivery,
\* and no counter leaves its bound.
THEOREM DeliveryTypes == Spec => []TypeOK
  <1>1. DeliveryInv => TypeOK
    BY DEF DeliveryInv, Shape
  <1> QED
    BY <1>1, DeliveryInvariant, PTL

\* entriesInProgress names exactly the entries that a live send, the recovery or a
\* drain is working on, and no two of them work on the same one.
THEOREM OwnersExclusive == Spec => []OneOwner
  <1>1. DeliveryInv => OneOwner
    <2> SUFFICES ASSUME DeliveryInv PROVE OneOwner
      OBVIOUS
    <2>1. \A e \in Deliveries : OwnedOnce(e)
      BY GoodParts
    <2>2. /\ claimed \subseteq Deliveries
          /\ \A w \in Workers : Cur(w) \in Deliveries \cup {None}
          /\ None \notin Deliveries
      BY DeliveryAssumption, WorkerFacts DEF DeliveryInv, Shape, TypeOK
    <2>3. claimed = {e \in Deliveries : LiveHolds(e)} \cup ({Cur(w) : w \in Workers} \ {None})
      BY <2>1, <2>2 DEF OwnedOnce
    <2>4. ASSUME NEW w \in Workers, Cur(w) # None
          PROVE  ~LiveHolds(Cur(w)) /\ \A v \in Workers \ {w} : Cur(v) # Cur(w)
      BY <2>1, <2>2, <2>4 DEF OwnedOnce
    <2> QED
      BY <2>3, <2>4 DEF OneOwner
  <1> QED
    BY <1>1, DeliveryInvariant, PTL

\* An intended delivery whose payload errors throw is on disk, on the platform, in
\* failed/ or withdrawn, whatever crashes and file errors happen.
ThrowingKept ==
    \A e \in intended \ BestEffort : disk[e] # None \/ accepted[e] > 0 \/ e \in failedDir \cup withdrawn

\* No crash, file error or race makes the queue drop a delivery whose errors throw.
THEOREM ThrowingNeverLost == Spec => []ThrowingKept
  <1>1. DeliveryInv => ThrowingKept
    BY GoodParts DEF ThrowingKept, Kept, BestEffort, DeliveryInv, Shape, TypeOK
  <1> QED
    BY <1>1, DeliveryInvariant, PTL

\* The kinds of calls without bestEffort.
Throwing == \A k \in Kinds : "bestEffort" \notin k

\* Where no call asks for bestEffort, no intended delivery is ever lost.
THEOREM IntentsNeverLost == ASSUME Throwing PROVE Spec => []NothingLost
  <1>1. DeliveryInv => NothingLost
    <2> SUFFICES ASSUME DeliveryInv, NEW e \in intended
                 PROVE  disk[e] # None \/ accepted[e] > 0 \/ e \in failedDir \cup withdrawn
      BY DEF NothingLost
    <2>1. e \in Deliveries /\ kind[e] \in Kinds
      BY DEF DeliveryInv, Shape, TypeOK
    <2>2. Kept(e)
      BY <2>1, GoodParts
    <2> QED
      BY <2>1, <2>2 DEF Throwing, Kept
  <1> QED
    BY <1>1, DeliveryInvariant, PTL

\* Recovery and drains do not send again what a required live send brought to the
\* platform, unless an unclaimed write of the budget path erased the mark.
THEOREM LiveSendsTraced == Spec => []LiveSendNotReplayed
  <1>1. DeliveryInv => LiveSendNotReplayed
    <2> SUFFICES ASSUME DeliveryInv, NEW w \in Workers, At(w, "deliver"),
                        Cur(w) \in (liveSent \cap Required) \ overwritten
                 PROVE  FALSE
      BY DEF LiveSendNotReplayed
    <2>1. MarkKept(Cur(w)) /\ Traceable(Cur(w))
      BY GoodParts DEF Required, Traceable
    <2> QED
      BY <2>1 DEF MarkKept, At
  <1> QED
    BY <1>1, DeliveryInvariant, PTL

-----------------------------------------------------------------------------
(***************************************************************************)
(* The queue implements the safety part of DurableDelivery: every step is a *)
(* step of at most one intent, which never goes back to open, never is     *)
(* lost, and stays delivered once it is.                                   *)
(***************************************************************************)

\* Nothing that an abstract intent is made of changes for x.
SameFor(x) ==
    /\ x \in intended' <=> x \in intended
    /\ x \in withdrawn' <=> x \in withdrawn
    /\ x \in failedDir' <=> x \in failedDir
    /\ accepted'[x] = accepted[x] /\ disk'[x] = disk[x]

\* The step is about delivery e, and outcomes accumulate.
About(e) ==
    /\ \A x \in Deliveries : x # e => SameFor(x)
    /\ e \in intended => e \in intended'
    /\ e \in withdrawn => e \in withdrawn'
    /\ e \in failedDir => e \in failedDir'
    /\ accepted'[e] >= accepted[e]
    /\ e \notin intended /\ e \in intended' =>
          disk'[e] # None /\ accepted'[e] = 0 /\ e \notin withdrawn' /\ e \notin failedDir'

\* Most steps change no file and no outcome.
LEMMA QuietIsAbout ==
  ASSUME NEW e \in Deliveries, accepted \in [Deliveries -> 0..2], UNCHANGED <<files, observed>>
  PROVE  About(e)
  BY DEF About, SameFor, files, observed

\* A step of a live call is about its own delivery.
LEMMA LiveIsAbout ==
  ASSUME DeliveryInv, NEW e \in Deliveries, LiveEnqueues(e) \/ LiveEnqueueFails(e) \/ LiveContinues(e)
  PROVE  About(e)
  <1>0. /\ accepted \in [Deliveries -> 0..2] /\ disk \in [Deliveries -> Entry \cup {None}]
        /\ Fresh # None /\ Untouched(e)
    BY Facts, GoodParts, FreshIsEntry, DeliveryAssumption
  <1>1. CASE LiveEnqueues(e)
    BY <1>0, <1>1 DEF LiveEnqueues, LiveAt, Write, Untouched, About, SameFor
  <1>2. CASE LiveEnqueueFails(e)
    <2>1. /\ accepted'[e] >= accepted[e]
          /\ \A x \in Deliveries : x # e => accepted'[x] = accepted[x]
      BY <1>0, <1>2, AcceptsCounts DEF LiveEnqueueFails
    <2> QED
      BY <1>2, <2>1 DEF LiveEnqueueFails, About, SameFor, files
  <1>3. CASE LivePlatformAnswers(e)
    <2>1. /\ accepted'[e] >= accepted[e]
          /\ \A x \in Deliveries : x # e => accepted'[x] = accepted[x]
          /\ withdrawn' \in {withdrawn, withdrawn \cup {e}}
      BY <1>0, <1>3, AcceptsCounts DEF LivePlatformAnswers
    <2> QED
      BY <1>3, <2>1 DEF LivePlatformAnswers, About, SameFor, files
  <1>4. CASE LiveWithdraws(e)
    BY <1>0, <1>4 DEF LiveWithdraws, About, SameFor, files
  <1>5. CASE LiveMarks(e) \/ LiveCommits(e) \/ LiveAcks(e) \/ LiveFails(e)
    <2>1. /\ \A x \in Deliveries : x # e => disk'[x] = disk[x]
          /\ failedDir' = failedDir /\ observed' = observed
      BY <1>0, <1>5 DEF LiveMarks, LiveCommits, LiveAcks, LiveFails, Write, Remove
    <2> QED
      BY <1>0, <2>1 DEF About, SameFor, observed
  <1>6. CASE UNCHANGED <<files, observed>>
    BY <1>0, <1>6, QuietIsAbout
  <1> QED
    BY <1>1, <1>2, <1>3, <1>4, <1>5, <1>6
    DEF LiveContinues, LiveClaims, LiveErrsEarly, LiveReadsToMark, LiveMarkFails, LiveReadsToCommit,
        LiveSkipsCommit, LiveCommitFails, LiveReadsToFail

\* A step of a worker is about the entry in its hands, or changes no outcome.
LEMMA WorkerIsAbout ==
  ASSUME DeliveryInv, NEW w \in Workers, WorkerContinues(w)
  PROVE  \/ UNCHANGED <<files, observed>>
         \/ \E e \in Deliveries : About(e)
  <1>0. /\ accepted \in [Deliveries -> 0..2] /\ disk \in [Deliveries -> Entry \cup {None}]
        /\ worker[w].pc \in Holding => Cur(w) \in Deliveries
    BY WorkerFacts
  <1>1. CASE Delivers(w)
    <2>1. PICK e \in Deliveries : e = Cur(w)
      BY <1>0, <1>1 DEF Delivers, At, Holding
    <2>2. /\ accepted'[e] >= accepted[e]
          /\ \A x \in Deliveries : x # e => accepted'[x] = accepted[x]
          /\ withdrawn' \in {withdrawn, withdrawn \cup {e}}
      BY <1>0, <1>1, <2>1, AcceptsCounts DEF Delivers
    <2>3. About(e)
      BY <1>1, <2>2 DEF Delivers, About, SameFor, files
    <2> QED
      BY <2>3
  <1>2. CASE Acks(w) \/ Fails(w) \/ MovesToFailed(w)
    <2>1. PICK e \in Deliveries : e = Cur(w)
      BY <1>0, <1>2 DEF Acks, Fails, MovesToFailed, At, Holding
    <2>2. /\ \A x \in Deliveries : x # e => disk'[x] = disk[x]
          /\ failedDir' \in {failedDir, failedDir \cup {e}} /\ observed' = observed
      BY <1>0, <1>2, <2>1 DEF Acks, Fails, MovesToFailed, Write, Remove
    <2>3. About(e)
      BY <1>0, <2>2 DEF About, SameFor, observed
    <2> QED
      BY <2>3
  <1> QED
    BY <1>1, <1>2
    DEF WorkerContinues, LoadsPending, LoopEnds, Picks, SkipsEntry, TakesEntry, ExhaustsEntry, ReconcilesUnknown,
        ReadsToFail, MoveFails

\* So is every step of the queue.
LEMMA StepIsAbout ==
  ASSUME DeliveryInv, [Next]_vars
  PROVE  \/ UNCHANGED <<files, observed>>
         \/ \E e \in Deliveries : About(e)
  <1>1. ASSUME NEW e \in Deliveries, DeferWrites(e)
        PROVE  About(e)
    <2>1. accepted \in [Deliveries -> 0..2] /\ disk \in [Deliveries -> Entry \cup {None}]
      BY Facts
    <2> QED
      BY <1>1, <2>1 DEF DeferWrites, Write, About, SameFor
  <1>2. CASE BudgetEnds \/ Crash \/ UNCHANGED vars \/ \E e \in Deliveries : DeferReads(e)
    BY <1>2 DEF BudgetEnds, Crash, DeferReads, vars
  <1> QED
    BY <1>1, <1>2, LiveIsAbout, WorkerIsAbout DEF Next

\* What the mapping says of one delivery, when none is lost.
ReadAs(e) ==
    /\ intentOf[e] = "none" <=> e \notin intended
    /\ intentOf[e] = "delivered" <=> e \in intended /\ accepted[e] > 0
    /\ intentOf[e] = "withdrawn" <=> e \in intended /\ accepted[e] = 0 /\ e \in withdrawn
    /\ intentOf[e] = "failed" <=> e \in intended /\ accepted[e] = 0 /\ e \notin withdrawn /\ e \in failedDir
    /\ intentOf[e] = "open" <=> e \in intended /\ accepted[e] = 0 /\ e \notin withdrawn /\ e \notin failedDir
    /\ intentOf[e] \in {"none", "open", "delivered", "withdrawn", "failed"}

\* The mapping, case by case.
LEMMA IntentsRead ==
  ASSUME NEW e \in Deliveries, accepted[e] \in Nat,
         e \in intended => disk[e] # None \/ accepted[e] > 0 \/ e \in failedDir \/ e \in withdrawn
  PROVE  ReadAs(e)
  <1>1. intentOf[e] =
          CASE e \notin intended -> "none"
            [] e \in intended /\ accepted[e] > 0 -> "delivered"
            [] e \in intended /\ accepted[e] = 0 /\ e \in withdrawn -> "withdrawn"
            [] e \in intended /\ accepted[e] = 0 /\ e \in failedDir \ withdrawn -> "failed"
            [] OTHER -> IF disk[e] = None THEN "lost" ELSE "open"
    BY DEF intentOf
  <1> QED
    BY <1>1 DEF ReadAs

\* No delivery is mapped to lost where errors throw.
LEMMA ReadableIntents ==
  ASSUME Throwing, DeliveryInv
  PROVE  \A e \in Deliveries : ReadAs(e)
  <1> SUFFICES ASSUME NEW e \in Deliveries PROVE ReadAs(e)
    OBVIOUS
  <1>1. Kept(e) /\ accepted[e] \in Nat /\ kind[e] \in Kinds
    BY GoodParts DEF DeliveryInv, Shape, TypeOK
  <1> QED
    BY <1>1, IntentsRead DEF Throwing, Kept

\* A step about one delivery is a step of the abstract specification.
LEMMA AboutRefines ==
  ASSUME NEW e \in Deliveries, About(e), ReadAs(e), ReadAs(e)',
         accepted[e] \in Nat, accepted'[e] \in Nat
  PROVE  [Abstract!Next]_intentOf
  <1>1. ASSUME NEW x \in Deliveries, x # e PROVE intentOf'[x] = intentOf[x]
    BY <1>1 DEF About, SameFor, intentOf
  <1>2. intentOf' = [intentOf EXCEPT ![e] = intentOf'[e]]
    <2>1. /\ intentOf = [x \in Deliveries |-> intentOf[x]]
          /\ intentOf' = [x \in Deliveries |-> intentOf'[x]]
      BY DEF intentOf
    <2> QED
      BY <1>1, <2>1
  <1>3. CASE intentOf'[e] = intentOf[e]
    BY <1>1, <1>3 DEF intentOf
  <1>4. CASE intentOf'[e] # intentOf[e]
    <2>1. \/ intentOf[e] = "none" /\ intentOf'[e] = "open"
          \/ /\ intentOf[e] \in {"open", "failed", "withdrawn"}
             /\ intentOf'[e] \in {"delivered", "failed", "withdrawn"}
      BY <1>4 DEF About, ReadAs
    <2>2. CASE intentOf[e] = "none"
      BY <1>2, <2>1, <2>2 DEF Abstract!Next, Abstract!Intend
    <2>3. CASE intentOf[e] = "open"
      BY <1>2, <2>1, <2>3 DEF Abstract!Next, Abstract!Settle, Abstract!Outcomes
    <2>4. CASE intentOf[e] \in {"failed", "withdrawn"}
      BY <1>2, <2>1, <2>4 DEF Abstract!Next, Abstract!Revise, Abstract!Outcomes
    <2> QED
      BY <2>1, <2>2, <2>3, <2>4
  <1> QED
    BY <1>3, <1>4

\* Where no call asks for bestEffort, the queue implements the safety part of
\* DurableDelivery: an intent is open while its file exists, it ends as delivered,
\* set aside or withdrawn and in no other way, and a delivered one is final.
THEOREM RefinesDurableDelivery ==
  ASSUME Throwing
  PROVE  Spec => Abstract!SafeSpec
  <1>1. Init => Abstract!Init
    BY DEF Init, Abstract!Init, intentOf
  <1>2. DeliveryInv => \A e \in Deliveries : ReadAs(e) /\ accepted[e] \in Nat
    BY ReadableIntents DEF DeliveryInv, Shape, TypeOK
  <1>3. /\ DeliveryInv /\ [Next]_vars
        /\ \A e \in Deliveries : ReadAs(e) /\ accepted[e] \in Nat
        /\ (\A e \in Deliveries : ReadAs(e) /\ accepted[e] \in Nat)'
        => [Abstract!Next]_intentOf
    <2> SUFFICES ASSUME DeliveryInv, [Next]_vars,
                        \A e \in Deliveries : ReadAs(e) /\ accepted[e] \in Nat,
                        (\A e \in Deliveries : ReadAs(e) /\ accepted[e] \in Nat)'
                 PROVE  [Abstract!Next]_intentOf
      OBVIOUS
    <2>1. CASE UNCHANGED <<files, observed>>
      BY <2>1 DEF intentOf, files, observed
    <2>2. CASE \E e \in Deliveries : About(e)
      BY <2>2, AboutRefines
    <2> QED
      BY <2>1, <2>2, StepIsAbout
  <1> QED
    BY <1>1, <1>2, <1>3, DeliveryInvariant, PTL DEF Spec, Abstract!SafeSpec
=============================================================================
