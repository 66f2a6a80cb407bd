------------------------ MODULE ExecApprovalsProofs ------------------------
(***************************************************************************)
(* Proofs about exec approvals, for any set of ids and requests.           *)
(***************************************************************************)
EXTENDS ExecApprovals, TLAPS

(***************************************************************************)
(* The inductive invariant has a part about one entry, with the number n   *)
(* of its runs, and a part about the map.                                  *)
(***************************************************************************)
Remembers(e) ==
    e.promise \in Decisions =>
        e.promise = (IF e.decision = "undefined" THEN e.consumedDecision ELSE e.decision)

EntryOK(e, n) ==
    /\ e \in ApprovalEntries /\ n \in Nat
    /\ e.resolved <=> e.promise # "unsettled"
    /\ Remembers(e)
    /\ e.promise \notin Decisions => e.decision = "undefined"
    /\ e.timedOut => e.promise = "null"
    /\ e.promise = "unsettled" => n = 0
    /\ e.promise = "allow-once" => n <= 1 /\ (e.decision = "allow-once" => n = 0)
    /\ e.cleanup => e.resolved
    /\ e.timer \/ e.delivering \/ e.resolved => e.id # NoRequest

EntriesOK == \A r \in ApprovalRequests : EntryOK(approvals[r], onceRuns[r])

MapOK == \A id \in ApprovalIds :
    pendingById[id] # NoRequest => approvals[pendingById[id]].id = id

ApprovalInv == ApprovalTypeOK /\ EntriesOK /\ MapOK /\ UndecidedIsReachable

-----------------------------------------------------------------------------
(***************************************************************************)
(* What the operations make of one entry.                                  *)
(***************************************************************************)

\* A request that has not been made has no decision and no runs.
LEMMA UnregisteredOK == EntryOK(Unregistered, 0)
  BY DEF EntryOK, Unregistered, ApprovalEntries, Decisions, Remembers

\* register makes an unresolved entry.
LEMMA NewEntryOK ==
  ASSUME NEW id \in ApprovalIds, NEW delivering \in BOOLEAN
  PROVE  /\ EntryOK(NewEntry(id, delivering), 0)
         /\ NewEntry(id, delivering).id = id
  BY ApprovalAssumption
  DEF NewEntry, EntryOK, Unregistered, ApprovalEntries, Decisions, Remembers

\* resolve and expire settle an entry once and leave its id alone.
LEMMA SettledOK ==
  ASSUME NEW e, NEW n, EntryOK(e, n), e.id # NoRequest,
         NEW decision \in Decisions \cup {"null"}, NEW timedOut \in BOOLEAN,
         timedOut => decision = "null"
  PROVE  /\ EntryOK(Settled(e, decision, timedOut), n)
         /\ Settled(e, decision, timedOut).id = e.id
         /\ Settled(e, decision, timedOut).resolved
  <1>1. CASE e.resolved
    BY <1>1 DEF Settled
  <1>2. CASE ~e.resolved
    <2> DEFINE s == Settled(e, decision, timedOut)
    <2>1. s = [e EXCEPT
             !.resolved = TRUE, !.timer = FALSE, !.cleanup = TRUE, !.timedOut = timedOut,
             !.decision = IF decision = "null" THEN "undefined" ELSE decision,
             !.promise = decision]
      BY <1>2 DEF Settled
    <2>2. e \in ApprovalEntries /\ n = 0
      BY <1>2 DEF EntryOK
    <2>3. s \in ApprovalEntries /\ s.id = e.id /\ s.resolved
      BY <2>1, <2>2 DEF ApprovalEntries, Decisions
    <2>4. /\ s.promise = decision /\ s.timedOut = timedOut
          /\ s.decision = IF decision = "null" THEN "undefined" ELSE decision
      BY <2>1, <2>2 DEF ApprovalEntries
    <2> HIDE DEF s
    <2>5. Remembers(s)
      BY <2>4 DEF Remembers, Decisions
    <2>6. s.promise # "unsettled"
      BY <2>4 DEF Decisions
    <2>7. EntryOK(s, n)
      BY <2>2, <2>3, <2>4, <2>5, <2>6 DEF EntryOK, Decisions
    <2> QED BY <2>3, <2>7 DEF s
  <1> QED BY <1>1, <1>2

\* consumeAllowOnce uses the decision up and remembers it.
LEMMA ConsumedOK ==
  ASSUME NEW e, NEW n, EntryOK(e, n), e.decision = "allow-once"
  PROVE  /\ EntryOK(Consumed(e), n + 1)
         /\ Consumed(e).id = e.id /\ Consumed(e).resolved = e.resolved
  <1> DEFINE c == Consumed(e)
  <1>1. e \in ApprovalEntries /\ n \in Nat
    BY DEF EntryOK
  <1>2. e.promise = "allow-once" /\ n = 0
    BY DEF EntryOK, Remembers
  <1>3. /\ c \in ApprovalEntries
        /\ c.consumedDecision = "allow-once" /\ c.decision = "undefined"
        /\ c.promise = "allow-once" /\ c.id = e.id /\ c.resolved = e.resolved
        /\ c.timedOut = e.timedOut /\ c.cleanup = e.cleanup /\ c.timer = e.timer
        /\ c.delivering = e.delivering
    BY <1>1, <1>2 DEF Consumed, ApprovalEntries, Decisions
  <1> HIDE DEF c
  <1>4. EntryOK(c, n + 1)
    BY <1>1, <1>2, <1>3 DEF EntryOK, Remembers, Decisions
  <1> QED BY <1>3, <1>4 DEF c

\* An entry that keeps its decision stays in order.
LEMMA SameDecisionOK ==
  ASSUME NEW e, NEW n, EntryOK(e, n), NEW f \in ApprovalEntries,
         f.promise = e.promise, f.resolved = e.resolved, f.decision = e.decision,
         f.consumedDecision = e.consumedDecision, f.timedOut = e.timedOut, f.id = e.id,
         f.timer => e.timer, f.delivering => e.delivering, f.cleanup => e.cleanup
  PROVE  EntryOK(f, n)
  BY DEF EntryOK, Remembers

\* Timers, deliveries and answers touch nothing a decision depends on.
LEMMA BookkeepingOK ==
  ASSUME NEW e, NEW n, EntryOK(e, n), NEW answer \in Decisions \cup {"null", "nothing"},
         NEW f \in {[e EXCEPT !.timer = FALSE], [e EXCEPT !.cleanup = FALSE],
                    [e EXCEPT !.expired = TRUE], [e EXCEPT !.delivering = FALSE], [e EXCEPT !.told = answer],
                    [e EXCEPT !.delivering = FALSE, !.told = "null"]}
  PROVE  EntryOK(f, n) /\ f.id = e.id /\ f.resolved = e.resolved
  <1>1. e \in ApprovalEntries
    BY DEF EntryOK
  <1>2. /\ f \in ApprovalEntries
        /\ f.promise = e.promise /\ f.resolved = e.resolved /\ f.decision = e.decision
        /\ f.consumedDecision = e.consumedDecision /\ f.timedOut = e.timedOut /\ f.id = e.id
        /\ f.timer => e.timer
        /\ f.delivering => e.delivering
        /\ f.cleanup => e.cleanup
    <2>1. CASE f = [e EXCEPT !.timer = FALSE]
      BY <1>1, <2>1 DEF ApprovalEntries
    <2>2. CASE f = [e EXCEPT !.cleanup = FALSE]
      BY <1>1, <2>2 DEF ApprovalEntries
    <2>3. CASE f = [e EXCEPT !.delivering = FALSE]
      BY <1>1, <2>3 DEF ApprovalEntries
    <2>4. CASE f = [e EXCEPT !.told = answer]
      BY <1>1, <2>4 DEF ApprovalEntries
    <2>5. CASE f = [e EXCEPT !.delivering = FALSE, !.told = "null"]
      BY <1>1, <2>5 DEF ApprovalEntries
    <2>6. CASE f = [e EXCEPT !.expired = TRUE]
      BY <1>1, <2>6 DEF ApprovalEntries
    <2> QED BY <2>1, <2>2, <2>3, <2>4, <2>5, <2>6
  <1> QED BY <1>2, SameDecisionOK

-----------------------------------------------------------------------------
(***************************************************************************)
(* Steps.                                                                  *)
(***************************************************************************)

\* A step that leaves the map alone and keeps every entry in order, its id and the
\* fact that it is resolved, preserves the invariant.
LEMMA EntriesStep ==
  ASSUME ApprovalInv, UNCHANGED pendingById,
         approvals' \in [ApprovalRequests -> ApprovalEntries],
         onceRuns' \in [ApprovalRequests -> Nat],
         \A q \in ApprovalRequests :
            /\ EntryOK(approvals'[q], onceRuns'[q])
            /\ approvals'[q].id = approvals[q].id
            /\ approvals[q].resolved => approvals'[q].resolved
  PROVE  ApprovalInv'
  <1>1. ApprovalTypeOK' /\ EntriesOK'
    BY DEF ApprovalInv, ApprovalTypeOK, EntriesOK
  <1>2. MapOK'
    BY DEF ApprovalInv, ApprovalTypeOK, MapOK
  <1>3. UndecidedIsReachable'
    BY DEF ApprovalInv, UndecidedIsReachable, Registered
  <1> QED BY <1>1, <1>2, <1>3 DEF ApprovalInv

\* The same for a step that replaces one entry.
LEMMA OneEntryStep ==
  ASSUME ApprovalInv, NEW r \in ApprovalRequests, NEW f,
         approvals' = [approvals EXCEPT ![r] = f], UNCHANGED <<pendingById, onceRuns>>,
         EntryOK(f, onceRuns[r]), f.id = approvals[r].id, approvals[r].resolved => f.resolved
  PROVE  ApprovalInv'
  <1>1. f \in ApprovalEntries
    BY DEF EntryOK
  <1>2. \A q \in ApprovalRequests :
            /\ EntryOK(approvals'[q], onceRuns'[q])
            /\ approvals'[q].id = approvals[q].id
            /\ approvals[q].resolved => approvals'[q].resolved
    BY DEF ApprovalInv, ApprovalTypeOK, EntriesOK
  <1> QED BY <1>1, <1>2, EntriesStep DEF ApprovalInv, ApprovalTypeOK

\* An entry of the map is registered under its id.
LEMMA MappedIsRegistered ==
  ASSUME ApprovalInv, NEW id \in ApprovalIds, pendingById[id] # NoRequest
  PROVE  /\ pendingById[id] \in ApprovalRequests
         /\ EntryOK(approvals[pendingById[id]], onceRuns[pendingById[id]])
         /\ approvals[pendingById[id]].id # NoRequest
  BY ApprovalAssumption DEF ApprovalInv, ApprovalTypeOK, MapOK, EntriesOK

\* Every operation preserves the invariant.
LEMMA ApprovalInvStep == ApprovalInv /\ [ApprovalNext]_approvalVars => ApprovalInv'
  <1> SUFFICES ASSUME ApprovalInv, [ApprovalNext]_approvalVars PROVE ApprovalInv'
    OBVIOUS
  <1> USE ApprovalAssumption
  <1>1. ASSUME NEW r \in ApprovalRequests, NEW id \in ApprovalIds, NEW delivering \in BOOLEAN,
               RegisterApproval(r, id, delivering)
        PROVE  ApprovalInv'
    <2> DEFINE f == NewEntry(id, delivering)
    <2>1. EntryOK(f, 0) /\ f.id = id
      BY NewEntryOK
    <2> HIDE DEF f
    <2>2. f \in ApprovalEntries
      BY <2>1 DEF EntryOK
    <2>3. approvals' = [approvals EXCEPT ![r] = f] /\ UNCHANGED onceRuns
      BY <1>1 DEF RegisterApproval, f
    <2>4. approvals[r].id = NoRequest /\ pendingById[id] = NoRequest
      BY <1>1 DEF RegisterApproval, Registered
    <2>5. pendingById' = [pendingById EXCEPT ![id] = r]
      BY <1>1 DEF RegisterApproval
    <2>6. onceRuns[r] = 0
      BY <2>4 DEF ApprovalInv, EntriesOK, EntryOK
    <2>7. ApprovalTypeOK'
      BY <2>2, <2>3, <2>5 DEF ApprovalInv, ApprovalTypeOK
    <2>8. EntriesOK'
      BY <2>1, <2>3, <2>6 DEF ApprovalInv, ApprovalTypeOK, EntriesOK
    <2>9. MapOK'
      BY <2>1, <2>3, <2>4, <2>5 DEF ApprovalInv, ApprovalTypeOK, MapOK
    <2>10. UndecidedIsReachable'
      <3> SUFFICES ASSUME NEW q \in ApprovalRequests,
                          approvals'[q].id # NoRequest, ~approvals'[q].resolved
                   PROVE  pendingById'[approvals'[q].id] = q
        BY DEF UndecidedIsReachable, Registered
      <3>1. CASE q = r
        BY <3>1, <2>1, <2>3, <2>5 DEF ApprovalInv, ApprovalTypeOK
      <3>2. CASE q # r
        <4>1. approvals'[q] = approvals[q]
          BY <3>2, <2>3 DEF ApprovalInv, ApprovalTypeOK
        <4>2. approvals[q].id \in ApprovalIds
          BY <4>1 DEF ApprovalInv, ApprovalTypeOK, ApprovalEntries
        <4>3. pendingById[approvals[q].id] = q
          BY <4>1 DEF ApprovalInv, UndecidedIsReachable, Registered
        <4> QED BY <4>1, <4>2, <4>3, <2>4, <2>5 DEF ApprovalInv, ApprovalTypeOK
      <3> QED BY <3>1, <3>2
    <2> QED BY <2>7, <2>8, <2>9, <2>10 DEF ApprovalInv
  <1>2. ASSUME NEW r \in ApprovalRequests, ApprovalTimesOut(r) PROVE ApprovalInv'
    <2> DEFINE current == pendingById[approvals[r].id]
               before(q) == IF q = r THEN [approvals[q] EXCEPT !.timer = FALSE] ELSE approvals[q]
               after(q) == IF q = current THEN Settled(before(q), "null", TRUE) ELSE before(q)
    <2>1. approvals' = [q \in ApprovalRequests |-> after(q)] /\ UNCHANGED <<pendingById, onceRuns>>
      BY <1>2 DEF ApprovalTimesOut
    <2>2. approvals[r].id \in ApprovalIds
      BY <1>2 DEF ApprovalTimesOut, ApprovalInv, EntriesOK, EntryOK, ApprovalEntries
    <2>3. ASSUME NEW q \in ApprovalRequests
          PROVE  /\ EntryOK(after(q), onceRuns[q]) /\ after(q).id = approvals[q].id
                 /\ approvals[q].resolved => after(q).resolved
      <3>1. EntryOK(approvals[q], onceRuns[q])
        BY DEF ApprovalInv, EntriesOK
      <3>2. /\ EntryOK(before(q), onceRuns[q]) /\ before(q).id = approvals[q].id
            /\ before(q).resolved = approvals[q].resolved
        BY <3>1, BookkeepingOK
      <3>3. q = current => approvals[q].id # NoRequest
        BY <2>2, MappedIsRegistered
      <3> HIDE DEF before, current
      <3> QED BY <3>2, <3>3, SettledOK
    <2> HIDE DEF after
    <2>4. \A q \in ApprovalRequests : after(q) \in ApprovalEntries
      BY <2>3 DEF EntryOK
    <2> QED BY <2>1, <2>3, <2>4, EntriesStep DEF ApprovalInv, ApprovalTypeOK
  <1>3. ASSUME NEW r \in ApprovalRequests, RequestDelivered(r) PROVE ApprovalInv'
    <2> DEFINE f == [approvals[r] EXCEPT !.delivering = FALSE]
    <2>1. approvals' = [approvals EXCEPT ![r] = f] /\ UNCHANGED <<pendingById, onceRuns>>
      BY <1>3 DEF RequestDelivered
    <2>2. EntryOK(approvals[r], onceRuns[r])
      BY DEF ApprovalInv, EntriesOK
    <2>3. EntryOK(f, onceRuns[r]) /\ f.id = approvals[r].id /\ f.resolved = approvals[r].resolved
      BY <2>2, BookkeepingOK
    <2> QED BY <2>1, <2>3, OneEntryStep
  <1>4. ASSUME NEW r \in ApprovalRequests, NoApprovalRoute(r) PROVE ApprovalInv'
    <2> DEFINE current == pendingById[approvals[r].id]
               before(q) == IF q = r THEN [approvals[q] EXCEPT !.delivering = FALSE, !.told = "null"]
                            ELSE approvals[q]
               after(q) == IF q = current THEN Settled(before(q), "null", FALSE) ELSE before(q)
    <2>1. approvals' = [q \in ApprovalRequests |-> after(q)] /\ UNCHANGED <<pendingById, onceRuns>>
      BY <1>4 DEF NoApprovalRoute
    <2>2. approvals[r].id \in ApprovalIds
      BY <1>4 DEF NoApprovalRoute, ApprovalInv, EntriesOK, EntryOK, ApprovalEntries
    <2>3. ASSUME NEW q \in ApprovalRequests
          PROVE  /\ EntryOK(after(q), onceRuns[q]) /\ after(q).id = approvals[q].id
                 /\ approvals[q].resolved => after(q).resolved
      <3>1. EntryOK(approvals[q], onceRuns[q])
        BY DEF ApprovalInv, EntriesOK
      <3>2. /\ EntryOK(before(q), onceRuns[q]) /\ before(q).id = approvals[q].id
            /\ before(q).resolved = approvals[q].resolved
        BY <3>1, BookkeepingOK
      <3>3. q = current => approvals[q].id # NoRequest
        BY <2>2, MappedIsRegistered
      <3> HIDE DEF before, current
      <3> QED BY <3>2, <3>3, SettledOK
    <2> HIDE DEF after
    <2>4. \A q \in ApprovalRequests : after(q) \in ApprovalEntries
      BY <2>3 DEF EntryOK
    <2> QED BY <2>1, <2>3, <2>4, EntriesStep DEF ApprovalInv, ApprovalTypeOK
  <1>5. ASSUME NEW r \in ApprovalRequests, RequestAnswered(r) PROVE ApprovalInv'
    <2> DEFINE f == [approvals[r] EXCEPT !.told = approvals[r].promise]
    <2>1. approvals' = [approvals EXCEPT ![r] = f] /\ UNCHANGED <<pendingById, onceRuns>>
      BY <1>5 DEF RequestAnswered
    <2>2. EntryOK(approvals[r], onceRuns[r])
      BY DEF ApprovalInv, EntriesOK
    <2>3. approvals[r].promise \in Decisions \cup {"null", "nothing"}
      BY <1>5, <2>2 DEF RequestAnswered, EntryOK, ApprovalEntries
    <2>4. EntryOK(f, onceRuns[r]) /\ f.id = approvals[r].id /\ f.resolved = approvals[r].resolved
      BY <2>2, <2>3, BookkeepingOK
    <2> QED BY <2>1, <2>4, OneEntryStep
  <1>6. ASSUME NEW r \in ApprovalRequests, CleanupApproval(r) PROVE ApprovalInv'
    <2> DEFINE f == [approvals[r] EXCEPT !.cleanup = FALSE]
               id == approvals[r].id
    <2>1. approvals' = [approvals EXCEPT ![r] = f] /\ UNCHANGED onceRuns
      BY <1>6 DEF CleanupApproval
    <2>2. pendingById' = [pendingById EXCEPT ![id] = IF @ = r THEN NoRequest ELSE @]
      BY <1>6 DEF CleanupApproval
    <2>3. EntryOK(approvals[r], onceRuns[r])
      BY DEF ApprovalInv, EntriesOK
    <2>4. EntryOK(f, onceRuns[r]) /\ f.id = approvals[r].id /\ f.resolved = approvals[r].resolved
      BY <2>3, BookkeepingOK
    <2>5. approvals[r].resolved
      BY <1>6, <2>3 DEF CleanupApproval, EntryOK
    <2> HIDE DEF f
    <2>6. ApprovalTypeOK'
      BY <2>1, <2>2, <2>4 DEF ApprovalInv, ApprovalTypeOK, EntryOK
    <2>7. EntriesOK'
      BY <2>1, <2>4 DEF ApprovalInv, ApprovalTypeOK, EntriesOK
    <2>8. MapOK'
      BY <2>1, <2>2, <2>4 DEF ApprovalInv, ApprovalTypeOK, MapOK
    <2>9. UndecidedIsReachable'
      <3> SUFFICES ASSUME NEW q \in ApprovalRequests,
                          approvals'[q].id # NoRequest, ~approvals'[q].resolved
                   PROVE  pendingById'[approvals'[q].id] = q
        BY DEF UndecidedIsReachable, Registered
      <3>1. q # r
        BY <2>1, <2>4, <2>5 DEF ApprovalInv, ApprovalTypeOK
      <3>2. approvals'[q] = approvals[q]
        BY <3>1, <2>1 DEF ApprovalInv, ApprovalTypeOK
      <3>3. approvals[q].id \in ApprovalIds
        BY <3>2 DEF ApprovalInv, ApprovalTypeOK, ApprovalEntries
      <3>4. pendingById[approvals[q].id] = q
        BY <3>2 DEF ApprovalInv, UndecidedIsReachable, Registered
      <3> HIDE DEF id
      <3> QED BY <3>1, <3>2, <3>3, <3>4, <2>2 DEF ApprovalInv, ApprovalTypeOK
    <2> QED BY <2>6, <2>7, <2>8, <2>9 DEF ApprovalInv
  <1>7. ASSUME NEW id \in ApprovalIds, NEW decision \in Decisions, ResolveApproval(id, decision)
        PROVE  ApprovalInv'
    <2> DEFINE r == pendingById[id]
               f == Settled(approvals[r], decision, FALSE)
    <2>1. approvals' = [approvals EXCEPT ![r] = f] /\ UNCHANGED <<pendingById, onceRuns>>
      BY <1>7 DEF ResolveApproval
    <2>2. r \in ApprovalRequests /\ EntryOK(approvals[r], onceRuns[r]) /\ approvals[r].id # NoRequest
      BY <1>7, MappedIsRegistered DEF ResolveApproval
    <2>3. EntryOK(f, onceRuns[r]) /\ f.id = approvals[r].id /\ f.resolved
      BY <2>2, SettledOK
    <2> HIDE DEF f, r
    <2> QED BY <2>1, <2>2, <2>3, OneEntryStep
  <1>8. ASSUME NEW id \in ApprovalIds, RunAllowedOnce(id) PROVE ApprovalInv'
    <2> DEFINE r == pendingById[id]
               f == Consumed(approvals[r])
    <2>1. /\ approvals' = [approvals EXCEPT ![r] = f] /\ UNCHANGED pendingById
          /\ onceRuns' = [onceRuns EXCEPT ![r] = onceRuns[r] + 1]
          /\ approvals[r].decision = "allow-once"
      BY <1>8 DEF RunAllowedOnce
    <2>2. r \in ApprovalRequests /\ EntryOK(approvals[r], onceRuns[r])
      BY <1>8, MappedIsRegistered DEF RunAllowedOnce
    <2>3. /\ EntryOK(f, onceRuns[r] + 1) /\ f.id = approvals[r].id
          /\ f.resolved = approvals[r].resolved
      BY <2>1, <2>2, ConsumedOK
    <2> HIDE DEF f, r
    <2>4. f \in ApprovalEntries /\ onceRuns[r] + 1 \in Nat
      BY <2>3 DEF EntryOK
    <2>5. \A q \in ApprovalRequests :
            /\ EntryOK(approvals'[q], onceRuns'[q])
            /\ approvals'[q].id = approvals[q].id
            /\ approvals[q].resolved => approvals'[q].resolved
      BY <2>1, <2>2, <2>3 DEF ApprovalInv, ApprovalTypeOK, EntriesOK
    <2> QED BY <2>1, <2>2, <2>4, <2>5, EntriesStep DEF ApprovalInv, ApprovalTypeOK
  <1>9. ASSUME NEW id \in ApprovalIds, RunAfterTimeout(id) PROVE ApprovalInv'
    <2> DEFINE r == pendingById[id]
    <2>1. /\ UNCHANGED <<approvals, pendingById>>
          /\ onceRuns' = [onceRuns EXCEPT ![r] = onceRuns[r] + 1]
          /\ approvals[r].timedOut
      BY <1>9 DEF RunAfterTimeout
    <2>2. r \in ApprovalRequests /\ EntryOK(approvals[r], onceRuns[r])
      BY <1>9, MappedIsRegistered DEF RunAfterTimeout
    <2>3. EntryOK(approvals[r], onceRuns[r] + 1) /\ onceRuns[r] + 1 \in Nat
      BY <2>1, <2>2 DEF EntryOK
    <2> HIDE DEF r
    <2>4. \A q \in ApprovalRequests :
            /\ EntryOK(approvals'[q], onceRuns'[q])
            /\ approvals'[q].id = approvals[q].id
            /\ approvals[q].resolved => approvals'[q].resolved
      BY <2>1, <2>2, <2>3 DEF ApprovalInv, ApprovalTypeOK, EntriesOK
    <2> QED BY <2>1, <2>2, <2>3, <2>4, EntriesStep DEF ApprovalInv, ApprovalTypeOK
  <1>10. ASSUME NEW r \in ApprovalRequests, ApprovalExpires(r) PROVE ApprovalInv'
    <2> DEFINE f == [approvals[r] EXCEPT !.expired = TRUE]
    <2>1. approvals' = [approvals EXCEPT ![r] = f] /\ UNCHANGED <<pendingById, onceRuns>>
      BY <1>10 DEF ApprovalExpires
    <2>2. EntryOK(approvals[r], onceRuns[r])
      BY DEF ApprovalInv, EntriesOK
    <2>3. EntryOK(f, onceRuns[r]) /\ f.id = approvals[r].id /\ f.resolved = approvals[r].resolved
      BY <2>2, BookkeepingOK
    <2> QED BY <2>1, <2>3, OneEntryStep
  <1>11. CASE UNCHANGED approvalVars
    BY <1>11
    DEF approvalVars, ApprovalInv, ApprovalTypeOK, EntriesOK, MapOK, UndecidedIsReachable, Registered
  <1> QED
    BY <1>1, <1>2, <1>3, <1>4, <1>5, <1>6, <1>7, <1>8, <1>9, <1>10, <1>11
    DEF ApprovalNext, ApprovalStep, DeliveryEnds

\* Nothing is registered at the start.
LEMMA ApprovalInvInit == ApprovalInit => ApprovalInv
  <1> SUFFICES ASSUME ApprovalInit PROVE ApprovalInv
    OBVIOUS
  <1> USE ApprovalAssumption
  <1>1. Unregistered \in ApprovalEntries /\ Unregistered.id = NoRequest
    BY UnregisteredOK DEF EntryOK, Unregistered
  <1>2. ApprovalTypeOK
    BY <1>1 DEF ApprovalInit, ApprovalTypeOK
  <1>3. EntriesOK
    BY UnregisteredOK DEF ApprovalInit, EntriesOK
  <1>4. MapOK
    BY DEF ApprovalInit, MapOK
  <1>5. UndecidedIsReachable
    BY <1>1 DEF ApprovalInit, UndecidedIsReachable, Registered
  <1> QED BY <1>2, <1>3, <1>4, <1>5 DEF ApprovalInv

\* The invariant holds in every reachable state.
THEOREM ApprovalInvariant == ApprovalSpec => []ApprovalInv
  BY ApprovalInvInit, ApprovalInvStep, PTL DEF ApprovalSpec

-----------------------------------------------------------------------------
(***************************************************************************)
(* The properties.                                                         *)
(***************************************************************************)

\* Entries, map and counters keep their types.
THEOREM ApprovalTypes == ApprovalSpec => []ApprovalTypeOK
  <1>1. ApprovalInv => ApprovalTypeOK
    BY DEF ApprovalInv
  <1> QED BY <1>1, ApprovalInvariant, PTL

\* A decision to allow once lets at most one command run: consumeAllowOnce uses it up.
THEOREM OneRunPerAllowOnce == ApprovalSpec => []AllowOnceRunsOnce
  <1>1. ApprovalInv => AllowOnceRunsOnce
    BY DEF ApprovalInv, EntriesOK, EntryOK, AllowOnceRunsOnce
  <1> QED BY <1>1, ApprovalInvariant, PTL

\* The record and the answer never disagree, consumed decisions included.
THEOREM RecordsAgree == ApprovalSpec => []RecordKeepsAnswer
  <1>1. ApprovalInv => RecordKeepsAnswer
    BY DEF ApprovalInv, EntriesOK, EntryOK, Remembers, RecordKeepsAnswer
  <1> QED BY <1>1, ApprovalInvariant, PTL

\* A request that waits for a decision is found under its id.
THEOREM UndecidedCanBeDecided == ApprovalSpec => []UndecidedIsReachable
  <1>1. ApprovalInv => UndecidedIsReachable
    BY DEF ApprovalInv
  <1> QED BY <1>1, ApprovalInvariant, PTL
=============================================================================
