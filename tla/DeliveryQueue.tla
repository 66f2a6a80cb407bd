---------------------------- MODULE DeliveryQueue ----------------------------
(***************************************************************************)
(* The outbound delivery queue: an intent file per delivery, written before *)
(* the platform send and removed after it; the live sender, the start-up   *)
(* recovery and the reconnect drains that work on the files; crashes in    *)
(* between.  infra/outbound/{deliver,delivery-queue-storage,               *)
(* delivery-queue-recovery}.ts                                             *)
(*                                                                         *)
(* A platform send is one step that may be accepted and still end in an    *)
(* error.  A read-modify-write of a file is two steps.  File errors are    *)
(* bounded by MaxFaults, crashes by MaxCrashes.  retryCount is counted up  *)
(* to MaxRetries, the only value it is compared with.                      *)
(***************************************************************************)
EXTENDS Naturals, FiniteSets, FiniteSetsExt

CONSTANTS
    Deliveries,      \* ids of deliveries
    Kinds,           \* the kinds of calls: sets of the Flags that hold
    Drains,          \* keys of the reconnect and periodic drains
    Recovery,        \* the start-up recovery
    None,            \* no file, no entry
    MaxRetries,      \* MAX_RETRIES
    MaxCrashes, MaxFaults,
    MaxOverruns      \* how often the recovery budget runs out

\* queuePolicy is "required" and not "best_effort"; bestEffort, so that payload
\* errors do not throw; the channel's adapter implements reconcileUnknownSend.
Flags == {"required", "bestEffort", "reconcilable"}

\* What a file holds.
Entry == [retryCount : 0..MaxRetries, recoveryState : {"none", "started", "unknown"}]

ASSUME DeliveryAssumption ==
    /\ Kinds \subseteq SUBSET Flags
    /\ Recovery \notin Drains /\ None \notin Deliveries /\ None \notin Entry
    /\ MaxRetries \in Nat \ {0} /\ MaxCrashes \in Nat /\ MaxFaults \in Nat /\ MaxOverruns \in Nat

Workers == Drains \cup {Recovery}

VARIABLES
    kind,        \* the kind of each delivery
    disk,        \* the {id}.json file of a delivery, or None
    failedDir,   \* deliveries in failed/
    claimed,     \* entriesInProgress
    live,        \* the call of deliverOutboundPayloads for a delivery
    worker,      \* the loops of recovery and drains
    deferring,   \* the unclaimed failDelivery calls of an exceeded budget
    crashes, faults, overruns,
    \* observed by the properties only
    intended,    \* deliveries whose file was written
    accepted,    \* how often the platform accepted a delivery, counted to 2
    liveSent,    \* deliveries accepted from their live sender
    withdrawn,   \* aborted, or nothing visible was sent
    overwritten  \* deliveries whose file an unclaimed write replaced by older content

files == <<disk, failedDir>>
observed == <<intended, accepted, liveSent, withdrawn, overwritten>>
bounds == <<crashes, faults, overruns>>
vars == <<kind, files, claimed, live, worker, deferring, bounds, observed>>

LivePCs == {"new", "queued", "core", "marking", "send", "returned", "committing",
            "ack", "fail", "failing", "done"}
WorkerPCs == {"ready", "next", "load", "reconcile", "deliver", "ack", "fail", "failing",
              "move", "prune", "over"}

TypeOK ==
    /\ kind \in [Deliveries -> Kinds]
    /\ disk \in [Deliveries -> Entry \cup {None}]
    /\ failedDir \subseteq Deliveries /\ claimed \subseteq Deliveries
    /\ live \in [Deliveries -> [pc : LivePCs, snap : Entry \cup {None}, marked : BOOLEAN]]
    /\ worker \in [Workers -> [pc : WorkerPCs, todo : SUBSET Deliveries,
                               cur : Deliveries \cup {None}, snap : Entry \cup {None}]]
    /\ deferring \in [Deliveries -> [pc : {"no", "unread", "read"}, snap : Entry \cup {None}]]
    /\ crashes \in 0..MaxCrashes /\ faults \in 0..MaxFaults /\ overruns \in 0..MaxOverruns
    /\ intended \subseteq Deliveries /\ accepted \in [Deliveries -> 0..2]
    /\ {liveSent, withdrawn, overwritten} \subseteq SUBSET Deliveries

Call(pc, snap, marked) == [pc |-> pc, snap |-> snap, marked |-> marked]
Loop(pc, todo, cur, snap) == [pc |-> pc, todo |-> todo, cur |-> cur, snap |-> snap]
NotDeferring == [pc |-> "no", snap |-> None]
Idle == Loop("ready", {}, None, None)

Init ==
    /\ kind \in [Deliveries -> Kinds]
    /\ disk = [e \in Deliveries |-> None]
    /\ failedDir = {} /\ claimed = {}
    /\ live = [e \in Deliveries |-> Call("new", None, FALSE)]
    /\ worker = [w \in Workers |-> Idle]
    /\ deferring = [e \in Deliveries |-> NotDeferring]
    /\ crashes = 0 /\ faults = 0 /\ overruns = 0
    /\ intended = {} /\ liveSent = {} /\ withdrawn = {} /\ overwritten = {}
    /\ accepted = [e \in Deliveries |-> 0]

Required == {e \in Deliveries : "required" \in kind[e]}
BestEffort == {e \in Deliveries : "bestEffort" \in kind[e]}
Reconcilable == {e \in Deliveries : "reconcilable" \in kind[e]}

-----------------------------------------------------------------------------
(***************************************************************************)
(* Storage.                                                                *)
(***************************************************************************)

Fresh == [retryCount |-> 0, recoveryState |-> "none"]

\* failDelivery's change of an entry.
Retried(entry) == [entry EXCEPT !.retryCount = Min({@ + 1, MaxRetries})]

\* markDeliveryPlatformSendAttemptStarted, markDeliveryPlatformOutcomeUnknown
Marked(entry, state) == [entry EXCEPT !.recoveryState = state]

Write(e, entry) == disk' = [disk EXCEPT ![e] = entry]
Remove(e) == disk' = [disk EXCEPT ![e] = None]

\* A file operation fails.
Fault == faults < MaxFaults /\ faults' = faults + 1

\* The platform takes the message.
Accepts(e) == accepted' = [accepted EXCEPT ![e] = Min({@ + 1, 2})]

-----------------------------------------------------------------------------
(***************************************************************************)
(* The live send: deliverOutboundPayloadsInternal and                      *)
(* deliverOutboundPayloadsWithQueueCleanup.                                *)
(***************************************************************************)

LiveAt(e, pc) == live[e].pc = pc
LiveGoes(e, pc) == live' = [live EXCEPT ![e] = Call(pc, None, @.marked)]
LiveReads(e, pc) == live' = [live EXCEPT ![e] = Call(pc, disk[e], @.marked)]

\* The call ends; withActiveDeliveryClaim releases the entry.
LiveEnds(e) ==
    /\ live' = [live EXCEPT ![e] = Call("done", None, FALSE)]
    /\ claimed' = claimed \ {e}

LiveEnqueues(e) ==
    /\ LiveAt(e, "new")
    /\ Write(e, Fresh)
    /\ intended' = intended \cup {e}
    /\ LiveGoes(e, "queued")
    /\ UNCHANGED <<kind, failedDir, claimed, worker, deferring, bounds, accepted, liveSent, withdrawn, overwritten>>

\* Without a file a required send is refused, a best-effort one goes out directly.
LiveEnqueueFails(e) ==
    /\ LiveAt(e, "new") /\ Fault
    /\ LiveGoes(e, "done")
    /\ IF e \in Required THEN UNCHANGED accepted ELSE Accepts(e) \/ UNCHANGED accepted
    /\ UNCHANGED <<kind, files, claimed, worker, deferring, crashes, overruns, intended, liveSent, withdrawn, overwritten>>

\* A worker that was faster owns the entry: nothing is sent here.
LiveClaims(e) ==
    /\ LiveAt(e, "queued")
    /\ IF e \in claimed
       THEN LiveGoes(e, "done") /\ UNCHANGED claimed
       ELSE LiveGoes(e, "core") /\ claimed' = claimed \cup {e}
    /\ UNCHANGED <<kind, files, worker, deferring, bounds, observed>>

\* Nothing visible is left after the hooks, or the caller aborts: the entry is
\* acknowledged without a send.
LiveWithdraws(e) ==
    /\ LiveAt(e, "core")
    /\ withdrawn' = withdrawn \cup {e}
    /\ LiveGoes(e, "ack")
    /\ UNCHANGED <<kind, files, claimed, worker, deferring, bounds, intended, accepted, liveSent, overwritten>>

LiveErrsEarly(e) ==
    /\ LiveAt(e, "core")
    /\ LiveGoes(e, "fail")
    /\ UNCHANGED <<kind, files, claimed, worker, deferring, bounds, observed>>

LiveReadsToMark(e) ==
    /\ LiveAt(e, "core") /\ disk[e] # None
    /\ LiveReads(e, "marking")
    /\ UNCHANGED <<kind, files, claimed, worker, deferring, bounds, observed>>

LiveMarks(e) ==
    /\ LiveAt(e, "marking")
    /\ Write(e, Marked(live[e].snap, "started"))
    /\ live' = [live EXCEPT ![e] = Call("send", None, TRUE)]
    /\ UNCHANGED <<kind, failedDir, claimed, worker, deferring, bounds, observed>>

\* Mutation: a mark that cannot be made is taken for the end of the send.
LiveMarkFailureAcks(e) ==
    /\ \/ LiveAt(e, "core") /\ disk[e] = None /\ UNCHANGED faults
       \/ LiveAt(e, "core") /\ Fault
       \/ LiveAt(e, "marking") /\ Fault
    /\ LiveGoes(e, IF e \in Required THEN "ack" ELSE "send")
    /\ UNCHANGED <<kind, files, claimed, worker, deferring, crashes, overruns, observed>>

\* The mark cannot be made: a required send fails before any platform I/O, a
\* best-effort one goes on unmarked.
LiveMarkFails(e) ==
    /\ \/ LiveAt(e, "core") /\ disk[e] = None /\ UNCHANGED faults
       \/ LiveAt(e, "core") /\ Fault
       \/ LiveAt(e, "marking") /\ Fault
    /\ LiveGoes(e, IF e \in Required THEN "fail" ELSE "send")
    /\ UNCHANGED <<kind, files, claimed, worker, deferring, crashes, overruns, observed>>

\* The platform answers, or the request times out with its effect unknown.  An
\* adapter that sent nothing it can name returns like one that did; an abort
\* acknowledges the entry, an error (a payload error under bestEffort included)
\* fails it.
LivePlatformAnswers(e) ==
    /\ LiveAt(e, "send")
    /\ \E taken \in BOOLEAN, answer \in {"ok", "nothing", "error", "abort"} :
          /\ answer = "ok" => taken
          /\ answer = "nothing" => ~taken
          /\ IF taken THEN Accepts(e) /\ liveSent' = liveSent \cup {e}
                      ELSE UNCHANGED <<accepted, liveSent>>
          /\ withdrawn' = IF answer \in {"nothing", "abort"} THEN withdrawn \cup {e} ELSE withdrawn
          /\ LiveGoes(e, CASE answer \in {"ok", "nothing"} -> "returned"
                           [] answer = "error" -> "fail"
                           [] answer = "abort" -> "ack")
    /\ UNCHANGED <<kind, files, claimed, worker, deferring, bounds, intended, overwritten>>

\* Before the acknowledgement a marked entry becomes unknown_after_send.
LiveReadsToCommit(e) ==
    /\ LiveAt(e, "returned") /\ live[e].marked /\ disk[e] # None
    /\ LiveReads(e, "committing")
    /\ UNCHANGED <<kind, files, claimed, worker, deferring, bounds, observed>>

LiveCommits(e) ==
    /\ LiveAt(e, "committing")
    /\ Write(e, Marked(live[e].snap, "unknown"))
    /\ LiveGoes(e, "ack")
    /\ UNCHANGED <<kind, failedDir, claimed, worker, deferring, bounds, observed>>

LiveSkipsCommit(e) ==
    /\ LiveAt(e, "returned") /\ ~live[e].marked
    /\ LiveGoes(e, "ack")
    /\ UNCHANGED <<kind, files, claimed, worker, deferring, bounds, observed>>

\* A required call throws and leaves the file, a best-effort one acknowledges.
LiveCommitFails(e) ==
    /\ \/ LiveAt(e, "returned") /\ live[e].marked /\ disk[e] = None /\ UNCHANGED faults
       \/ LiveAt(e, "returned") /\ live[e].marked /\ Fault
       \/ LiveAt(e, "committing") /\ Fault
    /\ IF e \in Required THEN LiveEnds(e) ELSE LiveGoes(e, "ack") /\ UNCHANGED claimed
    /\ UNCHANGED <<kind, files, worker, deferring, crashes, overruns, observed>>

LiveAcks(e) ==
    /\ LiveAt(e, "ack")
    /\ \/ Remove(e) /\ UNCHANGED faults
       \/ Fault /\ UNCHANGED disk
    /\ LiveEnds(e)
    /\ UNCHANGED <<kind, failedDir, worker, deferring, crashes, overruns, observed>>

LiveReadsToFail(e) ==
    /\ LiveAt(e, "fail") /\ disk[e] # None
    /\ LiveReads(e, "failing")
    /\ UNCHANGED <<kind, files, claimed, worker, deferring, bounds, observed>>

LiveFails(e) ==
    /\ \/ LiveAt(e, "failing") /\ Write(e, Retried(live[e].snap)) /\ UNCHANGED faults
       \/ LiveAt(e, "fail") /\ disk[e] = None /\ UNCHANGED <<disk, faults>>
       \/ live[e].pc \in {"fail", "failing"} /\ Fault /\ UNCHANGED disk
    /\ LiveEnds(e)
    /\ UNCHANGED <<kind, failedDir, worker, deferring, crashes, overruns, observed>>

-----------------------------------------------------------------------------
(***************************************************************************)
(* Recovery and drains: recoverPendingDeliveries, drainPendingDeliveries   *)
(* and drainQueuedEntry.                                                   *)
(***************************************************************************)

At(w, pc) == worker[w].pc = pc
Cur(w) == worker[w].cur
Goes(w, pc) == worker' = [worker EXCEPT ![w] = Loop(pc, @.todo, @.cur, @.snap)]

\* The entry is released and the loop goes on.
Releases(w) ==
    /\ worker' = [worker EXCEPT ![w] = Loop("next", @.todo, None, None)]
    /\ claimed' = claimed \ {Cur(w)}

LoadsPending(w) ==
    /\ At(w, "ready")
    /\ worker' = [worker EXCEPT ![w] = Loop("next", {e \in Deliveries : disk[e] # None}, @.cur, @.snap)]
    /\ UNCHANGED <<kind, files, claimed, live, deferring, bounds, observed>>

LoopEnds(w) ==
    /\ At(w, "next") /\ worker[w].todo = {}
    /\ Goes(w, IF w = Recovery THEN "over" ELSE "ready")
    /\ UNCHANGED <<kind, files, claimed, live, deferring, bounds, observed>>

\* Mutation: the claim is made without looking who holds it.
PicksAnyway(w, e) ==
    /\ At(w, "next") /\ e \in worker[w].todo
    /\ worker' = [worker EXCEPT ![w] = Loop("load", @.todo \ {e}, e, @.snap)]
    /\ claimed' = claimed \cup {e}
    /\ UNCHANGED <<kind, files, live, deferring, bounds, observed>>

Picks(w, e) ==
    /\ At(w, "next") /\ e \in worker[w].todo
    /\ IF e \in claimed
       THEN /\ worker' = [worker EXCEPT ![w] = Loop("next", @.todo \ {e}, @.cur, @.snap)]
            /\ UNCHANGED claimed
       ELSE /\ worker' = [worker EXCEPT ![w] = Loop("load", @.todo \ {e}, e, @.snap)]
            /\ claimed' = claimed \cup {e}
    /\ UNCHANGED <<kind, files, live, deferring, bounds, observed>>

\* The time budget of the recovery is used up: failDelivery is called for all
\* remaining entries at once, claimed by others or not.
BudgetEnds ==
    /\ At(Recovery, "next") /\ worker[Recovery].todo # {}
    /\ overruns < MaxOverruns /\ overruns' = overruns + 1
    /\ deferring' = [e \in Deliveries |->
                        IF e \in worker[Recovery].todo THEN [pc |-> "unread", snap |-> None]
                        ELSE deferring[e]]
    /\ worker' = [worker EXCEPT ![Recovery] = Loop("over", {}, @.cur, @.snap)]
    /\ UNCHANGED <<kind, files, claimed, live, crashes, faults, observed>>

DeferReads(e) ==
    /\ deferring[e].pc = "unread"
    /\ deferring' = [deferring EXCEPT ![e] =
          IF disk[e] = None THEN NotDeferring ELSE [pc |-> "read", snap |-> disk[e]]]
    /\ UNCHANGED <<kind, files, claimed, live, worker, bounds, observed>>

DeferWrites(e) ==
    /\ deferring[e].pc = "read"
    /\ Write(e, Retried(deferring[e].snap))
    /\ deferring' = [deferring EXCEPT ![e] = NotDeferring]
    /\ overwritten' = IF disk[e] = deferring[e].snap THEN overwritten ELSE overwritten \cup {e}
    /\ UNCHANGED <<kind, failedDir, claimed, live, worker, bounds, intended, accepted, liveSent, withdrawn>>

\* After the claim the file is read again; it may be gone, or wait for its backoff.
SkipsEntry(w) ==
    /\ At(w, "load")
    /\ \/ disk[Cur(w)] = None
       \/ disk[Cur(w)] # None /\ disk[Cur(w)].retryCount \in 1..(MaxRetries - 1)
    /\ Releases(w)
    /\ UNCHANGED <<kind, files, live, deferring, bounds, observed>>

\* Mutation: every pending entry is sent again.
TakesEntryBlindly(w) ==
    /\ At(w, "load") /\ disk[Cur(w)] # None
    /\ disk[Cur(w)].retryCount < MaxRetries
    /\ worker' = [worker EXCEPT ![w] = Loop("deliver", @.todo, @.cur, disk[Cur(w)])]
    /\ UNCHANGED <<kind, files, claimed, live, deferring, bounds, observed>>

\* Entries that may have been sent are reconciled, the others sent again.
TakesEntry(w) ==
    /\ At(w, "load") /\ disk[Cur(w)] # None
    /\ disk[Cur(w)].retryCount < MaxRetries
    /\ worker' = [worker EXCEPT ![w] =
          Loop(IF disk[Cur(w)].recoveryState = "none" THEN "deliver" ELSE "reconcile",
               @.todo, @.cur, disk[Cur(w)])]
    /\ UNCHANGED <<kind, files, claimed, live, deferring, bounds, observed>>

\* Mutation: an entry without attempts left is passed over and stays.
ExhaustsEntryKeepingIt(w) ==
    /\ At(w, "load") /\ disk[Cur(w)] # None
    /\ disk[Cur(w)].retryCount >= MaxRetries
    /\ Releases(w)
    /\ UNCHANGED <<kind, files, live, deferring, bounds, observed>>

ExhaustsEntry(w) ==
    /\ At(w, "load") /\ disk[Cur(w)] # None
    /\ disk[Cur(w)].retryCount >= MaxRetries
    /\ Goes(w, "prune")
    /\ UNCHANGED <<kind, files, claimed, live, deferring, bounds, observed>>

\* The adapter is asked what became of the send.  It knows, or says it does not.
ReconcilesUnknown(w) ==
    /\ At(w, "reconcile")
    /\ IF Cur(w) \notin Reconcilable
       THEN Goes(w, "move")
       ELSE \/ accepted[Cur(w)] > 0 /\ Goes(w, "ack")
            \/ accepted[Cur(w)] = 0 /\ Goes(w, "deliver")
            \/ Goes(w, "fail")
            \/ Goes(w, "move")
    /\ UNCHANGED <<kind, files, claimed, live, deferring, bounds, observed>>

\* deliver() with skipQueue: no mark is written.  Under bestEffort a payload error
\* does not throw, and nothing here looks at it; other errors throw.
Delivers(w) ==
    /\ At(w, "deliver")
    /\ \E taken \in BOOLEAN, answer \in {"ok", "error", "permanent", "nothing"} :
          /\ answer = "ok" => taken
          /\ answer = "nothing" => ~taken
          /\ IF taken THEN Accepts(Cur(w)) ELSE UNCHANGED accepted
          /\ withdrawn' = IF answer = "nothing" THEN withdrawn \cup {Cur(w)} ELSE withdrawn
          /\ \/ answer \in {"ok", "nothing"} /\ Goes(w, "ack")
             \/ answer = "error" /\ Cur(w) \in BestEffort /\ Goes(w, "ack")
             \/ answer = "error" /\ Goes(w, "fail")
             \/ answer = "permanent" /\ Goes(w, "move")
    /\ UNCHANGED <<kind, files, claimed, live, deferring, bounds, intended, liveSent, overwritten>>

Acks(w) ==
    /\ At(w, "ack")
    /\ \/ Remove(Cur(w)) /\ Releases(w) /\ UNCHANGED faults
       \/ Fault /\ Goes(w, "fail") /\ UNCHANGED <<disk, claimed>>
    /\ UNCHANGED <<kind, failedDir, live, deferring, crashes, overruns, observed>>

ReadsToFail(w) ==
    /\ At(w, "fail") /\ disk[Cur(w)] # None
    /\ worker' = [worker EXCEPT ![w] = Loop("failing", @.todo, @.cur, disk[Cur(w)])]
    /\ UNCHANGED <<kind, files, claimed, live, deferring, bounds, observed>>

Fails(w) ==
    /\ \/ At(w, "failing") /\ Write(Cur(w), Retried(worker[w].snap)) /\ UNCHANGED faults
       \/ At(w, "fail") /\ disk[Cur(w)] = None /\ UNCHANGED <<disk, faults>>
       \/ worker[w].pc \in {"fail", "failing"} /\ Fault /\ UNCHANGED disk
    /\ Releases(w)
    /\ UNCHANGED <<kind, failedDir, live, deferring, crashes, overruns, observed>>

MovesToFailed(w) ==
    /\ worker[w].pc \in {"move", "prune"}
    /\ Remove(Cur(w))
    /\ failedDir' = IF disk[Cur(w)] = None THEN failedDir ELSE failedDir \cup {Cur(w)}
    /\ Releases(w)
    /\ UNCHANGED <<kind, live, deferring, bounds, observed>>

\* An error ends a drain that was pruning; the other callers go on.
MoveFails(w) ==
    /\ worker[w].pc \in {"move", "prune"} /\ Fault
    /\ IF At(w, "prune") /\ w # Recovery
       THEN worker' = [worker EXCEPT ![w] = Idle] /\ claimed' = claimed \ {Cur(w)}
       ELSE Releases(w)
    /\ UNCHANGED <<kind, files, live, deferring, crashes, overruns, observed>>

-----------------------------------------------------------------------------
\* The process stops: everything but the files is gone.
Crash ==
    /\ crashes < MaxCrashes /\ crashes' = crashes + 1
    /\ claimed' = {}
    /\ live' = [e \in Deliveries |->
                  IF LiveAt(e, "new") THEN live[e] ELSE Call("done", None, FALSE)]
    /\ worker' = [w \in Workers |-> Idle]
    /\ deferring' = [e \in Deliveries |-> NotDeferring]
    /\ UNCHANGED <<kind, files, faults, overruns, observed>>

LiveContinues(e) ==
    \/ LiveClaims(e) \/ LiveWithdraws(e) \/ LiveErrsEarly(e)
    \/ LiveReadsToMark(e) \/ LiveMarks(e) \/ LiveMarkFails(e)
    \/ LivePlatformAnswers(e)
    \/ LiveReadsToCommit(e) \/ LiveCommits(e) \/ LiveSkipsCommit(e) \/ LiveCommitFails(e)
    \/ LiveAcks(e) \/ LiveReadsToFail(e) \/ LiveFails(e)

WorkerContinues(w) ==
    \/ LoadsPending(w) \/ LoopEnds(w) \/ \E e \in Deliveries : Picks(w, e)
    \/ SkipsEntry(w) \/ TakesEntry(w) \/ ExhaustsEntry(w)
    \/ ReconcilesUnknown(w) \/ Delivers(w)
    \/ Acks(w) \/ ReadsToFail(w) \/ Fails(w) \/ MovesToFailed(w) \/ MoveFails(w)

Next ==
    \/ \E e \in Deliveries : LiveEnqueues(e) \/ LiveEnqueueFails(e) \/ LiveContinues(e)
    \/ \E w \in Workers : WorkerContinues(w)
    \/ BudgetEnds
    \/ \E e \in Deliveries : DeferReads(e) \/ DeferWrites(e)
    \/ Crash

Spec == Init /\ [][Next]_vars

\* Calls and loops go on, the channel drains periodically, and a backoff ends.
Fairness ==
    /\ \A e \in Deliveries : WF_vars(LiveContinues(e))
    /\ \A w \in Workers : WF_vars(WorkerContinues(w))
    /\ \A w \in Drains, e \in Deliveries : SF_vars(Cur(w) = e /\ TakesEntry(w))
    /\ \A e \in Deliveries : WF_vars(DeferReads(e) \/ DeferWrites(e))

FairSpec == Spec /\ Fairness

-----------------------------------------------------------------------------
(***************************************************************************)
(* Properties.                                                             *)
(***************************************************************************)

LiveHolds(e) == live[e].pc \notin {"new", "queued", "done"}

\* A delivery is in the hands of at most one of live sender, recovery and
\* drains, and the claims say exactly which ones are in somebody's hands.
OneOwner ==
    /\ claimed = {e \in Deliveries : LiveHolds(e)} \cup ({Cur(w) : w \in Workers} \ {None})
    /\ \A w \in Workers : Cur(w) # None =>
          ~LiveHolds(Cur(w)) /\ \A v \in Workers \ {w} : Cur(v) # Cur(w)

\* An intended delivery is on disk, on the platform, in failed/, or withdrawn.
NothingLost ==
    \A e \in intended : disk[e] # None \/ accepted[e] > 0 \/ e \in failedDir \cup withdrawn

\* Recovery does not send again what a required live send brought to the
\* platform, unless an unclaimed write of the budget path erased the mark.
LiveSendNotReplayed ==
    \A w \in Workers : At(w, "deliver") =>
        Cur(w) \notin (liveSent \cap Required) \ overwritten

\* A message is replayed only after the adapter proved that it was not sent: the
\* platform shows it once.
NeverDuplicated == \A e \in Deliveries : accepted[e] <= 1

\* The abstract delivery an intent file stands for.  It is open while its file
\* exists; one whose file is gone without an outcome would be lost.
intentOf == [e \in Deliveries |->
    CASE e \notin intended -> "none"
      [] e \in intended /\ accepted[e] > 0 -> "delivered"
      [] e \in intended /\ accepted[e] = 0 /\ e \in withdrawn -> "withdrawn"
      [] e \in intended /\ accepted[e] = 0 /\ e \in failedDir \ withdrawn -> "failed"
      [] OTHER -> IF disk[e] = None THEN "lost" ELSE "open"]

Abstract == INSTANCE DurableDelivery WITH Deliveries <- Deliveries, intent <- intentOf

\* Every intended delivery is eventually delivered, set aside or withdrawn, its file
\* stays until then, and what was delivered stays so.
ImplementsDurableDelivery == Abstract!Spec
=============================================================================
