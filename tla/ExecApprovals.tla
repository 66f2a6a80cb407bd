---------------------------- MODULE ExecApprovals ----------------------------
(***************************************************************************)
(* Exec approvals: a request waits under an id for a decision or for its   *)
(* time to run out, the entry stays for a grace period in which the        *)
(* approved command is run, and a decision to allow once is used up.       *)
(* gateway/{exec-approval-manager,node-invoke-system-run-approval}.ts,     *)
(* gateway/server-methods/{exec-approval,approval-shared}.ts               *)
(*                                                                         *)
(* Clients see only records of their own (isApprovalRecordVisibleToClient) *)
(* and runs must match what was approved; the model has the calls that     *)
(* pass these checks.                                                      *)
(***************************************************************************)
EXTENDS Naturals

CONSTANTS
    ApprovalIds,       \* ids that requests use
    ApprovalRequests,  \* bound: requests ever made
    NoRequest,
    MaxRuns            \* bound: runs of one approval

ASSUME ApprovalAssumption ==
    /\ NoRequest \notin ApprovalRequests /\ NoRequest \notin ApprovalIds
    /\ MaxRuns \in Nat

VARIABLES
    approvals,      \* PendingEntry objects, by the request that made them
    pendingById,    \* the Map of the manager
    onceRuns        \* observed: runs let through as "allow-once"

approvalVars == <<approvals, pendingById, onceRuns>>

Decisions == {"allow-once", "allow-always", "deny"}

ApprovalEntries ==
    [id : ApprovalIds \cup {NoRequest},        \* NoRequest before registration
     resolved : BOOLEAN,                       \* resolvedAtMs is set
     decision : Decisions \cup {"undefined"},
     consumedDecision : Decisions \cup {"undefined"},
     timedOut : BOOLEAN,                       \* resolved with resolvedBy = null
     timer : BOOLEAN, cleanup : BOOLEAN,       \* expiry and cleanup timers
     promise : Decisions \cup {"null", "unsettled"},
     expired : BOOLEAN,                        \* it is later than expiresAtMs
     delivering : BOOLEAN,                     \* the forwarders' deliverRequest is awaited
     told : Decisions \cup {"null", "nothing"}]   \* what the requester was answered

Unregistered ==
    [id |-> NoRequest, resolved |-> FALSE, decision |-> "undefined",
     consumedDecision |-> "undefined", timedOut |-> FALSE, timer |-> FALSE, cleanup |-> FALSE,
     promise |-> "unsettled", expired |-> FALSE, delivering |-> FALSE, told |-> "nothing"]

ApprovalTypeOK ==
    /\ approvals \in [ApprovalRequests -> ApprovalEntries]
    /\ pendingById \in [ApprovalIds -> ApprovalRequests \cup {NoRequest}]
    /\ onceRuns \in [ApprovalRequests -> Nat]

ApprovalInit ==
    /\ approvals = [r \in ApprovalRequests |-> Unregistered]
    /\ pendingById = [id \in ApprovalIds |-> NoRequest]
    /\ onceRuns = [r \in ApprovalRequests |-> 0]

Registered(r) == approvals[r].id # NoRequest

\* Mutation: no expiry timer.
EntryWithoutTimer(id, delivering) ==
    [Unregistered EXCEPT !.id = id, !.delivering = delivering]

NewEntry(id, delivering) ==
    [Unregistered EXCEPT !.id = id, !.timer = TRUE, !.delivering = delivering]

\* Mutation: an id that is in use is registered again.
RegisterAgain(r, id, delivering) ==
    /\ ~Registered(r)
    /\ approvals' = [approvals EXCEPT ![r] = NewEntry(id, delivering)]
    /\ pendingById' = [pendingById EXCEPT ![id] = r]
    /\ UNCHANGED onceRuns

\* exec.approval.request: create and register, refused while the id is in the map.
\* The handler awaits the forwarders, unless deliverRequest answers at once.
RegisterApproval(r, id, delivering) ==
    /\ ~Registered(r) /\ pendingById[id] = NoRequest
    /\ approvals' = [approvals EXCEPT ![r] = NewEntry(id, delivering)]
    /\ pendingById' = [pendingById EXCEPT ![id] = r]
    /\ UNCHANGED onceRuns

\* Mutation: a late decision replaces the first.
SettledAgain(entry, decision, timedOut) ==
    [entry EXCEPT
        !.resolved = TRUE, !.timer = FALSE, !.cleanup = TRUE, !.timedOut = timedOut,
        !.decision = IF decision = "null" THEN "undefined" ELSE decision,
        !.promise = IF @ = "unsettled" THEN decision ELSE @]

\* What resolve and expire make of an entry; "null" is the answer of expire.
Settled(entry, decision, timedOut) ==
    IF entry.resolved THEN entry
    ELSE [entry EXCEPT
             !.resolved = TRUE, !.timer = FALSE, !.cleanup = TRUE, !.timedOut = timedOut,
             !.decision = IF decision = "null" THEN "undefined" ELSE decision,
             !.promise = decision]

\* exec.approval.resolve: the resolver has a name, since every client that connects
\* gives an id (client.id is required by ConnectParamsSchema).
ResolveApproval(id, decision) ==
    LET r == pendingById[id]
    IN  /\ r # NoRequest
        /\ approvals' = [approvals EXCEPT ![r] = Settled(@, decision, FALSE)]
        /\ UNCHANGED <<pendingById, onceRuns>>

\* The expiry timer of the entry calls expire by id.
ApprovalTimesOut(r) ==
    LET current == pendingById[approvals[r].id]
    IN  /\ approvals[r].timer
        /\ approvals' = [q \in ApprovalRequests |->
              LET entry == IF q = r THEN [approvals[q] EXCEPT !.timer = FALSE] ELSE approvals[q]
              IN  IF q = current THEN Settled(entry, "null", TRUE) ELSE entry]
        /\ UNCHANGED <<pendingById, onceRuns>>

\* deliverRequest returns, and there is an approval client, somebody it reached, or a
\* chat the request came from.
RequestDelivered(r) ==
    /\ approvals[r].delivering
    /\ approvals' = [approvals EXCEPT ![r].delivering = FALSE]
    /\ UNCHANGED <<pendingById, onceRuns>>

\* deliverRequest returns, and there is nobody to ask: expire by id, answer null.
NoApprovalRoute(r) ==
    LET current == pendingById[approvals[r].id]
    IN  /\ approvals[r].delivering
        /\ approvals' = [q \in ApprovalRequests |->
              LET entry == IF q = r THEN [approvals[q] EXCEPT !.delivering = FALSE, !.told = "null"]
                           ELSE approvals[q]
              IN  IF q = current THEN Settled(entry, "null", FALSE) ELSE entry]
        /\ UNCHANGED <<pendingById, onceRuns>>

\* The requester's handler goes on after the decision.
RequestAnswered(r) ==
    LET entry == approvals[r]
    IN  /\ Registered(r) /\ ~entry.delivering
        /\ entry.promise # "unsettled" /\ entry.told = "nothing"
        /\ approvals' = [approvals EXCEPT ![r].told = entry.promise]
        /\ UNCHANGED <<pendingById, onceRuns>>

\* The cleanup timer deletes the entry it was set for.
CleanupApproval(r) ==
    LET id == approvals[r].id
    IN  /\ approvals[r].cleanup
        /\ approvals' = [approvals EXCEPT ![r].cleanup = FALSE]
        /\ pendingById' = [pendingById EXCEPT ![id] = IF @ = r THEN NoRequest ELSE @]
        /\ UNCHANGED onceRuns

\* The clock passes expiresAtMs; the expiry timer may fire before or after.
ApprovalExpires(r) ==
    /\ Registered(r) /\ ~approvals[r].expired
    /\ approvals' = [approvals EXCEPT ![r].expired = TRUE]
    /\ UNCHANGED <<pendingById, onceRuns>>

\* Mutation: the decision stays usable until the entry is deleted.
NotConsumed(entry) == entry

\* consumeAllowOnce on a record that allows once.
Consumed(entry) == [entry EXCEPT !.consumedDecision = entry.decision, !.decision = "undefined"]

\* sanitizeSystemRunParamsForForwarding for a run under an approval.
RunAllowedOnce(id) ==
    LET r == pendingById[id]
    IN  /\ r # NoRequest /\ ~approvals[r].expired /\ onceRuns[r] < MaxRuns
        /\ approvals[r].decision = "allow-once"
        /\ approvals' = [approvals EXCEPT ![r] = Consumed(@)]
        /\ onceRuns' = [onceRuns EXCEPT ![r] = @ + 1]
        /\ UNCHANGED pendingById

\* The fallback for requests nobody answered in time: usable between the expiry timer
\* and the end of the millisecond in which the approval expires.
RunAfterTimeout(id) ==
    LET r == pendingById[id]
    IN  /\ r # NoRequest /\ ~approvals[r].expired /\ onceRuns[r] < MaxRuns
        /\ approvals[r].resolved /\ approvals[r].timedOut /\ approvals[r].decision = "undefined"
        /\ onceRuns' = [onceRuns EXCEPT ![r] = @ + 1]
        /\ UNCHANGED <<approvals, pendingById>>

\* Forwarders return.
DeliveryEnds(r) == RequestDelivered(r) \/ NoApprovalRoute(r)

ApprovalStep(r) ==
    \/ \E id \in ApprovalIds, delivering \in BOOLEAN : RegisterApproval(r, id, delivering)
    \/ ApprovalExpires(r) \/ ApprovalTimesOut(r) \/ DeliveryEnds(r)
    \/ RequestAnswered(r) \/ CleanupApproval(r)

ApprovalNext ==
    \/ \E r \in ApprovalRequests : ApprovalStep(r)
    \/ \E id \in ApprovalIds :
          \/ \E decision \in Decisions : ResolveApproval(id, decision)
          \/ RunAllowedOnce(id) \/ RunAfterTimeout(id)

ApprovalSpec == ApprovalInit /\ [][ApprovalNext]_approvalVars

-----------------------------------------------------------------------------
(***************************************************************************)
(* Properties.                                                             *)
(***************************************************************************)

\* A decision to allow once lets one command run, within the grace period, after
\* repeated decisions and when the id is used again.
AllowOnceRunsOnce ==
    \A r \in ApprovalRequests : approvals[r].promise = "allow-once" => onceRuns[r] <= 1

\* The record remembers the answer that the waiting side was given: a decision made
\* again, or one that raced the timeout, is compared with the right one.
RecordKeepsAnswer ==
    \A r \in ApprovalRequests : LET entry == approvals[r] IN
        entry.promise \in Decisions =>
            entry.promise = (IF entry.decision = "undefined" THEN entry.consumedDecision
                             ELSE entry.decision)

\* A request without a decision can be found under its id, so that it can be decided:
\* neither a cleanup nor another request has taken its place.
UndecidedIsReachable ==
    \A r \in ApprovalRequests :
        Registered(r) /\ ~approvals[r].resolved => pendingById[approvals[r].id] = r

\* Every requester is answered.
RequestersEventuallyAnswered ==
    \A r \in ApprovalRequests : Registered(r) ~> approvals[r].told # "nothing"
=============================================================================
