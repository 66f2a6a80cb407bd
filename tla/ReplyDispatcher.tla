--------------------------- MODULE ReplyDispatcher ---------------------------
(***************************************************************************)
(* Reply dispatchers: replies of one message are sent one after the other; *)
(* a reservation keeps the dispatcher counted as busy until the caller has *)
(* said that no more replies come.  The registry of live dispatchers tells *)
(* a restart how much is left to deliver.                                  *)
(* auto-reply/reply/{reply-dispatcher,dispatcher-registry}.ts              *)
(***************************************************************************)
EXTENDS Integers, FiniteSets, FiniteSetsExt

CONSTANTS
    Dispatchers,   \* bound: dispatchers ever created
    MaxReplies     \* bound: replies of one dispatcher

ASSUME DispatcherAssumption == MaxReplies \in Nat /\ IsFiniteSet(Dispatchers)

VARIABLE dispatcher

DispatcherStates ==
    [created : BOOLEAN,
     pending : Int,
     sends : 0..MaxReplies,        \* links of sendChain that have not settled
     queuedCount : 0..MaxReplies,
     completeCalled : BOOLEAN,
     microtask : BOOLEAN,          \* markComplete's deferred check is due
     registered : BOOLEAN,         \* in activeDispatchers
     idles : 0..(MaxReplies + 1),  \* calls of onIdle
     late : BOOLEAN]               \* a reply came after the reservation was cleared

NotCreated ==
    [created |-> FALSE, pending |-> 0, sends |-> 0, queuedCount |-> 0, completeCalled |-> FALSE,
     microtask |-> FALSE, registered |-> FALSE, idles |-> 0, late |-> FALSE]

DispatcherTypeOK == dispatcher \in [Dispatchers -> DispatcherStates]

DispatcherInit == dispatcher = [d \in Dispatchers |-> NotCreated]

\* getTotalPendingReplies
TotalPendingReplies ==
    MapThenSumSet(LAMBDA d : dispatcher[d].pending, {d \in Dispatchers : dispatcher[d].registered})

Becomes(d, next) == dispatcher' = [dispatcher EXCEPT ![d] = next]

\* pending reached zero: unregister, onIdle.
Announced(st) ==
    IF st.pending = 0 THEN [st EXCEPT !.registered = FALSE, !.idles = @ + 1] ELSE st

\* Mutation: no reservation.
CreateUnreserved(d) ==
    /\ ~dispatcher[d].created
    /\ Becomes(d, [NotCreated EXCEPT !.created = TRUE, !.registered = TRUE])

CreateReplyDispatcher(d) ==
    /\ ~dispatcher[d].created
    /\ Becomes(d, [NotCreated EXCEPT !.created = TRUE, !.pending = 1, !.registered = TRUE])

\* enqueue, for a payload that normalizes to something.
EnqueueReply(d) ==
    LET st == dispatcher[d]
    IN  /\ st.created /\ st.queuedCount < MaxReplies
        /\ Becomes(d, [st EXCEPT !.queuedCount = @ + 1, !.pending = @ + 1, !.sends = @ + 1,
                                 !.late = @ \/ st.pending = st.sends])

\* The finally block of a send, delivered, cancelled or failed.
SendSettles(d) ==
    LET st == dispatcher[d]
        left == st.pending - 1
    IN  /\ st.sends > 0
        /\ Becomes(d, Announced([st EXCEPT
              !.sends = @ - 1,
              !.pending = IF left = 1 /\ st.completeCalled THEN 0 ELSE left]))

MarkComplete(d) ==
    /\ dispatcher[d].created /\ ~dispatcher[d].completeCalled
    /\ Becomes(d, [dispatcher[d] EXCEPT !.completeCalled = TRUE, !.microtask = TRUE])

\* Mutation: the deferred check gives the reservation back in any case.
ClearReservationAnyway(d) ==
    LET st == [dispatcher[d] EXCEPT !.microtask = FALSE]
    IN  /\ dispatcher[d].microtask
        /\ Becomes(d, Announced([st EXCEPT !.pending = @ - 1]))

\* markComplete's microtask.
ClearReservation(d) ==
    LET st == [dispatcher[d] EXCEPT !.microtask = FALSE]
    IN  /\ dispatcher[d].microtask
        /\ Becomes(d, IF st.pending = 1 THEN Announced([st EXCEPT !.pending = 0]) ELSE st)

DispatcherStep(d) ==
    \/ CreateReplyDispatcher(d) \/ EnqueueReply(d) \/ SendSettles(d)
    \/ MarkComplete(d) \/ ClearReservation(d)

DispatcherSpec == DispatcherInit /\ [][\E d \in Dispatchers : DispatcherStep(d)]_dispatcher

\* Deliveries settle, runs end and microtasks run.
DispatcherProgress(d) == SendSettles(d) \/ MarkComplete(d) \/ ClearReservation(d)

-----------------------------------------------------------------------------
(***************************************************************************)
(* Properties of a dispatcher that gets no reply after its reservation was *)
(* given back, which is what markComplete promises.                        *)
(***************************************************************************)

\* onIdle is called once, after the last reply was sent and no more can come, and
\* the registry holds the dispatcher exactly until then.
IdleIsReliable ==
    \A d \in Dispatchers : LET st == dispatcher[d] IN st.created /\ ~st.late =>
        /\ st.idles = (IF st.registered THEN 0 ELSE 1)
        /\ st.idles = 1 => st.sends = 0 /\ st.completeCalled

\* The registry's total is zero only when every dispatcher has been completed and
\* every reply has left: the count a restart waits for cannot miss one.
RestartSeesReplies ==
    TotalPendingReplies = 0 => \A d \in Dispatchers :
        LET st == dispatcher[d] IN st.created /\ ~st.late => st.sends = 0 /\ st.completeCalled
=============================================================================
