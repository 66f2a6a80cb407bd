-------------------------- MODULE ReplyRunRegistry --------------------------
(***************************************************************************)
(* The registry of active replies:                                         *)
(* src/src/auto-reply/reply/reply-run-registry.ts.                         *)
(*                                                                         *)
(* A reply operation owns its session key from its creation until its      *)
(* state is cleared.  Its owner, a stop command, a restart and the         *)
(* watchdog that force-clears stuck runs all end it, in any order and more *)
(* than once; the owner's late calls reach an operation that no longer     *)
(* owns the key.  Every method is synchronous, hence one step.             *)
(*                                                                         *)
(* The registry's five maps are functions to a value or None.              *)
(***************************************************************************)
EXTENDS Integers, FiniteSets

CONSTANTS
    Keys,       \* session keys after normalisation
    IdsOf,      \* the session ids the sessions of each key use
    Ops,        \* bound: operations ever created
    Handles,    \* bound: backends alive at once
    Waiters,    \* calls of waitForIdle and waitForReplyRunEndBySessionId
    None

SessionIds == UNION {IdsOf[k] : k \in Keys}

\* A session id is a random UUID, made for one session.
ASSUME RegistryAssumption ==
    /\ DOMAIN IdsOf = Keys
    /\ \A k, other \in Keys : k # other => IdsOf[k] \cap IdsOf[other] = {}
    /\ None \notin Keys \cup SessionIds \cup Ops \cup Handles

LivePhases == {"queued", "preflight_compacting", "memory_flushing", "running"}
Phases == LivePhases \cup {"none", "completed", "failed", "aborted"}
AbortCodes == {"aborted_by_user", "aborted_for_restart"}
Results == {"none", "completed", "failed"} \cup AbortCodes

VARIABLES
    op,             \* the operations' closures
    ids,            \* history: the session ids an operation has had
    backend,        \* attachedBackendByOperation
    activeRunsByKey, activeSessionIdsByKey, activeKeysBySessionId,
    waitKeysBySessionId, waitersByKey,
    serving,        \* the operation a started backend works for
    cancelled       \* backends whose cancel() was called

maps == <<activeRunsByKey, activeSessionIdsByKey, activeKeysBySessionId,
          waitKeysBySessionId, waitersByKey>>
backends == <<backend, serving, cancelled>>
vars == <<op, ids, maps, backends>>

OpStates ==
    [key : Keys \cup {None}, sessionId : SessionIds \cup {None}, phase : Phases,
     result : Results, stateCleared : BOOLEAN, aborted : BOOLEAN]

\* The operation exists.
Created(o) == op[o].phase # "none"

TypeOK ==
    /\ op \in [Ops -> OpStates]
    /\ \A o \in Ops : Created(o) => op[o].key \in Keys /\ op[o].sessionId \in SessionIds
    /\ ids \in [Ops -> SUBSET SessionIds]
    /\ backend \in [Ops -> Handles \cup {None}]
    /\ activeRunsByKey \in [Keys -> Ops \cup {None}]
    /\ activeSessionIdsByKey \in [Keys -> SessionIds \cup {None}]
    /\ activeKeysBySessionId \in [SessionIds -> Keys \cup {None}]
    /\ waitKeysBySessionId \in [SessionIds -> Keys \cup {None}]
    /\ waitersByKey \in [Waiters -> Keys \cup {None}]
    /\ serving \in [Handles -> Ops \cup {None}]
    /\ cancelled \subseteq Handles

Unborn == [key |-> None, sessionId |-> None, phase |-> "none", result |-> "none",
           stateCleared |-> FALSE, aborted |-> FALSE]

Init ==
    /\ op = [o \in Ops |-> Unborn]
    /\ ids = [o \in Ops |-> {}]
    /\ backend = [o \in Ops |-> None]
    /\ activeRunsByKey = [k \in Keys |-> None]
    /\ activeSessionIdsByKey = [k \in Keys |-> None]
    /\ activeKeysBySessionId = [s \in SessionIds |-> None]
    /\ waitKeysBySessionId = [s \in SessionIds |-> None]
    /\ waitersByKey = [w \in Waiters |-> None]
    /\ serving = [h \in Handles |-> None]
    /\ cancelled = {}

\* resolveReplyRunForCurrentSessionId
RunForCurrentSessionId(s) ==
    IF activeKeysBySessionId[s] = None THEN None ELSE activeRunsByKey[activeKeysBySessionId[s]]

\* resolveReplyRunWaitKey
WaitKey(s) ==
    IF activeKeysBySessionId[s] # None THEN activeKeysBySessionId[s] ELSE waitKeysBySessionId[s]

-----------------------------------------------------------------------------

\* createReplyOperation; a key with an active operation is refused.  The
\* upstream signal may have fired already.
CreateReplyOperation(o, k, s, upstreamAborted) ==
    /\ ~Created(o)
    /\ s \in IdsOf[k]
    /\ activeRunsByKey[k] = None
    /\ op' = [op EXCEPT ![o] = [key |-> k, sessionId |-> s, phase |-> "queued",
                                result |-> "none", stateCleared |-> FALSE,
                                aborted |-> upstreamAborted]]
    /\ ids' = [ids EXCEPT ![o] = {s}]
    /\ activeRunsByKey' = [activeRunsByKey EXCEPT ![k] = o]
    /\ activeSessionIdsByKey' = [activeSessionIdsByKey EXCEPT ![k] = s]
    /\ activeKeysBySessionId' = [activeKeysBySessionId EXCEPT ![s] = k]
    /\ waitKeysBySessionId' = [waitKeysBySessionId EXCEPT ![s] = k]
    /\ UNCHANGED <<waitersByKey, backends>>

\* The upstream signal fires: only the operation's own signal follows it.
UpstreamAborts(o) ==
    /\ Created(o)
    /\ op' = [op EXCEPT ![o].aborted = TRUE]
    /\ UNCHANGED <<ids, maps, backends>>

SetPhase(o, next) ==
    /\ Created(o)
    /\ op[o].result = "none"
    /\ op' = [op EXCEPT ![o].phase = next]
    /\ UNCHANGED <<ids, maps, backends>>

\* Mutation: the id the session had before stays active.
UpdateSessionIdKeepingOld(o, s) ==
    LET k == op[o].key
    IN  /\ Created(o)
        /\ op[o].result = "none"
        /\ s \in IdsOf[k] \ {op[o].sessionId}
        /\ op' = [op EXCEPT ![o].sessionId = s]
        /\ ids' = [ids EXCEPT ![o] = @ \cup {s}]
        /\ activeSessionIdsByKey' = [activeSessionIdsByKey EXCEPT ![k] = s]
        /\ activeKeysBySessionId' = [activeKeysBySessionId EXCEPT ![s] = k]
        /\ waitKeysBySessionId' = [waitKeysBySessionId EXCEPT ![s] = k]
        /\ UNCHANGED <<activeRunsByKey, waitersByKey, backends>>

\* updateSessionId after a compaction or a memory flush rotated the session.
\* An absent id, the current id and an id that is active for another key
\* change nothing.
UpdateSessionId(o, s) ==
    LET k == op[o].key
        old == op[o].sessionId
    IN  /\ Created(o)
        /\ op[o].result = "none"
        /\ s \in IdsOf[k] \ {old}
        /\ activeKeysBySessionId[s] \in {None, k}
        /\ op' = [op EXCEPT ![o].sessionId = s]
        /\ ids' = [ids EXCEPT ![o] = @ \cup {s}]
        /\ activeSessionIdsByKey' = [activeSessionIdsByKey EXCEPT ![k] = s]
        /\ activeKeysBySessionId' = [activeKeysBySessionId EXCEPT ![old] = None, ![s] = k]
        /\ waitKeysBySessionId' = [waitKeysBySessionId EXCEPT ![old] = k, ![s] = k]
        /\ UNCHANGED <<activeRunsByKey, waitersByKey, backends>>

\* attachBackend by the attempt that started h (one attempt at a time).
AttachBackend(o, h) ==
    /\ Created(o)
    /\ serving[h] = None
    /\ \A other \in Handles : serving[other] # o
    /\ serving' = [serving EXCEPT ![h] = o]
    /\ backend' = IF op[o].result = "none" THEN [backend EXCEPT ![o] = h] ELSE backend
    /\ cancelled' = IF op[o].result # "none" \/ op[o].aborted THEN cancelled \cup {h} ELSE cancelled
    /\ UNCHANGED <<op, ids, maps>>

\* detachBackend when the attempt ends; the name h may then stand for another one.
DetachBackend(o, h) ==
    /\ serving[h] = o
    /\ serving' = [serving EXCEPT ![h] = None]
    /\ backend' = IF backend[o] = h THEN [backend EXCEPT ![o] = None] ELSE backend
    /\ cancelled' = cancelled \ {h}
    /\ UNCHANGED <<op, ids, maps>>

-----------------------------------------------------------------------------
(***************************************************************************)
(* Ending an operation.                                                    *)
(***************************************************************************)

\* Mutation: an operation clears its key again.
ClearStateAgain(O) ==
    LET K == {op[o].key : o \in O}
    IN  /\ activeRunsByKey' = [k \in Keys |-> IF k \in K THEN None ELSE activeRunsByKey[k]]
        /\ activeSessionIdsByKey' =
              [k \in Keys |-> IF k \in K THEN None ELSE activeSessionIdsByKey[k]]
        /\ activeKeysBySessionId' =
              [s \in SessionIds |->
                  IF \E o \in O : op[o].sessionId = s /\ activeKeysBySessionId[s] = op[o].key
                  THEN None ELSE activeKeysBySessionId[s]]
        /\ waitKeysBySessionId' =
              [s \in SessionIds |->
                  IF waitKeysBySessionId[s] \in K THEN None ELSE waitKeysBySessionId[s]]
        /\ waitersByKey' =
              [w \in Waiters |-> IF waitersByKey[w] \in K THEN None ELSE waitersByKey[w]]

\* Mutation: the ids of other sessions go as well.
ForgottenWaitKeys(K) == IF K = {} THEN waitKeysBySessionId ELSE [s \in SessionIds |-> None]

\* clearWaitSessionIds
RemainingWaitKeys(K) ==
    [s \in SessionIds |-> IF waitKeysBySessionId[s] \in K THEN None ELSE waitKeysBySessionId[s]]

\* Mutation: nobody is told that the run ended.
NobodyNotified(K) == waitersByKey

\* notifyReplyRunEnded
RemainingWaiters(K) ==
    [w \in Waiters |-> IF waitersByKey[w] \in K THEN None ELSE waitersByKey[w]]

\* clearState of the operations O: those that did it before do nothing.
ClearState(O) ==
    LET live == {o \in O : ~op[o].stateCleared}
        K == {op[o].key : o \in live}
    IN  /\ activeRunsByKey' = [k \in Keys |-> IF k \in K THEN None ELSE activeRunsByKey[k]]
        /\ activeSessionIdsByKey' =
              [k \in Keys |-> IF k \in K THEN None ELSE activeSessionIdsByKey[k]]
        /\ activeKeysBySessionId' =
              [s \in SessionIds |->
                  IF \E o \in live : op[o].sessionId = s /\ activeKeysBySessionId[s] = op[o].key
                  THEN None ELSE activeKeysBySessionId[s]]
        /\ waitKeysBySessionId' = RemainingWaitKeys(K)
        /\ waitersByKey' = RemainingWaiters(K)

\* complete and fail: the first result stays, the key is released.
End(o, result) ==
    /\ Created(o)
    /\ op' = [op EXCEPT ![o].result = IF @ = "none" THEN result ELSE @,
                        ![o].phase = IF op[o].result = "none" THEN result ELSE @,
                        ![o].stateCleared = TRUE]
    /\ ClearState({o})
    /\ UNCHANGED <<ids, backends>>

\* complete and completeThen, by the owner.
Complete(o) == End(o, "completed")

\* fail, by the owner.
Fail(o) == End(o, "failed")

\* forceClearReplyRunBySessionId, by the watchdog of stuck sessions.
ForceClearBySessionId(s) ==
    /\ RunForCurrentSessionId(s) # None
    /\ End(RunForCurrentSessionId(s), "failed")

\* Mutation: an abort leaves the backend to notice the signal.
CancelledByNobody(O) == cancelled

\* The backends that abortWithReason cancels.
CancelledBy(O) == cancelled \cup ({backend[o] : o \in O} \ {None})

\* abortWithReason for every operation of O; those still queued are cleared at
\* once, the others when their owner notices.
Abort(O, code) ==
    LET queued == {o \in O : op[o].phase = "queued"}
    IN  /\ O # {}
        /\ op' = [o \in Ops |-> IF o \notin O THEN op[o] ELSE
                     [op[o] EXCEPT !.result = IF @ = "none" THEN code ELSE @,
                                   !.phase = "aborted",
                                   !.aborted = TRUE,
                                   !.stateCleared = @ \/ o \in queued]]
        /\ cancelled' = CancelledBy(O)
        /\ ClearState(queued)
        /\ UNCHANGED <<ids, backend, serving>>

Active == {activeRunsByKey[k] : k \in Keys} \ {None}

\* replyRunRegistry.abort, by a stop command.
AbortByKey(k) ==
    /\ activeRunsByKey[k] # None
    /\ Abort({activeRunsByKey[k]}, "aborted_by_user")

\* abortReplyRunBySessionId
AbortBySessionId(s) ==
    /\ RunForCurrentSessionId(s) # None
    /\ Abort({RunForCurrentSessionId(s)}, "aborted_by_user")

\* isReplyRunCompacting, where a running backend answers for itself.
MaybeCompacting(o, reported) ==
    \/ op[o].phase \in {"preflight_compacting", "memory_flushing"}
    \/ op[o].phase = "running" /\ backend[o] # None /\ backend[o] \in reported

\* abortActiveReplyRuns before a restart.
AbortAll == Abort(Active, "aborted_for_restart")

AbortCompacting(reported) ==
    Abort({o \in Active : MaybeCompacting(o, reported)}, "aborted_for_restart")

-----------------------------------------------------------------------------

\* waitForIdle on a key with an active run (any other is answered at once).
WaitForIdle(w, k) ==
    /\ waitersByKey[w] = None
    /\ activeRunsByKey[k] # None
    /\ waitersByKey' = [waitersByKey EXCEPT ![w] = k]
    /\ UNCHANGED <<op, ids, activeRunsByKey, activeSessionIdsByKey, activeKeysBySessionId,
                   waitKeysBySessionId, backends>>

\* waitForReplyRunEndBySessionId
WaitForRunEndBySessionId(w, s) == WaitKey(s) # None /\ WaitForIdle(w, WaitKey(s))

\* The waiter's timer.
WaiterTimesOut(w) ==
    /\ waitersByKey[w] # None
    /\ waitersByKey' = [waitersByKey EXCEPT ![w] = None]
    /\ UNCHANGED <<op, ids, activeRunsByKey, activeSessionIdsByKey, activeKeysBySessionId,
                   waitKeysBySessionId, backends>>

Next ==
    \/ \E o \in Ops, k \in Keys, s \in SessionIds, upstreamAborted \in BOOLEAN :
          CreateReplyOperation(o, k, s, upstreamAborted)
    \/ \E o \in Ops : UpstreamAborts(o)
    \/ \E o \in Ops, next \in LivePhases : SetPhase(o, next)
    \/ \E o \in Ops, s \in SessionIds \cup {None} : UpdateSessionId(o, s)
    \/ \E o \in Ops, h \in Handles : AttachBackend(o, h)
    \/ \E o \in Ops, h \in Handles : DetachBackend(o, h)
    \/ \E o \in Ops : Complete(o)
    \/ \E o \in Ops : Fail(o)
    \/ \E s \in SessionIds : ForceClearBySessionId(s)
    \/ \E k \in Keys : AbortByKey(k)
    \/ \E s \in SessionIds : AbortBySessionId(s)
    \/ AbortAll
    \/ \E reported \in SUBSET Handles : AbortCompacting(reported)
    \/ \E w \in Waiters, k \in Keys : WaitForIdle(w, k)
    \/ \E w \in Waiters, s \in SessionIds : WaitForRunEndBySessionId(w, s)
    \/ \E w \in Waiters : WaiterTimesOut(w)

Spec == Init /\ [][Next]_vars

-----------------------------------------------------------------------------
(***************************************************************************)
(* Properties.                                                             *)
(***************************************************************************)

\* A key belongs to the one operation created for it whose state was not
\* cleared: the late complete or fail of an operation that a stop command, a
\* restart or the watchdog already ended never releases its successor's key.
OwnsKeyUntilCleared ==
    \A o \in Ops : Created(o) =>
        (activeRunsByKey[op[o].key] = o <=> ~op[o].stateCleared)

\* The session-id maps name exactly the current ids of the active operations,
\* across rotations, so that an abort by session id reaches the run that has
\* the id now and no other.
IndexFollowsRuns ==
    /\ \A k \in Keys : activeSessionIdsByKey[k] =
          IF activeRunsByKey[k] = None THEN None ELSE op[activeRunsByKey[k]].sessionId
    /\ \A s \in SessionIds, k \in Keys :
          activeKeysBySessionId[s] = k <=> activeSessionIdsByKey[k] = s

\* Whoever asks for the end of a run by an id its session had before a
\* compaction rotated it is made to wait for that run.
OldIdsStillWait ==
    \A o \in Ops : Created(o) /\ ~op[o].stateCleared =>
        \A s \in ids[o] : WaitKey(s) = op[o].key

\* Nobody waits for a key that is idle: no end of a run goes unannounced.
WaitersWaitForARun ==
    \A w \in Waiters : waitersByKey[w] # None => activeRunsByKey[waitersByKey[w]] # None

\* A backend that works for an aborted operation was cancelled, whether the
\* abort or the attempt came first.
AbortReachesBackend ==
    \A h \in Handles : serving[h] # None /\ op[serving[h]].result \in AbortCodes => h \in cancelled

\* The first result of an operation is the one that callers see ever after.
ResultIsFinal ==
    [][\A o \in Ops : op[o].result # "none" => op'[o].result = op[o].result]_vars
=============================================================================
