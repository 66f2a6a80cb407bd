----------------------- MODULE ReplyRunRegistryProofs -----------------------
(***************************************************************************)
(* ReplyRunRegistry for every set of keys, operations, backends and        *)
(* waiters.  The inductive invariant adds to the checked properties what   *)
(* the closures and the maps know of each other.                           *)
(***************************************************************************)
EXTENDS ReplyRunRegistry, TLAPS

\* What activeRunsByKey holds was created for that key.
ActiveIsCreated ==
    \A k \in Keys : activeRunsByKey[k] # None =>
        /\ Created(activeRunsByKey[k])
        /\ op[activeRunsByKey[k]].key = k

\* A closure that released its key has a result, and its ids are its key's.
ClosuresConsistent ==
    \A o \in Ops :
        /\ ~Created(o) => op[o].result = "none" /\ ~op[o].stateCleared
        /\ op[o].stateCleared => op[o].result # "none"
        /\ Created(o) => /\ op[o].sessionId \in IdsOf[op[o].key]
                         /\ ids[o] \subseteq IdsOf[op[o].key]

\* Every id of a live operation is registered for waits.
IdsRegistered ==
    \A o \in Ops : Created(o) /\ ~op[o].stateCleared =>
        \A s \in ids[o] : waitKeysBySessionId[s] = op[o].key

\* An operation without a result knows the backend that works for it.
BackendsKnown ==
    \A h \in Handles : serving[h] # None =>
        /\ Created(serving[h])
        /\ op[serving[h]].result = "none" => backend[serving[h]] = h

IInv ==
    /\ TypeOK
    /\ OwnsKeyUntilCleared
    /\ ActiveIsCreated
    /\ ClosuresConsistent
    /\ IndexFollowsRuns
    /\ IdsRegistered
    /\ WaitersWaitForARun
    /\ BackendsKnown
    /\ AbortReachesBackend

-----------------------------------------------------------------------------

\* The ids of a key are session ids.
LEMMA IdsAreSessionIds ==
    ASSUME NEW k \in Keys, NEW s \in IdsOf[k]
    PROVE  s \in SessionIds
BY DEF SessionIds

\* An id belongs to one key only.
LEMMA IdHasOneKey ==
    ASSUME NEW k \in Keys, NEW other \in Keys, NEW s, s \in IdsOf[k], s \in IdsOf[other]
    PROVE  k = other
BY RegistryAssumption

\* None is none of the things the maps hold.
LEMMA NoneIsNothing == None \notin Keys /\ None \notin SessionIds /\ None \notin Ops /\ None \notin Handles
BY RegistryAssumption

\* The empty registry satisfies the invariant.
LEMMA InitHolds == Init => IInv
<1> SUFFICES ASSUME Init PROVE IInv
  OBVIOUS
<1>1. TypeOK
  BY NoneIsNothing DEF Init, TypeOK, Unborn, OpStates, Created, Phases, LivePhases, Results, AbortCodes
<1>2. \A o \in Ops : ~Created(o) /\ op[o].result = "none" /\ ~op[o].stateCleared
  BY DEF Init, Created, Unborn
<1>3. QED
  BY <1>1, <1>2, NoneIsNothing DEF Init, IInv, OwnsKeyUntilCleared, ActiveIsCreated,
     ClosuresConsistent, IndexFollowsRuns, IdsRegistered, WaitersWaitForARun, BackendsKnown,
     AbortReachesBackend

-----------------------------------------------------------------------------
(***************************************************************************)
(* Operations that release no key.                                         *)
(***************************************************************************)

\* A new operation takes a free key.
LEMMA CreateHolds ==
    ASSUME IInv, NEW o \in Ops, NEW k \in Keys, NEW s \in SessionIds,
           NEW up \in BOOLEAN, CreateReplyOperation(o, k, s, up)
    PROVE  IInv'
<1> USE DEF CreateReplyOperation, maps, backends
<1>1. TypeOK'
  BY NoneIsNothing DEF IInv, TypeOK, OpStates, Created, Phases, LivePhases, Results
<1>2. \A p \in Ops : p # o => op'[p] = op[p] /\ ids'[p] = ids[p]
  BY DEF IInv, TypeOK
<1>3. /\ op'[o].key = k /\ op'[o].sessionId = s /\ op'[o].phase = "queued"
      /\ op'[o].result = "none" /\ ~op'[o].stateCleared /\ ids'[o] = {s}
  BY DEF IInv, TypeOK
<1>4. /\ activeRunsByKey'[k] = o /\ activeSessionIdsByKey'[k] = s
      /\ \A j \in Keys : j # k => /\ activeRunsByKey'[j] = activeRunsByKey[j]
                                  /\ activeSessionIdsByKey'[j] = activeSessionIdsByKey[j]
      /\ activeKeysBySessionId'[s] = k /\ waitKeysBySessionId'[s] = k
      /\ \A t \in SessionIds : t # s => /\ activeKeysBySessionId'[t] = activeKeysBySessionId[t]
                                        /\ waitKeysBySessionId'[t] = waitKeysBySessionId[t]
  BY DEF IInv, TypeOK
<1> HIDE DEF CreateReplyOperation
<1>5. activeRunsByKey[k] = None /\ ~Created(o) /\ s \in IdsOf[k]
  BY DEF CreateReplyOperation
<1>6. \A j \in Keys : activeRunsByKey[j] # o
  BY <1>5, NoneIsNothing DEF IInv, ActiveIsCreated
<1>7. OwnsKeyUntilCleared'
  BY <1>2, <1>3, <1>4, <1>5, <1>6, NoneIsNothing DEF IInv, TypeOK, OwnsKeyUntilCleared, Created
<1>8. ActiveIsCreated'
  BY <1>2, <1>3, <1>4, <1>5, <1>6 DEF IInv, TypeOK, ActiveIsCreated, Created
<1>9. ClosuresConsistent'
  BY <1>2, <1>3, <1>5 DEF IInv, ClosuresConsistent, Created
<1>10. IndexFollowsRuns'
  <2>1. \A t \in SessionIds : activeKeysBySessionId[t] # k
    BY <1>5, NoneIsNothing DEF IInv, IndexFollowsRuns
  <2>2. \A j \in Keys : activeSessionIdsByKey[j] # s
    <3> SUFFICES ASSUME NEW j \in Keys, activeSessionIdsByKey[j] = s PROVE FALSE
      OBVIOUS
    <3>1. activeRunsByKey[j] # None /\ op[activeRunsByKey[j]].sessionId = s
      BY NoneIsNothing DEF IInv, IndexFollowsRuns
    <3>2. s \in IdsOf[j]
      BY <3>1 DEF IInv, TypeOK, ActiveIsCreated, ClosuresConsistent
    <3>3. j = k
      BY <3>2, <1>5, IdHasOneKey
    <3> QED BY <3>1, <3>3, <1>5
  <2>3. \A j \in Keys : activeSessionIdsByKey'[j] =
            IF activeRunsByKey'[j] = None THEN None ELSE op'[activeRunsByKey'[j]].sessionId
    BY <1>2, <1>3, <1>4, <1>6, NoneIsNothing DEF IInv, TypeOK, IndexFollowsRuns
  <2>4. \A t \in SessionIds, j \in Keys :
            activeKeysBySessionId'[t] = j <=> activeSessionIdsByKey'[j] = t
    BY <1>4, <2>1, <2>2 DEF IInv, IndexFollowsRuns
  <2> QED BY <2>3, <2>4 DEF IndexFollowsRuns
<1>11. IdsRegistered'
  <2> SUFFICES ASSUME NEW p \in Ops, Created(p)', ~op'[p].stateCleared, NEW t \in ids'[p]
               PROVE  waitKeysBySessionId'[t] = op'[p].key
    BY DEF IdsRegistered
  <2>1. CASE p = o
    BY <2>1, <1>3, <1>4
  <2>2. CASE p # o
    <3>1. waitKeysBySessionId[t] = op[p].key /\ op'[p] = op[p] /\ t \in ids[p] /\ Created(p)
      BY <2>2, <1>2 DEF IInv, IdsRegistered, Created
    <3>2. t \in IdsOf[op[p].key] /\ op[p].key \in Keys /\ activeRunsByKey[op[p].key] = p
      BY <3>1 DEF IInv, TypeOK, ClosuresConsistent, OwnsKeyUntilCleared
    <3>3. t # s
      BY <3>2, <1>5, IdHasOneKey, NoneIsNothing
    <3>4. t \in SessionIds
      BY <3>2, IdsAreSessionIds
    <3> QED BY <3>1, <3>3, <3>4, <1>4
  <2> QED BY <2>1, <2>2
<1>12. WaitersWaitForARun'
  BY <1>4, NoneIsNothing DEF IInv, TypeOK, WaitersWaitForARun, CreateReplyOperation
<1>13. /\ BackendsKnown' /\ AbortReachesBackend'
  <2>1. \A h \in Handles : serving[h] # None => serving[h] # o
    BY <1>5 DEF IInv, BackendsKnown
  <2>2. serving' = serving /\ backend' = backend /\ cancelled' = cancelled
    BY DEF CreateReplyOperation
  <2> QED BY <1>2, <2>1, <2>2 DEF IInv, TypeOK, BackendsKnown, AbortReachesBackend, Created
<1> QED BY <1>1, <1>7, <1>8, <1>9, <1>10, <1>11, <1>12, <1>13 DEF IInv

\* A step that keeps keys, ids, results and releases, and all maps.
SameButPhase ==
    /\ \A p \in Ops :
          /\ op'[p].key = op[p].key /\ op'[p].sessionId = op[p].sessionId
          /\ op'[p].result = op[p].result /\ op'[p].stateCleared = op[p].stateCleared
          /\ Created(p)' <=> Created(p)
    /\ op' \in [Ops -> OpStates]
    /\ UNCHANGED <<ids, maps, backends>>

\* Such a step preserves the invariant.
LEMMA SameButPhaseHolds ==
    ASSUME IInv, SameButPhase
    PROVE  IInv'
<1> USE DEF SameButPhase, maps, backends
<1>1. TypeOK'
  BY DEF IInv, TypeOK
<1>2. OwnsKeyUntilCleared' /\ ActiveIsCreated' /\ ClosuresConsistent'
  BY DEF IInv, TypeOK, OwnsKeyUntilCleared, ActiveIsCreated, ClosuresConsistent
<1>3. IndexFollowsRuns' /\ IdsRegistered' /\ WaitersWaitForARun'
  BY DEF IInv, TypeOK, IndexFollowsRuns, IdsRegistered, WaitersWaitForARun
<1>4. BackendsKnown' /\ AbortReachesBackend'
  BY DEF IInv, TypeOK, BackendsKnown, AbortReachesBackend
<1> QED BY <1>1, <1>2, <1>3, <1>4 DEF IInv

\* A signal that fires changes no map.
LEMMA UpstreamAbortsHolds ==
    ASSUME IInv, NEW o \in Ops, UpstreamAborts(o)
    PROVE  IInv'
<1>1. op' \in [Ops -> OpStates]
  <2>1. op[o] \in OpStates /\ op' = [op EXCEPT ![o] = [op[o] EXCEPT !.aborted = TRUE]]
    BY DEF UpstreamAborts, IInv, TypeOK
  <2>2. [op[o] EXCEPT !.aborted = TRUE] \in OpStates
    BY <2>1 DEF OpStates
  <2> QED BY <2>1, <2>2 DEF IInv, TypeOK
<1>2. \A p \in Ops :
          /\ op'[p].key = op[p].key /\ op'[p].sessionId = op[p].sessionId
          /\ op'[p].result = op[p].result /\ op'[p].stateCleared = op[p].stateCleared
          /\ op'[p].phase = op[p].phase
  BY DEF UpstreamAborts, IInv, TypeOK, OpStates
<1>3. SameButPhase
  BY <1>1, <1>2 DEF UpstreamAborts, SameButPhase, Created
<1> QED BY <1>3, SameButPhaseHolds

\* A live operation stays live through its phases.
LEMMA SetPhaseHolds ==
    ASSUME IInv, NEW o \in Ops, NEW next \in LivePhases, SetPhase(o, next)
    PROVE  IInv'
<1>1. SameButPhase
  BY DEF SetPhase, SameButPhase, IInv, TypeOK, OpStates, Created, LivePhases, Phases
<1> QED BY <1>1, SameButPhaseHolds

\* A rotation moves the key from the old id to the new one.
LEMMA UpdateSessionIdHolds ==
    ASSUME IInv, NEW o \in Ops, NEW s \in SessionIds \cup {None}, UpdateSessionId(o, s)
    PROVE  IInv'
<1> DEFINE k == op[o].key
           old == op[o].sessionId
<1>1. /\ Created(o) /\ op[o].result = "none" /\ k \in Keys
      /\ s \in IdsOf[k] /\ s # old /\ s \in SessionIds
      /\ old \in IdsOf[k] /\ old \in SessionIds
  BY IdsAreSessionIds DEF UpdateSessionId, IInv, TypeOK, ClosuresConsistent
<1>2. ~op[o].stateCleared /\ activeRunsByKey[k] = o
  BY <1>1 DEF IInv, ClosuresConsistent, OwnsKeyUntilCleared
<1>3. TypeOK'
  <2>1. op' \in [Ops -> OpStates] /\ ids' \in [Ops -> SUBSET SessionIds]
    BY <1>1 DEF UpdateSessionId, IInv, TypeOK, OpStates
  <2>2. \A p \in Ops : Created(p)' => op'[p].key \in Keys /\ op'[p].sessionId \in SessionIds
    BY <1>1 DEF UpdateSessionId, IInv, TypeOK, OpStates, Created
  <2>3. /\ activeSessionIdsByKey' \in [Keys -> SessionIds \cup {None}]
        /\ activeKeysBySessionId' \in [SessionIds -> Keys \cup {None}]
        /\ waitKeysBySessionId' \in [SessionIds -> Keys \cup {None}]
    BY <1>1 DEF UpdateSessionId, IInv, TypeOK
  <2> QED BY <2>1, <2>2, <2>3 DEF UpdateSessionId, IInv, TypeOK, backends
<1>4. /\ \A p \in Ops : p # o => op'[p] = op[p] /\ ids'[p] = ids[p]
      /\ op'[o].key = k /\ op'[o].sessionId = s /\ op'[o].phase = op[o].phase
      /\ op'[o].result = op[o].result /\ op'[o].stateCleared = op[o].stateCleared
      /\ ids'[o] = ids[o] \cup {s}
  BY DEF UpdateSessionId, IInv, TypeOK, OpStates
<1>5. /\ activeRunsByKey' = activeRunsByKey
      /\ activeSessionIdsByKey'[k] = s
      /\ \A j \in Keys : j # k => activeSessionIdsByKey'[j] = activeSessionIdsByKey[j]
      /\ activeKeysBySessionId'[s] = k /\ activeKeysBySessionId'[old] = None
      /\ waitKeysBySessionId'[s] = k /\ waitKeysBySessionId'[old] = k
      /\ \A t \in SessionIds : t # s /\ t # old =>
            /\ activeKeysBySessionId'[t] = activeKeysBySessionId[t]
            /\ waitKeysBySessionId'[t] = waitKeysBySessionId[t]
  BY <1>1 DEF UpdateSessionId, IInv, TypeOK
<1>6. UNCHANGED <<waitersByKey, backend, serving, cancelled>>
  BY DEF UpdateSessionId, backends
<1>7. OwnsKeyUntilCleared' /\ ActiveIsCreated' /\ ClosuresConsistent'
  BY <1>1, <1>4, <1>5 DEF IInv, TypeOK, OwnsKeyUntilCleared, ActiveIsCreated, ClosuresConsistent,
     Created
<1>8. IndexFollowsRuns'
  <2>1. activeSessionIdsByKey[k] = old /\ activeKeysBySessionId[old] = k
    BY <1>1, <1>2, NoneIsNothing DEF IInv, IndexFollowsRuns
  <2>2. \A j \in Keys : j # k => activeRunsByKey[j] # o
    BY NoneIsNothing DEF IInv, ActiveIsCreated
  <2>3. \A j \in Keys : j # k => activeSessionIdsByKey[j] # s /\ activeSessionIdsByKey[j] # old
    <3> SUFFICES ASSUME NEW j \in Keys, j # k,
                        activeSessionIdsByKey[j] = s \/ activeSessionIdsByKey[j] = old
                 PROVE  FALSE
      OBVIOUS
    <3> DEFINE t == activeSessionIdsByKey[j]
    <3>1. t \in IdsOf[k] /\ t # None
      BY <1>1, NoneIsNothing
    <3>2. activeRunsByKey[j] # None /\ op[activeRunsByKey[j]].sessionId = t
      BY <3>1 DEF IInv, IndexFollowsRuns
    <3>3. t \in IdsOf[j]
      BY <3>2 DEF IInv, TypeOK, ActiveIsCreated, ClosuresConsistent
    <3> QED BY <3>1, <3>3, <1>1, IdHasOneKey
  <2>4. \A t \in SessionIds : t # old => activeKeysBySessionId[t] # k
    BY <2>1, <1>1 DEF IInv, IndexFollowsRuns
  <2>5. \A j \in Keys : activeSessionIdsByKey'[j] =
            IF activeRunsByKey'[j] = None THEN None ELSE op'[activeRunsByKey'[j]].sessionId
    BY <1>1, <1>2, <1>4, <1>5, <2>2, NoneIsNothing DEF IInv, TypeOK, IndexFollowsRuns
  <2>6. \A t \in SessionIds, j \in Keys :
            activeKeysBySessionId'[t] = j <=> activeSessionIdsByKey'[j] = t
    BY <1>1, <1>5, <2>1, <2>3, <2>4, NoneIsNothing DEF IInv, IndexFollowsRuns
  <2> QED BY <2>5, <2>6 DEF IndexFollowsRuns
<1>9. IdsRegistered'
  <2> SUFFICES ASSUME NEW p \in Ops, Created(p)', ~op'[p].stateCleared, NEW t \in ids'[p]
               PROVE  waitKeysBySessionId'[t] = op'[p].key
    BY DEF IdsRegistered
  <2>1. CASE p = o
    <3>1. t \in ids[o] \/ t = s
      BY <2>1, <1>4
    <3>2. t \in SessionIds
      BY <3>1, <1>1 DEF IInv, TypeOK
    <3> QED BY <2>1, <3>1, <3>2, <1>1, <1>2, <1>4, <1>5 DEF IInv, IdsRegistered
  <2>2. CASE p # o
    <3>1. waitKeysBySessionId[t] = op[p].key /\ op'[p] = op[p] /\ t \in ids[p] /\ Created(p)
      BY <2>2, <1>4 DEF IInv, IdsRegistered, Created
    <3>2. t \in IdsOf[op[p].key] /\ op[p].key \in Keys /\ activeRunsByKey[op[p].key] = p
      BY <3>1 DEF IInv, TypeOK, ClosuresConsistent, OwnsKeyUntilCleared
    <3>3. op[p].key # k
      BY <3>2, <2>2, <1>2
    <3>4. t # s /\ t # old
      BY <3>2, <3>3, <1>1, IdHasOneKey
    <3>5. t \in SessionIds
      BY <3>2, IdsAreSessionIds
    <3> QED BY <3>1, <3>4, <3>5, <1>5
  <2> QED BY <2>1, <2>2
<1>10. WaitersWaitForARun' /\ BackendsKnown' /\ AbortReachesBackend'
  BY <1>4, <1>5, <1>6 DEF IInv, TypeOK, WaitersWaitForARun, BackendsKnown, AbortReachesBackend,
     Created
<1> QED BY <1>3, <1>7, <1>8, <1>9, <1>10 DEF IInv

\* A backend is attached, or cancelled on arrival.
LEMMA AttachBackendHolds ==
    ASSUME IInv, NEW o \in Ops, NEW h \in Handles, AttachBackend(o, h)
    PROVE  IInv'
<1> USE DEF AttachBackend, maps
<1>1. TypeOK'
  BY DEF IInv, TypeOK, Created
<1>2. UNCHANGED <<op, ids, activeRunsByKey, activeSessionIdsByKey, activeKeysBySessionId,
                  waitKeysBySessionId, waitersByKey>>
  OBVIOUS
<1>3. OwnsKeyUntilCleared' /\ ActiveIsCreated' /\ ClosuresConsistent' /\ IndexFollowsRuns'
      /\ IdsRegistered' /\ WaitersWaitForARun'
  BY <1>2 DEF IInv, OwnsKeyUntilCleared, ActiveIsCreated, ClosuresConsistent, IndexFollowsRuns,
     IdsRegistered, WaitersWaitForARun, Created
<1>4. BackendsKnown'
  BY <1>2 DEF IInv, TypeOK, BackendsKnown, Created
<1>5. AbortReachesBackend'
  BY <1>2 DEF IInv, TypeOK, AbortReachesBackend, AbortCodes
<1> QED BY <1>1, <1>3, <1>4, <1>5 DEF IInv

\* A backend that ended is forgotten.
LEMMA DetachBackendHolds ==
    ASSUME IInv, NEW o \in Ops, NEW h \in Handles, DetachBackend(o, h)
    PROVE  IInv'
<1> USE DEF DetachBackend, maps
<1>1. TypeOK'
  BY DEF IInv, TypeOK, Created
<1>2. UNCHANGED <<op, ids, activeRunsByKey, activeSessionIdsByKey, activeKeysBySessionId,
                  waitKeysBySessionId, waitersByKey>>
  OBVIOUS
<1>3. OwnsKeyUntilCleared' /\ ActiveIsCreated' /\ ClosuresConsistent' /\ IndexFollowsRuns'
      /\ IdsRegistered' /\ WaitersWaitForARun'
  BY <1>2 DEF IInv, OwnsKeyUntilCleared, ActiveIsCreated, ClosuresConsistent, IndexFollowsRuns,
     IdsRegistered, WaitersWaitForARun, Created
<1>4. BackendsKnown'
  BY <1>2, NoneIsNothing DEF IInv, TypeOK, BackendsKnown, Created
<1>5. AbortReachesBackend'
  BY <1>2, NoneIsNothing DEF IInv, TypeOK, AbortReachesBackend
<1> QED BY <1>1, <1>3, <1>4, <1>5 DEF IInv

\* A waiter that arrives finds a run; one that gives up waits no more.
LEMMA WaitersHold ==
    ASSUME IInv, NEW w \in Waiters,
           (\E k \in Keys : WaitForIdle(w, k)) \/ WaiterTimesOut(w)
    PROVE  IInv'
<1>1. UNCHANGED <<op, ids, activeRunsByKey, activeSessionIdsByKey, activeKeysBySessionId,
                  waitKeysBySessionId, backend, serving, cancelled>>
  BY DEF WaitForIdle, WaiterTimesOut, backends
<1>2. TypeOK'
  BY <1>1 DEF IInv, TypeOK, Created, WaitForIdle, WaiterTimesOut
<1>3. OwnsKeyUntilCleared' /\ ActiveIsCreated' /\ ClosuresConsistent' /\ IndexFollowsRuns'
      /\ IdsRegistered' /\ BackendsKnown' /\ AbortReachesBackend'
  BY <1>1 DEF IInv, OwnsKeyUntilCleared, ActiveIsCreated, ClosuresConsistent, IndexFollowsRuns,
     IdsRegistered, BackendsKnown, AbortReachesBackend, Created
<1>4. WaitersWaitForARun'
  BY <1>1 DEF IInv, TypeOK, WaitersWaitForARun, WaitForIdle, WaiterTimesOut
<1> QED BY <1>2, <1>3, <1>4 DEF IInv

-----------------------------------------------------------------------------
(***************************************************************************)
(* Operations that end a run.                                              *)
(***************************************************************************)

\* The closures of the operations C release their keys; results, once set,
\* stay.
Releases(C) ==
    /\ C \subseteq Ops
    /\ \A p \in Ops :
          /\ op'[p].key = op[p].key /\ op'[p].sessionId = op[p].sessionId
          /\ Created(p)' <=> Created(p)
          /\ op'[p].stateCleared <=> (op[p].stateCleared \/ p \in C)
          /\ op[p].result # "none" => op'[p].result = op[p].result
          /\ p \in C => op'[p].result # "none"
          /\ ~Created(p) => op'[p].result = op[p].result /\ p \notin C
    /\ op' \in [Ops -> OpStates]
    /\ UNCHANGED ids

\* clearState frees exactly the keys of the operations it releases.
LEMMA ReleasesHold ==
    ASSUME IInv, NEW C, Releases(C), ClearState(C)
    PROVE  /\ UNCHANGED <<backend, serving>> /\ cancelled' \subseteq Handles => TypeOK'
           /\ OwnsKeyUntilCleared' /\ ActiveIsCreated' /\ ClosuresConsistent'
           /\ IndexFollowsRuns' /\ IdsRegistered' /\ WaitersWaitForARun'
<1> DEFINE live == {o \in C : ~op[o].stateCleared}
           K == {op[o].key : o \in live}
<1>1. \A o \in live : o \in Ops /\ Created(o) /\ op[o].key \in Keys
                    /\ activeRunsByKey[op[o].key] = o
  BY DEF Releases, IInv, TypeOK, OwnsKeyUntilCleared
<1>2. \A k \in Keys : k \in K <=> activeRunsByKey[k] # None /\ activeRunsByKey[k] \in C
  <2> SUFFICES ASSUME NEW k \in Keys
               PROVE  k \in K <=> activeRunsByKey[k] # None /\ activeRunsByKey[k] \in C
    OBVIOUS
  <2>1. k \in K => activeRunsByKey[k] # None /\ activeRunsByKey[k] \in C
    BY <1>1, NoneIsNothing
  <2>2. ASSUME activeRunsByKey[k] # None, activeRunsByKey[k] \in C
        PROVE  k \in K
    <3>1. /\ activeRunsByKey[k] \in Ops /\ Created(activeRunsByKey[k])
          /\ op[activeRunsByKey[k]].key = k
      BY <2>2 DEF IInv, TypeOK, ActiveIsCreated
    <3>2. ~op[activeRunsByKey[k]].stateCleared
      BY <3>1 DEF IInv, OwnsKeyUntilCleared
    <3> QED BY <2>2, <3>1, <3>2
  <2> QED BY <2>1, <2>2
<1>3. /\ \A k \in Keys :
          /\ activeRunsByKey'[k] = IF k \in K THEN None ELSE activeRunsByKey[k]
          /\ activeSessionIdsByKey'[k] = IF k \in K THEN None ELSE activeSessionIdsByKey[k]
      /\ \A s \in SessionIds :
          /\ activeKeysBySessionId'[s] =
                IF \E o \in live : op[o].sessionId = s /\ activeKeysBySessionId[s] = op[o].key
                THEN None ELSE activeKeysBySessionId[s]
          /\ waitKeysBySessionId'[s] =
                IF waitKeysBySessionId[s] \in K THEN None ELSE waitKeysBySessionId[s]
      /\ \A w \in Waiters :
            waitersByKey'[w] = IF waitersByKey[w] \in K THEN None ELSE waitersByKey[w]
  BY DEF ClearState, RemainingWaitKeys, RemainingWaiters
<1>4. /\ activeRunsByKey' \in [Keys -> Ops \cup {None}]
      /\ activeSessionIdsByKey' \in [Keys -> SessionIds \cup {None}]
      /\ activeKeysBySessionId' \in [SessionIds -> Keys \cup {None}]
      /\ waitKeysBySessionId' \in [SessionIds -> Keys \cup {None}]
      /\ waitersByKey' \in [Waiters -> Keys \cup {None}]
  BY DEF ClearState, RemainingWaitKeys, RemainingWaiters, IInv, TypeOK
<1>5. UNCHANGED <<backend, serving>> /\ cancelled' \subseteq Handles => TypeOK'
  BY <1>4 DEF Releases, IInv, TypeOK
<1> HIDE DEF K, live
<1>6. OwnsKeyUntilCleared'
  <2> SUFFICES ASSUME NEW o \in Ops, Created(o)
               PROVE  activeRunsByKey'[op[o].key] = o <=> ~op'[o].stateCleared
    BY DEF OwnsKeyUntilCleared, Releases
  <2>1. op[o].key \in Keys /\ (activeRunsByKey[op[o].key] = o <=> ~op[o].stateCleared)
    BY DEF IInv, TypeOK, OwnsKeyUntilCleared
  <2> QED BY <1>2, <1>3, <2>1, NoneIsNothing DEF Releases
<1>7. ActiveIsCreated'
  BY <1>3 DEF Releases, IInv, TypeOK, ActiveIsCreated
<1>8. ClosuresConsistent'
  BY DEF Releases, IInv, ClosuresConsistent
<1>9. IndexFollowsRuns'
  <2>1. \A k \in Keys : activeSessionIdsByKey'[k] =
            IF activeRunsByKey'[k] = None THEN None ELSE op'[activeRunsByKey'[k]].sessionId
    BY <1>3 DEF Releases, IInv, TypeOK, IndexFollowsRuns
  <2>2. ASSUME NEW s \in SessionIds, NEW k \in Keys
        PROVE  activeKeysBySessionId'[s] = k <=> activeSessionIdsByKey'[k] = s
    <3>1. activeKeysBySessionId[s] = k <=> activeSessionIdsByKey[k] = s
      BY DEF IInv, IndexFollowsRuns
    <3>2. CASE k \in K
      <4>1. PICK o \in live : op[o].key = k
        BY <3>2 DEF K
      <4>2. activeSessionIdsByKey[k] = op[o].sessionId
        BY <4>1, <1>1, NoneIsNothing DEF IInv, IndexFollowsRuns
      <4>3. activeKeysBySessionId[s] = k =>
                \E p \in live : op[p].sessionId = s /\ activeKeysBySessionId[s] = op[p].key
        BY <4>1, <4>2, <3>1
      <4> QED BY <1>3, <3>2, <4>3, NoneIsNothing
    <3>3. CASE k \notin K
      <4>1. \A p \in live : op[p].key # k
        BY <3>3 DEF K
      <4> QED BY <1>3, <3>1, <3>3, <4>1, NoneIsNothing
    <3> QED BY <3>2, <3>3
  <2> QED BY <2>1, <2>2 DEF IndexFollowsRuns
<1>10. IdsRegistered'
  <2> SUFFICES ASSUME NEW o \in Ops, Created(o), ~op'[o].stateCleared, NEW s \in ids[o]
               PROVE  waitKeysBySessionId'[s] = op[o].key
    BY DEF IdsRegistered, Releases
  <2>1. /\ ~op[o].stateCleared /\ o \notin C /\ op[o].key \in Keys /\ s \in SessionIds
        /\ waitKeysBySessionId[s] = op[o].key
    BY DEF Releases, IInv, TypeOK, IdsRegistered
  <2>2. activeRunsByKey[op[o].key] = o
    BY <2>1 DEF IInv, OwnsKeyUntilCleared
  <2> QED BY <1>2, <1>3, <2>1, <2>2
<1>11. WaitersWaitForARun'
  BY <1>3, NoneIsNothing DEF IInv, TypeOK, WaitersWaitForARun
<1> QED BY <1>5, <1>6, <1>7, <1>8, <1>9, <1>10, <1>11

\* complete, fail and the watchdog release one operation.
LEMMA EndHolds ==
    ASSUME IInv, NEW o \in Ops, NEW r \in {"completed", "failed"}, End(o, r)
    PROVE  IInv'
<1>1. UNCHANGED <<ids, backend, serving, cancelled>>
  BY DEF End, backends
<1>2. Releases({o})
  <2>1. \A p \in Ops : p # o => op'[p] = op[p]
    BY DEF End, IInv, TypeOK
  <2>2. /\ op'[o].key = op[o].key /\ op'[o].sessionId = op[o].sessionId
        /\ op'[o].stateCleared = TRUE /\ op'[o].aborted = op[o].aborted
        /\ op'[o].result = IF op[o].result = "none" THEN r ELSE op[o].result
        /\ op'[o].phase = IF op[o].result = "none" THEN r ELSE op[o].phase
    BY DEF End, IInv, TypeOK, OpStates
  <2>3. op' \in [Ops -> OpStates]
    <3>1. op[o] \in OpStates /\ op[o].aborted \in BOOLEAN /\ op[o].result \in Results
          /\ op[o].phase \in Phases
      BY DEF IInv, TypeOK, OpStates
    <3>2. (IF op[o].result = "none" THEN r ELSE op[o].result) \in Results
      BY <3>1 DEF Results
    <3>3. (IF op[o].result = "none" THEN r ELSE op[o].phase) \in Phases
      BY <3>1 DEF Phases
    <3>4. op'[o] = [op[o] EXCEPT !.result = IF op[o].result = "none" THEN r ELSE op[o].result,
                                 !.phase = IF op[o].result = "none" THEN r ELSE op[o].phase,
                                 !.stateCleared = TRUE, !.aborted = op[o].aborted]
      BY <3>1 DEF End, IInv, TypeOK, OpStates
    <3>5. op'[o] \in OpStates
      BY <3>1, <3>2, <3>3, <3>4 DEF OpStates
    <3> QED BY <2>1, <3>5 DEF End, IInv, TypeOK
  <2>4. Created(o) /\ Created(o)'
    BY <2>2 DEF End, Created
  <2> QED BY <1>1, <2>1, <2>2, <2>3, <2>4 DEF Releases, Created
<1>3. ClearState({o})
  BY DEF End
<1>4. TypeOK'
  BY <1>1, <1>2, <1>3, ReleasesHold DEF IInv, TypeOK
<1>5. BackendsKnown' /\ AbortReachesBackend'
  BY <1>1, <1>2 DEF Releases, End, IInv, TypeOK, BackendsKnown, AbortReachesBackend, AbortCodes
<1> QED BY <1>2, <1>3, <1>4, <1>5, ReleasesHold DEF IInv

\* An abort releases the queued operations among those it ends.
LEMMA AbortHolds ==
    ASSUME IInv, NEW O, O \subseteq Ops, \A o \in O : Created(o),
           NEW code \in AbortCodes, Abort(O, code)
    PROVE  IInv'
<1> DEFINE queued == {o \in O : op[o].phase = "queued"}
<1>1. UNCHANGED <<ids, backend, serving>> /\ cancelled' = CancelledBy(O) /\ ClearState(queued)
  BY DEF Abort
<1>2. \A p \in Ops : p \notin O => op'[p] = op[p]
  BY DEF Abort
<1>3. \A p \in O : op'[p] = [op[p] EXCEPT !.result = IF @ = "none" THEN code ELSE @,
                                          !.phase = "aborted",
                                          !.aborted = TRUE,
                                          !.stateCleared = @ \/ p \in queued]
  BY DEF Abort
<1>4. \A p \in O : /\ op'[p].key = op[p].key /\ op'[p].sessionId = op[p].sessionId
                   /\ op'[p].stateCleared <=> (op[p].stateCleared \/ p \in queued)
                   /\ op'[p].result = IF op[p].result = "none" THEN code ELSE op[p].result
                   /\ op'[p].phase = "aborted"
                   /\ op'[p] \in OpStates
  <2> SUFFICES ASSUME NEW p \in O
               PROVE  /\ op'[p].key = op[p].key /\ op'[p].sessionId = op[p].sessionId
                      /\ op'[p].stateCleared <=> (op[p].stateCleared \/ p \in queued)
                      /\ op'[p].result = IF op[p].result = "none" THEN code ELSE op[p].result
                      /\ op'[p].phase = "aborted"
                      /\ op'[p] \in OpStates
    OBVIOUS
  <2> DEFINE r == IF op[p].result = "none" THEN code ELSE op[p].result
             c == op[p].stateCleared \/ p \in queued
  <2>1. op[p] \in OpStates /\ op[p].result \in Results /\ c \in BOOLEAN
    BY DEF IInv, TypeOK, OpStates
  <2>2. r \in Results /\ "aborted" \in Phases
    BY <2>1 DEF Results, Phases
  <2>3. op'[p] = [op[p] EXCEPT !.result = r, !.phase = "aborted", !.stateCleared = c, !.aborted = TRUE]
    BY <1>3, <2>1 DEF OpStates
  <2> HIDE DEF r, c
  <2>4. op'[p] \in OpStates
    BY <2>1, <2>2, <2>3 DEF OpStates
  <2>5. /\ op'[p].key = op[p].key /\ op'[p].sessionId = op[p].sessionId
        /\ op'[p].stateCleared = c /\ op'[p].result = r /\ op'[p].phase = "aborted"
    BY <2>1, <2>3 DEF OpStates
  <2> QED BY <2>4, <2>5 DEF r, c
<1>5. Releases(queued)
  <2>1. op' \in [Ops -> OpStates]
    BY <1>2, <1>4 DEF Abort, IInv, TypeOK
  <2>2. \A p \in O : Created(p)
    OBVIOUS
  <2>3. code # "none"
    BY DEF AbortCodes
  <2> QED BY <1>1, <1>2, <1>4, <2>1, <2>2, <2>3 DEF Releases, Created
<1> HIDE DEF queued
<1>6. cancelled' \subseteq Handles
  BY <1>1 DEF CancelledBy, IInv, TypeOK
<1>7. TypeOK'
  BY <1>1, <1>5, <1>6, ReleasesHold
<1>8. BackendsKnown'
  BY <1>1, <1>5 DEF Releases, IInv, TypeOK, BackendsKnown
<1>9. AbortReachesBackend'
  <2> SUFFICES ASSUME NEW h \in Handles, serving[h] # None, op'[serving[h]].result \in AbortCodes
               PROVE  h \in cancelled'
    BY <1>1 DEF AbortReachesBackend
  <2>1. serving[h] \in Ops
    BY DEF IInv, TypeOK
  <2>2. CASE op[serving[h]].result \in AbortCodes
    BY <2>2, <1>1 DEF IInv, AbortReachesBackend, CancelledBy
  <2>3. CASE op[serving[h]].result \notin AbortCodes
    <3>1. serving[h] \in O /\ op[serving[h]].result = "none"
      BY <2>1, <2>3, <1>2, <1>4
    <3>2. backend[serving[h]] = h
      BY <3>1 DEF IInv, BackendsKnown
    <3> QED BY <3>1, <3>2, <1>1, NoneIsNothing DEF CancelledBy
  <2> QED BY <2>2, <2>3
<1> QED BY <1>1, <1>5, <1>7, <1>8, <1>9, ReleasesHold DEF IInv

-----------------------------------------------------------------------------

\* What the registry's lookups find was created.
LEMMA LookupsFindOperations ==
    ASSUME IInv
    PROVE  /\ \A s \in SessionIds : RunForCurrentSessionId(s) # None =>
                 RunForCurrentSessionId(s) \in Ops /\ Created(RunForCurrentSessionId(s))
           /\ \A k \in Keys : activeRunsByKey[k] # None =>
                 activeRunsByKey[k] \in Ops /\ Created(activeRunsByKey[k])
           /\ Active \subseteq Ops /\ \A o \in Active : Created(o)
<1>1. \A k \in Keys : activeRunsByKey[k] # None =>
          activeRunsByKey[k] \in Ops /\ Created(activeRunsByKey[k])
  BY DEF IInv, TypeOK, ActiveIsCreated
<1>2. \A s \in SessionIds : activeKeysBySessionId[s] # None => activeKeysBySessionId[s] \in Keys
  BY DEF IInv, TypeOK
<1> QED BY <1>1, <1>2 DEF RunForCurrentSessionId, Active

\* Every step of the registry preserves the invariant.
LEMMA NextHolds == IInv /\ [Next]_vars => IInv'
<1> SUFFICES ASSUME IInv, [Next]_vars PROVE IInv'
  OBVIOUS
<1> USE LookupsFindOperations
<1>1. CASE UNCHANGED vars
  <2>1. SameButPhase
    BY <1>1 DEF vars, SameButPhase, IInv, TypeOK, Created
  <2> QED BY <2>1, SameButPhaseHolds
<1>2. CASE \E o \in Ops, k \in Keys, s \in SessionIds, up \in BOOLEAN :
               CreateReplyOperation(o, k, s, up)
  BY <1>2, CreateHolds
<1>3. CASE \E o \in Ops : UpstreamAborts(o)
  BY <1>3, UpstreamAbortsHolds
<1>4. CASE \E o \in Ops, next \in LivePhases : SetPhase(o, next)
  BY <1>4, SetPhaseHolds
<1>5. CASE \E o \in Ops, s \in SessionIds \cup {None} : UpdateSessionId(o, s)
  BY <1>5, UpdateSessionIdHolds
<1>6. CASE \E o \in Ops, h \in Handles : AttachBackend(o, h)
  BY <1>6, AttachBackendHolds
<1>7. CASE \E o \in Ops, h \in Handles : DetachBackend(o, h)
  BY <1>7, DetachBackendHolds
<1>8. CASE \E o \in Ops : Complete(o) \/ Fail(o)
  BY <1>8, EndHolds DEF Complete, Fail
<1>9. CASE \E s \in SessionIds : ForceClearBySessionId(s)
  BY <1>9, EndHolds DEF ForceClearBySessionId
<1>10. CASE \E k \in Keys : AbortByKey(k)
  <2>1. PICK k \in Keys : AbortByKey(k)
    BY <1>10
  <2> DEFINE O == {activeRunsByKey[k]}
  <2>2. O \subseteq Ops /\ (\A o \in O : Created(o)) /\ Abort(O, "aborted_by_user")
    BY <2>1 DEF AbortByKey
  <2> HIDE DEF O
  <2> QED BY <2>2, AbortHolds DEF AbortCodes
<1>11. CASE \E s \in SessionIds : AbortBySessionId(s)
  <2>1. PICK s \in SessionIds : AbortBySessionId(s)
    BY <1>11
  <2> DEFINE O == {RunForCurrentSessionId(s)}
  <2>2. O \subseteq Ops /\ (\A o \in O : Created(o)) /\ Abort(O, "aborted_by_user")
    BY <2>1 DEF AbortBySessionId
  <2> HIDE DEF O
  <2> QED BY <2>2, AbortHolds DEF AbortCodes
<1>12. CASE AbortAll
  BY <1>12, AbortHolds DEF AbortAll, AbortCodes
<1>13. CASE \E reported \in SUBSET Handles : AbortCompacting(reported)
  <2>1. PICK reported \in SUBSET Handles : AbortCompacting(reported)
    BY <1>13
  <2> DEFINE O == {o \in Active : MaybeCompacting(o, reported)}
  <2>2. O \subseteq Ops /\ (\A o \in O : Created(o)) /\ Abort(O, "aborted_for_restart")
    BY <2>1 DEF AbortCompacting
  <2> HIDE DEF O
  <2> QED BY <2>2, AbortHolds DEF AbortCodes
<1>14. CASE \E w \in Waiters, k \in Keys : WaitForIdle(w, k)
  BY <1>14, WaitersHold
<1>15. CASE \E w \in Waiters, s \in SessionIds : WaitForRunEndBySessionId(w, s)
  <2>1. PICK w \in Waiters, s \in SessionIds : WaitForRunEndBySessionId(w, s)
    BY <1>15
  <2>2. WaitKey(s) \in Keys
    BY <2>1 DEF WaitForRunEndBySessionId, WaitKey, IInv, TypeOK
  <2>3. WaitForIdle(w, WaitKey(s))
    BY <2>1 DEF WaitForRunEndBySessionId
  <2> QED BY <2>2, <2>3, WaitersHold
<1>16. CASE \E w \in Waiters : WaiterTimesOut(w)
  BY <1>16, WaitersHold
<1> QED BY <1>1, <1>2, <1>3, <1>4, <1>5, <1>6, <1>7, <1>8, <1>9, <1>10, <1>11, <1>12, <1>13,
           <1>14, <1>15, <1>16 DEF Next

\* The inductive invariant holds in every reachable state, for any number of
\* sessions, operations, backends and waiters.
THEOREM RegistryInvariant == Spec => []IInv
BY InitHolds, NextHolds, PTL DEF Spec

\* Every map and closure stays within its type.
THEOREM RegistryTypeOK == Spec => []TypeOK
<1>1. IInv => TypeOK
  BY DEF IInv
<1> QED BY <1>1, RegistryInvariant, PTL

\* The late complete or fail of an ended operation never releases the key of
\* the operation that came after it.
THEOREM RegistryOwnership == Spec => []OwnsKeyUntilCleared
<1>1. IInv => OwnsKeyUntilCleared
  BY DEF IInv
<1> QED BY <1>1, RegistryInvariant, PTL

\* The session-id maps follow every rotation and release.
THEOREM RegistryIndex == Spec => []IndexFollowsRuns
<1>1. IInv => IndexFollowsRuns
  BY DEF IInv
<1> QED BY <1>1, RegistryInvariant, PTL

\* An id from before a rotation still leads to the run, because no other key
\* can have taken the id.
THEOREM RegistryOldIds == Spec => []OldIdsStillWait
<1>1. IInv => OldIdsStillWait
  <2> SUFFICES ASSUME IInv, NEW o \in Ops, Created(o), ~op[o].stateCleared, NEW s \in ids[o]
               PROVE  WaitKey(s) = op[o].key
    BY DEF OldIdsStillWait
  <2>1. /\ waitKeysBySessionId[s] = op[o].key /\ s \in SessionIds /\ op[o].key \in Keys
        /\ s \in IdsOf[op[o].key]
    BY DEF IInv, TypeOK, IdsRegistered, ClosuresConsistent
  <2>2. CASE activeKeysBySessionId[s] = None
    BY <2>1, <2>2 DEF WaitKey
  <2>3. CASE activeKeysBySessionId[s] # None
    <3> DEFINE k == activeKeysBySessionId[s]
    <3>1. k \in Keys /\ activeSessionIdsByKey[k] = s
      BY <2>1, <2>3 DEF IInv, TypeOK, IndexFollowsRuns
    <3>2. activeRunsByKey[k] # None /\ op[activeRunsByKey[k]].sessionId = s
      BY <3>1, <2>1, NoneIsNothing DEF IInv, IndexFollowsRuns
    <3>3. s \in IdsOf[k]
      BY <3>1, <3>2 DEF IInv, TypeOK, ActiveIsCreated, ClosuresConsistent
    <3>4. k = op[o].key
      BY <2>1, <3>1, <3>3, IdHasOneKey
    <3> QED BY <2>3, <3>4 DEF WaitKey
  <2> QED BY <2>2, <2>3
<1> QED BY <1>1, RegistryInvariant, PTL

\* No end of a run goes unannounced.
THEOREM RegistryWaiters == Spec => []WaitersWaitForARun
<1>1. IInv => WaitersWaitForARun
  BY DEF IInv
<1> QED BY <1>1, RegistryInvariant, PTL

\* No backend works on for an aborted operation without having been cancelled.
THEOREM RegistryAbortsReach == Spec => []AbortReachesBackend
<1>1. IInv => AbortReachesBackend
  BY DEF IInv
<1> QED BY <1>1, RegistryInvariant, PTL

\* A step of the registry changes no result that is set: the creation of an
\* operation meets one without a result, every ending checks.
LEMMA ResultsStay ==
    ASSUME IInv, Next
    PROVE  \A o \in Ops : op[o].result # "none" => op'[o].result = op[o].result
<1> SUFFICES ASSUME NEW q \in Ops, op[q].result # "none" PROVE op'[q].result = op[q].result
  OBVIOUS
<1>1. op[q] \in OpStates /\ op \in [Ops -> OpStates]
  BY DEF IInv, TypeOK
<1>2. CASE \E o \in Ops, k \in Keys, s \in SessionIds, up \in BOOLEAN :
               CreateReplyOperation(o, k, s, up)
  BY <1>1, <1>2 DEF CreateReplyOperation, IInv, ClosuresConsistent
<1>3. CASE \E o \in Ops : UpstreamAborts(o)
  BY <1>1, <1>3 DEF UpstreamAborts, OpStates
<1>4. CASE \E o \in Ops, next \in LivePhases : SetPhase(o, next)
  BY <1>1, <1>4 DEF SetPhase, OpStates
<1>5. CASE \E o \in Ops, s \in SessionIds \cup {None} : UpdateSessionId(o, s)
  BY <1>1, <1>5 DEF UpdateSessionId, OpStates
<1>6. ASSUME NEW o, NEW r, End(o, r) PROVE op'[q].result = op[q].result
  BY <1>1, <1>6 DEF End, OpStates
<1>7. ASSUME NEW O, NEW code, Abort(O, code) PROVE op'[q].result = op[q].result
  BY <1>1, <1>7 DEF Abort, OpStates
<1>8. CASE UNCHANGED op
  BY <1>8
<1>9. CASE \E o \in Ops : Complete(o) \/ Fail(o)
  BY <1>6, <1>9 DEF Complete, Fail
<1>10. CASE \E s \in SessionIds : ForceClearBySessionId(s)
  BY <1>6, <1>10 DEF ForceClearBySessionId
<1>11. CASE \/ \E k \in Keys : AbortByKey(k)
            \/ \E s \in SessionIds : AbortBySessionId(s)
            \/ AbortAll
            \/ \E reported \in SUBSET Handles : AbortCompacting(reported)
  BY <1>7, <1>11 DEF AbortByKey, AbortBySessionId, AbortAll, AbortCompacting
<1>12. CASE \/ \E o \in Ops, h \in Handles : AttachBackend(o, h) \/ DetachBackend(o, h)
            \/ \E w \in Waiters, k \in Keys : WaitForIdle(w, k)
            \/ \E w \in Waiters, s \in SessionIds : WaitForRunEndBySessionId(w, s)
            \/ \E w \in Waiters : WaiterTimesOut(w)
  BY <1>8, <1>12 DEF AttachBackend, DetachBackend, WaitForIdle, WaitForRunEndBySessionId,
     WaiterTimesOut
<1> QED BY <1>2, <1>3, <1>4, <1>5, <1>9, <1>10, <1>11, <1>12 DEF Next

\* The result that callers read is the first one an operation got, whatever
\* its owner, a stop command and a restart do afterwards.
THEOREM RegistryResults == Spec => ResultIsFinal
<1>1. IInv /\ [Next]_vars =>
          [\A o \in Ops : op[o].result # "none" => op'[o].result = op[o].result]_vars
  BY ResultsStay
<1> QED BY <1>1, RegistryInvariant, PTL DEF Spec, ResultIsFinal
=============================================================================
