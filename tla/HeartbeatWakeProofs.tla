------------------------ MODULE HeartbeatWakeProofs ------------------------
(***************************************************************************)
(* Proofs about heartbeat wakes, for any targets and any number of         *)
(* requests, handlers, skips and exceptions.                               *)
(***************************************************************************)
EXTENDS HeartbeatWake, FiniteSetTheorems, TLAPS

-----------------------------------------------------------------------------
(***************************************************************************)
(* Urgency: levels are few, so every set of them has a most urgent one.    *)
(***************************************************************************)

\* A level is one of five numbers.
LEMMA LevelRange == Levels \subseteq -1..3
  BY WakeAssumption DEF Levels, NoWake

\* Levels can be compared.
LEMMA LevelsAreIntegers == \A x \in Levels : x \in Int
  BY LevelRange

\* The maximum of some levels is one of them and bounds them.
LEMMA MaxOfLevels ==
  ASSUME NEW S, S \subseteq -1..3, S # {}
  PROVE  Max(S) \in S /\ \A y \in S : Max(S) >= y
  <1>1. \E x \in S : \A y \in S : x >= y
    <2>1. CASE 3 \in S BY <2>1
    <2>2. CASE 3 \notin S /\ 2 \in S BY <2>2
    <2>3. CASE 3 \notin S /\ 2 \notin S /\ 1 \in S BY <2>3
    <2>4. CASE 3 \notin S /\ 2 \notin S /\ 1 \notin S /\ 0 \in S BY <2>4
    <2>5. CASE 3 \notin S /\ 2 \notin S /\ 1 \notin S /\ 0 \notin S
      <3>1. \A x \in S : x = -1
        BY <2>5
      <3>2. PICK x \in S : TRUE
        OBVIOUS
      <3>3. \A y \in S : x >= y
        BY <3>1, <3>2
      <3> QED BY <3>3
    <2> QED BY <2>1, <2>2, <2>3, <2>4, <2>5
  <1> QED BY <1>1 DEF Max

\* queuePendingWakeReason keeps the more urgent of two.
LEMMA MaxOfTwo ==
  ASSUME NEW a \in Levels, NEW b \in Levels
  PROVE  Max({a, b}) \in Levels /\ Max({a, b}) >= a /\ Max({a, b}) >= b
  BY LevelRange, MaxOfLevels

\* The same for the wakes of a request and of a whole batch.
LEMMA QueuedFacts ==
  ASSUME NEW wakes \in [Targets -> Levels]
  PROVE  /\ \A t \in Targets, p \in Levels :
               /\ QueuedWake(wakes, t, p) \in [Targets -> Levels]
               /\ QueuedWake(wakes, t, p)[t] >= p
               /\ \A u \in Targets : QueuedWake(wakes, t, p)[u] >= wakes[u]
         /\ \A batch \in [Targets -> Levels] :
               /\ QueuedBatch(wakes, batch) \in [Targets -> Levels]
               /\ \A u \in Targets : /\ QueuedBatch(wakes, batch)[u] >= wakes[u]
                                     /\ QueuedBatch(wakes, batch)[u] >= batch[u]
  <1>1. ASSUME NEW t \in Targets, NEW p \in Levels
        PROVE  /\ QueuedWake(wakes, t, p) \in [Targets -> Levels]
               /\ QueuedWake(wakes, t, p)[t] >= p
               /\ \A u \in Targets : QueuedWake(wakes, t, p)[u] >= wakes[u]
    <2> DEFINE top == Max({wakes[t], p})
    <2>1. top \in Levels /\ top >= wakes[t] /\ top >= p
      BY MaxOfTwo
    <2>2. QueuedWake(wakes, t, p) = [wakes EXCEPT ![t] = top]
      BY DEF QueuedWake
    <2> HIDE DEF top
    <2>3. \A u \in Targets : wakes[u] >= wakes[u]
      BY LevelsAreIntegers
    <2> QED BY <2>1, <2>2, <2>3
  <1>2. ASSUME NEW batch \in [Targets -> Levels]
        PROVE  /\ QueuedBatch(wakes, batch) \in [Targets -> Levels]
               /\ \A u \in Targets : /\ QueuedBatch(wakes, batch)[u] >= wakes[u]
                                     /\ QueuedBatch(wakes, batch)[u] >= batch[u]
    BY MaxOfTwo DEF QueuedBatch
  <1> QED BY <1>1, <1>2

-----------------------------------------------------------------------------
(***************************************************************************)
(* The inductive invariant.  A wake that is owed is pending, or in the     *)
(* hands of a loop, at least as urgently; without an outliving loop the    *)
(* flag tells whether the one loop runs.                                   *)
(***************************************************************************)
Covered(t) ==
    \/ owed[t] <= pendingWakes[t]
    \/ \E i \in LoopIds : t \in wakeLoops[i].rest /\ owed[t] <= wakeLoops[i].batch[t]

SoleLoop ==
    ~outlived => /\ \A i, j \in Looping : i = j
                 /\ running <=> Looping # {}

WakeInv ==
    /\ WakeTypeOK
    /\ NoWakeStranded
    /\ \A t \in Targets : Covered(t)
    /\ SoleLoop

\* schedule always leaves a timer.
LEMMA SchedulesFacts ==
  ASSUME NEW timer \in {"none", "normal", "retry"}, NEW kind \in {"normal", "retry"}
  PROVE  Schedules(timer, kind) \subseteq {"normal", "retry"}
  BY DEF Schedules

\* No handler, no wakes, no loops.
LEMMA WakeInvInit == WakeInit => WakeInv
  <1> SUFFICES ASSUME WakeInit PROVE WakeInv
    OBVIOUS
  <1>0. NoWake \in Levels
    BY DEF Levels
  <1>1. NoBatch \in [Targets -> Levels]
    BY <1>0 DEF NoBatch
  <1>2. WakeTypeOK
    <2>1. NotLooping \in [batch : [Targets -> Levels], rest : SUBSET Targets]
      BY <1>1 DEF NotLooping
    <2>2. wakeLoops \in [LoopIds -> [batch : [Targets -> Levels], rest : SUBSET Targets]]
      BY <2>1 DEF WakeInit
    <2>3. wakeCounts \in [{"handlers", "requests", "busy", "throws"} -> Nat]
      BY DEF WakeInit
    <2>4. handlerGeneration \in Nat /\ handler \in 0..handlerGeneration
      BY DEF WakeInit
    <2> QED BY <1>1, <2>2, <2>3, <2>4, Zenon DEF WakeInit, WakeTypeOK
  <1>3. NoWakeStranded
    BY DEF WakeInit, NoWakeStranded
  <1>4. \A t \in Targets : Covered(t)
    BY <1>1, LevelRange DEF WakeInit, Covered, NoBatch, NoWake
  <1>5. SoleLoop
    BY DEF WakeInit, SoleLoop, Looping, NotLooping
  <1> QED BY <1>2, <1>3, <1>4, <1>5 DEF WakeInv

-----------------------------------------------------------------------------
(***************************************************************************)
(* Steps.                                                                  *)
(***************************************************************************)

LoopStates == [batch : [Targets -> Levels], rest : SUBSET Targets]

\* A request.
LEMMA RequestKeeps ==
  ASSUME WakeInv, NEW t \in Targets, NEW priority \in WakePriorities, RequestHeartbeat(t, priority)
  PROVE  WakeInv'
  <1>0. WakeTypeOK /\ priority \in Levels
    BY DEF WakeInv, Levels
  <1> DEFINE top == Max({owed[t], priority})
             queued == QueuedWake(pendingWakes, t, priority)
  <1>1. /\ queued \in [Targets -> Levels] /\ queued[t] >= priority
        /\ \A u \in Targets : queued[u] >= pendingWakes[u]
    BY <1>0, QueuedFacts DEF WakeTypeOK
  <1>2. top \in {owed[t], priority} /\ top \in Levels
    <2>1. owed[t] \in Levels
      BY <1>0 DEF WakeTypeOK
    <2> QED BY <1>0, <2>1, LevelRange, MaxOfLevels
  <1>3. pendingWakes' = queued /\ owed' = [owed EXCEPT ![t] = top]
    BY DEF RequestHeartbeat
  <1> HIDE DEF top, queued
  <1>4. wakeTimer' \in {"normal", "retry"}
    BY <1>0, SchedulesFacts DEF RequestHeartbeat, WakeTypeOK
  <1>5. wakeCounts' \in [{"handlers", "requests", "busy", "throws"} -> Nat]
    BY <1>0 DEF RequestHeartbeat, Counted, WakeTypeOK
  <1>6. WakeTypeOK'
    BY <1>0, <1>1, <1>2, <1>3, <1>4, <1>5 DEF RequestHeartbeat, WakeTypeOK
  <1>7. \A u \in Targets : Covered(u)'
    <2> TAKE u \in Targets
    <2>0. /\ owed[u] \in Levels /\ pendingWakes[u] \in Levels /\ queued[u] \in Levels
          /\ Covered(u) /\ queued[u] >= pendingWakes[u]
      BY <1>0, <1>1 DEF WakeTypeOK, WakeInv
    <2>1. wakeLoops' = wakeLoops /\ owed'[u] = (IF u = t THEN top ELSE owed[u])
      BY <1>0, <1>3 DEF RequestHeartbeat, WakeTypeOK
    <2>2. CASE u = t /\ top = priority
      BY <1>0, <1>1, <1>3, <2>0, <2>1, <2>2, LevelRange DEF Covered
    <2>3. CASE owed'[u] = owed[u]
      <3>1. CASE owed[u] <= pendingWakes[u]
        <4>1. owed[u] <= queued[u]
          BY <2>0, <3>1, LevelsAreIntegers
        <4> QED BY <1>3, <2>3, <4>1 DEF Covered
      <3>2. CASE \E i \in LoopIds : u \in wakeLoops[i].rest /\ owed[u] <= wakeLoops[i].batch[u]
        BY <2>1, <2>3, <3>2 DEF Covered
      <3> QED BY <2>0, <3>1, <3>2 DEF Covered
    <2> QED BY <1>2, <2>1, <2>2, <2>3
  <1>8. SoleLoop'
    BY DEF WakeInv, RequestHeartbeat, SoleLoop, Looping
  <1> QED BY <1>4, <1>6, <1>7, <1>8 DEF WakeInv, NoWakeStranded

\* Registration and disposal of handlers, and a timer without one.
LEMMA HandlerChangesKeep ==
  WakeInv /\ (SetHeartbeatWakeHandler \/ DisposeHandler \/ TimerFindsNoHandler) => WakeInv'
  <1> SUFFICES ASSUME WakeInv, SetHeartbeatWakeHandler \/ DisposeHandler \/ TimerFindsNoHandler
               PROVE  WakeInv'
    OBVIOUS
  <1>0. WakeTypeOK
    BY DEF WakeInv
  <1>1. pendingWakes' = pendingWakes /\ wakeLoops' = wakeLoops /\ owed' = owed
    BY DEF SetHeartbeatWakeHandler, DisposeHandler, TimerFindsNoHandler
  <1>2. \A t \in Targets : Covered(t)'
    BY <1>1 DEF WakeInv, Covered
  <1>3. CASE SetHeartbeatWakeHandler
    <2>1. wakeCounts' \in [{"handlers", "requests", "busy", "throws"} -> Nat]
      BY <1>0, <1>3 DEF SetHeartbeatWakeHandler, Counted, WakeTypeOK
    <2>2. handlerGeneration' \in Nat /\ handler' \in 0..handlerGeneration'
      BY <1>0, <1>3 DEF SetHeartbeatWakeHandler, WakeTypeOK
    <2>3. outlived' \in BOOLEAN
      BY <1>3 DEF SetHeartbeatWakeHandler
    <2>4. WakeTypeOK'
      BY <1>0, <1>1, <1>3, <2>1, <2>2, <2>3 DEF SetHeartbeatWakeHandler, WakeTypeOK
    <2>5. NoWakeStranded'
      BY <1>1, <1>3 DEF SetHeartbeatWakeHandler, NoWakeStranded, SomePending
    <2>6. SoleLoop'
      BY <1>1, <1>3 DEF SetHeartbeatWakeHandler, SoleLoop, Looping
    <2> QED BY <1>2, <2>4, <2>5, <2>6 DEF WakeInv
  <1>4. CASE DisposeHandler
    <2>1. WakeTypeOK'
      BY <1>0, <1>1, <1>4 DEF DisposeHandler, WakeTypeOK
    <2>2. NoWakeStranded' /\ SoleLoop'
      BY <1>4 DEF DisposeHandler, NoWakeStranded, SoleLoop, Looping, WakeInv
    <2> QED BY <1>2, <2>1, <2>2 DEF WakeInv
  <1>5. CASE TimerFindsNoHandler
    <2>1. WakeTypeOK'
      BY <1>0, <1>1, <1>5 DEF TimerFindsNoHandler, WakeTypeOK
    <2>2. NoWakeStranded' /\ SoleLoop'
      BY <1>5 DEF TimerFindsNoHandler, NoWakeStranded, SoleLoop, Looping, WakeInv
    <2> QED BY <1>2, <2>1, <2>2 DEF WakeInv
  <1> QED BY <1>3, <1>4, <1>5

\* The timer takes the pending wakes, unless a loop runs.
LEMMA TimerKeeps ==
  ASSUME WakeInv, NEW i \in LoopIds, TimerFires(i)
  PROVE  WakeInv'
  <1>0. WakeTypeOK
    BY DEF WakeInv
  <1>1. CASE running
    <2>1. WakeTypeOK'
      BY <1>0, <1>1 DEF TimerFires, WakeTypeOK
    <2>2. \A t \in Targets : Covered(t)'
      BY <1>1 DEF TimerFires, WakeInv, Covered
    <2>3. NoWakeStranded' /\ SoleLoop'
      BY <1>1 DEF TimerFires, WakeInv, NoWakeStranded, SoleLoop, Looping
    <2> QED BY <2>1, <2>2, <2>3 DEF WakeInv
  <1>2. CASE ~running
    <2> DEFINE taken == [batch |-> pendingWakes, rest |-> {t \in Targets : pendingWakes[t] # NoWake}]
    <2>1. /\ wakeTimer' = "none" /\ scheduled' = FALSE
          /\ wakeLoops[i].rest = {}
          /\ pendingWakes' = NoBatch
          /\ running' = SomePending(pendingWakes)
          /\ wakeLoops' = [wakeLoops EXCEPT ![i] = taken]
          /\ UNCHANGED <<handler, handlerGeneration, wakeCounts, owed, outlived>>
      BY <1>2 DEF TimerFires
    <2>2. NoBatch \in [Targets -> Levels]
      BY DEF NoBatch, Levels
    <2>3. taken \in LoopStates
      BY <1>0 DEF WakeTypeOK, LoopStates
    <2>4. wakeLoops' \in [LoopIds -> LoopStates]
      BY <1>0, <2>1, <2>3 DEF WakeTypeOK, LoopStates
    <2>5. running' \in BOOLEAN
      BY <2>1 DEF SomePending
    <2>6. WakeTypeOK'
      BY <1>0, <2>1, <2>2, <2>4, <2>5 DEF WakeTypeOK, LoopStates
    <2>7. NoWakeStranded'
      BY <2>1 DEF NoWakeStranded, SomePending, NoBatch
    <2>8. \A t \in Targets : Covered(t)'
      <3> TAKE t \in Targets
      <3>0. /\ owed' = owed /\ owed[t] \in Levels /\ pendingWakes[t] \in Levels /\ Covered(t)
        BY <1>0, <2>1 DEF WakeTypeOK, WakeInv
      <3>1. CASE owed[t] <= pendingWakes[t] /\ pendingWakes[t] # NoWake
        <4>1. t \in taken.rest /\ owed[t] <= taken.batch[t]
          BY <3>1
        <4>2. wakeLoops'[i] = taken
          BY <1>0, <2>1 DEF WakeTypeOK
        <4> QED BY <3>0, <4>1, <4>2 DEF Covered
      <3>2. CASE owed[t] <= pendingWakes[t] /\ pendingWakes[t] = NoWake
        BY <2>1, <3>0, <3>2 DEF Covered, NoBatch
      <3>3. CASE \E j \in LoopIds : t \in wakeLoops[j].rest /\ owed[t] <= wakeLoops[j].batch[t]
        <4>1. PICK j \in LoopIds : t \in wakeLoops[j].rest /\ owed[t] <= wakeLoops[j].batch[t]
          BY <3>3
        <4>2. j # i
          BY <2>1, <4>1
        <4>3. wakeLoops'[j] = wakeLoops[j]
          BY <1>0, <2>1, <4>2 DEF WakeTypeOK
        <4> QED BY <3>0, <4>1, <4>3 DEF Covered
      <3> QED BY <3>0, <3>1, <3>2, <3>3 DEF Covered
    <2>9. SoleLoop'
      <3> SUFFICES ASSUME ~outlived PROVE /\ \A j, k \in Looping' : j = k
                                         /\ running' <=> Looping' # {}
        BY <2>1 DEF SoleLoop
      <3>1. Looping = {}
        BY <1>2 DEF WakeInv, SoleLoop
      <3>2. \A j \in LoopIds : wakeLoops'[j] = IF j = i THEN taken ELSE wakeLoops[j]
        BY <1>0, <2>1 DEF WakeTypeOK
      <3>3. Looping' = IF taken.rest = {} THEN {} ELSE {i}
        BY <3>1, <3>2 DEF Looping
      <3>4. running' <=> taken.rest # {}
        BY <2>1 DEF SomePending
      <3> QED BY <3>3, <3>4
    <2> QED BY <2>6, <2>7, <2>8, <2>9 DEF WakeInv
  <1> QED BY <1>1, <1>2

\* What a loop that goes on leaves: types are kept, and a timer if wakes are pending and
\* one was there; with its last wake it stops and resets the flag.
WentOn(i, t, timer) ==
    /\ wakeLoops' \in [LoopIds -> LoopStates]
    /\ wakeLoops'[i].rest = wakeLoops[i].rest \ {t}
    /\ wakeLoops[i].rest \ {t} # {} => wakeLoops'[i].batch = wakeLoops[i].batch
    /\ \A j \in LoopIds \ {i} : wakeLoops'[j] = wakeLoops[j]
    /\ running' = (IF wakeLoops[i].rest \ {t} = {} THEN FALSE ELSE running)
    /\ wakeTimer' \in {"none", "normal", "retry"}
    /\ SomePending(pendingWakes') /\ timer # "none" => wakeTimer' # "none"

\* LoopGoesOn does that.
LEMMA GoesOnFacts ==
  ASSUME WakeTypeOK, NEW i \in LoopIds, NEW t \in Targets, t \in wakeLoops[i].rest,
         NEW timer \in {"none", "normal", "retry"}, LoopGoesOn(i, t, timer)
  PROVE  WentOn(i, t, timer)
  <1> DEFINE left == wakeLoops[i].rest \ {t}
             next == IF left = {} THEN NotLooping ELSE [wakeLoops[i] EXCEPT !.rest = left]
  <1>1. wakeLoops' = [wakeLoops EXCEPT ![i] = next]
    BY DEF LoopGoesOn
  <1>2. NotLooping \in LoopStates /\ NotLooping.rest = {}
    BY DEF NotLooping, LoopStates, NoBatch, Levels
  <1>3. wakeLoops[i] \in LoopStates /\ wakeLoops \in [LoopIds -> LoopStates]
    BY DEF WakeTypeOK, LoopStates
  <1>4. next \in LoopStates /\ next.rest = left /\ (left # {} => next.batch = wakeLoops[i].batch)
    BY <1>2, <1>3 DEF LoopStates
  <1>5. CASE left = {}
    <2>1. LoopEnds(timer, pendingWakes')
      BY <1>5 DEF LoopGoesOn
    <2>2. Schedules(timer, "normal") \subseteq {"normal", "retry"}
      BY SchedulesFacts
    <2> HIDE DEF next
    <2>3. /\ running' = FALSE /\ wakeTimer' \in {"none", "normal", "retry"}
          /\ SomePending(pendingWakes') => wakeTimer' # "none"
      BY <2>1, <2>2 DEF LoopEnds
    <2> QED BY <1>1, <1>3, <1>4, <1>5, <2>3 DEF next, WentOn
  <1>6. CASE left # {}
    <2>1. wakeTimer' = timer /\ running' = running
      BY <1>6 DEF LoopGoesOn
    <2> QED BY <1>1, <1>3, <1>4, <1>6, <2>1 DEF WentOn
  <1> QED BY <1>5, <1>6

\* Types, timer and flag after a loop dealt with one wake; what is owed is left to the caller.
LEMMA LoopStepKeeps ==
  ASSUME WakeInv, NEW i \in LoopIds, NEW t \in Targets, t \in wakeLoops[i].rest,
         NEW timer \in {"none", "normal", "retry"}, LoopGoesOn(i, t, timer),
         UNCHANGED <<handler, handlerGeneration, scheduled, outlived>>,
         pendingWakes' \in [Targets -> Levels], owed' \in [Targets -> Levels],
         wakeCounts' \in [{"handlers", "requests", "busy", "throws"} -> Nat],
         SomePending(pendingWakes') /\ handler # 0 => timer # "none"
  PROVE  WakeTypeOK' /\ NoWakeStranded' /\ SoleLoop'
  <1> DEFINE left == wakeLoops[i].rest \ {t}
  <1>0. WakeTypeOK
    BY DEF WakeInv
  <1>1. /\ wakeLoops' \in [LoopIds -> LoopStates] /\ wakeLoops'[i].rest = left
        /\ \A j \in LoopIds \ {i} : wakeLoops'[j] = wakeLoops[j]
        /\ running' = (IF left = {} THEN FALSE ELSE running)
        /\ wakeTimer' \in {"none", "normal", "retry"}
        /\ SomePending(pendingWakes') /\ timer # "none" => wakeTimer' # "none"
    <2>1. WentOn(i, t, timer)
      BY <1>0, GoesOnFacts
    <2> QED BY <2>1 DEF WentOn
  <1>2. running' \in BOOLEAN
    BY <1>0, <1>1 DEF WakeTypeOK
  <1>3. WakeTypeOK'
    BY <1>0, <1>1, <1>2 DEF WakeTypeOK, LoopStates
  <1>4. NoWakeStranded'
    BY <1>1 DEF NoWakeStranded, SomePending
  <1>5. SoleLoop'
    <2> SUFFICES ASSUME ~outlived PROVE /\ \A j, k \in Looping' : j = k
                                       /\ running' <=> Looping' # {}
      BY DEF SoleLoop
    <2>1. i \in Looping
      BY DEF Looping
    <2>2. Looping = {i} /\ running
      BY <2>1 DEF WakeInv, SoleLoop
    <2>3. Looping' = IF left = {} THEN {} ELSE {i}
      BY <1>1, <2>2 DEF Looping
    <2> HIDE DEF left
    <2> QED BY <1>1, <2>2, <2>3
  <1> QED BY <1>3, <1>4, <1>5

\* A wake was served: only what others asked for is still owed.
LEMMA ServesKeeps ==
  ASSUME WakeInv, NEW i \in LoopIds, NEW t \in Targets, HandlerServes(i, t)
  PROVE  WakeInv'
  <1> DEFINE others == {j \in LoopIds \ {i} : t \in wakeLoops[j].rest}
             held == {pendingWakes[t]} \cup {wakeLoops[j].batch[t] : j \in others}
             top == Max(held)
  <1>0. WakeTypeOK /\ t \in wakeLoops[i].rest /\ LoopGoesOn(i, t, wakeTimer)
    BY DEF WakeInv, HandlerServes
  <1>1. /\ pendingWakes' = pendingWakes /\ wakeCounts' = wakeCounts
        /\ owed' = [owed EXCEPT ![t] = top]
        /\ UNCHANGED <<handler, handlerGeneration, scheduled, outlived>>
    BY DEF HandlerServes, StillOwed
  <1>2. held \subseteq Levels /\ held # {}
    BY <1>0 DEF WakeTypeOK
  <1>3. top \in held /\ top \in Levels
    <2> HIDE DEF held
    <2> QED BY <1>2, LevelRange, MaxOfLevels
  <1>4. top = pendingWakes[t] \/ \E j \in others : top = wakeLoops[j].batch[t]
    BY <1>3
  <1> HIDE DEF top, held
  <1>5. owed' \in [Targets -> Levels]
    BY <1>0, <1>1, <1>3 DEF WakeTypeOK
  <1>6. WakeTypeOK' /\ NoWakeStranded' /\ SoleLoop'
    <2>1. SomePending(pendingWakes') /\ handler # 0 => wakeTimer # "none"
      BY <1>1 DEF WakeInv, NoWakeStranded
    <2>2. /\ wakeTimer \in {"none", "normal", "retry"}
          /\ pendingWakes' \in [Targets -> Levels]
          /\ wakeCounts' \in [{"handlers", "requests", "busy", "throws"} -> Nat]
      BY <1>0, <1>1 DEF WakeTypeOK
    <2> QED BY <1>0, <1>1, <1>5, <2>1, <2>2, LoopStepKeeps
  <1>7. \A u \in Targets : Covered(u)'
    <2> TAKE u \in Targets
    <2>0. owed'[u] = (IF u = t THEN top ELSE owed[u])
      BY <1>0, <1>1 DEF WakeTypeOK
    <2>1. /\ wakeLoops'[i].rest = wakeLoops[i].rest \ {t}
          /\ wakeLoops[i].rest \ {t} # {} => wakeLoops'[i].batch = wakeLoops[i].batch
          /\ \A j \in LoopIds \ {i} : wakeLoops'[j] = wakeLoops[j]
      <3>1. wakeTimer \in {"none", "normal", "retry"}
        BY <1>0 DEF WakeTypeOK
      <3>2. WentOn(i, t, wakeTimer)
        BY <1>0, <3>1, GoesOnFacts
      <3> QED BY <3>2 DEF WentOn
    <2>2. CASE u = t
      <3>1. CASE top = pendingWakes[t]
        <4>1. top <= pendingWakes[t]
          BY <1>3, <3>1, LevelsAreIntegers
        <4> QED BY <1>1, <2>0, <2>2, <4>1 DEF Covered
      <3>2. CASE \E j \in others : top = wakeLoops[j].batch[t]
        <4>1. PICK j \in others : top = wakeLoops[j].batch[t]
          BY <3>2
        <4>2. j \in LoopIds /\ j # i /\ t \in wakeLoops[j].rest /\ wakeLoops'[j] = wakeLoops[j]
          BY <2>1, <4>1
        <4>3. top <= wakeLoops[j].batch[t]
          BY <1>3, <4>1, LevelsAreIntegers
        <4> QED BY <2>0, <2>2, <4>2, <4>3 DEF Covered
      <3> QED BY <1>4, <3>1, <3>2
    <2>3. CASE u # t
      <3>0. Covered(u) /\ owed'[u] = owed[u]
        BY <2>0, <2>3 DEF WakeInv
      <3>1. CASE owed[u] <= pendingWakes[u]
        BY <1>1, <3>0, <3>1 DEF Covered
      <3>2. CASE \E j \in LoopIds : u \in wakeLoops[j].rest /\ owed[u] <= wakeLoops[j].batch[u]
        <4>1. PICK j \in LoopIds : u \in wakeLoops[j].rest /\ owed[u] <= wakeLoops[j].batch[u]
          BY <3>2
        <4>2. u \in wakeLoops'[j].rest /\ wakeLoops'[j].batch = wakeLoops[j].batch
          BY <2>1, <2>3, <4>1
        <4> QED BY <3>0, <4>1, <4>2 DEF Covered
      <3> QED BY <3>0, <3>1, <3>2 DEF Covered
    <2> QED BY <2>2, <2>3
  <1> QED BY <1>6, <1>7 DEF WakeInv

\* A skipped wake is pending again, as urgently as the loop held it.
LEMMA BusyKeeps ==
  ASSUME WakeInv, NEW i \in LoopIds, NEW t \in Targets, HandlerIsBusy(i, t)
  PROVE  WakeInv'
  <1> DEFINE queued == QueuedWake(pendingWakes, t, wakeLoops[i].batch[t])
  <1>0. WakeTypeOK /\ t \in wakeLoops[i].rest
    BY DEF WakeInv, HandlerIsBusy
  <1>1. PICK timer \in Schedules(wakeTimer, "retry") : LoopGoesOn(i, t, timer)
    BY DEF HandlerIsBusy
  <1>2. timer \in {"normal", "retry"}
    BY <1>0, <1>1, SchedulesFacts DEF WakeTypeOK
  <1>3. /\ pendingWakes' = queued /\ owed' = owed
        /\ UNCHANGED <<handler, handlerGeneration, scheduled, outlived>>
    BY DEF HandlerIsBusy
  <1>4. wakeLoops[i].batch[t] \in Levels
    BY <1>0 DEF WakeTypeOK
  <1>5. /\ queued \in [Targets -> Levels] /\ queued[t] >= wakeLoops[i].batch[t]
        /\ \A u \in Targets : queued[u] >= pendingWakes[u]
    BY <1>0, <1>4, QueuedFacts DEF WakeTypeOK
  <1> HIDE DEF queued
  <1>6. WakeTypeOK' /\ NoWakeStranded' /\ SoleLoop'
    <2>1. wakeCounts' \in [{"handlers", "requests", "busy", "throws"} -> Nat]
      BY <1>0 DEF HandlerIsBusy, Counted, WakeTypeOK
    <2>2. owed' \in [Targets -> Levels]
      BY <1>0, <1>3 DEF WakeTypeOK
    <2> QED BY <1>0, <1>1, <1>2, <1>3, <1>5, <2>1, <2>2, LoopStepKeeps
  <1>7. \A u \in Targets : Covered(u)'
    <2> TAKE u \in Targets
    <2>0. /\ owed[u] \in Levels /\ pendingWakes[u] \in Levels /\ queued[u] \in Levels
          /\ Covered(u) /\ queued[u] >= pendingWakes[u] /\ owed'[u] = owed[u]
          /\ pendingWakes'[u] = queued[u]
      BY <1>0, <1>3, <1>5 DEF WakeTypeOK, WakeInv
    <2>1. /\ wakeLoops'[i].rest = wakeLoops[i].rest \ {t}
          /\ wakeLoops[i].rest \ {t} # {} => wakeLoops'[i].batch = wakeLoops[i].batch
          /\ \A j \in LoopIds \ {i} : wakeLoops'[j] = wakeLoops[j]
      <3>1. WentOn(i, t, timer)
        BY <1>0, <1>1, <1>2, GoesOnFacts
      <3> QED BY <3>1 DEF WentOn
    <2>2. CASE owed[u] <= pendingWakes[u]
      <3>1. owed[u] <= queued[u]
        BY <2>0, <2>2, LevelsAreIntegers
      <3> QED BY <2>0, <3>1 DEF Covered
    <2>3. CASE \E j \in LoopIds : u \in wakeLoops[j].rest /\ owed[u] <= wakeLoops[j].batch[u]
      <3>1. PICK j \in LoopIds : u \in wakeLoops[j].rest /\ owed[u] <= wakeLoops[j].batch[u]
        BY <2>3
      <3>2. CASE j = i /\ u = t
        <4>1. owed[u] <= queued[u]
          BY <1>4, <1>5, <2>0, <3>1, <3>2, LevelsAreIntegers
        <4> QED BY <2>0, <4>1 DEF Covered
      <3>3. CASE ~(j = i /\ u = t)
        <4>1. u \in wakeLoops'[j].rest /\ wakeLoops'[j].batch = wakeLoops[j].batch
          BY <2>1, <3>1, <3>3
        <4> QED BY <2>0, <3>1, <4>1 DEF Covered
      <3> QED BY <3>2, <3>3
    <2> QED BY <2>0, <2>2, <2>3 DEF Covered
  <1> QED BY <1>6, <1>7 DEF WakeInv

\* An exception makes the whole batch pending again.
LEMMA ThrowsKeeps ==
  ASSUME WakeInv, NEW i \in LoopIds, HandlerThrows(i)
  PROVE  WakeInv'
  <1> DEFINE queued == QueuedBatch(pendingWakes, wakeLoops[i].batch)
  <1>0. WakeTypeOK /\ wakeLoops[i].rest # {}
    BY DEF WakeInv, HandlerThrows
  <1>1. PICK timer \in Schedules(wakeTimer, "retry") : LoopEnds(timer, pendingWakes')
    BY DEF HandlerThrows
  <1>2. timer \in {"normal", "retry"}
    BY <1>0, <1>1, SchedulesFacts DEF WakeTypeOK
  <1>3. /\ pendingWakes' = queued /\ owed' = owed
        /\ wakeLoops' = [wakeLoops EXCEPT ![i] = NotLooping]
        /\ UNCHANGED <<handler, handlerGeneration, scheduled, outlived>>
    BY DEF HandlerThrows
  <1>4. running' = FALSE /\ wakeTimer' \in {"normal", "retry"}
    BY <1>1, <1>2, SchedulesFacts DEF LoopEnds
  <1>5. /\ queued \in [Targets -> Levels]
        /\ \A u \in Targets : queued[u] >= pendingWakes[u] /\ queued[u] >= wakeLoops[i].batch[u]
    <2>1. wakeLoops[i].batch \in [Targets -> Levels] /\ pendingWakes \in [Targets -> Levels]
      BY <1>0 DEF WakeTypeOK
    <2> QED BY <2>1, QueuedFacts
  <1> HIDE DEF queued
  <1>6. /\ \A j \in LoopIds : wakeLoops'[j] = IF j = i THEN NotLooping ELSE wakeLoops[j]
        /\ wakeLoops' \in [LoopIds -> LoopStates]
    <2>1. NotLooping \in LoopStates
      BY DEF NotLooping, LoopStates, NoBatch, Levels
    <2> QED BY <1>0, <1>3, <2>1 DEF WakeTypeOK, LoopStates
  <1>7. WakeTypeOK'
    <2>1. wakeCounts' \in [{"handlers", "requests", "busy", "throws"} -> Nat]
      BY <1>0 DEF HandlerThrows, Counted, WakeTypeOK
    <2> QED BY <1>0, <1>3, <1>4, <1>5, <1>6, <2>1 DEF WakeTypeOK, LoopStates
  <1>8. NoWakeStranded'
    BY <1>4 DEF NoWakeStranded
  <1>9. SoleLoop'
    <2> SUFFICES ASSUME ~outlived PROVE Looping' = {}
      BY <1>3, <1>4 DEF SoleLoop
    <2>1. i \in Looping
      BY <1>0 DEF Looping
    <2>2. Looping = {i}
      BY <2>1 DEF WakeInv, SoleLoop
    <2>3. NotLooping.rest = {}
      BY DEF NotLooping
    <2> QED BY <1>6, <2>2, <2>3 DEF Looping
  <1>10. \A u \in Targets : Covered(u)'
    <2> TAKE u \in Targets
    <2>0. /\ owed[u] \in Levels /\ pendingWakes[u] \in Levels /\ queued[u] \in Levels
          /\ Covered(u) /\ queued[u] >= pendingWakes[u] /\ queued[u] >= wakeLoops[i].batch[u]
          /\ wakeLoops[i].batch[u] \in Levels
          /\ owed'[u] = owed[u] /\ pendingWakes'[u] = queued[u]
      BY <1>0, <1>3, <1>5 DEF WakeTypeOK, WakeInv
    <2>1. CASE owed[u] <= pendingWakes[u] \/ owed[u] <= wakeLoops[i].batch[u]
      <3>1. owed[u] <= queued[u]
        BY <2>0, <2>1, LevelsAreIntegers
      <3> QED BY <2>0, <3>1 DEF Covered
    <2>2. CASE \E j \in LoopIds \ {i} : u \in wakeLoops[j].rest /\ owed[u] <= wakeLoops[j].batch[u]
      BY <1>6, <2>0, <2>2 DEF Covered
    <2> QED BY <2>0, <2>1, <2>2 DEF Covered
  <1> QED BY <1>7, <1>8, <1>9, <1>10 DEF WakeInv

\* Every step keeps the invariant.
LEMMA WakeInvStep == WakeInv /\ [WakeNext]_wakeVars => WakeInv'
  <1> SUFFICES ASSUME WakeInv, [WakeNext]_wakeVars PROVE WakeInv'
    OBVIOUS
  <1>1. CASE \E t \in Targets, priority \in WakePriorities : RequestHeartbeat(t, priority)
    BY <1>1, RequestKeeps
  <1>2. CASE SetHeartbeatWakeHandler \/ DisposeHandler \/ TimerFindsNoHandler
    BY <1>2, HandlerChangesKeep
  <1>3. CASE \E i \in LoopIds : TimerFires(i)
    BY <1>3, TimerKeeps
  <1>4. CASE \E i \in LoopIds : LoopProgresses(i)
    BY <1>4, ServesKeeps, BusyKeeps, ThrowsKeeps DEF LoopProgresses
  <1>5. CASE UNCHANGED wakeVars
    BY <1>5 DEF wakeVars, WakeInv, WakeTypeOK, NoWakeStranded, SomePending, Covered, SoleLoop, Looping
  <1> QED BY <1>1, <1>2, <1>3, <1>4, <1>5 DEF WakeNext, WakeTimerFires

-----------------------------------------------------------------------------
(***************************************************************************)
(* What follows for every execution.                                       *)
(***************************************************************************)

\* The inductive invariant holds.
THEOREM WakeInvariant == WakeSpec => []WakeInv
  BY WakeInvInit, WakeInvStep, PTL DEF WakeSpec

\* The variables keep their types.
THEOREM WakeTypes == WakeSpec => []WakeTypeOK
  <1>1. WakeInv => WakeTypeOK
    BY DEF WakeInv
  <1> QED BY <1>1, WakeInvariant, PTL

\* While a handler is registered, a pending wake has a timer: the retries, the
\* replacement of the handler and the finally block of an old loop leave none behind.
THEOREM NoStrandedWakes == WakeSpec => []NoWakeStranded
  <1>1. WakeInv => NoWakeStranded
    BY DEF WakeInv
  <1> QED BY <1>1, WakeInvariant, PTL

\* No requested wake is dropped, or made less urgent, before it was served.
THEOREM WakesAreKept == WakeSpec => []WakesKept
  <1>1. WakeInv => WakesKept
    <2> SUFFICES ASSUME WakeInv, NEW t \in Targets
                 PROVE  owed[t] <= Max({pendingWakes[t]} \cup
                          {wakeLoops[i].batch[t] : i \in {i \in Looping : t \in wakeLoops[i].rest}})
      BY DEF WakesKept
    <2> DEFINE held == {pendingWakes[t]} \cup
                 {wakeLoops[i].batch[t] : i \in {i \in Looping : t \in wakeLoops[i].rest}}
    <2>1. WakeTypeOK /\ Covered(t) /\ Looping \subseteq LoopIds
      BY DEF WakeInv, Looping
    <2>2. held \subseteq Levels /\ held # {} /\ owed[t] \in Levels
      BY <2>1 DEF WakeTypeOK
    <2>3. \E x \in held : owed[t] <= x
      BY <2>1 DEF Covered, Looping
    <2> HIDE DEF held
    <2>4. Max(held) \in Levels /\ \A x \in held : Max(held) >= x
      BY <2>2, LevelRange, MaxOfLevels
    <2>5. owed[t] <= Max(held)
      BY <2>2, <2>3, <2>4, LevelsAreIntegers
    <2> QED BY <2>5 DEF held
  <1> QED BY <1>1, WakeInvariant, PTL

\* One loop at a time, as its flag says, unless a loop outlived its handler.
THEOREM OneLoop == WakeSpec => []OneWakeLoop
  <1>1. WakeInv => OneWakeLoop
    <2> SUFFICES ASSUME WakeInv, ~outlived
                 PROVE  Cardinality(Looping) <= 1 /\ (running <=> Looping # {})
      BY DEF OneWakeLoop
    <2>1. /\ \A i, j \in Looping : i = j
          /\ running <=> Looping # {}
      BY DEF WakeInv, SoleLoop
    <2>2. CASE Looping = {}
      BY <2>1, <2>2, FS_EmptySet
    <2>3. CASE Looping # {}
      <3>1. PICK i \in Looping : TRUE
        BY <2>3
      <3>2. Looping = {i}
        BY <2>1, <3>1
      <3>3. Cardinality({i}) = 1
        BY FS_Singleton
      <3> QED BY <2>1, <3>2, <3>3
    <2> QED BY <2>2, <2>3
  <1> QED BY <1>1, WakeInvariant, PTL
=============================================================================
