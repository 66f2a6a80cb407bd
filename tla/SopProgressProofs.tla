-------------------------- MODULE SopProgressProofs --------------------------
(***************************************************************************)
(* Proofs about SOP progress, for any sessions, any number of steps, tool  *)
(* calls, failing writes and restarts.                                     *)
(***************************************************************************)
EXTENDS SopProgress, TLAPS

\* What is proved inductive: types and the two properties.
SopInv == SopTypeOK /\ PipelineInStep /\ IdleRowsShowNoRun

Good(sop) == sop \in SOPState /\ InStep(sop)
GoodRow(row) ==
    /\ row \in RunStateRow /\ InStep(row.sop)
    /\ ~row.isChatting => \A i \in SopSteps : row.sop.steps[i] # "running"

\* The invariant, session by session.
LEMMA SopInvParts ==
  SopInv <=> /\ SopTypeOK
             /\ \A s \in SopSessions : /\ sopSessions[s] # NoSop => Good(sopSessions[s])
                                       /\ runState[s] # NoSop => GoodRow(runState[s])
  BY DEF SopInv, SopTypeOK, PipelineInStep, IdleRowsShowNoRun, Good, GoodRow

-----------------------------------------------------------------------------
(***************************************************************************)
(* The tracker.                                                            *)
(***************************************************************************)

\* Nothing before step k is left open.
LEMMA AutoCompletedFacts ==
  ASSUME NEW steps \in [SopSteps -> Statuses], NEW k \in SopSteps
  PROVE  /\ AutoCompleted(steps, k) \in [SopSteps -> Statuses]
         /\ \A i \in SopSteps : i < k => AutoCompleted(steps, k)[i] \in Terminal
         /\ \A i \in SopSteps : i >= k => AutoCompleted(steps, k)[i] = steps[i]
  BY SopAssumption DEF AutoCompleted, Statuses, Terminal, SopSteps

\* A session without state starts in step.
LEMMA FreshIsGood == Good(FreshSop)
  BY SopAssumption DEF Good, FreshSop, SOPState, InStep, SopSteps, Statuses

\* emitState only changes completedAt.
LEMMA CompletedIsGood ==
  ASSUME NEW sop, Good(sop)
  PROVE  Good(Completed(sop))
  BY DEF Good, Completed, SOPState, InStep

\* A start, of a step that comes next, runs already or begins a new round.
LEMMA StartedIsGood ==
  ASSUME NEW sop, Good(sop), NEW k \in SopSteps
  PROVE  Good(Started(sop, k))
  <1> DEFINE steps == AutoCompleted(sop.steps, k)
             round == [i \in SopSteps |-> IF i >= k THEN "pending" ELSE steps[i]]
             run == [steps EXCEPT ![k] = "running"]
             after == IF steps[k] \in Terminal THEN round ELSE run
  <1>0. sop \in SOPState /\ InStep(sop) /\ sop.steps \in [SopSteps -> Statuses]
        /\ sop.current \in 0..StepCount
    BY DEF Good, SOPState
  <1>1. /\ steps \in [SopSteps -> Statuses]
        /\ \A i \in SopSteps : i < k => steps[i] \in Terminal
        /\ \A i \in SopSteps : i >= k => steps[i] = sop.steps[i]
    BY <1>0, AutoCompletedFacts
  <1>2. Started(sop, k) = [sop EXCEPT !.current = k, !.steps = after]
    BY DEF Started
  <1> HIDE DEF steps
  <1>3. /\ after \in [SopSteps -> Statuses]
        /\ \A i \in SopSteps : i < k => after[i] \in Terminal
        /\ \A i \in SopSteps : after[i] = "running" => i = k
    <2>1. CASE steps[k] \in Terminal
      BY <1>1, <2>1, SopAssumption DEF Statuses, Terminal, SopSteps
    <2>2. CASE steps[k] \notin Terminal
      <3>1. sop.steps[k] \notin Terminal
        BY <1>1, <2>2, SopAssumption DEF SopSteps
      <3>2. sop.current <= k
        BY <1>0, <3>1, SopAssumption DEF InStep, SopSteps
      <3>3. \A i \in SopSteps : i > k => steps[i] # "running"
        BY <1>0, <1>1, <3>2, SopAssumption DEF InStep, SopSteps
      <3>4. \A i \in SopSteps : i < k => steps[i] # "running"
        BY <1>1 DEF Terminal
      <3>5. after = run
        BY <2>2
      <3>6. \A i \in SopSteps : after[i] = IF i = k THEN "running" ELSE steps[i]
        BY <1>1, <3>5
      <3>7. after \in [SopSteps -> Statuses]
        BY <1>1, <3>5 DEF Statuses
      <3> HIDE DEF after, run
      <3> QED BY <1>1, <3>3, <3>4, <3>6, <3>7, SopAssumption DEF SopSteps
    <2> QED BY <2>1, <2>2
  <1> HIDE DEF after
  <1>4. Started(sop, k).current = k /\ Started(sop, k).steps = after /\ Started(sop, k) \in SOPState
    <2>1. sop = [steps |-> sop.steps, current |-> sop.current, completed |-> sop.completed]
      BY <1>0 DEF SOPState
    <2>2. Started(sop, k) = [steps |-> after, current |-> k, completed |-> sop.completed]
      BY <1>2, <2>1
    <2>3. k \in 0..StepCount /\ sop.completed \in BOOLEAN
      BY <1>0, SopAssumption DEF SOPState, SopSteps
    <2> QED BY <1>3, <2>2, <2>3 DEF SOPState
  <1> QED BY <1>3, <1>4 DEF Good, InStep

\* Completing what lies before a step, and ending the step or not, keeps the rest.
LEMMA EndedIsGood ==
  ASSUME NEW sop, Good(sop), NEW k \in SopSteps, NEW after \in [SopSteps -> Statuses],
         \A i \in SopSteps : i # k => after[i] = AutoCompleted(sop.steps, k)[i],
         after[k] \in Terminal \/ after[k] = AutoCompleted(sop.steps, k)[k]
  PROVE  Good([sop EXCEPT !.steps = after])
  <1> DEFINE steps == AutoCompleted(sop.steps, k)
  <1>0. sop \in SOPState /\ InStep(sop) /\ sop.steps \in [SopSteps -> Statuses]
        /\ sop.current \in 0..StepCount
    BY DEF Good, SOPState
  <1>1. /\ \A i \in SopSteps : i < k => steps[i] \in Terminal
        /\ \A i \in SopSteps : i >= k => steps[i] = sop.steps[i]
    BY <1>0, AutoCompletedFacts
  <1> HIDE DEF steps
  <1>2. \A i \in SopSteps : i # k => after[i] = steps[i]
    BY DEF steps
  <1>3. after[k] \in Terminal \/ after[k] = steps[k]
    BY DEF steps
  <1>4. \A i \in SopSteps : /\ after[i] \in Terminal \/ after[i] = sop.steps[i]
                            /\ sop.steps[i] \in Terminal => after[i] \in Terminal
    <2> TAKE i \in SopSteps
    <2>1. CASE i < k
      BY <1>1, <1>2, <2>1, SopAssumption DEF SopSteps
    <2>2. CASE i >= k
      BY <1>1, <1>2, <1>3, <2>2
    <2> QED BY <2>1, <2>2, SopAssumption DEF SopSteps
  <1>5. \A i \in SopSteps : /\ i < sop.current => after[i] \in Terminal
                            /\ after[i] = "running" => i = sop.current
    BY <1>0, <1>4 DEF InStep, Terminal
  <1> QED BY <1>0, <1>5 DEF Good, SOPState, InStep

\* A result and the end of a background process.
LEMMA ReturnedIsGood ==
  ASSUME NEW sop, Good(sop), NEW k \in SopSteps
  PROVE  /\ \A isError \in BOOLEAN : Good(Returned(sop, k, isError))
         /\ \A status \in {"completed", "failed"} : Good(Updated(sop, k, status))
  <1> DEFINE steps == AutoCompleted(sop.steps, k)
  <1>0. sop.steps \in [SopSteps -> Statuses]
    BY DEF Good, SOPState
  <1>1. steps \in [SopSteps -> Statuses]
    BY <1>0, AutoCompletedFacts
  <1>2. ASSUME NEW status \in {"completed", "failed"}
        PROVE  Good([sop EXCEPT !.steps = [steps EXCEPT ![k] = status]])
    <2>1. [steps EXCEPT ![k] = status] \in [SopSteps -> Statuses]
      BY <1>1 DEF Statuses
    <2>2. /\ \A i \in SopSteps : i # k => [steps EXCEPT ![k] = status][i] = steps[i]
          /\ [steps EXCEPT ![k] = status][k] \in Terminal
      BY <1>1 DEF Terminal
    <2> QED BY <2>1, <2>2, EndedIsGood
  <1>3. Good([sop EXCEPT !.steps = steps])
    BY <1>1, EndedIsGood
  <1>4. \A isError \in BOOLEAN : Good(Returned(sop, k, isError))
    BY <1>2, <1>3 DEF Returned
  <1>5. \A status \in {"completed", "failed"} : Good(Updated(sop, k, status))
    BY <1>2 DEF Updated
  <1> QED BY <1>4, <1>5

\* Other steps and another completedAt.
LEMMA ReplacedParts ==
  ASSUME NEW sop \in SOPState, NEW steps \in [SopSteps -> Statuses], NEW over \in BOOLEAN
  PROVE  LET reset == [sop EXCEPT !.steps = steps, !.completed = over]
         IN  reset \in SOPState /\ reset.steps = steps /\ reset.current = sop.current
  BY DEF SOPState

\* What the startup reset makes of a row.
LEMMA RowResetIsGood ==
  ASSUME NEW row, GoodRow(row)
  PROVE  GoodRow(RowReset(row))
  <1>1. CASE ~row.isChatting
    BY <1>1 DEF RowReset
  <1>2. CASE row.isChatting
    <2> DEFINE steps == [i \in SopSteps |->
                           IF row.sop.steps[i] = "running" THEN "completed" ELSE row.sop.steps[i]]
               over == row.sop.completed \/ \E i \in SopSteps : row.sop.steps[i] = "running"
    <2>0. row.sop \in SOPState /\ InStep(row.sop)
      BY DEF GoodRow, RunStateRow
    <2>1. steps \in [SopSteps -> Statuses]
      BY <2>0 DEF SOPState, Statuses
    <2>2. over \in BOOLEAN
      BY <2>0 DEF SOPState
    <2>3. RowReset(row) = [isChatting |-> FALSE,
                           sop |-> [row.sop EXCEPT !.steps = steps, !.completed = over]]
      BY <1>2 DEF RowReset
    <2>4. \A i \in SopSteps : /\ steps[i] # "running"
                              /\ row.sop.steps[i] \in Terminal => steps[i] \in Terminal
      BY DEF Terminal
    <2> HIDE DEF steps, over
    <2>5. /\ RowReset(row) \in RunStateRow /\ RowReset(row).isChatting = FALSE
          /\ RowReset(row).sop.steps = steps /\ RowReset(row).sop.current = row.sop.current
      <3> DEFINE reset == [row.sop EXCEPT !.steps = steps, !.completed = over]
      <3>1. reset \in SOPState /\ reset.steps = steps /\ reset.current = row.sop.current
        <4>1. \A sop \in SOPState, t \in [SopSteps -> Statuses], c \in BOOLEAN :
                LET r == [sop EXCEPT !.steps = t, !.completed = c]
                IN  r \in SOPState /\ r.steps = t /\ r.current = sop.current
          BY ReplacedParts
        <4> QED BY <2>0, <2>1, <2>2, <4>1
      <3> HIDE DEF reset
      <3>2. RowReset(row) = [isChatting |-> FALSE, sop |-> reset]
        BY <2>3 DEF reset
      <3> QED BY <3>1, <3>2 DEF RunStateRow
    <2> QED BY <2>0, <2>4, <2>5 DEF GoodRow, InStep
  <1>3. row.isChatting \in BOOLEAN
    BY DEF GoodRow, RunStateRow
  <1> QED BY <1>1, <1>2, <1>3

-----------------------------------------------------------------------------
(***************************************************************************)
(* Steps.                                                                  *)
(***************************************************************************)

\* An emitted state that is in step leaves everything in step.
LEMMA EmitKeeps ==
  ASSUME SopInv, NEW s \in SopSessions, NEW sop, Good(sop), EmitState(s, sop),
         toolCalls' \in [ToolCalls -> [at : {"new", "started", "background", "over"},
                                       session : SopSessions \cup {NoSop}, step : 0..StepCount]]
  PROVE  SopInv'
  <1> DEFINE done == Completed(sop)
  <1>1. Good(done)
    BY CompletedIsGood
  <1>2. sopSessions' = [sopSessions EXCEPT ![s] = done]
    BY DEF EmitState
  <1>3. \/ /\ runState' = [runState EXCEPT ![s] = [sop |-> done, isChatting |-> TRUE]]
           /\ UNCHANGED sopCounts
        \/ /\ sopCounts' = [sopCounts EXCEPT !["faults"] = @ + 1]
           /\ UNCHANGED runState
    BY DEF EmitState
  <1> HIDE DEF done
  <1>4. SopTypeOK /\ \A u \in SopSessions : /\ sopSessions[u] # NoSop => Good(sopSessions[u])
                                            /\ runState[u] # NoSop => GoodRow(runState[u])
    BY SopInvParts
  <1>5. sopCounts' \in [{"faults", "restarts"} -> Nat]
    BY <1>3, <1>4 DEF SopTypeOK
  <1>6. LET row == [sop |-> done, isChatting |-> TRUE] IN row \in RunStateRow /\ GoodRow(row)
    BY <1>1 DEF Good, GoodRow, RunStateRow
  <1>7. SopTypeOK'
    BY <1>1, <1>2, <1>3, <1>4, <1>5, <1>6 DEF SopTypeOK, Good
  <1>8. \A u \in SopSessions : /\ sopSessions'[u] # NoSop => Good(sopSessions'[u])
                               /\ runState'[u] # NoSop => GoodRow(runState'[u])
    BY <1>1, <1>2, <1>3, <1>4, <1>6 DEF SopTypeOK
  <1> QED BY <1>7, <1>8 DEF SopInv, SopTypeOK, PipelineInStep, IdleRowsShowNoRun, Good, GoodRow

\* What is tracked, or starts to be.
LEMMA TrackedIsGood ==
  ASSUME SopInv, NEW s \in SopSessions
  PROVE  Good(Tracked(s))
  BY FreshIsGood, SopInvParts DEF Tracked

\* The calls' places.
CallStates == [at : {"new", "started", "background", "over"},
               session : SopSessions \cup {NoSop}, step : 0..StepCount]

\* A call that was started belongs to a session and a step.
CallsKnown ==
    \A c \in ToolCalls : toolCalls[c].at \in {"started", "background"} =>
        toolCalls[c].session \in SopSessions /\ toolCalls[c].step \in SopSteps

\* Initially nothing is tracked.
LEMMA SopInit_Inv == SopInit => SopInv /\ CallsKnown
  <1> SUFFICES ASSUME SopInit PROVE SopInv /\ CallsKnown
    OBVIOUS
  <1>1. toolCalls \in [ToolCalls -> CallStates]
    BY SopAssumption DEF SopInit, CallStates
  <1>2. SopTypeOK
    BY <1>1 DEF SopInit, SopTypeOK, CallStates
  <1>3. PipelineInStep /\ IdleRowsShowNoRun
    BY DEF SopInit, PipelineInStep, IdleRowsShowNoRun
  <1>4. CallsKnown
    BY DEF SopInit, CallsKnown
  <1> QED BY <1>2, <1>3, <1>4 DEF SopInv

\* Every step keeps the invariant.
LEMMA SopStep_Inv == SopInv /\ CallsKnown /\ [SopNext]_sopVars => SopInv' /\ CallsKnown'
  <1> SUFFICES ASSUME SopInv, CallsKnown, [SopNext]_sopVars PROVE SopInv' /\ CallsKnown'
    OBVIOUS
  <1>0. SopTypeOK /\ toolCalls \in [ToolCalls -> CallStates]
    BY DEF SopInv, SopTypeOK, CallStates
  <1>1. ASSUME NEW c \in ToolCalls, NEW s \in SopSessions, NEW k \in SopSteps, ToolStarts(c, s, k)
        PROVE  SopInv' /\ CallsKnown'
    <2>1. toolCalls' \in [ToolCalls -> CallStates]
      BY <1>0, <1>1, SopAssumption DEF ToolStarts, CallStates, SopSteps
    <2>2. Good(Started(Tracked(s), k)) /\ EmitState(s, Started(Tracked(s), k))
      BY <1>1, TrackedIsGood, StartedIsGood DEF ToolStarts
    <2>3. SopInv'
      BY <2>1, <2>2, EmitKeeps DEF CallStates
    <2>4. CallsKnown'
      BY <1>0, <1>1 DEF ToolStarts, CallsKnown
    <2> QED BY <2>3, <2>4
  <1>2. ASSUME NEW c \in ToolCalls, NEW outcome \in {"ok", "error", "running"}, ToolReturns(c, outcome)
        PROVE  SopInv' /\ CallsKnown'
    <2> DEFINE s == toolCalls[c].session
               k == toolCalls[c].step
               sop == Returned(Tracked(s), k, outcome = "error")
    <2>0. s \in SopSessions /\ k \in SopSteps
      BY <1>2 DEF ToolReturns, CallsKnown
    <2>1. toolCalls' \in [ToolCalls -> CallStates]
      BY <1>0, <1>2 DEF ToolReturns, CallStates
    <2>2. Good(sop)
      <3>1. Good(Tracked(s))
        BY <2>0, TrackedIsGood
      <3>2. (outcome = "error") \in BOOLEAN
        OBVIOUS
      <3> QED BY <2>0, <3>1, <3>2, ReturnedIsGood
    <2>3. EmitState(s, sop)
      BY <1>2 DEF ToolReturns
    <2>4. SopInv'
      <3> HIDE DEF s, sop
      <3> QED BY <2>0, <2>1, <2>2, <2>3, EmitKeeps DEF CallStates
    <2>5. CallsKnown'
      BY <1>0, <1>2, <2>0 DEF ToolReturns, CallsKnown, CallStates
    <2> QED BY <2>4, <2>5
  <1>3. ASSUME NEW c \in ToolCalls, NEW status \in {"completed", "failed"}, ProcessEnds(c, status)
        PROVE  SopInv' /\ CallsKnown'
    <2> DEFINE s == toolCalls[c].session
               k == toolCalls[c].step
               sop == Updated(sopSessions[s], k, status)
    <2>0. s \in SopSessions /\ k \in SopSteps
      BY <1>3 DEF ProcessEnds, CallsKnown
    <2>1. toolCalls' \in [ToolCalls -> CallStates]
      BY <1>0, <1>3 DEF ProcessEnds, CallStates
    <2>2. CallsKnown'
      BY <1>0, <1>3, <2>0 DEF ProcessEnds, CallsKnown, CallStates
    <2>3. CASE sopSessions[s] # NoSop /\ k \in ExactSkills
      <3>1. Good(sop)
        <4>1. Good(sopSessions[s])
          BY <2>0, <2>3, SopInvParts
        <4> QED BY <2>0, <4>1, ReturnedIsGood
      <3>2. EmitState(s, sop)
        BY <1>3, <2>3 DEF ProcessEnds
      <3> HIDE DEF s, sop
      <3>3. SopInv'
        BY <2>0, <2>1, <3>1, <3>2, EmitKeeps DEF CallStates
      <3> QED BY <2>2, <3>3
    <2>4. CASE ~(sopSessions[s] # NoSop /\ k \in ExactSkills)
      <3>1. UNCHANGED <<sopSessions, runState, sopCounts>>
        BY <1>3, <2>4 DEF ProcessEnds
      <3> HIDE DEF s, k
      <3>2. SopInv'
        BY <2>1, <3>1 DEF SopInv, SopTypeOK, PipelineInStep, IdleRowsShowNoRun, CallStates
      <3> QED BY <2>2, <3>2
    <2> QED BY <2>3, <2>4
  <1>4. ASSUME NEW s \in SopSessions, SessionDeleted(s)
        PROVE  SopInv' /\ CallsKnown'
    <2>1. runState' \in [SopSessions -> RunStateRow \cup {NoSop}]
      BY <1>0, <1>4 DEF SessionDeleted, SopTypeOK
    <2>2. SopTypeOK'
      BY <1>0, <1>4, <2>1 DEF SessionDeleted, SopTypeOK
    <2>3. \A u \in SopSessions : runState'[u] # NoSop => runState'[u] = runState[u]
      BY <1>0, <1>4 DEF SessionDeleted, SopTypeOK
    <2>4. PipelineInStep' /\ IdleRowsShowNoRun'
      BY <1>4, <2>3 DEF SessionDeleted, SopInv, PipelineInStep, IdleRowsShowNoRun
    <2> QED BY <1>4, <2>2, <2>4 DEF SessionDeleted, SopInv, CallsKnown
  <1>5. CASE GatewayStartsAgain
    <2>0. \A s \in SopSessions : runState[s] # NoSop => GoodRow(RowReset(runState[s]))
      BY SopInvParts, RowResetIsGood
    <2>1. \A s \in SopSessions : /\ sopSessions'[s] = NoSop
                                 /\ runState'[s] = NoSop \/ GoodRow(runState'[s])
      BY <1>5, <2>0 DEF GatewayStartsAgain
    <2>2. /\ sopSessions' = [s \in SopSessions |-> NoSop]
          /\ runState' \in [SopSessions -> RunStateRow \cup {NoSop}]
      BY <1>5, <2>0 DEF GatewayStartsAgain, GoodRow
    <2>3. toolCalls' \in [ToolCalls -> CallStates]
      BY <1>0, <1>5 DEF GatewayStartsAgain, CallStates
    <2>4. sopCounts' \in [{"faults", "restarts"} -> Nat]
      BY <1>0, <1>5 DEF GatewayStartsAgain, SopTypeOK
    <2>5. SopTypeOK'
      BY <2>2, <2>3, <2>4 DEF SopTypeOK, CallStates
    <2>6. PipelineInStep' /\ IdleRowsShowNoRun'
      BY <2>1 DEF PipelineInStep, IdleRowsShowNoRun, GoodRow
    <2>7. CallsKnown'
      BY <1>0, <1>5 DEF GatewayStartsAgain, CallsKnown, CallStates
    <2> QED BY <2>5, <2>6, <2>7 DEF SopInv
  <1>6. CASE UNCHANGED sopVars
    BY <1>6 DEF sopVars, SopInv, SopTypeOK, PipelineInStep, IdleRowsShowNoRun, CallsKnown
  <1> QED BY <1>1, <1>2, <1>3, <1>4, <1>5, <1>6 DEF SopNext

-----------------------------------------------------------------------------
\* The inductive invariant holds.
LEMMA SopInvariant == SopSpec => [](SopInv /\ CallsKnown)
  BY SopInit_Inv, SopStep_Inv, PTL DEF SopSpec

\* The variables keep their types.
THEOREM SopTypes == SopSpec => []SopTypeOK
  <1>1. SopInv => SopTypeOK
    BY DEF SopInv
  <1> QED BY <1>1, SopInvariant, PTL

\* The pipeline that clients see, live or restored, moves in step.
THEOREM PipelineStaysInStep == SopSpec => []PipelineInStep
  <1>1. SopInv => PipelineInStep
    BY DEF SopInv
  <1> QED BY <1>1, SopInvariant, PTL

\* The startup reset leaves no row that looks busy.
THEOREM NoIdleRowRuns == SopSpec => []IdleRowsShowNoRun
  <1>1. SopInv => IdleRowsShowNoRun
    BY DEF SopInv
  <1> QED BY <1>1, SopInvariant, PTL
=============================================================================
