----------------------------- MODULE SopProgress -----------------------------
(***************************************************************************)
(* Progress of a standard operating procedure: the SOP tracker infers the  *)
(* state of the steps from the tool events of a session, and every change  *)
(* is written to the session's run-state row, from which a client that     *)
(* reconnects restores its view.  A start of the gateway repairs the rows  *)
(* of the runs that were interrupted.  aiemas/src/sop-tracker,             *)
(* aiemas/src/gateway-bridge/run-state-store.ts and the event listener of  *)
(* gateway/mas4s-integration.ts                                            *)
(*                                                                         *)
(* Times, labels and run ids are left out; completedAt is whether it is    *)
(* set.  The progress watcher only relays lines and changes no state here. *)
(***************************************************************************)
EXTENDS Integers, FiniteSets

CONSTANTS
    SopSessions,     \* sessions with a SOP
    StepCount,       \* steps of the SOP
    ExactSkills,     \* steps whose script is named exactly like their skill
    ToolCalls,       \* tool call ids; each call is made once
    NoSop,           \* no tracked state, no row
    MaxRowFaults, MaxSopRestarts   \* bounds: failing writes, gateway starts

SopSteps == 1..StepCount

ASSUME SopAssumption ==
    /\ StepCount \in Nat /\ ExactSkills \subseteq SopSteps
    /\ MaxRowFaults \in Nat /\ MaxSopRestarts \in Nat

VARIABLES
    sopSessions,   \* SOPTracker.sessions
    toolCalls,     \* where a call is: _toolCallSkillMap, _backgroundSessionToSkillMap
    runState,      \* the rows of session_run_state
    sopCounts

sopVars == <<sopSessions, toolCalls, runState, sopCounts>>

Statuses == {"pending", "running", "completed", "failed", "skipped"}
Terminal == {"completed", "failed", "skipped"}
SOPState == [steps : [SopSteps -> Statuses], current : 0..StepCount, completed : BOOLEAN]
RunStateRow == [sop : SOPState, isChatting : BOOLEAN]

SopTypeOK ==
    /\ sopSessions \in [SopSessions -> SOPState \cup {NoSop}]
    /\ toolCalls \in [ToolCalls -> [at : {"new", "started", "background", "over"},
                                    session : SopSessions \cup {NoSop}, step : 0..StepCount]]
    /\ runState \in [SopSessions -> RunStateRow \cup {NoSop}]
    /\ sopCounts \in [{"faults", "restarts"} -> Nat]

SopInit ==
    /\ sopSessions = [s \in SopSessions |-> NoSop]
    /\ toolCalls = [c \in ToolCalls |-> [at |-> "new", session |-> NoSop, step |-> 0]]
    /\ runState = [s \in SopSessions |-> NoSop]
    /\ sopCounts = [event \in {"faults", "restarts"} |-> 0]

-----------------------------------------------------------------------------
(***************************************************************************)
(* SOPTracker.                                                             *)
(***************************************************************************)

FreshSop == [steps |-> [i \in SopSteps |-> "pending"], current |-> 0, completed |-> FALSE]
Tracked(s) == IF sopSessions[s] = NoSop THEN FreshSop ELSE sopSessions[s]

\* Steps before one that is heard of count as completed.
AutoCompleted(steps, k) == [i \in SopSteps |->
    IF i < k /\ steps[i] \in {"pending", "running"} THEN "completed" ELSE steps[i]]

\* Mutation: only the step that is started again is reset.
StartedAlone(sop, k) ==
    LET steps == AutoCompleted(sop.steps, k)
    IN  [sop EXCEPT !.current = k,
                    !.steps = [steps EXCEPT ![k] = IF @ \in Terminal THEN "pending" ELSE "running"]]

\* onToolEvent with phase "start".  A step that was over begins a new round: it and
\* the later ones are replaced by pending ones; "running" is then set on the object
\* that was replaced, so that the step stays pending.
Started(sop, k) ==
    LET steps == AutoCompleted(sop.steps, k)
    IN  [sop EXCEPT !.current = k,
                    !.steps = IF steps[k] \in Terminal
                              THEN [i \in SopSteps |-> IF i >= k THEN "pending" ELSE steps[i]]
                              ELSE [steps EXCEPT ![k] = "running"]]

\* onToolEvent with phase "result": success leaves the step as it is.
Returned(sop, k, isError) ==
    LET steps == AutoCompleted(sop.steps, k)
    IN  [sop EXCEPT !.steps = IF isError THEN [steps EXCEPT ![k] = "failed"] ELSE steps]

\* updateStepStatus
Updated(sop, k, status) ==
    [sop EXCEPT !.steps = [AutoCompleted(sop.steps, k) EXCEPT ![k] = status]]

Completed(sop) == [sop EXCEPT !.completed = \A i \in SopSteps : sop.steps[i] \in Terminal]

\* emitState and onStateChange: the row is written, or the write fails and is logged.
\* The code's row belongs to the id in the session key, which a session and those of
\* its sub-agents share; here every session has a row of its own.
EmitState(s, sop) ==
    /\ sopSessions' = [sopSessions EXCEPT ![s] = Completed(sop)]
    /\ \/ /\ runState' = [runState EXCEPT ![s] = [sop |-> Completed(sop), isChatting |-> TRUE]]
          /\ UNCHANGED sopCounts
       \/ /\ sopCounts["faults"] < MaxRowFaults
          /\ sopCounts' = [sopCounts EXCEPT !["faults"] = @ + 1]
          /\ UNCHANGED runState

-----------------------------------------------------------------------------
(***************************************************************************)
(* Events of the agents, and the gateway's operations on the rows.         *)
(***************************************************************************)

\* An agent of session s starts the script of step k.
ToolStarts(c, s, k) ==
    /\ toolCalls[c].at = "new"
    /\ toolCalls' = [toolCalls EXCEPT ![c] = [at |-> "started", session |-> s, step |-> k]]
    /\ EmitState(s, Started(Tracked(s), k))

\* The call returns: a result, an error, or a process that goes on in the background.
ToolReturns(c, outcome) ==
    /\ toolCalls[c].at = "started"
    /\ toolCalls' = [toolCalls EXCEPT ![c].at = IF outcome = "running" THEN "background" ELSE "over"]
    /\ EmitState(toolCalls[c].session,
                 Returned(Tracked(toolCalls[c].session), toolCalls[c].step, outcome = "error"))

\* A poll reports the end of a background process.  Its skill is looked up by exact
\* name, and only in a session that is tracked: the poll's, here that of the call.
ProcessEnds(c, status) ==
    /\ toolCalls[c].at = "background"
    /\ toolCalls' = [toolCalls EXCEPT ![c].at = "over"]
    /\ IF sopSessions[toolCalls[c].session] # NoSop /\ toolCalls[c].step \in ExactSkills
       THEN EmitState(toolCalls[c].session,
                      Updated(sopSessions[toolCalls[c].session], toolCalls[c].step, status))
       ELSE UNCHANGED <<sopSessions, runState, sopCounts>>

\* sessions.delete: clearRunState.  The tracker keeps its state.
SessionDeleted(s) ==
    /\ runState' = [runState EXCEPT ![s] = NoSop]
    /\ UNCHANGED <<sopSessions, toolCalls, sopCounts>>

\* resetAllRunStatesOnStartup for one row.  (A snapshot that is no JSON, which nothing
\* here writes, would be cleared.)
RowReset(row) ==
    IF row.isChatting
    THEN [isChatting |-> FALSE,
          sop |-> [row.sop EXCEPT
              !.steps = [i \in SopSteps |-> IF @[i] = "running" THEN "completed" ELSE @[i]],
              !.completed = @ \/ \E i \in SopSteps : row.sop.steps[i] = "running"]]
    ELSE row

\* The gateway's process stops, in whatever it was doing, and starts again.  (A restart
\* within the process also leaves the earlier listener with its tracker registered.)
GatewayStartsAgain ==
    /\ sopCounts["restarts"] < MaxSopRestarts
    /\ sopCounts' = [sopCounts EXCEPT !["restarts"] = @ + 1]
    /\ sopSessions' = [s \in SopSessions |-> NoSop]
    /\ toolCalls' = [c \in ToolCalls |->
           IF toolCalls[c].at = "new" THEN toolCalls[c] ELSE [toolCalls[c] EXCEPT !.at = "over"]]
    /\ runState' = [s \in SopSessions |->
           IF runState[s] = NoSop THEN NoSop ELSE RowReset(runState[s])]

SopNext ==
    \/ \E c \in ToolCalls, s \in SopSessions, k \in SopSteps : ToolStarts(c, s, k)
    \/ \E c \in ToolCalls, outcome \in {"ok", "error", "running"} : ToolReturns(c, outcome)
    \/ \E c \in ToolCalls, status \in {"completed", "failed"} : ProcessEnds(c, status)
    \/ \E s \in SopSessions : SessionDeleted(s)
    \/ GatewayStartsAgain

SopSpec == SopInit /\ [][SopNext]_sopVars

-----------------------------------------------------------------------------
(***************************************************************************)
(* Properties.                                                             *)
(***************************************************************************)

InStep(sop) ==
    \A i \in SopSteps : /\ i < sop.current => sop.steps[i] \in Terminal
                        /\ sop.steps[i] = "running" => i = sop.current

\* Whatever the order of starts, late results, background ends and new rounds, the
\* pipeline moves in step: what lies before the current step is over, and no other
\* step than the current one is shown as running - to live clients and to those that
\* restore the row.
PipelineInStep ==
    \A s \in SopSessions : /\ sopSessions[s] # NoSop => InStep(sopSessions[s])
                           /\ runState[s] # NoSop => InStep(runState[s].sop)

\* After an interruption nothing looks busy: a row that is not chatting has no running
\* step, so the startup reset misses none, whatever was being written at the time.
IdleRowsShowNoRun ==
    \A s \in SopSessions : runState[s] # NoSop /\ ~runState[s].isChatting =>
        \A i \in SopSteps : runState[s].sop.steps[i] # "running"
=============================================================================
