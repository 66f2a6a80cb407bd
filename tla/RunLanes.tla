------------------------------ MODULE RunLanes ------------------------------
(***************************************************************************)
(* Agent runs on the lanes of CommandQueue.                                *)
(*                                                                         *)
(* runEmbeddedPiAgent (src/src/agents/pi-embedded-runner/run.ts) and       *)
(* compactEmbeddedPiSession (compact.queued.ts) enqueue in the lane of the *)
(* session and, from inside that task, in a global lane; a manual cron run *)
(* (src/src/cron/service/ops.ts) holds a slot of the cron lane around all  *)
(* that.  The outer task's promise is the inner one's, so a job is a chain *)
(* of entries, one per lane, that unwinds from the inside.                 *)
(*                                                                         *)
(* Also here: the lane caps the configuration sets                         *)
(* (src/src/gateway/server-lanes.ts) and the suspension of a lane whose    *)
(* provider ran out of quota (src/src/agents/session-suspension.ts).       *)
(***************************************************************************)
EXTENDS CommandQueue

CONSTANTS
    Jobs,               \* bound: jobs ever submitted
    JobOf,              \* what each of them is
    Configs,            \* lane caps of the configurations, in the order they are loaded
    MaxSuspensions      \* bound: suspensions

\* A job names the session lane, the lane its caller asks for ("" for none),
\* the priority of its trigger and whether the run has a timeout.
JobKinds ==
    [kind : {"agent", "cron"}, session : Lanes, lane : Lanes \cup {""},
     priority : Priorities, timed : BOOLEAN]

ConfiguredLanes == {"cron", "cron-nested", "main", "subagent", "nested"} \cap Lanes

ASSUME LanesAssumption ==
    /\ JobOf \in [Jobs -> JobKinds]
    /\ Configs \in Seq([ConfiguredLanes -> Nat \ {0}]) /\ Configs # <<>>
    /\ MaxSuspensions \in Nat

VARIABLES
    chain,          \* the entries of each job, outermost first
    config,         \* the loaded configuration
    resumeTimer,    \* laneResumeTimers: the cap to restore, 0 for no timer
    suspensions

jobVars == <<chain, config, resumeTimer, suspensions>>
allVars == <<vars, jobVars>>

\* Mutation: cron's inner work is queued in the lane whose slot the job holds.
GlobalLaneAsAsked(lane) == IF lane = "" THEN "main" ELSE lane

ResolveGlobalLane(lane) ==
    CASE lane = "" -> "main"
      [] lane = "cron" -> "cron-nested"
      [] OTHER -> lane

\* The lanes a job passes, outermost first.
Path(j) ==
    LET run == <<JobOf[j].session, ResolveGlobalLane(JobOf[j].lane)>>
    IN  IF JobOf[j].kind = "cron" THEN <<"cron">> \o run ELSE run

IsSessionLane(l) == \E j \in Jobs : JobOf[j].session = l

\* resolveSessionLane prefixes "session:", so no configured lane is a session's.
ASSUME PathsAssumption ==
    /\ \A j \in Jobs : \A i \in DOMAIN Path(j) : Path(j)[i] \in Lanes
    /\ \A l \in ConfiguredLanes : ~IsSessionLane(l)

\* Only the session lane knows the trigger's priority, only the global lane
\* has a timeout.
PriorityAt(j, i) == IF IsSessionLane(Path(j)[i]) THEN JobOf[j].priority ELSE 0
TimedAt(j, i) == i = Len(Path(j)) /\ JobOf[j].timed

LanesInit ==
    /\ Init
    /\ chain = [j \in Jobs |-> <<>>]
    /\ config = Configs[1]
    /\ resumeTimer = [l \in Lanes |-> 0]
    /\ suspensions = 0

-----------------------------------------------------------------------------

Depth(j) == Len(chain[j])
Innermost(j) == chain[j][Depth(j)]

\* The task of a session lane calls enqueueGlobal as soon as it is started, in
\* the same synchronous step: until it has, nothing else happens.
OwesInner(j) ==
    /\ Depth(j) \in 1..(Len(Path(j)) - 1)
    /\ IsSessionLane(Path(j)[Depth(j)])
    /\ phase[Innermost(j)] = "running"

StepDone == \A j \in Jobs : ~OwesInner(j)
StepDoneBut(j) == \A other \in Jobs \ {j} : ~OwesInner(other)

\* runEmbeddedPiAgent, compactEmbeddedPiSession or enqueueRun is called.
Submit(j) ==
    /\ StepDone
    /\ chain[j] = <<>>
    /\ EnqueueCommandInLane(Path(j)[1], PriorityAt(j, 1), TimedAt(j, 1))
    /\ chain' = [chain EXCEPT ![j] = <<nextQueueSequence>>]
    /\ UNCHANGED <<config, resumeTimer, suspensions>>

\* A running task enqueues its inner one.
Descend(j) ==
    LET next == Depth(j) + 1
    IN  /\ StepDoneBut(j)
        /\ next \in 2..Len(Path(j))
        /\ phase[Innermost(j)] = "running"
        /\ EnqueueCommandInLane(Path(j)[next], PriorityAt(j, next), TimedAt(j, next))
        /\ chain' = [chain EXCEPT ![j] = Append(@, nextQueueSequence)]
        /\ UNCHANGED <<config, resumeTimer, suspensions>>

\* Mutation: the session's slot is given back once the inner run is queued.
ResolvedAtOnce(j, i) == TRUE

\* The promise a task waits for has settled: it has no inner task (an abort, or
\* a gateway that drains, stops it before), or the inner one has resolved, was
\* rejected by clearCommandLane or by its lane timeout.
Resolved(j, i) ==
    i < Depth(j) => phase[chain[j][i + 1]] \in {"done", "cleared", "late"}

Settle(j, i) ==
    /\ StepDoneBut(j)
    /\ i \in 1..Depth(j)
    /\ Resolved(j, i)
    /\ TaskSettles(chain[j][i])
    /\ UNCHANGED jobVars

Timer(e) ==
    /\ StepDone
    /\ TimerRearms(e) \/ TaskTimesOut(e)
    /\ UNCHANGED jobVars

BodyMakesProgress(e) == StepDone /\ ReportProgress(e) /\ UNCHANGED jobVars
LateBodyEnds(e) == StepDone /\ LateTaskEnds(e) /\ UNCHANGED jobVars
GatewayDrains == StepDone /\ MarkGatewayDraining /\ UNCHANGED jobVars

\* clearSessionQueues and the interrupt mode clear a session's lane.
ClearSessionLane(l) ==
    /\ StepDone
    /\ IsSessionLane(l)
    /\ ClearCommandLane(l)
    /\ UNCHANGED jobVars

\* applyGatewayLaneConcurrency: every configured lane is set and pumped.
ApplyGatewayLaneConcurrency(n) ==
    /\ StepDone
    /\ n + 1 \in DOMAIN Configs
    /\ config = Configs[n] /\ config' = Configs[n + 1]
    /\ lanes' = lanes \cup ConfiguredLanes
    /\ maxConcurrent' = [l \in Lanes |-> IF l \in ConfiguredLanes THEN config'[l] ELSE maxConcurrent[l]]
    /\ UNCHANGED <<generation, laneOf>>
    /\ Pump(ConfiguredLanes, queue, activeTaskIds, phase)
    /\ UNCHANGED <<gatewayDraining, priority, hasTimeout, nextQueueSequence, progressed,
                   waiterVars, chain, resumeTimer, suspensions>>

\* resolveLaneResumeConcurrency
ResumeConcurrency(l) == IF l \in ConfiguredLanes \ {"nested"} THEN config[l] ELSE 1

\* suspendSession, once its store update has succeeded: pause the global lane
\* of the run that failed, and replace the lane's resume timer.
SuspendSession(l) ==
    /\ StepDone
    /\ suspensions < MaxSuspensions
    /\ \E e \in Entries : laneOf[e] = l /\ phase[e] \in {"running", "late", "done"}
    /\ ~IsSessionLane(l)
    /\ suspensions' = suspensions + 1
    /\ SetCommandLaneConcurrency(l, 0)
    /\ resumeTimer' = [resumeTimer EXCEPT ![l] = ResumeConcurrency(l)]
    /\ UNCHANGED <<chain, config>>

\* The resume timer fires.
LaneAutoResumes(l) ==
    /\ StepDone
    /\ resumeTimer[l] > 0
    /\ SetCommandLaneConcurrency(l, resumeTimer[l])
    /\ resumeTimer' = [resumeTimer EXCEPT ![l] = 0]
    /\ UNCHANGED <<chain, config, suspensions>>

LanesNext ==
    \/ \E j \in Jobs : Submit(j)
    \/ \E j \in Jobs : Descend(j)
    \/ \E j \in Jobs : \E i \in 1..Len(Path(j)) : Settle(j, i)
    \/ \E e \in Entries : Timer(e)
    \/ \E e \in Entries : BodyMakesProgress(e)
    \/ \E e \in Entries : LateBodyEnds(e)
    \/ GatewayDrains
    \/ \E l \in Lanes : ClearSessionLane(l)
    \/ \E n \in DOMAIN Configs : ApplyGatewayLaneConcurrency(n)
    \/ \E l \in Lanes : SuspendSession(l)
    \/ \E l \in Lanes : LaneAutoResumes(l)

LanesSpec == LanesInit /\ [][LanesNext]_allVars

\* What the event loop does of itself: promises settle and timers fire.  A body
\* without a lane timeout is assumed to end, one with a timeout may hang.
LoopProceeds ==
    \/ \E j \in Jobs : Descend(j)
    \/ \E j \in Jobs : \E i \in 1..Len(Path(j)) :
          /\ \/ i < Depth(j)
             \/ i = Len(Path(j)) /\ ~TimedAt(j, i)
             \/ gatewayDraining /\ i < Len(Path(j))
          /\ Settle(j, i)
    \/ \E e \in Entries : Timer(e)
    \/ \E l \in Lanes : LaneAutoResumes(l)

\* Each of these steps happens finitely often, so it is enough that the loop as a
\* whole never stops while one of them is due.
LanesFairness == WF_allVars(LoopProceeds)

LanesFairSpec == LanesSpec /\ LanesFairness

-----------------------------------------------------------------------------
(***************************************************************************)
(* Properties.                                                             *)
(***************************************************************************)

\* The agent run itself executes (it may have lost its slot to a timeout).
BodyRuns(j) ==
    Depth(j) = Len(Path(j)) /\ phase[Innermost(j)] \in {"running", "late"}

\* The caller's promise has settled.
Ended(j) == Depth(j) > 0 /\ phase[chain[j][1]] \in {"done", "cleared"}

\* At most one agent run executes for a session, whichever global lanes the
\* runs were queued in, and however those lanes are resized, paused or resumed.
OneRunPerSession ==
    \A j, other \in Jobs :
        j # other /\ JobOf[j].session = JobOf[other].session => ~(BodyRuns(j) /\ BodyRuns(other))

\* Two runs of a session overlap only when one of them is a body that its lane
\* timeout has given up: the session's slot covers everything else.
OverlapsAreAbandoned ==
    \A j, other \in Jobs :
        /\ j # other /\ JobOf[j].session = JobOf[other].session
        /\ BodyRuns(j) /\ BodyRuns(other)
        => \E k \in {j, other} : JobOf[k].timed /\ phase[Innermost(k)] = "late"

\* Runs that share their session with another have no timeout.
SharedSessionsUntimed ==
    \A j, other \in Jobs :
        j # other /\ JobOf[j].session = JobOf[other].session => ~JobOf[j].timed

\* Every job that was submitted ends, for good: no chain of lanes waits for itself
\* or for another, and a paused lane resumes.
JobsEventuallyEnd ==
    ProgressStops => <>[](\A j \in Jobs : chain[j] # <<>> => Ended(j))
=============================================================================
