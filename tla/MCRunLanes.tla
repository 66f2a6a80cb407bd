----------------------------- MODULE MCRunLanes -----------------------------
(* Small instances of RunLanes for TLC. *)
EXTENDS RunLanes

CONSTANTS user, heartbeat, cronJob

MCLanes == {"session:a", "session:b", "main", "cron", "cron-nested"}

Agent(session, priority_, timed) ==
    [kind |-> "agent", session |-> session, lane |-> "", priority |-> priority_, timed |-> timed]
Cron(session) ==
    [kind |-> "cron", session |-> session, lane |-> "cron", priority |-> -1, timed |-> FALSE]

\* All three jobs run in one session.
SameSession == [j \in Jobs |->
    IF j = user THEN Agent("session:a", 1, FALSE)
    ELSE IF j = heartbeat THEN Agent("session:a", -1, FALSE) ELSE Cron("session:a")]

\* The user's run has a timeout.
SameSessionTimed == [SameSession EXCEPT ![user].timed = TRUE]

\* The user's run has a timeout and a session of its own.
TwoSessions == [SameSessionTimed EXCEPT ![user].session = "session:b"]

Caps(n) == [l \in ConfiguredLanes |-> n]
OneThenTwo == <<Caps(1), Caps(2)>>
JustOne == <<Caps(1)>>
=============================================================================
