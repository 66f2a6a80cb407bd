--------------------------- MODULE MCFollowupQueue ---------------------------
(***************************************************************************)
(* Small instances of FollowupQueue for TLC.  In a behaviour only the      *)
(* messages of one mix arrive, and only the settings of one choice are     *)
(* used, so that the state spaces of these cases add up instead of         *)
(* multiplying.                                                            *)
(***************************************************************************)
EXTENDS FollowupQueue

CONSTANTS
    a, b, c, g, u, e,   \* five messages and a room event
    Mixes,              \* the sets of messages that arrive in one behaviour
    Offers              \* the sets of settings used in one behaviour

VARIABLES arriving, offered

\* c comes from another sender than the others, with other rights.
MCAuthOf == [m \in Messages |-> IF m = c THEN "guest" ELSE "owner"]

\* b does not name its origin and u only half of it; g comes from another chat.
MCRouteOf == [m \in Messages |-> CASE m = b -> NoRoute
                                   [] m = u -> Unroutable
                                   [] m = g -> "group"
                                   [] OTHER -> "chat"]

\* Refuse the newest message, in either mode.
RefuseNew == {[mode |-> "followup", cap |-> 3, dropPolicy |-> "new"],
              [mode |-> "collect", cap |-> 2, dropPolicy |-> "new"]}

\* Every overflow policy, each change of mode with a change of policy.
SummarizeOrNew == {[mode |-> "followup", cap |-> 1, dropPolicy |-> "summarize"],
                   [mode |-> "collect", cap |-> 2, dropPolicy |-> "new"]}
SummarizeOrOld == {[mode |-> "collect", cap |-> 2, dropPolicy |-> "summarize"],
                   [mode |-> "followup", cap |-> 2, dropPolicy |-> "old"]}
AllPolicies == SummarizeOrNew \cup SummarizeOrOld
EachPolicy == {SummarizeOrNew, SummarizeOrOld}

\* Drop the oldest message, one turn per message.
DropOld == {[mode |-> "followup", cap |-> 2, dropPolicy |-> "old"]}

\* All settings are used in every behaviour.
AnySettings == {Settings}

MixInit == Init /\ arriving \in Mixes /\ offered \in Offers

SettingsOf(q) == [mode |-> q.mode, cap |-> q.cap, dropPolicy |-> q.dropPolicy]

MixNext ==
    /\ Next /\ UNCHANGED <<arriving, offered>>
    /\ (pending \cup aborted)' \subseteq arriving
    /\ queue'.present => SettingsOf(queue') \in offered

MixSpec == MixInit /\ [][MixNext]_<<vars, arriving, offered>>

FairMixSpec == MixSpec /\ Fairness
=============================================================================
