------------------------------ MODULE MCPages -------------------------------
(***************************************************************************)
(* Pages beside the game, in three models that share no state: the limits  *)
(* on what a browser sends, the rankings, and the practice mode.  A        *)
(* behavior is of one of them, and the others stay where they start.       *)
(***************************************************************************)
EXTENDS RateLimit, Rankings, Practice

VARIABLE part     \* "limits", "rankings" or "practice"

\* Three players, two of the better tier.
MCLadder == <<"GOLD", "GOLD", "SILVER">>

\* The first two stages, a group and a run, with their hands.
N(c, n) == <<c, n, 1>>
FirstStages ==
    <<[hand |-> {N("R", 7), N("B", 7), N("Y", 7), N("K", 7), N("R", 3), N("B", 5)},
       goal |-> "group"],
      [hand |-> {N("R", 4), N("R", 5), N("R", 6), N("R", 7), N("B", 3), N("K", 8)},
       goal |-> "run"]>>

all == <<part, limits, rankings, practice>>

Limited(A) == part = "limits" /\ A /\ UNCHANGED <<part, rankings, practice>>
Ranked(A)  == part = "rankings" /\ A /\ UNCHANGED <<part, limits, practice>>
Practised(A) == part = "practice" /\ A /\ UNCHANGED <<part, limits, rankings>>

MCInit ==
    /\ part \in {"limits", "rankings", "practice"}
    /\ LimitsInit /\ RankingsInit /\ PracticeInit
    /\ part = "rankings" \/ shown = Rankings

MCNext == Limited(LimitsNext) \/ Ranked(RankingsNext) \/ Practised(PracticeNext)

\* The fairness of each model, in its own behaviors.
MCFairness ==
    /\ \A f \in Fetches : WF_all(Limited(Requests(f)))
    /\ WF_all(Limited(OnRateLimited)) /\ WF_all(Limited(ThrottleEnds))
    /\ WF_all(Limited(Dismiss)) /\ WF_all(Limited(SecondPasses))
    /\ WF_all(Ranked(RankingsAnswered)) /\ WF_all(Ranked(ProfileAnswered))

MCSpec == MCInit /\ [][MCNext]_all /\ MCFairness

-----------------------------------------------------------------------------
\* Calls, toasts and slow sending come to an end (RateLimit).
LimitsAllLetGo == part = "limits" => LimitsLetGo

\* The wheel of a page that loads stops, and a load that is late or fails
\* takes nothing off a profile (Rankings).
LoadsEnd ==
    /\ part = "rankings" => LoadingEnds
    /\ ProfileIsKept

=============================================================================
