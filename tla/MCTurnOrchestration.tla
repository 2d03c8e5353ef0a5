------------------------ MODULE MCTurnOrchestration ------------------------
(***************************************************************************)
(* Three seats, one person and two LLMs, and a short turn limit.           *)
(***************************************************************************)
EXTENDS TurnOrchestration

MCN       == 3
MCTwoAI   == {1, 2}
MCTimerId == 1 .. 5

=============================================================================
