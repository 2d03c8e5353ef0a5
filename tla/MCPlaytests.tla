---------------------------- MODULE MCPlaytests -----------------------------
(***************************************************************************)
(* The playtests, in two models that share no state: the scripts against a *)
(* server, and the console that runs one of them and keeps what came of    *)
(* it.  A behavior is of one of them, and the other stays where it starts. *)
(***************************************************************************)
EXTENDS Playtest, RunnerConsole

VARIABLE part    \* "script" or "console"

all == <<part, playtest, console>>

Scripted(A) == part = "script" /\ A /\ UNCHANGED <<part, console>>

MCInit ==
    /\ part \in {"script", "console"}
    /\ ScriptInit /\ ConsoleInit
    /\ part = "console" => scenario = (CHOOSE s \in Scenarios : TRUE) /\ game.seat = Me

MCNext ==
    \/ Scripted(ScriptNext)
    \/ part = "console" /\ ConsoleNext /\ UNCHANGED <<part, playtest>>

MCSpec == MCInit /\ [][MCNext]_all /\ WF_all(Scripted(Script))

-----------------------------------------------------------------------------
\* Every wait of a script has a limit, so it comes to its report whatever the
\* server, the LLMs and the network do; and a report that says PASS was earned
\* (runS1 .. runS5).
ScriptsReport == (part = "script" => EveryScriptEnds) /\ PassIsEarned

=============================================================================
