------------------------------ MODULE Playtest ------------------------------
(***************************************************************************)
(* The playtest scripts: a person's seat played by a script over the       *)
(* WebSocket, against LLMs, to see that a deployed game server behaves.    *)
(* S1 and S2 (four seats) draw in every turn of their own, S5 does so for  *)
(* a long game and counts the tiles as it goes, S3 confirms a placement    *)
(* that must be refused, S4 melds, takes jokers and rearranges.  The sets  *)
(* S4 finds in its rack are in module PlaytestSets; what it lays out here  *)
(* is legal or not.                                                        *)
(*                                                                         *)
(* A script waits for messages by type.  A message that answers a wait     *)
(* stays in the client's list all the same, and answers the next wait for  *)
(* its type at once, however old: the script runs ahead of its game.       *)
(*                                                                         *)
(* The server is the environment, as handleDrawTile, handleConfirmTurn and *)
(* handleAITurn answer (TurnOrchestration): a refused confirm costs three  *)
(* tiles and the turn, INVALID_MOVE is never sent.  A wait may time out    *)
(* at any moment.  Left out: the turn's own timer, which is longer than    *)
(* the script's waits, and the scenario's, which only ends it earlier.     *)
(***************************************************************************)
EXTENDS Integers, Sequences, FiniteSets

CONSTANTS
    Scenarios,     \* the scripts of this run, of "S1" .. "S5"
    MAX_TURNS,     \* turns a script counts before it stops
    CHECKPOINT_INTERVAL,
    LONG_GAME,     \* turns after which S5 is partly passed
    MaxGameTurns   \* bound: an LLM that is asked later never answers

VARIABLES
    scenario,
    game,      \* the server's: [seat, turns, over, surplus, rack]
    inbox, outbox, connected,
    view,      \* of the client: [seat, over] (currentSeat, gameOver)
    kept,      \* messages: how many of each type are in the list
    pc, woken, \* the wait the script is in, and whether it was answered
    turnCount,
    order,     \* S2: turnOrder
    credited,  \* S2: the seats with aiStats.turns > 0
    move,      \* S4: what was confirmed last
    checks,    \* S3, S5: the checks so far
    status

server == <<game, inbox, outbox, connected>>
client == <<view, kept>>
report == <<order, credited, move, checks, status>>
playtest == <<scenario, server, client, pc, woken, turnCount, report>>

Me == 0
Unseated == -1
Seats == IF scenario = "S2" THEN 0 .. 3 ELSE 0 .. 1
LLMs == Seats \ {Me}
Waited == {"GAME_STATE", "TURN_START", "TURN_END", "TILE_DRAWN"}
NoMove == [kind |-> "none", rack |-> 0]

-----------------------------------------------------------------------------
(* The server *)

NextSeat == (game.seat + 1) % Cardinality(Seats)
Message(type, seat) == [type |-> type, seat |-> seat]
TurnPasses == <<Message("TURN_END", NextSeat), Message("TURN_START", NextSeat)>>
Broadcast(msgs) == inbox' = IF connected THEN inbox \o msgs ELSE inbox

\* A turn ends, or the game does.
TurnEnds(before, ends, surplus, rack) ==
    /\ game' = [game EXCEPT !.seat = IF ends THEN @ ELSE NextSeat, !.turns = @ + 1,
                            !.over = ends, !.surplus = @ \/ surplus,
                            !.rack = rack]
    /\ Broadcast(IF ends THEN <<Message("GAME_OVER", Unseated)>> ELSE before \o TurnPasses)

\* An LLM draws (everybody is told), places, or finishes the game; its answer
\* may hold tiles that are not in its rack (GameService).
LLMPlays ==
    /\ pc # "done" /\ ~game.over /\ game.seat # Me /\ game.turns < MaxGameTurns
    /\ \E before \in {<<>>, <<Message("TILE_DRAWN", Unseated)>>}, ends, invents \in BOOLEAN :
          /\ invents => before = <<>>
          /\ TurnEnds(before, ends, invents, game.rack)
    /\ UNCHANGED <<scenario, outbox, connected, client, pc, woken, turnCount, report>>

\* A move of the script: out of turn it is an ERROR.
ServerHandles ==
    /\ outbox # <<>> /\ pc # "done"
    /\ outbox' = Tail(outbox)
    /\ LET m == Head(outbox) IN
          IF game.over \/ game.seat # Me
          THEN Broadcast(<<Message("ERROR", Unseated)>>) /\ UNCHANGED game
          ELSE \E ends \in BOOLEAN :
                   /\ m = "illegal" => ~ends
                   /\ TurnEnds(IF m = "draw" THEN <<Message("TILE_DRAWN", Unseated)>> ELSE <<>>,
                               ends, FALSE, game.rack + IF m = "illegal" THEN 3 ELSE 1)
    /\ UNCHANGED <<scenario, connected, client, pc, woken, turnCount, report>>

ConnectionDrops ==
    /\ connected /\ pc # "done"
    /\ connected' = FALSE
    /\ inbox' = <<>> /\ outbox' = <<>>
    /\ UNCHANGED <<scenario, game, client, pc, woken, turnCount, report>>

-----------------------------------------------------------------------------
(* The client *)

\* What a wait is for, and whether it looks at new messages only
\* (waitForAnyMessage) or at the list first (waitForMessage).
WaitsFor(p) ==
    CASE p = "auth" -> {"AUTH_OK"}
      [] p = "state" -> {"GAME_STATE"}
      [] p \in {"first", "their_start", "ai_start", "start"} -> {"TURN_START"}
      [] p \in {"their_end", "ai_end", "end", "cycle"} -> {"TURN_END"}
      [] p = "drawn" -> IF scenario = "S5" THEN {"TILE_DRAWN", "ERROR"} ELSE {"TILE_DRAWN"}
      [] p = "verdict" -> {"TURN_END", "INVALID_MOVE"}
      [] p = "refusal" -> {"INVALID_MOVE"}
      [] p = "fake" -> {"INVALID_MOVE", "ERROR"}
      [] OTHER -> {}
NewOnly(p) == p \in {"verdict", "fake"} \/ (p = "drawn" /\ scenario = "S5")

Kept(p) == {t \in WaitsFor(p) \cap Waited : kept[t] > 0 /\ ~NewOnly(p)}

\* The script reaches a wait: a message in the list answers it and is taken.
Await(p) ==
    /\ pc' = p
    /\ woken' = (Kept(p) # {})
    /\ kept' = [t \in Waited |-> IF t \in Kept(p) THEN kept[t] - 1 ELSE kept[t]]

Goto(p) == pc' = p /\ woken' = FALSE /\ UNCHANGED kept

\* Mutant: only TURN_START says whose turn it is.
ProcessMessageOnStart(m) ==
    view' = CASE m.type \in {"GAME_STATE", "TURN_START"} -> [view EXCEPT !.seat = m.seat]
              [] m.type = "GAME_OVER" -> [view EXCEPT !.over = TRUE]
              [] OTHER -> view

\* processMessage: TURN_END names the next seat, GAME_OVER stays.
SeatAfter(m) == IF m.type \in {"GAME_STATE", "TURN_START", "TURN_END"} THEN m.seat ELSE view.seat
OverAfter(m) == view.over \/ m.type = "GAME_OVER"
ProcessMessage(m) == view' = [seat |-> SeatAfter(m), over |-> OverAfter(m)]

\* A message is listed, processed and shown to whoever waits.
Deliver ==
    /\ inbox # <<>> /\ pc # "done"
    /\ LET m == Head(inbox) IN
          /\ ProcessMessage(m)
          /\ kept' = IF m.type \in Waited THEN [kept EXCEPT ![m.type] = @ + 1] ELSE kept
          /\ woken' = (woken \/ m.type \in WaitsFor(pc))
    /\ inbox' = Tail(inbox)
    /\ UNCHANGED <<scenario, game, outbox, connected, pc, turnCount, report>>

\* send throws when the socket is closed, and the scenario has failed.
Finish(verdict) == pc' = "done" /\ woken' = FALSE /\ status' = verdict /\ UNCHANGED kept
Fail == Finish("FAIL") /\ UNCHANGED <<server, order, credited, move, checks, turnCount>>
Send(m) == outbox' = Append(outbox, m) /\ UNCHANGED <<game, inbox, connected>>

Resumes(p) == pc = p /\ woken
TimesOut(p) == pc = p /\ ~woken /\ WaitsFor(p) # {}
Passes(p) == Resumes(p) \/ TimesOut(p)
Quiet == UNCHANGED <<scenario, view>>

\* Mutant: a state that could be read counts as complete.
SeenRead(ok) == IF ok THEN {} ELSE {"surplus"}

\* S5 counts the tiles over HTTP now and then; a request may fail.
Seen(ok) == IF ok /\ ~game.surplus THEN {} ELSE {"surplus"}

-----------------------------------------------------------------------------
(* Setting up *)

\* Room and game are created over HTTP, then the socket authenticates; the
\* server answers with the state and the turn.
Connect ==
    /\ pc = "setup" /\ Quiet
    /\ Await("auth")
    /\ connected' = TRUE
    /\ inbox' = <<Message("AUTH_OK", Unseated), Message("GAME_STATE", game.seat),
                  Message("TURN_START", game.seat)>>
    /\ UNCHANGED <<game, outbox, turnCount, report>>

Authenticated == Resumes("auth") /\ Await("state") /\ Quiet /\ UNCHANGED <<server, turnCount, report>>

\* S5 counts the tiles for the first time.
FirstCount(counted) == IF scenario = "S5" THEN Seen(counted) ELSE checks

SeesGame ==
    /\ Resumes("state") /\ Await("first") /\ Quiet
    /\ \E counted \in BOOLEAN : checks' = FirstCount(counted)
    /\ UNCHANGED <<server, turnCount, order, credited, move, status>>

SetupFails ==
    /\ pc = "setup" \/ TimesOut("auth") \/ TimesOut("state")
    /\ Fail /\ Quiet

\* S3 and S4 begin with a turn of their own: an LLM that is first plays.
TheyAreFirst == scenario \in {"S3", "S4"} /\ view.seat # Me

\* Without a TURN_START the seat is the one GAME_STATE named.
FirstTurnKnown ==
    /\ Passes("first") /\ Quiet
    /\ IF TheyAreFirst THEN Await("their_end")
       ELSE Goto(IF scenario = "S3" THEN "test" ELSE "loop")
    /\ UNCHANGED <<server, turnCount, report>>

TheyPlayFirst ==
    /\ Resumes("their_end") /\ Quiet
    /\ IF view.over /\ scenario = "S4" THEN Goto("loop") ELSE Await("their_start")
    /\ UNCHANGED <<server, turnCount, report>>

TheyPlayedFirst ==
    /\ Resumes("their_start") /\ Quiet
    /\ Goto(IF scenario = "S3" THEN "test" ELSE "loop")
    /\ UNCHANGED <<server, turnCount, report>>

TheyNeverPlay ==
    /\ TimesOut("their_end") \/ TimesOut("their_start")
    /\ Fail /\ Quiet

-----------------------------------------------------------------------------
(* The game loop of S1, S2, S4 and S5 *)

Playing == pc = "loop" /\ turnCount < MAX_TURNS /\ ~view.over

\* S5 notices a closed socket here.
StopPlaying ==
    /\ pc = "loop" /\ Quiet
    /\ turnCount >= MAX_TURNS \/ view.over \/ (scenario = "S5" /\ ~connected)
    /\ Goto("final")
    /\ checks' = IF scenario = "S5" /\ ~connected /\ turnCount < MAX_TURNS /\ ~view.over
                 THEN checks \cup {"unstable"} ELSE checks
    /\ UNCHANGED <<server, turnCount, order, credited, move, status>>

MayPlay == Playing /\ (scenario = "S5" => connected)
Noted(seat) == IF scenario = "S2" THEN Append(order, seat) ELSE order

TheirTurn ==
    /\ MayPlay /\ view.seat # Me /\ Quiet
    /\ Await("ai_end")
    /\ order' = Noted(view.seat)
    /\ UNCHANGED <<server, turnCount, credited, move, checks, status>>

\* Any TURN_END is taken for the answer of the seat the script waits for.
TheyAnswer ==
    /\ Resumes("ai_end") /\ Quiet
    /\ credited' = IF order = <<>> THEN credited ELSE credited \cup {order[Len(order)]}
    /\ IF view.over THEN Goto("final") ELSE Await("ai_start")
    /\ UNCHANGED <<server, turnCount, order, move, checks, status>>

\* Mutant: the script goes on waiting for an LLM that does not answer.
TheyDoNotAnswerYet ==
    /\ TimesOut("ai_end") /\ Quiet
    /\ Goto("loop")
    /\ UNCHANGED <<server, turnCount, report>>

TheyDoNotAnswer ==
    /\ TimesOut("ai_end") /\ Quiet
    /\ Goto("final")
    /\ UNCHANGED <<server, turnCount, report>>

CountTurn(counted) ==
    /\ turnCount' = turnCount + 1
    /\ Goto("loop")
    /\ checks' = IF scenario = "S5" /\ (turnCount + 1) % CHECKPOINT_INTERVAL = 0
                 THEN checks \cup Seen(counted) ELSE checks

TurnCounted ==
    /\ Passes("ai_start") \/ Passes("start")
    /\ \E counted \in BOOLEAN : CountTurn(counted)
    /\ Quiet /\ UNCHANGED <<server, order, credited, move, status>>

Draw ==
    /\ MayPlay /\ view.seat = Me /\ connected /\ Quiet
    /\ Send("draw") /\ Await("drawn")
    /\ order' = Noted(Me)
    /\ UNCHANGED <<turnCount, credited, move, checks, status>>

\* S4: a first meld and a joker's set are legal by their construction
\* (PlaytestSets), an exchange or a rearrangement may not be, and an exchange
\* that keeps the joker never is.
Confirm ==
    /\ scenario = "S4" /\ MayPlay /\ view.seat = Me /\ connected /\ Quiet
    /\ \E kind \in {"placement", "keep_joker"}, legal \in BOOLEAN :
          /\ kind = "keep_joker" => ~legal
          /\ Send(IF legal THEN "legal" ELSE "illegal")
          /\ move' = [kind |-> kind, rack |-> game.rack]
    /\ Await("verdict")
    /\ UNCHANGED <<turnCount, order, credited, checks, status>>

\* S1 to S5 look at gameOver between their waits; S4 counts the turn first.
OverOr(p) ==
    IF ~view.over THEN Await(p) /\ UNCHANGED turnCount
    ELSE /\ Goto(IF scenario = "S4" THEN "loop" ELSE "final")
         /\ turnCount' = IF scenario = "S4" THEN turnCount + 1 ELSE turnCount

\* A TURN_END is an acceptance; the script without a use for the joker goes
\* on to draw.
Verdict ==
    /\ Resumes("verdict") /\ Quiet
    /\ move.kind = "keep_joker" => connected
    /\ IF move.kind = "keep_joker"
       THEN Send("draw") /\ Await("drawn") /\ UNCHANGED turnCount
       ELSE OverOr("end") /\ UNCHANGED server
    /\ move' = NoMove
    /\ UNCHANGED <<order, credited, checks, status>>

NoVerdict ==
    /\ \/ TimesOut("verdict")
       \/ Resumes("verdict") /\ move.kind = "keep_joker" /\ ~connected
       \/ MayPlay /\ view.seat = Me /\ ~connected
    /\ Fail /\ Quiet

DrawnAndEnded ==
    /\ scenario # "S3" /\ Quiet
    /\ \/ Passes("drawn") /\ OverOr("end")
       \/ Passes("end") /\ OverOr("start")
    /\ UNCHANGED <<server, report>>

-----------------------------------------------------------------------------
(* S3: a refused placement *)

Invalid ==
    /\ pc = "test" /\ connected /\ Quiet
    /\ Send("illegal") /\ Await("refusal")
    /\ move' = [kind |-> "invalid", rack |-> game.rack]
    /\ UNCHANGED <<turnCount, order, credited, checks, status>>

\* The rack and the seat over HTTP, and a draw that must work.
AfterRefusal ==
    /\ Passes("refusal") /\ connected /\ Quiet
    /\ checks' = {c \in {"refused", "restored", "still_mine"} :
                     CASE c = "refused" -> woken
                       [] c = "restored" -> game.rack = move.rack
                       [] c = "still_mine" -> game.seat = Me}
    /\ Send("draw") /\ Await("drawn")
    /\ UNCHANGED <<turnCount, order, credited, move, status>>

\* One round to the next turn of its own: any failure is logged and ends it.
DrawnAfterRefusal ==
    /\ scenario = "S3" /\ Passes("drawn") /\ Quiet
    /\ checks' = IF woken THEN checks \cup {"drawn"} ELSE checks
    /\ IF view.over THEN Goto("fake_test") ELSE Await("end")
    /\ UNCHANGED <<server, turnCount, order, credited, move, status>>

RoundAfterRefusal ==
    /\ scenario = "S3" /\ Quiet
    /\ \/ Resumes("end") /\ IF view.over THEN Goto("fake_test") ELSE Await("start")
       \/ Resumes("start") /\ Await("cycle")
       \/ Resumes("cycle") /\ Goto("fake_test")
       \/ (TimesOut("end") \/ TimesOut("start") \/ TimesOut("cycle")) /\ Goto("fake_test")
    /\ UNCHANGED <<server, turnCount, report>>

\* Tiles of no rack, when it is the script's turn.
FakeTiles ==
    /\ pc = "fake_test" /\ Quiet
    /\ IF ~view.over /\ view.seat = Me /\ connected
       THEN Send("illegal") /\ Await("fake")
       ELSE Goto("final") /\ UNCHANGED server
    /\ UNCHANGED <<turnCount, report>>

FakeTilesAnswered ==
    /\ Passes("fake") /\ Quiet
    /\ Goto("final")
    /\ UNCHANGED <<server, turnCount, report>>

SendFails ==
    /\ (pc = "test" \/ Passes("refusal")) /\ ~connected
    /\ Fail /\ Quiet

-----------------------------------------------------------------------------
(* The report *)

\* Each seat follows the one before it; the last entry may differ.
TurnOrderCorrect ==
    \A i \in 2 .. Len(order) - 1 : order[i] = (order[i - 1] + 1) % 4

\* The critical checks of each scenario; S1 passes when it gets here, S2
\* counts the tiles too but passes without.
PassedS2 == LLMs \subseteq credited /\ TurnOrderCorrect
PassedS3 == {"refused", "restored", "still_mine", "drawn"} \subseteq checks
PassedS4(counted) == Seen(counted) = {}
PassedS5(counted) == Seen(counted) = {} /\ checks = {}
PartlyS5(counted) == turnCount >= LONG_GAME /\ "surplus" \notin checks \cup Seen(counted)

Passed(counted) ==
    CASE scenario = "S1" -> TRUE
      [] scenario = "S2" -> PassedS2
      [] scenario = "S3" -> PassedS3
      [] scenario = "S4" -> PassedS4(counted)
      [] scenario = "S5" -> PassedS5(counted)

Report ==
    /\ pc = "final" /\ Quiet
    /\ \E counted \in BOOLEAN :
          Finish(IF Passed(counted) THEN "PASS"
                 ELSE IF scenario = "S5" /\ PartlyS5(counted) THEN "PARTIAL" ELSE "FAIL")
    /\ UNCHANGED <<server, turnCount, order, credited, move, checks>>

-----------------------------------------------------------------------------
ScriptInit ==
    /\ scenario \in Scenarios
    /\ \E s \in Seats :
          game = [seat |-> s, turns |-> 0, over |-> FALSE, surplus |-> FALSE,
                  rack |-> 14]
    /\ inbox = <<>> /\ outbox = <<>> /\ connected = FALSE
    /\ view = [seat |-> Unseated, over |-> FALSE]
    /\ kept = [t \in Waited |-> 0]
    /\ pc = "setup" /\ woken = FALSE
    /\ turnCount = 0
    /\ order = <<>> /\ credited = {} /\ move = NoMove /\ checks = {}
    /\ status = "NOT_RUN"

SetUp == Connect \/ Authenticated \/ SeesGame \/ SetupFails \/ FirstTurnKnown
            \/ TheyPlayFirst \/ TheyPlayedFirst \/ TheyNeverPlay
Play == StopPlaying \/ TheirTurn \/ TheyAnswer \/ TheyDoNotAnswer \/ TurnCounted
           \/ Draw \/ Confirm \/ Verdict \/ NoVerdict \/ DrawnAndEnded
Refusal == Invalid \/ AfterRefusal \/ DrawnAfterRefusal \/ RoundAfterRefusal
              \/ FakeTiles \/ FakeTilesAnswered \/ SendFails
Script == SetUp \/ Play \/ Refusal \/ Report
ScriptNext == LLMPlays \/ ServerHandles \/ ConnectionDrops \/ Deliver \/ Script

ScriptSpec == ScriptInit /\ [][ScriptNext]_playtest /\ WF_playtest(Script)

-----------------------------------------------------------------------------
(* Properties *)

\* Whatever the server, the LLMs and the network do, a script comes to its
\* report: every wait has a limit, and so has the loop (runS1 .. runS5).
EveryScriptEnds == <>(status # "NOT_RUN")

\* The script takes itself to be at turn only when it is, or when the end of
\* its turn is still on the way to it: what it sends out of turn repeats a
\* move that was not answered yet (currentSeat, the loops of runS1 .. runS5).
PlaysInItsTurn ==
    view.seat = Me /\ game.seat # Me /\ connected =>
        \E i \in 1 .. Len(inbox) : inbox[i].type = "TURN_END" /\ inbox[i].seat # Me

\* A script that passes has seen what it claims: S4 and S5 found no tile too
\* many when they looked, and S3, whose refused placement costs three tiles
\* and the turn, cannot pass (universe_conservation_106, rack_restored).
PassIsEarned ==
    [][status' = "PASS" /\ status # "PASS" =>
          /\ scenario # "S3"
          /\ scenario \in {"S4", "S5"} => ~game.surplus]_playtest
=============================================================================
