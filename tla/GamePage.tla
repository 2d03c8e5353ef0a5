------------------------------ MODULE GamePage ------------------------------
(***************************************************************************)
(* What the game page says of the other players, of the time and of the    *)
(* end of the game: the handlers of useWebSocket that write the players,   *)
(* the absent and the result to gameStore, the clock (useTurnTimer), the   *)
(* countdowns (GameClient), the player cards and the final screens.        *)
(*                                                                         *)
(* Time is counted in ticks, the page's intervals and the server's clock   *)
(* alike.  The environment is the handler of the server: Viewer plays in   *)
(* this browser, the other humans come and go, the LLMs think.  Browser    *)
(* has the board, the draft and the buttons of the same page, Session the  *)
(* several connections of one player, TurnOrchestration the timers.        *)
(*                                                                         *)
(* Left out: the board, racks and scores, the notices that fade, the       *)
(* history of turns, the empty pile, and the two seconds the page waits    *)
(* for a TURN_START, which always follows its TURN_END on the same socket. *)
(***************************************************************************)
EXTENDS Integers, Sequences, FiniteSets

CONSTANTS
    Humans, LLMs,  \* seats
    Viewer,
    TurnTicks,     \* turnTimeoutSec
    GraceTicks,    \* gracePeriodDuration
    MaxTime,       \* bound: ticks in all
    MaxTurns,      \* bound: turns that end
    MaxAway,       \* bound: departures
    MaxInFlight    \* bound: the server acts while fewer messages are on their way

\* The seats are numbered from 0, and each is a person's or an LLM's.
ASSUME SeatsAssumption ==
    /\ IsFiniteSet(Humans \cup LLMs)
    /\ Humans \cup LLMs = 0 .. Cardinality(Humans \cup LLMs) - 1
    /\ Humans \cap LLMs = {} /\ Viewer \in Humans
ASSUME TicksAssumption == TurnTicks \in Nat /\ GraceTicks \in Nat /\ MaxTime \in Nat

VARIABLES
    time,
    srv,     \* the game: [current, until, deadline, turns, over, winner]
    status,  \* PlayerConnectionStatus of every seat
    grace,   \* when a seat's grace timer runs out, or Never
    leaving, \* seats whose LEAVE_GAME is handled and whose socket is not closed yet
    away,    \* departures so far
    conn,    \* the viewer's connection at the server: "none", "served", "registered"
    missed,  \* something was broadcast between the state and the registration
    saw,     \* history: seats whose last departure this browser was told of
    inbox,
    page     \* gameStore, of one browser

vars == <<time, srv, status, grace, leaving, away, conn, missed, saw, inbox, page>>

Seats == Humans \cup LLMs
Never == MaxTime + GraceTicks + 1
Nobody == -1
NoCountdown == -1

Left(t) == IF t > time THEN t - time ELSE 0

-----------------------------------------------------------------------------
(* The server *)

Quiet == ~srv.over /\ Len(inbox) < MaxInFlight

Broadcast(msgs) ==
    /\ inbox' = IF conn = "registered" THEN inbox \o msgs ELSE inbox
    /\ missed' = (missed \/ conn = "served")

InPlay(st) == {s \in Seats : st[s] # "FORFEITED"}

\* advanceTurn: the next seat that has not forfeited.
AfterTurnOf(s, st) ==
    LET n == Cardinality(Seats)
        turn == CHOOSE i \in 1..n : /\ (s + i) % n \in InPlay(st)
                                    /\ \A j \in 1..(i - 1) : (s + j) % n \notin InPlay(st)
    IN  (s + turn) % n

GameOver(endType, winner) == [type |-> "GAME_OVER", endType |-> endType, winner |-> winner]
TurnStart(s) == [type |-> "TURN_START", seat |-> s]

Starts(s) == [srv EXCEPT !.current = s, !.until = time + TurnTicks, !.deadline = time + TurnTicks,
                         !.turns = @ + 1]

\* A confirm, a draw, a timeout, an LLM's answer: TURN_END and TURN_START.
TurnEnds ==
    /\ Quiet /\ srv.turns < MaxTurns
    /\ LET next == AfterTurnOf(srv.current, status)
       IN  /\ srv' = Starts(next)
           /\ Broadcast(<<[type |-> "TURN_END", next |-> next], TurnStart(next)>>)
    /\ UNCHANGED <<time, status, grace, leaving, away, conn, saw, page>>

\* ... or the last one: somebody has no tiles left, or nobody can move.
GameEnds ==
    /\ Quiet
    /\ \E winner \in InPlay(status) \cup {Nobody} :
           LET endType == IF winner = srv.current THEN "NORMAL" ELSE "STALEMATE"
           IN  /\ srv' = [srv EXCEPT !.over = TRUE, !.winner = winner]
               /\ Broadcast(<<GameOver(endType, winner)>>)
    /\ UNCHANGED <<time, status, grace, leaving, away, conn, saw, page>>

\* forfeitAndBroadcast: the last one in play wins; otherwise a turn starts, the
\* next player's or the same one again, whose time starts over at the timer and
\* not in the state.
Forfeit(s) ==
    LET st == [status EXCEPT ![s] = "FORFEITED"]
        said == [type |-> "PLAYER_FORFEITED", seat |-> s, active |-> Cardinality(InPlay(st))]
    IN  /\ status' = st
        /\ IF Cardinality(InPlay(st)) <= 1
           THEN LET winner == IF InPlay(st) = {} THEN Nobody ELSE CHOOSE w \in InPlay(st) : TRUE
                IN  /\ srv' = [srv EXCEPT !.over = TRUE, !.winner = winner]
                    /\ Broadcast(<<said, GameOver("FORFEIT", winner)>>)
           ELSE /\ srv' = IF srv.current = s THEN Starts(AfterTurnOf(s, st))
                          ELSE [srv EXCEPT !.deadline = time + TurnTicks]
                /\ Broadcast(<<said, TurnStart(srv'.current)>>)

\* Too many forced draws.
LLMExcluded ==
    /\ Quiet
    /\ \E s \in LLMs \cap InPlay(status) : s = srv.current /\ Forfeit(s)
    /\ UNCHANGED <<time, grace, leaving, away, conn, saw, page>>

Think ==
    /\ Quiet /\ srv.current \in LLMs
    /\ ~\E i \in DOMAIN inbox : inbox[i].type = "AI_THINKING"
    /\ page.thinking # srv.current
    /\ Broadcast(<<[type |-> "AI_THINKING", seat |-> srv.current]>>)
    /\ UNCHANGED <<time, srv, status, grace, leaving, away, conn, saw, page>>

\* handleDisconnect: the status, the broadcast, the grace timer.
Goes(s) ==
    /\ status' = [status EXCEPT ![s] = "DISCONNECTED"]
    /\ grace' = [grace EXCEPT ![s] = time + GraceTicks]
    /\ leaving' = leaving \ {s}
    /\ IF s = Viewer
       THEN conn' = "none" /\ inbox' = <<>> /\ missed' = FALSE /\ UNCHANGED saw
       ELSE /\ Broadcast(<<[type |-> "PLAYER_DISCONNECTED", seat |-> s]>>)
            /\ saw' = saw \ {s}
            /\ UNCHANGED conn

Disconnects(s) ==
    /\ ~srv.over /\ away < MaxAway /\ Len(inbox) < MaxInFlight
    /\ status[s] = "ACTIVE" \/ s \in leaving
    /\ s = Viewer => conn = "registered"
    /\ away' = away + 1
    /\ Goes(s)
    /\ UNCHANGED <<time, srv, page>>

\* LEAVE_GAME of another player; the socket closes behind it.
Leaves(s) ==
    /\ Quiet /\ s # Viewer /\ status[s] = "ACTIVE" /\ s \notin leaving
    /\ Forfeit(s)
    /\ leaving' = leaving \cup {s}
    /\ UNCHANGED <<time, grace, away, conn, saw, page>>

GraceRunsOut(s) ==
    /\ Quiet /\ grace[s] <= time
    /\ grace' = [grace EXCEPT ![s] = Never]
    /\ Forfeit(s)
    /\ UNCHANGED <<time, leaving, away, conn, saw, page>>

\* HandleWS of another player's new connection: PLAYER_JOIN says who has come.
Returns(s) ==
    /\ Quiet /\ s # Viewer /\ s \notin leaving /\ status[s] # "ACTIVE"
    /\ status' = [status EXCEPT ![s] = "ACTIVE"]
    /\ grace' = [grace EXCEPT ![s] = Never]
    /\ Broadcast(<<[type |-> "PLAYER_JOIN", seat |-> s]>>)
    /\ UNCHANGED <<time, srv, leaving, away, conn, saw, page>>

\* HandleWS of the viewer's: the state as it is, TURN_START while there is time,
Serve ==
    /\ conn = "none" /\ ~srv.over
    /\ conn' = "served" /\ missed' = FALSE
    /\ LET state == [type |-> "GAME_STATE", seat |-> srv.current, until |-> srv.until,
                     connected |-> [s \in Seats |-> status[s] = "ACTIVE"]]
       IN  inbox' = <<state>> \o (IF Left(srv.until) > 0 THEN <<TurnStart(srv.current)>> ELSE <<>>)
    /\ UNCHANGED <<time, srv, status, grace, leaving, away, saw, page>>

\* ... and only then the hub and the player's status.
Register ==
    /\ conn = "served" /\ conn' = "registered"
    /\ grace' = [grace EXCEPT ![Viewer] = Never]
    /\ status' = IF srv.over THEN status ELSE [status EXCEPT ![Viewer] = "ACTIVE"]
    /\ UNCHANGED <<time, srv, leaving, away, missed, saw, inbox, page>>

-----------------------------------------------------------------------------
(* The page *)

EffectiveAI(p) == p.isAITurn \/ p.thinking # Nobody

\* Mutant: a clock that still runs is not set.
ClockKept(p, remaining) == [p EXCEPT !.remaining = IF @ > 0 THEN @ ELSE remaining]

\* setRemainingMs.
Clock(p, remaining) == [p EXCEPT !.remaining = remaining]

OnGameState(m) ==
    Clock([page EXCEPT !.current = m.seat,
                       !.players = [s \in Seats |-> IF m.connected[s] THEN "CONNECTED"
                                                    ELSE "DISCONNECTED"]],
          Left(m.until))

\* The whole turn's time, whatever is left of it.
OnTurnStart(m) ==
    Clock([page EXCEPT !.thinking = Nobody, !.isAITurn = (m.seat \in LLMs), !.current = m.seat],
          TurnTicks)

OnTurnEnd(m) == [page EXCEPT !.current = m.next, !.thinking = Nobody, !.isAITurn = FALSE]

OnAIThinking(m) == [page EXCEPT !.thinking = m.seat, !.isAITurn = TRUE]

\* Mutant: a player who is in the list already stays in it as it is.
AddOnce(countdown, s) ==
    IF countdown[s] # NoCountdown THEN countdown ELSE [countdown EXCEPT ![s] = GraceTicks]

\* addDisconnectedPlayer: in place of an entry of the same seat.
AddDisconnectedPlayer(countdown, s) == [countdown EXCEPT ![s] = GraceTicks]

RemoveDisconnectedPlayer(countdown, s) == [countdown EXCEPT ![s] = NoCountdown]

OnPlayerDisconnected(m) ==
    [page EXCEPT !.countdown = AddDisconnectedPlayer(@, m.seat),
                 !.players[m.seat] = "DISCONNECTED"]

\* Mutant: two players are taken for one.
LastOneOfTwo(active) == active <= 2

\* activePlayers <= 1: the end is announced before GAME_OVER.
LastOne(active) == active <= 1

OnPlayerForfeited(m) ==
    [page EXCEPT !.countdown = RemoveDisconnectedPlayer(@, m.seat),
                 !.players[m.seat] = "FORFEITED",
                 !.ended = @ \/ LastOne(m.active),
                 !.endReason = IF LastOne(m.active) THEN "opponent_forfeit" ELSE @]

\* Mutant: an end that is announced already is not announced again.
OnFirstGameOver(m) ==
    IF page.ended THEN page
    ELSE [page EXCEPT !.result = m, !.ended = TRUE, !.endReason = "game_over"]

OnGameOver(m) == [page EXCEPT !.result = m, !.ended = TRUE, !.endReason = "game_over"]

Deliver ==
    /\ conn # "none" /\ inbox # <<>>
    /\ inbox' = Tail(inbox)
    /\ LET m == Head(inbox)
       IN  /\ page' =
               CASE m.type = "GAME_STATE" -> OnGameState(m)
                 [] m.type = "TURN_START" -> OnTurnStart(m)
                 [] m.type = "TURN_END" -> OnTurnEnd(m)
                 [] m.type = "AI_THINKING" -> OnAIThinking(m)
                 [] m.type = "PLAYER_DISCONNECTED" -> OnPlayerDisconnected(m)
                 [] m.type = "PLAYER_FORFEITED" -> OnPlayerForfeited(m)
                 [] m.type = "PLAYER_JOIN" -> page
                 [] m.type = "GAME_OVER" -> OnGameOver(m)
           /\ saw' = IF m.type = "PLAYER_DISCONNECTED" THEN saw \cup {m.seat} ELSE saw
    /\ UNCHANGED <<time, srv, status, grace, leaving, away, conn, missed>>

\* A second: the intervals of useTurnTimer and of the countdowns.
PageTick ==
    [page EXCEPT !.remaining = IF EffectiveAI(page) \/ @ = 0 THEN @ ELSE @ - 1,
                 !.countdown = [s \in Seats |-> IF @[s] > 0 THEN @[s] - 1 ELSE @[s]]]

\* A player's turn has a timer of its own; so has whoever is away.
Tick ==
    /\ ~srv.over /\ time < MaxTime
    /\ srv.current \in Humans => srv.deadline > time
    /\ \A s \in Humans : grace[s] > time
    /\ time' = time + 1
    /\ page' = PageTick
    /\ UNCHANGED <<srv, status, grace, leaving, away, conn, missed, saw, inbox>>

(* What is on the screen *)

\* The end: the result once GAME_OVER is here, a notice before it.
Screen ==
    IF page.result # <<>> THEN "result"
    ELSE IF page.ended THEN page.endReason ELSE "board"

\* PlayerCard; an LLM is never shown as disconnected.
Card(s) ==
    CASE page.players[s] = "FORFEITED" -> "forfeited"
      [] page.players[s] = "DISCONNECTED" /\ s \in Humans -> "disconnected"
      [] OTHER -> "connected"

\* One's own card shows no countdown.
Countdown(s) == IF s = Viewer \/ Card(s) # "disconnected" THEN NoCountdown ELSE page.countdown[s]

\* The last column of the result.
Outcome(s) ==
    IF page.result.winner = s THEN "won"
    ELSE IF page.players[s] = "FORFEITED" THEN "forfeited" ELSE "lost"

-----------------------------------------------------------------------------
Init ==
    /\ time = 0
    /\ srv = [current |-> 0, until |-> TurnTicks, deadline |-> TurnTicks, turns |-> 0,
              over |-> FALSE, winner |-> Nobody]
    /\ status = [s \in Seats |-> "ACTIVE"]
    /\ grace = [s \in Humans |-> Never]
    /\ leaving = {} /\ away = 0
    /\ conn = "none" /\ missed = FALSE /\ saw = {} /\ inbox = <<>>
    /\ page = [current |-> Nobody, players |-> [s \in Seats |-> "CONNECTED"],
               countdown |-> [s \in Seats |-> NoCountdown],
               remaining |-> 0, isAITurn |-> FALSE, thinking |-> Nobody,
               ended |-> FALSE, endReason |-> "none", result |-> <<>>]

Next ==
    \/ TurnEnds \/ GameEnds \/ LLMExcluded \/ Think
    \/ \E s \in Humans : Disconnects(s) \/ Leaves(s) \/ GraceRunsOut(s) \/ Returns(s)
    \/ Serve \/ Register \/ Deliver \/ Tick

\* What is on its way arrives.
Fairness == WF_vars(Deliver)

Spec == Init /\ [][Next]_vars /\ Fairness

-----------------------------------------------------------------------------
(* Properties *)

\* The browser has been told all there is to tell a registered connection, and
\* nothing was broadcast between its state and its registration.
Settled == conn = "registered" /\ inbox = <<>> /\ ~missed

(* Nobody who is away is shown as present, whatever order the goodbyes,    *)
(* forfeits, returns and the viewer's own outages come in; and the         *)
(* countdown beside a player who went while the viewer was there never     *)
(* runs out before the grace timer does.                                   *)
AbsenceIsShown ==
    (Settled /\ ~srv.over) =>
        \A s \in Humans :
            /\ Card(s) = "connected" => status[s] = "ACTIVE"
            /\ (s \in saw /\ status[s] = "DISCONNECTED" /\ Countdown(s) # NoCountdown) =>
                   Countdown(s) >= Left(grace[s])

(* The clock of a person's turn never shows less time than the server's    *)
(* turn timer leaves, and runs, though a forfeit starts the timer over in  *)
(* the middle of a turn; a reconnection counts only while the state and    *)
(* the timer agree about the turn's start (forfeitAndBroadcast renews the  *)
(* timer alone), and while there is time (without it no TURN_START comes). *)
ClockIsNotShort ==
    ( /\ Settled /\ ~srv.over /\ srv.current \in Humans
      /\ srv.until = srv.deadline /\ Left(srv.deadline) > 0 ) =>
        /\ ~EffectiveAI(page)
        /\ page.remaining >= Left(srv.deadline)

(* The page leaves the board only when the game is over, ...               *)
EndIsReal == Screen # "board" => srv.over

(* What the page shows of the players, the clock and the end is so on the  *)
(* server, whatever was broadcast while the viewer was away.               *)
PageIsTrue == AbsenceIsShown /\ ClockIsNotShort /\ EndIsReal

(* ... and a viewer to whom the end was broadcast, and who stays, sees the *)
(* result, the notice of an opponent's forfeit giving way to it, with the  *)
(* winner the server named.                                                *)
ResultArrives ==
    (\E i \in DOMAIN inbox : inbox[i].type = "GAME_OVER") ~>
        (Screen = "result" /\ \A s \in Seats : Outcome(s) = "won" <=> s = srv.winner)

=============================================================================
