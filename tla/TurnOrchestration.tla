------------------------- MODULE TurnOrchestration -------------------------
(***************************************************************************)
(* Who makes a turn end: the goroutines game-server's WSHandler runs       *)
(* around GameService (handler/ws_handler.go).  A turn is ended by the     *)
(* message of a browser, by the turn timer's goroutine, by the goroutine   *)
(* that asks the LLM, or by a forfeit (LEAVE, grace period, absence,       *)
(* forced draws); and whoever ends it starts the next one: it announces    *)
(* TURN_START, which for an LLM spawns a goroutine, and arms the timer.    *)
(* The REST routes of a turn (game_handler.go) end one as well, and start  *)
(* nothing.                                                                *)
(*                                                                         *)
(* What a turn does to the tiles is GameService's business; here a service *)
(* call moves the turn or ends the game.  The handler's own steps after it *)
(* are kept apart ("todo"), since the goroutine an announcement spawns     *)
(* cancels the turn timer while its parent is about to arm it.             *)
(*                                                                         *)
(* Timing assumed: what needs a message, an answer of the LLM or a timer   *)
(* takes longer than the straight-line steps of the handler (Settled).     *)
(***************************************************************************)
EXTENDS Integers, Sequences, FiniteSets, Bags

CONSTANTS
    N,              \* number of players; seats are 0 .. N-1
    AISeat,         \* the seats played by an LLM
    MaxTurns,       \* the turn limit of the game (MAX_TURNS_LIMIT)
    AbsentLimit,    \* timeouts in a row of a disconnected player (3)
    ForceDrawLimit, \* forced draws in a row of an LLM (5)
    TimerId,        \* bound: timer goroutines alive at the same time
    MaxRestarts,    \* bound: restarts of the server
    None            \* no map entry, no goroutine, no Redis key

Seat  == 0 .. N - 1
Human == Seat \ AISeat

Timer == [seat : Seat, gen : Nat, pc : {"armed", "expired"}]
Entry == [id : TimerId, seat : Seat, gen : Nat]

ASSUME SeatsAssumption  == N \in Nat /\ N >= 2 /\ AISeat \subseteq Seat
ASSUME LimitsAssumption == /\ MaxTurns \in Nat /\ AbsentLimit \in Nat \ {0}
                           /\ ForceDrawLimit \in Nat \ {0} /\ MaxRestarts \in Nat
                           /\ TimerId \subseteq Nat
ASSUME NoneAssumption   == None \notin Seat \cup Timer \cup Entry

VARIABLES
    \* the stored game
    status, current, turn,
    conn,        \* PlayerConnectionStatus
    absent,      \* ConsecutiveAbsentTurns
    forced,      \* ConsecutiveForceDrawCount
    \* the process
    timers,      \* the turn-timer goroutines: [seat, gen, pc]
    entry,       \* the timers map of this game: [id, seat, gen]
    ai,          \* bag of AI goroutines: [seat, pc]
    todo,        \* steps left to the goroutine that made the last service call
    next, actor, \* the seat its state says is to move, and its own seat
    online,      \* browsers with an open connection
    grace,       \* seats with a grace timer running
    \* Redis, apart from the game
    redisTimer,  \* seat of the key game:{id}:timer
    \* history
    restarts, leavers,
    unattended   \* a turn was left to nobody: by an LLM call that outlasted its
                 \* context, or over REST

game    == <<status, current, turn, conn, absent, forced>>
process == <<timers, entry, ai, todo, next, actor, online, grace>>
history == <<restarts, leavers, unattended>>
vars    == <<game, process, redisTimer, history>>

-----------------------------------------------------------------------------
(* The service calls, as the orchestration sees them. *)

ActiveSeats(c) == {s \in Seat : c[s] # "FORFEITED"}

NextActive(s, c) ==
    LET steps == {i \in 1 .. N : c[(s + i) % N] # "FORFEITED"}
    IN  IF steps = {} THEN s
        ELSE (s + (CHOOSE i \in steps : \A j \in steps : i <= j)) % N

\* A confirm, a draw or a timeout of seat s succeeds: a win or a stalemate by
\* passes ends the game on the spot, any other outcome moves the turn and looks
\* at the limit.
TurnEnds(s) ==
    /\ status = "PLAYING" /\ current = s
    /\ \/ status' = "FINISHED" /\ UNCHANGED <<current, turn>>
       \/ /\ turn' = turn + 1
          /\ current' = NextActive(s, conn)
          /\ status' = IF turn + 1 >= MaxTurns THEN "FINISHED" ELSE "PLAYING"

\* ForfeitPlayer after the calls before it left the game at status "PLAYING"
\* with seat cur to move at turn t.
Forfeits(s, cur, t) ==
    /\ conn' = [conn EXCEPT ![s] = "FORFEITED"]
    /\ leavers' = leavers \cup {s}
    /\ IF Cardinality(ActiveSeats(conn')) <= 1
       THEN status' = "FINISHED" /\ current' = cur /\ turn' = t
       ELSE IF cur = s
            THEN /\ turn' = t + 1
                 /\ current' = NextActive(s, conn')
                 /\ status' = IF t + 1 >= MaxTurns THEN "FINISHED" ELSE "PLAYING"
            ELSE status' = "PLAYING" /\ current' = cur /\ turn' = t

\* Mutants of Continue: the timer's entry is deleted after the next turn's was
\* made; the timer is left running when the game is over.
ContinueClearLast(before, after, who) ==
    /\ todo' = (IF status' = "PLAYING" THEN <<"announce", "arm">> ELSE <<"cancel", "cleanup">>)
               \o before \o after
    /\ next' = current'
    /\ actor' = who

ContinueKeepTimer(before, after, who) ==
    /\ todo' = before
               \o (IF status' = "PLAYING" THEN <<"announce", "arm">> ELSE <<"cleanup">>)
               \o after
    /\ next' = current'
    /\ actor' = who

\* The rest of a handler whose call left the game in the primed state: steps
\* of its own before and after the shared ones.
Continue(before, after, who) ==
    /\ todo' = before
               \o (IF status' = "PLAYING" THEN <<"announce", "arm">> ELSE <<"cancel", "cleanup">>)
               \o after
    /\ next' = current'
    /\ actor' = who

\* No goroutine is between two steps.
Settled == todo = <<>> /\ \A s \in Seat : ~ BagIn([seat |-> s, pc |-> "spawned"], ai)

-----------------------------------------------------------------------------
Init ==
    /\ status = "PLAYING" /\ current = 0 /\ turn = 0
    /\ conn = [s \in Seat |-> "ACTIVE"]
    /\ absent = [s \in Seat |-> 0]
    /\ forced = [s \in Seat |-> 0]
    /\ timers = [i \in TimerId |-> None]
    /\ entry = None
    /\ ai = EmptyBag
    /\ todo = <<"announce", "arm">> /\ next = 0 /\ actor = 0
    /\ online = Human
    /\ grace = {}
    /\ redisTimer = None
    /\ restarts = 0
    /\ leavers = {}
    /\ unattended = FALSE

-----------------------------------------------------------------------------
(* The steps after a call. *)

Doing(step) == todo # <<>> /\ Head(todo) = step /\ todo' = Tail(todo)

\* broadcastTurnStart: a goroutine for an LLM that is to move.
Announce ==
    /\ Doing("announce")
    /\ ai' = IF next \in AISeat THEN ai (+) SetToBag({[seat |-> next, pc |-> "spawned"]}) ELSE ai
    /\ UNCHANGED <<game, timers, entry, next, actor, online, grace, redisTimer, history>>

\* cancelTurnTimer, and the same inside startTurnTimer: the goroutine of the
\* entry, if it still waits, is gone.
Stopped ==
    IF entry # None /\ timers[entry.id] # None /\ timers[entry.id].pc = "armed"
    THEN [timers EXCEPT ![entry.id] = None]
    ELSE timers

\* Mutant of StartTimer: the goroutine captures the generation it replaces.
StartTimerOldGeneration(seat) ==
    LET gen == IF entry = None THEN 0 ELSE entry.gen
        id  == CHOOSE i \in TimerId : Stopped[i] = None /\ \A j \in TimerId : Stopped[j] = None => i <= j
    IN  /\ \E i \in TimerId : Stopped[i] = None
        /\ timers' = [Stopped EXCEPT ![id] = [seat |-> seat, gen |-> gen, pc |-> "armed"]]
        /\ entry' = [id |-> id, seat |-> seat, gen |-> gen + 1]
        /\ redisTimer' = seat

\* startTurnTimer: the generation counts up while there is an entry to replace.
StartTimer(seat) ==
    LET gen == IF entry = None THEN 1 ELSE entry.gen + 1
        id  == CHOOSE i \in TimerId : Stopped[i] = None /\ \A j \in TimerId : Stopped[j] = None => i <= j
    IN  /\ \E i \in TimerId : Stopped[i] = None
        /\ timers' = [Stopped EXCEPT ![id] = [seat |-> seat, gen |-> gen, pc |-> "armed"]]
        /\ entry' = [id |-> id, seat |-> seat, gen |-> gen]
        /\ redisTimer' = seat

Arm ==
    /\ Doing("arm")
    /\ StartTimer(next)
    /\ UNCHANGED <<game, ai, next, actor, online, grace, history>>

CancelTimer == timers' = Stopped /\ entry' = None /\ redisTimer' = None

\* broadcastGameOver, broadcastGameOverFromState, forfeitAndBroadcast.
Cancel ==
    /\ Doing("cancel")
    /\ CancelTimer
    /\ UNCHANGED <<game, ai, next, actor, online, grace, history>>

\* cleanupGame deletes the state.  An LLM call it cannot cancel finds no game.
Cleanup ==
    /\ Doing("cleanup")
    /\ status' = "DELETED"
    /\ UNCHANGED <<current, turn, conn, absent, forced, timers, entry, ai, next, actor, online,
                   grace, redisTimer, history>>

\* The timer goroutine deletes "its" entry, whose ever it is by now.
Clear ==
    /\ Doing("clear")
    /\ entry' = None /\ redisTimer' = None
    /\ UNCHANGED <<game, timers, ai, next, actor, online, grace, history>>

\* handleDisconnect: the status is overwritten, the grace period starts.
Dropped(s) ==
    /\ online' = online \ {s}
    /\ conn' = IF status = "DELETED" THEN conn ELSE [conn EXCEPT ![s] = "DISCONNECTED"]
    /\ grace' = grace \cup {s}

\* After LEAVE the server closes the socket, and its read loop ends as any other.
Close ==
    /\ Doing("close")
    /\ Dropped(actor)
    /\ UNCHANGED <<status, current, turn, absent, forced, timers, entry, ai, next, actor,
                   redisTimer, history>>

-----------------------------------------------------------------------------
(* Browsers. *)

HumanEndsTurn(s) ==
    /\ Settled /\ s \in online
    /\ TurnEnds(s)
    /\ Continue(<<>>, <<>>, s)
    /\ UNCHANGED <<conn, absent, forced, timers, entry, ai, online, grace, redisTimer, history>>

\* POST /api/games/:id/confirm and /draw: the service call and no more, for the
\* seat the body names.
RestEndsTurn(s) ==
    /\ Settled
    /\ TurnEnds(s)
    /\ next' = current' /\ actor' = s
    /\ unattended' = TRUE
    /\ UNCHANGED <<conn, absent, forced, timers, entry, ai, todo, online, grace, redisTimer,
                   restarts, leavers>>

\* handleLeaveGame: forfeitAndBroadcast, then the socket is closed.
Leave(s) ==
    /\ Settled /\ s \in online \ leavers /\ status = "PLAYING"
    /\ Forfeits(s, current, turn)
    /\ Continue(<<>>, <<"close">>, s)
    /\ UNCHANGED <<absent, forced, timers, entry, ai, online, grace, redisTimer, restarts, unattended>>

Disconnect(s) ==
    /\ Settled /\ s \in online /\ status = "PLAYING"
    /\ Dropped(s)
    /\ UNCHANGED <<status, current, turn, absent, forced, timers, entry, ai, todo, next, actor,
                   redisTimer, history>>

\* HandleWS: restoreTimerIfNeeded, the grace timer is cancelled, status ACTIVE.
\* Bound: who has forfeited does not come back.
Reconnect(s) ==
    /\ Settled /\ s \in Human \ (online \cup leavers) /\ status = "PLAYING"
    /\ IF entry = None /\ redisTimer # None
       THEN StartTimer(redisTimer)
       ELSE UNCHANGED <<timers, entry, redisTimer>>
    /\ online' = online \cup {s}
    /\ grace' = grace \ {s}
    /\ conn' = [conn EXCEPT ![s] = "ACTIVE"]
    /\ absent' = [absent EXCEPT ![s] = 0]
    /\ UNCHANGED <<status, current, turn, forced, ai, todo, next, actor, history>>

\* The goroutine of startGraceTimer: forfeitAndBroadcast, nothing once the
\* game is over.
GraceExpires(s) ==
    /\ Settled /\ s \in grace
    /\ grace' = grace \ {s}
    /\ IF status = "PLAYING"
       THEN Forfeits(s, current, turn) /\ Continue(<<>>, <<>>, s)
       ELSE UNCHANGED <<status, current, turn, conn, leavers, todo, next, actor>>
    /\ UNCHANGED <<absent, forced, timers, entry, ai, online, redisTimer, restarts, unattended>>

-----------------------------------------------------------------------------
(* The turn timer. *)

\* Every player gets at least 30 s a turn and a grace period is 60 s: nobody
\* is absent for the last of its turns with a grace timer still running.
GraceComesFirst(s) == s \in grace /\ absent[s] + 1 >= AbsentLimit

\* The timer runs out; a goroutine that is not the entry's any more goes away.
\* Timing: another timer, at least 30 s long, does not run out before this
\* goroutine has gone on.
Expire(i) ==
    /\ Settled /\ timers[i] # None /\ timers[i].pc = "armed"
    /\ \A j \in TimerId : timers[j] # None => timers[j].pc # "expired"
    /\ ~ GraceComesFirst(timers[i].seat)
    /\ timers' = [timers EXCEPT ![i] =
          IF entry = None \/ entry.gen # timers[i].gen THEN None ELSE [@ EXCEPT !.pc = "expired"]]
    /\ UNCHANGED <<game, entry, ai, todo, next, actor, online, grace, redisTimer, history>>

\* checkAbsentTurnAndForfeit: a disconnected player is counted absent, and
\* excluded at the limit.
CountAbsent(s) ==
    absent' = IF status # "DELETED" /\ conn[s] = "DISCONNECTED"
              THEN [absent EXCEPT ![s] = @ + 1] ELSE absent

\* The goroutine goes on: absence first, then HandleTimeout, which fails when
\* the turn is not the seat's any more, and then leaves the entry where it is.
Timeout(i) ==
    /\ Settled /\ timers[i] # None /\ timers[i].pc = "expired"
    /\ LET s == timers[i].seat
       IN  /\ CountAbsent(s)
           /\ \/ /\ absent' # absent /\ absent'[s] >= AbsentLimit
                 /\ \/ /\ status = "PLAYING"
                       /\ Forfeits(s, current, turn) /\ Continue(<<>>, <<"clear">>, s)
                    \/ /\ status # "PLAYING" /\ todo' = <<"clear">>
                       /\ UNCHANGED <<status, current, turn, conn, leavers, next, actor>>
              \/ /\ absent' = absent \/ absent'[s] < AbsentLimit
                 /\ TurnEnds(s) /\ Continue(<<"clear">>, <<>>, s)
                 /\ UNCHANGED <<conn, leavers>>
              \/ /\ absent' = absent \/ absent'[s] < AbsentLimit
                 /\ status # "PLAYING" \/ current # s
                 /\ UNCHANGED <<status, current, turn, conn, leavers, todo, next, actor>>
    /\ timers' = [timers EXCEPT ![i] = None]
    /\ UNCHANGED <<forced, entry, ai, online, grace, redisTimer, restarts, unattended>>

-----------------------------------------------------------------------------
(* The LLM's goroutine. *)

\* handleAITurn begins: the turn timer is cancelled, the LLM is asked.
AIStart(s) ==
    /\ BagIn([seat |-> s, pc |-> "spawned"], ai)
    /\ ai' = (ai (-) SetToBag({[seat |-> s, pc |-> "spawned"]}))
                (+) SetToBag({[seat |-> s, pc |-> "thinking"]})
    /\ CancelTimer
    /\ UNCHANGED <<game, todo, next, actor, online, grace, history>>

Thinks(s)  == BagIn([seat |-> s, pc |-> "thinking"], ai)
AIDone(s)  == ai' = ai (-) SetToBag({[seat |-> s, pc |-> "thinking"]})

\* processAIPlace, processAIDraw: the LLM's own move ends the turn.
AIPlays(s) ==
    /\ Settled /\ Thinks(s) /\ AIDone(s)
    /\ TurnEnds(s)
    /\ forced' = IF status' = "PLAYING" THEN [forced EXCEPT ![s] = 0] ELSE forced
    /\ Continue(<<>>, <<>>, s)
    /\ UNCHANGED <<conn, absent, timers, entry, online, grace, redisTimer, history>>

\* The forced draw of a game that goes on: the counter goes up, and at the
\* limit the LLM forfeits, when the turn is already the next player's.
CountForcedDraw(s, limit) ==
    /\ forced' = [forced EXCEPT ![s] = @ + 1]
    /\ IF forced[s] + 1 >= limit
       THEN Forfeits(s, NextActive(s, conn), turn + 1)
       ELSE /\ turn' = turn + 1
            /\ current' = NextActive(s, conn)
            /\ UNCHANGED <<status, conn, leavers>>

ForcedDraw(s, limit) ==
    /\ Settled /\ Thinks(s) /\ AIDone(s)
    /\ \/ TurnEnds(s) /\ status' = "FINISHED" /\ UNCHANGED <<conn, forced, leavers>>
       \/ /\ status = "PLAYING" /\ current = s /\ turn + 1 < MaxTurns
          /\ CountForcedDraw(s, limit)
    /\ Continue(<<>>, <<>>, s)
    /\ UNCHANGED <<absent, timers, entry, online, grace, redisTimer, restarts, unattended>>

\* Mutant of AIForced: the counter is compared with > instead of >=.
AIForcedOnceMore(s) == ForcedDraw(s, ForceDrawLimit + 1)

\* forceAIDraw, after an error or an invalid answer: DrawTile moves the turn.
AIForced(s) == ForcedDraw(s, ForceDrawLimit)

\* The answer comes when the turn is not the seat's any more, or the game is
\* over: NOT_YOUR_TURN, and the forced draw that follows it fails too.
AITooLate(s) ==
    /\ Settled /\ Thinks(s) /\ AIDone(s)
    /\ status # "PLAYING" \/ current # s
    /\ UNCHANGED <<game, timers, entry, todo, next, actor, online, grace, redisTimer, history>>

\* The context of handleAITurn expires before the HTTP client gives up: the
\* error is taken for the end of the game and the goroutine returns.
AIDeadline(s) ==
    /\ Settled /\ Thinks(s) /\ AIDone(s)
    /\ unattended' = TRUE
    /\ UNCHANGED <<game, timers, entry, todo, next, actor, online, grace, redisTimer, restarts,
                   leavers>>

-----------------------------------------------------------------------------
(* The server restarts: the goroutines and the sockets are gone, what is in   *)
(* Redis stays, and the timer's key until it expires.                         *)

Restart ==
    /\ restarts < MaxRestarts /\ status = "PLAYING"
    /\ restarts' = restarts + 1
    /\ timers' = [i \in TimerId |-> None]
    /\ entry' = None
    /\ ai' = EmptyBag
    /\ todo' = <<>>
    /\ online' = {}
    /\ grace' = {}
    /\ UNCHANGED <<game, next, actor, redisTimer, leavers, unattended>>

RedisKeyExpires ==
    /\ entry = None /\ redisTimer # None /\ Settled
    /\ redisTimer' = None
    /\ UNCHANGED <<game, process, history>>

-----------------------------------------------------------------------------
Steps == Announce \/ Arm \/ Cancel \/ Cleanup \/ Clear \/ Close

AIAnswers == \E s \in AISeat : AIPlays(s) \/ AIForced(s) \/ AITooLate(s) \/ AIDeadline(s)

Next ==
    \/ Steps
    \/ AIAnswers
    \/ \E s \in AISeat : AIStart(s)
    \/ \E s \in Human : HumanEndsTurn(s) \/ Leave(s) \/ Disconnect(s) \/ Reconnect(s)
    \/ \E s \in Seat : GraceExpires(s) \/ RestEndsTurn(s)
    \/ \E i \in TimerId : Expire(i) \/ Timeout(i)
    \/ Restart
    \/ RedisKeyExpires

\* What the Go runtime and the clock promise: goroutines run, timers run out,
\* and every call to the adapter returns.  Nothing is promised of the browsers.
Fairness ==
    /\ WF_vars(Steps)
    /\ WF_vars(AIAnswers)
    /\ \A s \in AISeat : WF_vars(AIStart(s))
    /\ \A s \in Seat : WF_vars(GraceExpires(s))
    /\ \A i \in TimerId : WF_vars(Expire(i)) /\ WF_vars(Timeout(i))

Spec     == Init /\ [][Next]_vars
FairSpec == Spec /\ Fairness

-----------------------------------------------------------------------------
(* Properties. *)

\* Nothing has taken a goroutine away unseen, or ended a turn past the handler.
Undisturbed == restarts = 0 /\ ~ unattended

\* Between two events a game in progress has somebody who will end its turn
\* though no browser ever speaks again: for a person the timer, armed for that
\* seat and still the entry's; for an LLM its goroutine (startTurnTimer,
\* handleAITurn, after every way a turn can begin).
TurnIsDriven ==
    status = "PLAYING" /\ Settled /\ Undisturbed =>
        \/ current \in AISeat /\ Thinks(current)
        \/ /\ current \in Human
           /\ entry # None
           /\ entry.seat = current
           /\ timers[entry.id] # None
           /\ timers[entry.id].seat = current
           /\ timers[entry.id].gen = entry.gen

\* No turn lasts for ever: it ends, or the game does, as long as the server
\* stays up, the adapter answers before the context's deadline (the turn
\* timer's forced draw, forceAIDraw), and no turn is ended over REST.
TurnEventuallyEnds ==
    \A k \in 0 .. MaxTurns :
        (status = "PLAYING" /\ turn = k) ~> (turn # k \/ status # "PLAYING" \/ ~ Undisturbed)

\* A game that is over leaves no timer behind that could still act on it, once
\* the goroutine that ended it has finished (cancelTurnTimer before
\* cleanupGame), whatever other goroutines armed in between.  A game that ends
\* over REST is not cleaned up: it stays "FINISHED".
NoTimerAfterTheGame ==
    status = "DELETED" /\ Settled => entry = None

\* Whoever reaches a limit is out of the game by the time anybody else can
\* act: an LLM forced to draw ForceDrawLimit times in a row, a player absent
\* AbsentLimit turns in a row (incrementForceDrawCounter,
\* checkAbsentTurnAndForfeit).
LimitsExclude ==
    status = "PLAYING" =>
        \A s \in ActiveSeats(conn) : forced[s] < ForceDrawLimit /\ absent[s] < AbsentLimit

=============================================================================
