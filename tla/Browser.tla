------------------------------ MODULE Browser -------------------------------
(***************************************************************************)
(* A player's browser during a game: the WebSocket and its reconnection    *)
(* (useWebSocket), the view of the game that its messages build            *)
(* (gameStore), the draft that starts over with every turn (useGameSync),  *)
(* and the buttons that send (useTurnActions, GameClient).                 *)
(*                                                                         *)
(* The server is its environment: seat 0 is the player's, seat 1 an LLM's. *)
(* Racks and tables are versions, named by the turn that made them; what   *)
(* PLACE_TILES lays out before its CONFIRM_TURN is a version of its own.   *)
(* The module Draft says what happens inside a turn, GameService what a    *)
(* confirm is answered, Session how a connection is registered: here one   *)
(* connection follows the other, and its messages arrive in order.         *)
(*                                                                         *)
(* Left out: the clock on the screen, notices, the history of turns, who   *)
(* is connected, and messages no server sends (INVALID_MOVE, TIMER_UPDATE).*)
(***************************************************************************)
EXTENDS Naturals, Sequences

CONSTANTS
    MAX_RECONNECT_ATTEMPTS,
    MaxTurns,    \* the game is over after that many turns
    MaxLosses,   \* bound: connections that break
    MaxLimited,  \* bound: messages refused by the rate limiter
    MaxInFlight  \* bound: a player clicks while fewer messages are on their way

VARIABLES
    srv,        \* the game: [current, turn, start, now, half, late, thinking, over]
    conn,       \* the server's end: "none", "open", "served", "registered"
    inbox,      \* messages on their way to the browser
    outbox,     \* messages on their way to the server
    status,     \* wsStore.status
    attempts,   \* reconnectAttempts
    view,       \* gameStore: [seat, turn, isAI, at]; seat 9 before the first GAME_STATE
    draft,      \* pendingStore: [base, placed]; base <<>> when there is none
    throttled,  \* wsThrottledRef
    confirmBusy,
    missed,     \* what was broadcast between the state and the registration
    losses, limited

server == <<srv, conn, missed>>
client == <<status, attempts, view, draft, throttled, confirmBusy>>
vars == <<server, client, inbox, outbox, losses, limited>>

Me == 0
LLM == 1
Nobody == 9

\* A version: the turn that made it, marked when nothing has confirmed it.
Committed(n) == <<n>>
Provisional(n) == <<n, n>>
Position(table, rack) == [table |-> table, rack |-> rack]
NoDraft == [base |-> <<>>, placed |-> FALSE]

-----------------------------------------------------------------------------
(* The server *)

GameState == [type |-> "GAME_STATE", seat |-> srv.current, at |-> srv.now]
TurnStart(s) == [type |-> "TURN_START", seat |-> s.current, turn |-> s.turn]
TurnEnd(s) == [type |-> "TURN_END", seat |-> s.current, turn |-> s.turn, at |-> s.now]
Message(type) == [type |-> type]

\* BroadcastToRoom: whoever is registered.  A connection that was given the
\* state and is not registered yet misses it.
Broadcast(msgs) ==
    /\ inbox' = IF conn = "registered" THEN inbox \o msgs ELSE inbox
    /\ missed' = IF conn = "served" THEN missed + 1 ELSE missed

Reply(m) == inbox' = Append(inbox, m) /\ UNCHANGED missed

\* A turn ends in a position: TURN_END and TURN_START, or GAME_OVER.
EndTurn(at) ==
    IF srv.turn = MaxTurns
    THEN /\ srv' = [srv EXCEPT !.over = TRUE]
         /\ Broadcast(<<Message("GAME_OVER")>>)
    ELSE LET next == [srv EXCEPT !.current = 1 - @, !.turn = @ + 1, !.start = at, !.now = at,
                                 !.half = FALSE, !.late = FALSE, !.thinking = FALSE]
         IN  /\ srv' = next
             /\ Broadcast(<<TurnEnd(next), TurnStart(next)>>)

Made == Committed(srv.turn)

\* broadcastTurnStart has started the LLM's goroutine.
Think ==
    /\ ~srv.over /\ srv.current = LLM /\ ~srv.thinking
    /\ srv' = [srv EXCEPT !.thinking = TRUE]
    /\ Broadcast(<<Message("AI_THINKING")>>)
    /\ UNCHANGED <<conn, client, outbox, losses, limited>>

LLMEndsTurn ==
    /\ ~srv.over /\ srv.thinking
    /\ \E table \in {srv.start.table, Made} : EndTurn(Position(table, srv.start.rack))
    /\ UNCHANGED <<conn, client, outbox, losses, limited>>

\* The turn's time is up (an LLM may take longer); a player's turn then ends.
TimeIsUp ==
    /\ ~srv.over /\ ~srv.late
    /\ srv' = [srv EXCEPT !.late = TRUE]
    /\ UNCHANGED <<conn, missed, inbox, client, outbox, losses, limited>>

Timeout ==
    /\ ~srv.over /\ srv.current = Me /\ srv.late
    /\ EndTurn(Position(srv.start.table, Made))
    /\ UNCHANGED <<conn, client, outbox, losses, limited>>

\* HandleWS, first part: AUTH_OK, GAME_STATE, and TURN_START while the turn has
\* time left.
Serve ==
    /\ conn = "open" /\ conn' = "served"
    /\ inbox' = CASE srv.over -> Append(inbox, Message("ERROR"))
                  [] ~srv.over /\ srv.late -> Append(inbox, GameState)
                  [] OTHER -> inbox \o <<GameState, TurnStart(srv)>>
    /\ missed' = 0
    /\ UNCHANGED <<srv, client, outbox, losses, limited>>

\* HandleWS, second part: the hub learns of the connection.
Register ==
    /\ conn = "served" /\ conn' = "registered"
    /\ UNCHANGED <<srv, missed, inbox, client, outbox, losses, limited>>

ReceivePlace ==
    /\ srv' = [srv EXCEPT !.half = TRUE,
                          !.now = Position(Provisional(srv.turn), Provisional(srv.turn))]
    /\ UNCHANGED <<inbox, missed>>

\* A draft of an earlier turn's table is refused: tiles of the board are missing.
ReceiveConfirm(m) ==
    IF m.base.table \in {srv.start.table, Provisional(srv.turn)}
    THEN EndTurn(Position(Made, Made))
    ELSE EndTurn(Position(srv.start.table, Made))

ReceiveDraw == EndTurn(Position(srv.start.table, Made))

ReceiveReset ==
    /\ srv' = [srv EXCEPT !.now = srv.start]
    /\ Reply([type |-> "GAME_STATE", seat |-> srv.current, at |-> srv.start])

\* ReadPump: the rate limiter, then the handler; every handler looks at the turn.
Receive ==
    /\ conn = "registered" /\ outbox # <<>>
    /\ outbox' = Tail(outbox)
    /\ LET m == Head(outbox)
       IN  \/ /\ limited < MaxLimited
              /\ limited' = limited + 1
              /\ Reply(Message("RATE_LIMITED")) /\ UNCHANGED srv
           \/ /\ UNCHANGED limited
              /\ IF srv.over \/ srv.current # Me
                 THEN Reply(Message("ERROR")) /\ UNCHANGED srv
                 ELSE CASE m.type = "PLACE_TILES" -> ReceivePlace
                        [] m.type = "CONFIRM_TURN" -> ReceiveConfirm(m)
                        [] m.type = "DRAW_TILE" -> ReceiveDraw
                        [] m.type = "RESET_TURN" -> ReceiveReset
    /\ UNCHANGED <<conn, client, losses>>

-----------------------------------------------------------------------------
(* The socket *)

\* connect(): a new WebSocket that may open or fail.
Connect ==
    /\ status \in {"idle", "reconnecting"}
    /\ status' = "connecting"
    /\ UNCHANGED <<server, inbox, outbox, attempts, view, draft, throttled, confirmBusy,
                   losses, limited>>

\* onopen; AUTH goes out.
OnOpen ==
    /\ status = "connecting"
    /\ status' = "connected" /\ attempts' = 0
    /\ conn' = "open"
    /\ UNCHANGED <<srv, missed, inbox, outbox, view, draft, throttled, confirmBusy,
                   losses, limited>>

\* Mutant: the button waits for the draft to be null, which it never is again.
UnlockWithoutDraft(busy) == confirmBusy' = busy

\* The confirm button is free once no group is pending.
Unlock(busy) == confirmBusy' = (busy /\ draft'.placed)

\* lastError shows a new text, or the one it shows already: only a new one
\* rolls the draft back.
MayRollBack(busy) ==
    /\ \E says \in BOOLEAN : draft' = IF says THEN [draft EXCEPT !.placed = FALSE] ELSE draft
    /\ Unlock(busy)

\* Mutant: the attempts are not counted.
RetryForever == status' = "reconnecting" /\ UNCHANGED attempts

\* onclose: another attempt, or none.
Retry ==
    IF attempts < MAX_RECONNECT_ATTEMPTS
    THEN status' = "reconnecting" /\ attempts' = attempts + 1
    ELSE status' = "disconnected" /\ UNCHANGED attempts

Closed ==
    /\ conn' = "none" /\ inbox' = <<>> /\ outbox' = <<>> /\ missed' = 0
    /\ MayRollBack(confirmBusy)
    /\ UNCHANGED <<srv, view, throttled, limited>>

\* onerror and onclose of a socket that never opened.
ConnectFails == status = "connecting" /\ Closed /\ Retry /\ UNCHANGED losses

\* The connection breaks, with everything on its way.
Lose ==
    /\ status = "connected" /\ losses < MaxLosses
    /\ losses' = losses + 1
    /\ Closed /\ Retry

\* A close code that no new attempt can cure: the token, the room, another tab.
CloseForGood ==
    /\ status = "connected" /\ conn \in {"open", "registered"} /\ losses < MaxLosses
    /\ losses' = losses + 1
    /\ Closed /\ status' = "disconnected" /\ UNCHANGED attempts

-----------------------------------------------------------------------------
(* handleMessage, with what the subscriptions of useGameSync do on it      *)

\* Mutant: only another seat starts the draft over.
SyncOnSeatOnly(next) ==
    /\ view' = next
    /\ draft' = IF next.seat # view.seat THEN [base |-> next.at, placed |-> FALSE] ELSE draft
    /\ Unlock(confirmBusy)

\* The seat or the turn number changed: the draft starts over.
Sync(next) ==
    /\ view' = next
    /\ draft' = IF next.seat # view.seat \/ next.turn # view.turn
                THEN [base |-> next.at, placed |-> FALSE] ELSE draft
    /\ Unlock(confirmBusy)

\* GAME_STATE has no turn number.
OnGameState(m) == Sync([view EXCEPT !.seat = m.seat, !.at = m.at])

OnTurnStart(m) ==
    IF view.seat = Nobody THEN UNCHANGED <<view, draft, confirmBusy>>
    ELSE Sync([view EXCEPT !.seat = m.seat, !.turn = m.turn, !.isAI = (m.seat = LLM)])

OnTurnEnd(m) ==
    Sync([view EXCEPT !.seat = m.seat, !.turn = m.turn, !.isAI = FALSE, !.at = m.at])

OnThinking ==
    /\ view' = [view EXCEPT !.isAI = TRUE]
    /\ UNCHANGED <<draft, confirmBusy>>

\* GAME_OVER: the draft is reset, the page shows the result.
OnGameOver ==
    /\ draft' = [draft EXCEPT !.placed = FALSE]
    /\ Unlock(confirmBusy) /\ UNCHANGED view

Deliver ==
    /\ status = "connected" /\ inbox # <<>>
    /\ inbox' = Tail(inbox)
    /\ LET m == Head(inbox)
       IN  /\ CASE m.type = "GAME_STATE" -> OnGameState(m)
                [] m.type = "TURN_START" -> OnTurnStart(m)
                [] m.type = "TURN_END" -> OnTurnEnd(m)
                [] m.type = "AI_THINKING" -> OnThinking
                [] m.type = "GAME_OVER" -> OnGameOver
                [] m.type = "ERROR" -> UNCHANGED view /\ MayRollBack(confirmBusy)
                [] m.type = "RATE_LIMITED" -> UNCHANGED <<view, draft, confirmBusy>>
           /\ throttled' = (throttled \/ m.type = "RATE_LIMITED")
    /\ UNCHANGED <<server, outbox, status, attempts, losses, limited>>

CooldownEnds ==
    /\ throttled /\ throttled' = FALSE
    /\ UNCHANGED <<server, inbox, outbox, status, attempts, view, draft, confirmBusy,
                   losses, limited>>

-----------------------------------------------------------------------------
(* The player *)

\* send(): nothing without a socket; while throttled one message a second, so
\* of several sent at once the first at most.
Send(msgs) ==
    \/ status # "connected" /\ UNCHANGED outbox
    \/ status = "connected" /\ ~throttled /\ outbox' = outbox \o msgs
    \/ status = "connected" /\ throttled /\ outbox' = Append(outbox, Head(msgs))
    \/ status = "connected" /\ throttled /\ UNCHANGED outbox

MyTurn == view.seat = Me

\* The buttons that can be clicked: none is shown outside the player's turn;
\* confirm does not wait for tiles, drawing (or passing) does for none.
ActionBar ==
    [confirm |-> MyTurn /\ ~confirmBusy,
     reset   |-> MyTurn /\ draft.placed,
     draw    |-> MyTurn /\ ~draft.placed]

Quiet == Len(inbox) + Len(outbox) < MaxInFlight

\* A drag: tiles of the rack on the board, as a valid set.
PlaceInDraft ==
    /\ MyTurn /\ ~draft.placed
    /\ draft' = [draft EXCEPT !.placed = TRUE]
    /\ UNCHANGED <<server, inbox, outbox, status, attempts, view, throttled, confirmBusy,
                   losses, limited>>

Confirm ==
    /\ ActionBar.confirm /\ draft.placed /\ Quiet
    /\ confirmBusy' = TRUE
    /\ Send(<<Message("PLACE_TILES"), [type |-> "CONFIRM_TURN", base |-> draft.base]>>)
    /\ UNCHANGED <<server, inbox, status, attempts, view, draft, throttled, losses, limited>>

\* handleConfirm refuses the draft itself, or that there is nothing in it, and
\* says so where the server's errors go.
ConfirmRefused ==
    /\ ActionBar.confirm
    /\ MayRollBack(TRUE)
    /\ UNCHANGED <<server, inbox, outbox, status, attempts, view, throttled, losses, limited>>

Undo ==
    /\ ActionBar.reset /\ Quiet
    /\ draft' = [draft EXCEPT !.placed = FALSE] /\ Unlock(confirmBusy)
    /\ Send(<<Message("RESET_TURN")>>)
    /\ UNCHANGED <<server, inbox, status, attempts, view, throttled, losses, limited>>

Draw ==
    /\ ActionBar.draw /\ Quiet
    /\ Send(<<Message("DRAW_TILE")>>)
    /\ UNCHANGED <<server, inbox, client, losses, limited>>

-----------------------------------------------------------------------------
Init ==
    /\ LET first == Position(Committed(0), Committed(0))
       IN  srv = [current |-> Me, turn |-> 1, start |-> first, now |-> first, half |-> FALSE,
                  late |-> FALSE, thinking |-> FALSE, over |-> FALSE]
    /\ conn = "none" /\ missed = 0
    /\ inbox = <<>> /\ outbox = <<>>
    /\ status = "idle" /\ attempts = 0
    /\ view = [seat |-> Nobody, turn |-> 1, isAI |-> FALSE, at |-> <<>>]
    /\ draft = NoDraft
    /\ throttled = FALSE /\ confirmBusy = FALSE
    /\ losses = 0 /\ limited = 0

Next ==
    \/ Think \/ LLMEndsTurn \/ TimeIsUp \/ Timeout
    \/ Serve \/ Register \/ Receive
    \/ Connect \/ OnOpen \/ ConnectFails \/ Lose \/ CloseForGood
    \/ Deliver \/ CooldownEnds
    \/ PlaceInDraft \/ Confirm \/ ConfirmRefused \/ Undo \/ Draw

(* The server's goroutines and timers run, a socket opens or fails, what   *)
(* is on its way arrives; nobody makes the player or the network do        *)
(* anything.                                                               *)
Fairness ==
    /\ WF_vars(Think) /\ WF_vars(LLMEndsTurn) /\ WF_vars(TimeIsUp) /\ WF_vars(Timeout)
    /\ WF_vars(Serve) /\ WF_vars(Register) /\ WF_vars(Receive)
    /\ WF_vars(Connect) /\ WF_vars(OnOpen \/ ConnectFails) /\ WF_vars(Deliver)

Spec == Init /\ [][Next]_vars /\ Fairness

-----------------------------------------------------------------------------
(* Properties *)

\* Nothing on its way: what the browser has been told is all there is.
Settled == conn = "registered" /\ inbox = <<>> /\ ~srv.over

(* Whatever was lost or arrived late, the browser of a settled connection  *)
(* that missed nothing shows the seat the server waits for, its turn       *)
(* number, and that an LLM plays if one does; and its draft starts from    *)
(* the position this very turn started from, not from the one an earlier   *)
(* turn of the same seat left (useGameSync's seat and turn number).  The   *)
(* turn's time must not be up, and nothing laid out without a confirm.     *)
ViewIsCurrent ==
    (Settled /\ missed = 0 /\ ~srv.late /\ ~srv.half) =>
        /\ view.seat = srv.current /\ view.turn = srv.turn
        /\ view.isAI = (srv.current = LLM)
        /\ draft.base = srv.start

(* An outage ends: the browser is connected again, or says it is not after *)
(* MAX_RECONNECT_ATTEMPTS attempts.                                        *)
OutagesEnd == (status \in {"connecting", "reconnecting"}) ~> (status \in {"connected", "disconnected"})

(* While connected, a locked confirm button is unlocked, even when the     *)
(* limiter drops the CONFIRM_TURN, the answer is lost, or handleConfirm    *)
(* sends nothing (BUG-CONFIRM-001), unless the end of the game was missed. *)
ConfirmButtonComesBack ==
    (confirmBusy /\ status = "connected" /\ ~srv.over) ~>
        \/ ~confirmBusy \/ status # "connected"
        \/ srv.over /\ (missed > 0 \/ conn # "registered")

\* The player is never left without a way on: the connection comes back or
\* owns up, and the button does.
PlayerIsNotStuck == OutagesEnd /\ ConfirmButtonComesBack

=============================================================================
