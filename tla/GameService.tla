---------------------------- MODULE GameService ----------------------------
(***************************************************************************)
(* The authoritative game of RummiArena: game-server's GameService, one    *)
(* atomic step per service call on the stored GameStateRedis of one game   *)
(* and on the in-memory turn snapshots (service/game_service.go), with the *)
(* two-call timeout of service/turn_service.go.                            *)
(*                                                                         *)
(* A tile code is unique in the deck ("R7a", "R7b"), so a rack is a set of *)
(* tiles and a group on the table is a set of tiles; the table is a set of *)
(* groups.  The draw pile keeps its order: it is shuffled once, by the     *)
(* deal.  Which groups are melds and what they score is the rules engine's *)
(* business (RulesEngine); here Meld and MeldScore are parameters.         *)
(*                                                                         *)
(* The callers are modelled by what they can ask.  A browser sends the     *)
(* board it drafted on top of the last GAME_STATE it received ("base"):    *)
(* PLACE_TILES and, right behind it, CONFIRM_TURN with the same content    *)
(* ("inFlight" until the server reads it).  An LLM answers from the state  *)
(* its turn started with, honestly or not, and never places first.         *)
(*                                                                         *)
(* A game meets one of two kinds of callers ("trusted"): with the first    *)
(* kind every answer of an LLM conserves tiles, as a browser's do, and a   *)
(* place and its confirm arrive together; with the second an LLM may also  *)
(* give the answers of AIAnswers, the confirm behind a place may be lost   *)
(* (connection dropped, rate limiter), and the browser may re-sync there.  *)
(***************************************************************************)
EXTENDS Integers, Sequences, FiniteSets, FiniteSetsExt, Functions

CONSTANTS
    N,                \* number of players; seats are 0 .. N-1
    AISeat,           \* the seats whose PlayerType starts with "AI_"
    Tile,             \* the tile codes of the deck
    Joker,            \* the tiles that are jokers
    Group,            \* the groups of tiles that a request may lay out
    Meld,             \* those of them that ValidateTileSet accepts
    MeldScore,        \* groupScore / runScore of every meld
    InitialMeldMin,   \* points of the first meld (30)
    TileScore,        \* value of a tile left in a rack (jokers 30)
    PenaltyCount,     \* tiles drawn by a human whose confirm is invalid (3)
    MaxTurns,         \* WithMaxTurnsLimit; 0 means no limit
    Deals,            \* initial deals considered: [hands, pile]
    AIAnswers,        \* what an LLM may answer beside honest requests
    FlakySeat,        \* the seats whose connection may drop and come back
    TurnCap,          \* bound: no call is made once turnCount or passCount
                      \* reaches it (a finished game goes on counting passes)
    NoSnapshot,       \* "no entry in the snapshots map"
    NoRequest         \* "no confirm on its way"

Seat == 0 .. N - 1
NoSeat == -1          \* WinnerID "" / winnerSeat -1

\* A rack and a table taken together: what a snapshot holds.
Position == [rack : SUBSET Tile, table : SUBSET (SUBSET Tile)]
Request  == [groups : SUBSET (SUBSET Tile), fromRack : SUBSET Tile, jokers : SUBSET Tile]
Deal     == [hands : [Seat -> SUBSET Tile], pile : Seq(Tile)]

ASSUME PlayersAssumption    == /\ N \in Nat /\ N >= 2 /\ AISeat \subseteq Seat
                               /\ FlakySeat \subseteq Seat \ AISeat
\* The deck is dealt: every tile to one hand, or once into the pile.
DealtOnce(d) ==
    \A t \in Tile : Cardinality({s \in Seat : t \in d.hands[s]})
                      + Cardinality({i \in DOMAIN d.pile : d.pile[i] = t}) = 1

ASSUME TilesAssumption      == /\ IsFiniteSet(Tile)
                               /\ Joker \subseteq Tile
                               /\ Group \subseteq SUBSET Tile
                               /\ Meld \subseteq Group
ASSUME LimitsAssumption     == /\ MaxTurns \in Nat /\ MaxTurns # 1 /\ TurnCap \in Nat
                               /\ PenaltyCount \in Nat
ASSUME DealsAssumption      == \A d \in Deals : d \in Deal /\ DealtOnce(d)
ASSUME ScoresAssumption     == \A t \in Tile : TileScore[t] \in Nat
ASSUME AnswersAssumption    == AIAnswers \subseteq Request
ASSUME NoneAssumption       == NoSnapshot \notin Position /\ NoRequest \notin Request

VARIABLES
    status,       \* "PLAYING", "FINISHED", or "DELETED" once the key is gone
    currentSeat,
    drawPile,
    table,
    rack,
    melded,       \* HasInitialMeld
    conn,         \* PlayerConnectionStatus: "ACTIVE", "DISCONNECTED", "FORFEITED"
    passCount,    \* ConsecutivePassCount
    turnCount,
    isStalemate,
    snapshot,     \* the snapshots map of this game, per seat
    expiring,     \* seat whose timeout has called ResetTurn but not yet DrawTile
    base,         \* the position the player to move drafts on
    inFlight,     \* per seat, the CONFIRM_TURN sent behind a PLACE_TILES
    trusted,      \* the kind of callers of this game
    \* history, read by the properties only
    winner,       \* WinnerID of the result that ended the game
    ending,       \* why it ended: "none", "win", "pass", "limit", "forfeit"
    passers,      \* seats that passed since the counter was last reset
    leavers,      \* seats that have ever forfeited
    turnStart     \* rack of the player to move and table when the turn began

game    == <<status, currentSeat, drawPile, table, rack, melded, conn,
             passCount, turnCount, isStalemate>>
history == <<winner, ending, passers, leavers, turnStart>>
vars    == <<game, snapshot, expiring, base, inFlight, trusted, history>>

-----------------------------------------------------------------------------
(* Helpers of the service and of the validator. *)

TilesOf(groups)    == UNION groups
Freq(groups, t)    == Cardinality({g \in groups : t \in g})
TileCount(groups)  == MapThenSumSet(Cardinality, groups)
RackScore(tiles)   == MapThenSumSet(LAMBDA t : TileScore[t], tiles)
ActiveSeats(c)     == {s \in Seat : c[s] # "FORFEITED"}

\* Mutant of AdvanceTurn: the neighbour, forfeited or not.
AdvanceTurnToNeighbour(s, c) == (s + 1) % N

\* advanceTurn: the first seat after s, going round, that has not forfeited.
AdvanceTurn(s, c) ==
    LET steps == {i \in 1 .. N : c[(s + i) % N] # "FORFEITED"}
    IN  IF steps = {} THEN s
        ELSE (s + (CHOOSE i \in steps : \A j \in steps : i <= j)) % N

\* The seats of S ordered by rack score, then by tile count: the strict
\* minimum, or nobody when it is shared.
LowestRack(S, racks) ==
    LET beats(s, t) == \/ RackScore(racks[s]) < RackScore(racks[t])
                       \/ /\ RackScore(racks[s]) = RackScore(racks[t])
                          /\ Cardinality(racks[s]) < Cardinality(racks[t])
        best == {s \in S : \A t \in S \ {s} : beats(s, t)}
    IN  IF best = {} THEN NoSeat ELSE CHOOSE s \in best : TRUE

\* finishGameStalemate: every player is scored, whatever its status.
StalemateWinner(racks) == LowestRack(Seat, racks)

\* Mutant of ResolveWinner: a stalemate has no winner.
ResolveWinnerOfWins ==
    LET empty == {s \in Seat : rack[s] = {}}
    IN  IF empty = {} THEN NoSeat ELSE CHOOSE s \in empty : \A t \in empty : s <= t

\* resolveWinnerFromState of the handler: the winner announced, persisted and
\* rated when the game ends in a goroutine that has only the state.
ResolveWinner ==
    LET empty == {s \in Seat : rack[s] = {}}
    IN  CASE empty # {}  -> CHOOSE s \in empty : \A t \in empty : s <= t
          [] OTHER       -> IF isStalemate THEN LowestRack(ActiveSeats(conn), rack)
                                           ELSE NoSeat

\* validateInitialMeld (V-04, V-05, V-13a).
ValidInitialMeld(before, after) ==
    LET added == before.rack \ after.rack
    IN  /\ \A t \in TilesOf(before.table) : Freq(after.table, t) >= Freq(before.table, t)
        /\ added # {}
        /\ MapThenSumSet(LAMBDA g : MeldScore[g], {g \in after.table : g \subseteq added})
             >= InitialMeldMin

\* Mutant of ValidTurn: only the count of the tiles is compared, as before the
\* code-level V-06.
ValidTurnByCount(before, after, hasInitialMeld, jokers) ==
    /\ after.table \subseteq Meld
    /\ TileCount(after.table) - TileCount(before.table) >= 1
    /\ ~hasInitialMeld => ValidInitialMeld(before, after)
    /\ jokers \subseteq TilesOf(after.table)

\* ValidateTurnConfirm: V-01/V-02 the melds, V-03 growth, V-04/V-05 the first
\* meld, V-07 recovered jokers are back on the table, V-06 nothing left it.
ValidTurn(before, after, hasInitialMeld, jokers) ==
    /\ after.table \subseteq Meld
    /\ TileCount(after.table) - TileCount(before.table) >= 1
    /\ ~hasInitialMeld => ValidInitialMeld(before, after)
    /\ jokers \subseteq TilesOf(after.table)
    /\ \A t \in TilesOf(before.table) :
          Freq(after.table, t) >= Freq(before.table, t) - (IF t \in jokers THEN 1 ELSE 0)

-----------------------------------------------------------------------------
(* What the callers ask. *)

\* A browser lays out exactly the tiles of the base table and those it took
\* from the base rack; the jokers it swapped out were on the base table.
HonestRequests(from) ==
    { [groups |-> g, fromRack |-> TilesOf(g) \ TilesOf(from.table), jokers |-> j] :
        g \in {g \in SUBSET Group :
                 /\ TilesOf(from.table) \subseteq TilesOf(g)
                 /\ TilesOf(g) \subseteq TilesOf(from.table) \cup from.rack
                 /\ \A t \in TilesOf(g) :
                       Freq(g, t) = IF t \in TilesOf(from.table) THEN Freq(from.table, t) ELSE 1},
        j \in SUBSET (Joker \cap TilesOf(from.table)) }

\* handleConfirm of the browser wants at least one tile from the rack and
\* never names recovered jokers.  Its other checks mirror the server's and are
\* left to the server here.
BrowserRequests(from) == {r \in HonestRequests(from) : r.fromRack # {} /\ r.jokers = {}}

\* What a confirm of seat s may say: an LLM's answer, a browser's message.
ConfirmsOf(s) ==
    IF s \in AISeat THEN HonestRequests(base) \cup (IF trusted THEN {} ELSE AIAnswers)
                    ELSE {inFlight[s]} \ {NoRequest}

\* The server has read the confirm of seat s.
Received(s) == inFlight' = [inFlight EXCEPT ![s] = NoRequest]

\* Messages of one connection are read in order: while its confirm is on the
\* way a browser's other messages are behind it.
Idle(s) == s \notin AISeat => inFlight[s] = NoRequest

-----------------------------------------------------------------------------
(* Effects shared by the service calls. *)

\* The stored position of seat s, and the one its snapshot or, failing that,
\* the stored state gives as the start of the turn (getOrCreateSnapshot).
Stored(s)    == [rack |-> rack[s], table |-> table]
TurnBase(s)  == IF snapshot[s] = NoSnapshot THEN Stored(s) ELSE snapshot[s]

\* Mutant of DropSnapshot: the entry is left in the map.
KeepSnapshot(s) == UNCHANGED snapshot

DropSnapshot(s) == snapshot' = [snapshot EXCEPT ![s] = NoSnapshot]

\* The position the player to move sees and the properties call turn start.
BeginTurn(s) ==
    /\ turnStart' = [rack |-> rack'[s], table |-> table']
    /\ base' = turnStart'

FinishStalemate(why) ==
    /\ status' = "FINISHED"
    /\ isStalemate' = TRUE
    /\ winner' = StalemateWinner(rack')
    /\ ending' = why

\* Mutant of AdvanceToNextTurn: the limit is tested with > instead of >=.
AdvancePastLimit ==
    /\ currentSeat' = AdvanceTurn(currentSeat, conn')
    /\ turnCount' = turnCount + 1
    /\ BeginTurn(currentSeat')
    /\ IF MaxTurns > 0 /\ turnCount + 1 > MaxTurns
       THEN FinishStalemate("limit")
       ELSE UNCHANGED <<status, isStalemate, winner, ending>>

\* advanceTurn, TurnCount++, checkTurnLimit, save: the end of every turn.
AdvanceToNextTurn ==
    /\ currentSeat' = AdvanceTurn(currentSeat, conn')
    /\ turnCount' = turnCount + 1
    /\ BeginTurn(currentSeat')
    /\ IF MaxTurns > 0 /\ turnCount + 1 >= MaxTurns
       THEN FinishStalemate("limit")
       ELSE UNCHANGED <<status, isStalemate, winner, ending>>

\* Mutant of ResetPasses: the counter is not set back.
ForgetResetPasses == UNCHANGED passCount /\ passers' = {}

ResetPasses == passCount' = 0 /\ passers' = {}

\* Every call on a seat's turn: the state exists, and it is that seat's turn.
\* There is no test of status: a finished game not yet deleted still answers.
OnTurn(s) ==
    /\ status # "DELETED"
    /\ currentSeat = s
    /\ turnCount < TurnCap /\ passCount < TurnCap

-----------------------------------------------------------------------------
Init ==
    /\ status = "PLAYING"
    /\ currentSeat = 0
    /\ \E d \in Deals : rack = d.hands /\ drawPile = d.pile
    /\ table = {}
    /\ melded = [s \in Seat |-> FALSE]
    /\ conn = [s \in Seat |-> "ACTIVE"]
    /\ passCount = 0
    /\ turnCount = 0
    /\ isStalemate = FALSE
    /\ snapshot = [s \in Seat |-> NoSnapshot]
    /\ expiring = NoSeat
    /\ turnStart = [rack |-> rack[0], table |-> {}]
    /\ base = turnStart
    /\ inFlight = [s \in Seat |-> NoRequest]
    /\ trusted \in BOOLEAN
    /\ winner = NoSeat
    /\ ending = "none"
    /\ passers = {}
    /\ leavers = {}

\* PlaceTiles: only the WebSocket handler of a human calls it.  The snapshot
\* is taken before the request is examined, and stays when it is refused.
PlaceTiles(s) ==
    /\ OnTurn(s) /\ s \notin AISeat /\ Idle(s)
    /\ snapshot' = [snapshot EXCEPT ![s] = TurnBase(s)]
    /\ \E r \in BrowserRequests(base) :
       /\ inFlight' = [inFlight EXCEPT ![s] = r]
       /\ IF r.fromRack \subseteq TilesOf(r.groups) /\ r.fromRack \subseteq rack[s]
          THEN /\ rack' = [rack EXCEPT ![s] = @ \ r.fromRack]
               /\ table' = r.groups
          ELSE UNCHANGED <<rack, table>>
    /\ UNCHANGED <<status, currentSeat, drawPile, melded, conn, passCount, turnCount,
                   isStalemate, expiring, base, history>>

\* resolveRackAfter: the rack at the start of the turn less the tiles played,
\* or the stored rack when the request names none.
RackAfter(s, r) == IF r.fromRack = {} THEN rack[s] ELSE TurnBase(s).rack \ r.fromRack

\* ConfirmTurn up to the verdict; a request that names a tile the rack did not
\* hold, or a tile code that does not parse, is refused and changes nothing.
Examined(s, r) == r \in ConfirmsOf(s) /\ r.fromRack \subseteq TurnBase(s).rack
Verdict(s, r)  == ValidTurn(TurnBase(s), [rack |-> RackAfter(s, r), table |-> r.groups],
                            melded[s], r.jokers)

ConfirmAccepted(s) ==
    /\ OnTurn(s)
    /\ \E r \in ConfirmsOf(s) :
          /\ Examined(s, r) /\ Verdict(s, r)
          /\ table' = r.groups
          /\ rack' = [rack EXCEPT ![s] = RackAfter(s, r)]
          /\ melded' = [melded EXCEPT ![s] = @ \/ r.fromRack # {}]
    /\ ResetPasses
    /\ DropSnapshot(s)
    /\ UNCHANGED conn
    /\ IF rack'[s] = {}
       THEN /\ status' = "FINISHED"
            /\ winner' = s
            /\ ending' = "win"
            /\ BeginTurn(s)
            /\ UNCHANGED <<currentSeat, turnCount, isStalemate>>
       ELSE AdvanceToNextTurn
    /\ Received(s)
    /\ UNCHANGED <<drawPile, expiring, leavers>>

\* Mutant of ConfirmPenalised: the rack is restored, the board is not.
PenaliseKeepingBoard(s) ==
    /\ OnTurn(s) /\ s \notin AISeat
    /\ \E r \in ConfirmsOf(s) : Examined(s, r) /\ ~Verdict(s, r)
    /\ rack' = [rack EXCEPT ![s] = TurnBase(s).rack \cup Range(drawPile)]
    /\ drawPile' = <<>>
    /\ ResetPasses
    /\ DropSnapshot(s)
    /\ UNCHANGED <<conn, table>>
    /\ AdvanceToNextTurn
    /\ Received(s)
    /\ UNCHANGED <<melded, expiring, leavers>>

\* The human branch of a failed confirm: restoreSnapshot, then
\* penaltyDrawAndAdvance takes what the pile still has, up to PenaltyCount.
ConfirmPenalised(s) ==
    /\ OnTurn(s) /\ s \notin AISeat
    /\ \E r \in ConfirmsOf(s) : Examined(s, r) /\ ~Verdict(s, r)
    /\ LET n == IF PenaltyCount > Len(drawPile) THEN Len(drawPile) ELSE PenaltyCount
       IN  /\ rack' = [rack EXCEPT ![s] = TurnBase(s).rack \cup {drawPile[i] : i \in 1 .. n}]
           /\ drawPile' = SubSeq(drawPile, n + 1, Len(drawPile))
    /\ table' = TurnBase(s).table
    /\ ResetPasses
    /\ DropSnapshot(s)
    /\ UNCHANGED conn
    /\ AdvanceToNextTurn
    /\ Received(s)
    /\ UNCHANGED <<melded, expiring, leavers>>

\* The AI branch of a failed confirm: the state is restored and saved, and the
\* error sends the orchestrator to a forced draw, a call of its own.
ConfirmRefusedAI(s) ==
    /\ OnTurn(s) /\ s \in AISeat
    /\ \E r \in ConfirmsOf(s) : Examined(s, r) /\ ~Verdict(s, r)
    /\ rack' = [rack EXCEPT ![s] = TurnBase(s).rack]
    /\ table' = TurnBase(s).table
    /\ DropSnapshot(s)
    /\ UNCHANGED <<status, currentSeat, drawPile, melded, conn, passCount, turnCount,
                   isStalemate, expiring, base, inFlight, history>>

\* A confirm answered by an error: not the seat's turn, no game, or a tile in
\* tilesFromRack that the rack did not hold.  Only the message is gone.
ConfirmRejected(s) ==
    /\ s \notin AISeat /\ inFlight[s] # NoRequest
    /\ \/ status = "DELETED" \/ currentSeat # s
       \/ ~Examined(s, inFlight[s])
    /\ Received(s)
    /\ UNCHANGED <<game, snapshot, expiring, base, history>>

\* DrawTile: a tile, or a pass once the pile is empty; neither restores the
\* snapshot it drops.
DrawFromPile(s) ==
    /\ drawPile # <<>>
    /\ rack' = [rack EXCEPT ![s] = @ \cup {Head(drawPile)}]
    /\ drawPile' = Tail(drawPile)
    /\ ResetPasses
    /\ DropSnapshot(s)
    /\ UNCHANGED <<table, conn>>
    /\ AdvanceToNextTurn
    /\ UNCHANGED melded

Pass(s) ==
    /\ drawPile = <<>>
    /\ passCount' = passCount + 1
    /\ passers' = passers \cup {s}
    /\ DropSnapshot(s)
    /\ UNCHANGED <<rack, table, conn>>
    /\ IF passCount + 1 >= Cardinality(ActiveSeats(conn))
       THEN /\ FinishStalemate("pass")
            /\ BeginTurn(s)
            /\ UNCHANGED <<currentSeat, turnCount>>
       ELSE AdvanceToNextTurn
    /\ UNCHANGED <<drawPile, melded>>

Draw(s) == (DrawFromPile(s) \/ Pass(s)) /\ UNCHANGED leavers

DrawTile(s) == OnTurn(s) /\ Idle(s) /\ Draw(s) /\ UNCHANGED <<expiring, inFlight>>

\* Mutant of Restore: the table is put back, the rack is not.
RestoreTableOnly(s) ==
    /\ table' = TurnBase(s).table
    /\ DropSnapshot(s)
    /\ UNCHANGED <<status, currentSeat, drawPile, rack, melded, conn, passCount, turnCount,
                   isStalemate, inFlight, history>>

\* restoreSnapshot, as ResetTurn calls it: nothing to do without a snapshot.
Restore(s) ==
    /\ rack' = [rack EXCEPT ![s] = TurnBase(s).rack]
    /\ table' = TurnBase(s).table
    /\ DropSnapshot(s)
    /\ UNCHANGED <<status, currentSeat, drawPile, melded, conn, passCount, turnCount,
                   isStalemate, inFlight, history>>

\* RESET_TURN: the handler answers with a GAME_STATE, a fresh base.
ResetTurn(s) ==
    /\ OnTurn(s) /\ s \notin AISeat /\ Idle(s)
    /\ Restore(s)
    /\ base' = TurnBase(s)
    /\ UNCHANGED expiring

\* HandleTimeout is two service calls, each with its own load and save.
TimeoutReset(s) ==
    /\ OnTurn(s) /\ expiring = NoSeat
    /\ Restore(s)
    /\ expiring' = s
    /\ UNCHANGED base

TimeoutDraw ==
    /\ expiring # NoSeat
    /\ expiring' = NoSeat
    /\ UNCHANGED inFlight
    /\ \/ OnTurn(expiring) /\ Draw(expiring)
       \/ /\ status = "DELETED" \/ currentSeat # expiring
          /\ UNCHANGED <<game, snapshot, base, history>>

\* ForfeitPlayer: LEAVE, grace period over, three absent turns, five forced
\* draws.  It asks whose turn it is only to move the turn on.
ForfeitPlayer(s) ==
    /\ status = "PLAYING" /\ turnCount < TurnCap
    /\ conn' = [conn EXCEPT ![s] = "FORFEITED"]
    /\ leavers' = leavers \cup {s}
    /\ UNCHANGED <<rack, table>>
    /\ IF Cardinality(ActiveSeats(conn')) <= 1
       THEN /\ status' = "FINISHED"
            /\ winner' = IF ActiveSeats(conn') = {} THEN NoSeat
                         ELSE CHOOSE t \in ActiveSeats(conn') : TRUE
            /\ ending' = "forfeit"
            /\ UNCHANGED <<currentSeat, turnCount, isStalemate, snapshot, base, turnStart>>
       ELSE IF currentSeat = s
            THEN DropSnapshot(s) /\ AdvanceToNextTurn
            ELSE UNCHANGED <<status, currentSeat, turnCount, isStalemate, winner, ending,
                             snapshot, base, turnStart>>
    /\ UNCHANGED <<drawPile, melded, passCount, passers, expiring, inFlight>>

\* SetPlayerStatus(DISCONNECTED), from handleDisconnect: no look at the status
\* it replaces.
Disconnect(s) ==
    /\ status # "DELETED" /\ s \in FlakySeat
    /\ conn' = [conn EXCEPT ![s] = "DISCONNECTED"]
    /\ UNCHANGED <<status, currentSeat, drawPile, table, rack, melded, passCount, turnCount,
                   isStalemate, snapshot, expiring, base, inFlight, history>>

\* SetPlayerStatus(ACTIVE), from HandleWS, which has sent a GAME_STATE: the
\* player to move drafts on whatever the server holds by now.
Reconnect(s) ==
    /\ status # "DELETED" /\ s \in FlakySeat
    /\ trusted => (s = currentSeat => snapshot[s] = NoSnapshot)
    /\ conn' = [conn EXCEPT ![s] = "ACTIVE"]
    /\ base' = IF s = currentSeat THEN Stored(s) ELSE base
    /\ Received(s)
    /\ UNCHANGED <<status, currentSeat, drawPile, table, rack, melded, passCount, turnCount,
                   isStalemate, snapshot, expiring, history>>

\* The confirm never reaches the service: the connection was lost behind the
\* place, or the rate limiter answered it.
LoseConfirm(s) ==
    /\ ~trusted /\ inFlight[s] # NoRequest
    /\ Received(s)
    /\ UNCHANGED <<game, snapshot, expiring, base, history>>

\* cleanupGame: the state is deleted once the game is over; the snapshots map
\* is not touched.
DeleteGameState ==
    /\ status = "FINISHED"
    /\ status' = "DELETED"
    /\ UNCHANGED <<currentSeat, drawPile, table, rack, melded, conn, passCount, turnCount,
                   isStalemate, snapshot, expiring, base, inFlight, history>>

ServiceCall ==
    \/ \E s \in Seat :
          \/ PlaceTiles(s)
          \/ ConfirmAccepted(s)
          \/ ConfirmPenalised(s)
          \/ ConfirmRefusedAI(s)
          \/ ConfirmRejected(s)
          \/ LoseConfirm(s)
          \/ DrawTile(s)
          \/ ResetTurn(s)
          \/ TimeoutReset(s)
          \/ ForfeitPlayer(s)
          \/ Disconnect(s)
          \/ Reconnect(s)
    \/ TimeoutDraw
    \/ DeleteGameState

Next == ServiceCall /\ UNCHANGED trusted

Spec == Init /\ [][Next]_vars

-----------------------------------------------------------------------------
(* Properties. *)

\* The stored game has the shape GameStateRedis gives it.
TypeOK ==
    /\ status \in {"PLAYING", "FINISHED", "DELETED"}
    /\ currentSeat \in Seat
    /\ drawPile \in Seq(Tile)
    /\ table \in SUBSET (SUBSET Tile)
    /\ rack \in [Seat -> SUBSET Tile]
    /\ melded \in [Seat -> BOOLEAN]
    /\ conn \in [Seat -> {"ACTIVE", "DISCONNECTED", "FORFEITED"}]
    /\ passCount \in Nat
    /\ turnCount \in Nat
    /\ isStalemate \in BOOLEAN
    /\ snapshot \in [Seat -> Position \cup {NoSnapshot}]
    /\ expiring \in Seat \cup {NoSeat}
    /\ base \in Position
    /\ inFlight \in [Seat -> Request \cup {NoRequest}]
    /\ trusted \in BOOLEAN
    /\ winner \in Seat \cup {NoSeat}
    /\ ending \in {"none", "win", "pass", "limit", "forfeit"}
    /\ passers \in SUBSET Seat
    /\ leavers \in SUBSET Seat
    /\ turnStart \in Position

\* A game that goes on has somebody to move and somebody to play against: the
\* turn is never left on a forfeited seat, and the last active player never
\* plays alone, whichever of the four ends of a turn or forfeits of another
\* player came last (V-22; advanceTurn, ForfeitPlayer).
TurnHolderIsActive ==
    status = "PLAYING" =>
        /\ conn[currentSeat] # "FORFEITED"
        /\ Cardinality(ActiveSeats(conn)) >= 2

\* The position every validation and rollback starts from is the one the turn
\* began with: the snapshot once there is one, the stored state before; and
\* nobody else's snapshot survives into this turn, nor past the end of the game
\* (V-18; PlaceTiles, ResetTurn, and the deletions at every end of a turn).
SnapshotIsTurnStart ==
    /\ TurnBase(currentSeat) = turnStart
    /\ \A s \in Seat \ {currentSeat} : snapshot[s] = NoSnapshot

\* With a turn limit no game is played past it, however its turns end
\* (checkTurnLimit after each of the four increments of TurnCount).
TurnLimitHolds ==
    MaxTurns > 0 /\ status = "PLAYING" => turnCount < MaxTurns

\* Every tile of the deck is in exactly one place: in one group of the table,
\* in one rack, or once in the draw pile (D-05, D-06), as long as the callers can
\* be trusted; the service itself relates tilesFromRack and the board in no way.
TileConservation ==
    \A t \in Tile :
        Freq(table, t) + Cardinality({s \in Seat : t \in rack[s]})
          + Cardinality({i \in DOMAIN drawPile : drawPile[i] = t}) = 1

TilesAreConserved == trusted => TileConservation

\* A stalemate by passes comes with an empty pile and after a pass of every
\* seat, in every game nobody has left; a forfeit lowers the number of passes
\* asked for, and Disconnect can bring a forfeited seat back into the round
\* (ConsecutivePassCount in DrawTile).
StalemateIsAWholeRound ==
    [][status = "PLAYING" /\ ending' = "pass" =>
          /\ drawPile = <<>>
          /\ ActiveSeats(conn) \subseteq passers' \/ leavers # {}]_vars

\* Two functions far apart name the winner: the service, when play ends the
\* game, and the handler, from the state alone; they agree as long as nobody
\* has forfeited and no rack but the mover's is empty: a placement of a whole
\* rack that a draw makes final leaves one behind, and the game goes on
\* (finishGame, finishGameStalemate, resolveWinnerFromState, DrawTile).
WinnerIsAgreedOn ==
    [][/\ status = "PLAYING" /\ status' = "FINISHED" /\ leavers' = {}
       /\ \A s \in Seat \ {currentSeat} : rack[s] # {}
       => ResolveWinner' = winner']_vars

EndingsAreFair == StalemateIsAWholeRound /\ WinnerIsAgreedOn

\* A tile that lay on the table when a turn ended stays on it at the end of
\* every later turn, whatever an LLM answers and whenever a browser
\* reconnects (V-06; validateTileConservation, restoreSnapshot).
PlayedTilesStay ==
    [][turnCount' # turnCount => TilesOf(turnStart.table) \subseteq TilesOf(table')]_vars

\* After an invalid confirm the board is the one the turn began with, and the
\* player holds its old rack plus the penalty taken from the pile (V-20;
\* restoreSnapshot, then penaltyDrawAndAdvance).
PenaltyRollsBack ==
    [][\A s \in Seat :
          ConfirmPenalised(s) /\ status = "PLAYING" =>
              /\ table' = turnStart.table
              /\ turnStart.rack \subseteq rack'[s]
              /\ rack'[s] \subseteq turnStart.rack \cup Range(drawPile)
              /\ turnStart' = [rack |-> rack'[currentSeat'], table |-> turnStart.table]]_vars

=============================================================================
