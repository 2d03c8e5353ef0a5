# RummiArena: a formal model

RummiArena is a Rummikub platform on which people and large language models
play each other in real time. `game-server` (Go) holds the authoritative game
and talks to browsers over WebSocket; `ai-adapter` (NestJS) turns a game state
into a prompt and a model's answer into a move; `frontend` and `admin`
(Next.js) are the browsers' side; Redis keeps running games, PostgreSQL rooms,
results and ratings; scripts play and measure the whole. This directory models
the system's logic in TLA+, checks it with TLC and proves what matters most
with TLAPS. Every definition follows the code: `PROJECT.json` maps each one to
the lines it models, and lists the runs, the mutants that show each property
can fail, the hazards the properties are for, and the theorems.

Paths below are relative to the repository's `src/`; `service/`, `handler/`,
`engine/` and `middleware/` are packages of `src/game-server/internal/`.

1. [Inventory](#1-inventory)
2. [Modules](#2-modules)
3. [Runs](#3-runs)
4. [Bounds, fairness, assumptions](#4-bounds-fairness-assumptions)
5. [What is proved](#5-what-is-proved)
6. [What was learnt](#6-what-was-learnt)
7. [Not modelled, and why](#7-not-modelled-and-why)
8. [Plan](#8-plan)

## 1. Inventory

| Component | State it keeps | Operations | Modules |
|---|---|---|---|
| **Rules engine** `engine/` | none | ValidateTileSet, ValidateGroup, ValidateRun, scores | RulesEngine |
| **Game service** `service/game_service.go`, `turn_service.go` | the stored game in Redis (racks, table, pile, seat to move, counters); `snapshots` in memory | PlaceTiles, ConfirmTurn, DrawTile, ResetTurn, HandleTimeout, ForfeitPlayer, SetPlayerStatus, DeleteGameState | GameService |
| **Turn orchestration** `handler/ws_handler.go`, turn routes of `game_handler.go` | turn timers with generations, AI cancel functions, grace timers, the Redis timer key | broadcastTurnStart, startTurnTimer, handleAITurn, forceAIDraw, forfeitAndBroadcast, restoreTimerIfNeeded, cleanupGame; POST confirm, draw | TurnOrchestration |
| **Sessions and hub** `handler/ws_hub.go`, HandleWS | one connection per user and room, grace timers | Register (evicts), Unregister, reconnect | Session |
| **Rate limits** `middleware/rate_limiter.go`, `handler/ws_rate_limiter.go`, the browser's `lib/api.ts`, `rateLimitStore.ts` | a key with a TTL; counters of a socket; a toast | INCR and EXPIRE, check with violations and decay, wait and retry | RateLimit |
| **Rooms** `service/room_service.go`, `repository/memory_repo.go` | rooms; the active room of a user | Create, Join, Leave, Start, Finish, Delete | Rooms |
| **Lobby, waiting room** `LobbyClient`, `CreateRoomClient`, `WaitingRoomClient` | the room of the store, the page, a poll | the requests, polling, where to go next | WaitingPage |
| **Rules in the browser** `lib/mergeCompatibility.ts`, `jokerSwap.ts`, `turnUtils.ts` | none | which tile fits where, what may be confirmed | ClientRules |
| **Draft of a turn** `useDragHandlers`, `dragEndReducer`, `pendingStore`, `useTurnActions` | pending groups, rack, marks | drag, drop, undo, confirm, roll back | Draft, TurnBoard |
| **Connection and view** `useWebSocket`, `useGameSync`, `gameStore` | status of the socket, the view, the draft's base, locks of buttons | reconnect, messages, confirm, draw, undo | Browser |
| **Game page** `GameClient`, `useTurnTimer`, `PlayerCard` | the players, countdowns, the clock, the final screens | the messages about players, time and the end | GamePage |
| **Practice mode** `practice-engine.ts`, `PracticeBoard`, `StagePlayClient` | a board, a rack, results in localStorage | drop, reset, clear a stage | Practice, PracticeRules |
| **Rankings** `RankingsClient`, `UserRatingClient`, `EloRankingPanel` | filter, page, answers | choose, turn the page, load | Rankings |
| **AI adapter, requests** `move`, `adapter`, `cost`, `common/parser` | daily and hourly cost in Redis | guards, attempts, parsing, forced draw, recording of cost | Adapter |
| **AI adapter, planner** `prompt/v8-`, `v9-ollama-place-prompt.ts` | none | melds, extensions, splits, joker exchanges | OllamaPlanner |
| **AI adapter, prompt tools** registry, `tile-utils.ts`, shapers | the active variant | resolve a variant, name groups, give hints | PromptTools |
| **Prompt trials** `scripts/verify-*`, `bench-*`, `ab-eval.ts` | answers | statistics, verdicts, advice | Trials |
| **Playtest scripts** `scripts/playtest-s1-s3`, `s2`, `s4`, `s5` | messages, turns, checks | wait, draw, confirm, check, report | Playtest, PlaytestSets |
| **Playtest console** `PlaytestS4Page`, `playtest-s4-server.ts`, `playtest-s4-seeded.mjs` | the page of a tab, the history file | choose, run, write down | RunnerConsole |

Not modelled (section 7): the connection's send queue, results and ELO, the
repositories, the HTTP API and authentication, endpoints that only query,
prompts and personas, presentation, the other admin views, deployment.

What makes the system hard:

* **Many goroutines, one stored state, no lock.** A browser's read loop, the turn
  timer, the LLM's goroutine and grace timers each load, change and save the same
  game, and requests to one room overlap. What protects a turn is a check of the
  seat to move, a timer generation, and timing.
* **Composite calls.** A timeout is ResetTurn and then DrawTile; a refused LLM
  answer is a rollback and then a forced draw; a forfeit may end a turn, a
  game, or neither; INCR and EXPIRE are two requests.
* **Copies.** The browser drafts on a copy of the board, the view is built out
  of messages, the waiting page shows a room of the store, a planner and a
  practice mode have rules of their own.
* **Untrusted answers.** What an LLM returns decides the table.
* **Late and lost events.** An answer after the timer, a timer after a forfeit,
  a poll after the start, an answer to the click before, a restart with a key
  left in Redis.

For each component, what makes it correct:

* *Rules*: every copy takes the sets that have a legal reading, no others.
* *Game*: tiles are conserved; played tiles stay; checks and rollbacks start
  from the turn's start; the turn is with somebody who plays; the winner is the
  same for all who compute it.
* *Turns*: each has one driver and ends; nothing is left running after a game.
* *Sessions*: the newest connection counts, whoever says goodbye when.
* *Rooms*: a user is mapped to the room they are in; players reach their game.
* *Browser*: what it shows is what the server has, or it says that it is lost;
  what it sends is what it shows; no button stays locked.
* *Adapter*: every request is answered, what is returned can be played, and a
  budget is overrun only by what was under way.
* *Pages, scripts*: what is shown or reported is what was chosen or seen.

## 2. Modules

```
                    RulesEngine -------------------------------+
                    |    |    |                                |
   MCGameService ---+    |    +-- OllamaPlanner, PromptTools,  |
     |                   |        Trials <---- MCRulesEngine --+-- PlaytestSets
     v                   |                       |
   GameService <-- GameServiceProofs             +--- ClientRules <-- PracticeRules <-- Practice
                                                        ^                                 ^
   TurnOrchestration <-- MCTurnOrchestration            |                                 |
   Session <-- MCSession                                |              RateLimit <-- MCPages --> Rankings
   Rooms <-- WaitingPage <-- MCRooms     TurnBoard <- Draft <-- MCDraft
   Browser      GamePage      Adapter    Playtest <-- MCPlaytests --> RunnerConsole
```

The proofs are in eight modules beside these: `GameServiceProofs`,
`TurnOrchestrationProofs`, `ConnectionProofs` (Session, Browser), `RoomsProofs`
(Rooms, WaitingPage), `PagesProofs` (GamePage, RateLimit, Rankings, Practice),
`AutoplayProofs` (Adapter, Playtest, RunnerConsole), `DraftProofs` (Draft, and that
it implements TurnBoard) and `RulesProofs` (RulesEngine, ClientRules,
PracticeRules). `Lists` has `Keeping`, the filter of an array as the list its places
make, since the provers know nothing of `SelectSeq`.

### The rules: RulesEngine, ClientRules, PracticeRules, OllamaPlanner, PlaytestSets, PromptTools, Trials, MCRulesEngine

The game's rules exist seven times in the repository: in the server, in the
browser, in the practice mode, in the planner of the small local models, in the
playtest bot, in the hints of prompts and in the benchmark. Each copy is a
module of pure operators; where code stops at the first of several it finds, an
operator returns the set of all it may find. `MCRulesEngine` holds the one
reference: a *reading* gives every joker an identity, and a set is legal when
some reading is a group or a run. TLC grows every set of tiles (rack, course of
answers) of each universe one element at a time and compares; the client's copies
are one instance, of PracticeRules, which extends ClientRules.

Trials has the arithmetic of the prompt trials: statistics as ratios of
integers and the verdicts drawn from them, which are compared with each other.

### GameService, MCGameService
One game. A tile code is unique in the deck, so racks and groups are sets; the
pile keeps its order. `Meld` and `MeldScore` are parameters here and are given
by RulesEngine in `MCGameService`. One action per call:

| Action | Code |
|---|---|
| PlaceTiles | PlaceTiles: takes the snapshot, then examines |
| ConfirmAccepted, ConfirmPenalised, ConfirmRefusedAI, ConfirmRejected | ConfirmTurn: accepted; a person's penalty (restoreSnapshot, penaltyDrawAndAdvance); an LLM's rollback and error; errors that change nothing |
| DrawTile (DrawFromPile, Pass) | DrawTile with its stalemate test |
| ResetTurn | RESET_TURN and the GAME_STATE that answers it |
| TimeoutReset, TimeoutDraw | the two calls of HandleTimeout |
| ForfeitPlayer, Disconnect, Reconnect | ForfeitPlayer, SetPlayerStatus |
| LoseConfirm | a CONFIRM_TURN that the connection or the rate limiter swallows |
| DeleteGameState | cleanupGame |

`AdvanceToNextTurn` is advanceTurn, the increment of TurnCount and
checkTurnLimit, which four paths share. A browser sends what it could have
drafted on `base`, the last state it saw (`BrowserRequests`), first as
PLACE_TILES and then as CONFIRM_TURN (`inFlight`); an LLM answers from the
turn's start, honestly (`HonestRequests`) or with one of `AIAnswers`.

A behavior is of one of two kinds, which `trusted` keeps: with callers that
conserve tiles and connections that keep order, where conservation is promised,
and with neither. `MCGameService` is the instance that is checked.

### TurnOrchestration
The goroutines around the service. Its state is the part of the game that decides
who is to move, the timers map (`entry`) and the timer goroutines (`timers`, each
with the generation it captured), the LLM goroutines (`ai`, a bag, since a turn
may be announced twice), grace timers, connections and the Redis timer key. What a
turn does to tiles is left out: `TurnEnds` may end the game or pass the turn on,
and must end it at the limit. A handler makes one service call and then several
steps of its own; these are kept in `todo` and interleave with the start of the
LLM's goroutine, which cancels the timer its parent is about to arm.
`RestEndsTurn` is POST `/api/games/:id/confirm` and `/draw` (`main.go:302-303`,
`game_handler.go:97-172`), which only integration tests and scripts call: it ends
a turn and does nothing else, neither arming a timer nor asking the LLM that is
next, and `unattended` remembers it.

### Session
The connections one player opens to a room, several alive at once. `pc` follows
the goroutine of each through HandleWS: Authenticate (which looks the game up
once), Register (which closes the connection it replaces), CancelGrace and
Activate, Leave and ReadFails, Unregister with its identity test, MarkDisconnected
and StartGrace. The grace timer's goroutine has three steps: GraceRunsOut, after
which a cancel comes too late; GraceExpires, which takes the lock and deletes the
entry under the player's key, whose ever it is by then (`lateDelete` remembers
when it was a later connection's); and GraceForfeits. StartGame,
NotifyGameStarted, Exclude and GameOver are what the rest of the system does to
the player.

### Rooms, WaitingPage, MCRooms
`Rooms` has the two maps of the repository and the requests of any users: Create,
Join, Leave, Start and Delete, each of which loads a room, decides on its copy and
saves it, with the requests of others in between (the repository locks each call
alone). `raced` remembers that a request has saved a room over what another saved
after its load, or has been left in two rooms because the LeaveRoom inside its
JoinRoom or CreateRoom was refused; `MappingIsTrue` is claimed until then. A user
has one request at a time. `Readers` are the users whose browser waits for the
answer, where its actions need one. `WaitingPage` extends it with one browser: the
lobby, the page that creates a room, and the waiting page, which hears of a start
only by polling and whose buttons act on whatever room the store holds. `MCRooms`
says how far TLC explores (section 4).

### TurnBoard, Draft, MCDraft
`TurnBoard` is the abstract promise of a drafting turn: a tile that the rack has
goes to the table, one that the table has goes to the rack, a joker may be taken
for a tile, a reset puts everything back. No tile is lost, and none is made but in
one way, which is an action of its own (`LayAgain`, `SwapAgain`): a tile that came
off the table is in the air when a rollback puts it back there, and the drop lays
it down once more. `TilesAreKept` says that no more than this one tile is there
too often. `Draft` is the code: the drag handlers with a drag that lasts while
rollbacks arrive and the turn passes, marks of pending groups, the force-new-group
switch, undo, the checks of confirm; and, beside the hook the page runs,
`DragEndReducer`, the twin the unit tests exercise. Draft implements TurnBoard by
a refinement mapping that forgets which group a tile lies in (`TB == INSTANCE
TurnBoard WITH ...`; checked by the run `draft`, proved in `DraftProofs`).

### Browser, GamePage
The same page twice, at two grains. `Browser`: the socket and its reconnection,
the view built from messages, the draft that starts over with the turn, the
locks of the buttons; the server hands out versions of positions. `GamePage`:
who is present, the countdowns, the clock, and how the end is shown; time is
counted in ticks on both sides. In both the environment is the handler, with the
broadcasts a connection misses between its GAME_STATE and its registration.

### RateLimit, Rankings, Practice, MCPages
Three models that share no state: the limits on both sides with the toast they
share; the three pages of ratings, whose answers come in any order or not at
all; the practice board with its results in localStorage. `MCPages` runs all
three, a behavior being of one of them.

### Adapter
`POST /move` for several concurrent slots: throttle, the two reads of the cost
guard, attempts of the chosen adapter with its reading of content and reasoning,
parser, forced draw, and the recording of cost, which comes after the answer.
Redis may fail at each read and each record; the hour and the day may turn at
any point.

### Playtest, RunnerConsole, MCPlaytests
`Playtest` is the five scripts over one vocabulary of waits: a wait is answered
by a message that is already in the client's list, however old, or by the next
one, or it times out. `RunnerConsole` is the console whose tabs run a scenario
and whose routes share a history file. `MCPlaytests` runs both side by side.

## 3. Runs

Twelve runs, eleven of which hold. The numbers are TLC's distinct states.

| Run | Module | Properties | States |
|---|---|---|---|
| `core` | MCGameService | `TilesAreConserved`, `TurnHolderIsActive`, `SnapshotIsTurnStart`, `TurnLimitHolds`, `PlayedTilesStay`, `PenaltyRollsBack`, `EndingsAreFair` | 1,750,000 |
| `orchestration` | MCTurnOrchestration | `TurnIsDriven`, `NoTimerAfterTheGame`, `LimitsExclude`, `TurnEventuallyEnds` | 436,000 |
| `rules_engine` | MCRulesEngine | `EngineKeepsTheRules`, `ClientKeepsTheRules`, `PlansKeepTheRules`, `PromptsAreTrue`, `VerdictsAreFair` | 268,000 |
| `session` | MCSession | `OpenIsRegistered`, `NobodyIsForgotten`, `AbsentIsNotActive`, `RunningTimerIsInTheMap` | 1,518,000 up to symmetry |
| `rooms` | MCRooms | `MappingIsTrue`, `PlayersAreTakenToTheirGame` | 1,637,000 |
| `pages` | MCPages | `WarnedBeforeClosed`, `ChosenPageIsShown`, `LimitsAllLetGo`, `LoadsEnd`, `PracticeIsKept` | 974,000 |
| `draft` | MCDraft | `OnlyMarkedGroupsChange`, `SentIsExact`, `MovesTilesOnly` | 198,000 |
| `browser` | Browser | `ViewIsCurrent`, `PlayerIsNotStuck` | 616,000 |
| `game_page` | GamePage | `PageIsTrue`, `ResultArrives` | 1,940,000 |
| `adapter` | Adapter | `OverrunIsWhatWasUnderWay`, `PlacementIsReadable`, `EveryRequestEnds` | 200,000 |
| `playtests` | MCPlaytests | `PlaysInItsTurn`, `ReportsAreKept`, `ScriptsReport` | 2,090,000 |
| `rooms_two_games` | Rooms | `PlaysOneGame` is violated | - |

What they show:

* **core.** Whatever an LLM makes up and whichever confirms are lost, the turn is
  with an active player, checks and rollbacks start from the turn's start, a
  penalty puts the board back and costs only tiles of the pile, what was played
  stays on the table, and the limit ends the game. With callers that conserve
  tiles, so does the game. Endings: a stalemate is a whole round of passes (in
  games nobody left), and the winner the service names is the one the handler
  computes from the state.
* **orchestration.** Every turn has its driver: a live timer with the current
  generation, an LLM's goroutine, or a handler about to start one. A finished game
  leaves no timer that could act on it, counters exclude at their limit at once,
  and every turn ends, unless the server restarts, the context's deadline ended
  the LLM's goroutine, or a turn was ended over REST (section 6).
* **rules_engine.** The server takes exactly the legal sets and gives a run the
  score of its best reading. The browser's checks agree with the server; the moves
  it offers leave legal sets; the planner, the playtest bot and the hints put
  together only what the server takes, but for one kind of hint, which is always
  wrong (a pair with a gap offered for a run, section 6); a variant asked for by
  name is the one used; the verdicts of trials do not contradict each other.
* **session.** The open connection is the registered one, however late the
  goodbyes of the replaced ones come; a disconnected player has a grace timer, or
  a connection about to start one or to make them active; a player whose
  connections are all gone is not shown as active; at most one timer runs, the one
  a reconnection finds, unless an older one that ran out has deleted its entry.
* **rooms, rooms_two_games.** However requests interleave, and whoever leaves,
  starts, ends or deletes a game: until one of them saves over another's change, a
  user has a seat in one room and is mapped to it, and nobody is turned away
  because of a game they are not in; polling takes the players of a started room
  to their game, whatever was lost or visited before. The second run is the
  finding of section 6.
* **pages.** A browser that slows down when told to is not closed before it was
  warned; calls, toasts and slow sending come to an end; the leaderboard shows
  what its title says when answers come in order; wheels stop; practice keeps
  its tiles and its best scores.
* **draft.** Draft implements TurnBoard, so that it makes no tile but by the drop
  a rollback has overtaken; marks name exactly the groups that changed, before the
  first meld no group of the table does; what passes the checks of confirm has
  every tile once, and its new tiles are those of `tilesFromRack`; hook and
  reducer move the same tiles, wherever they see the same joker swap (section 6).
* **browser.** A settled connection that missed nothing shows the seat, the turn
  and the kind of player the server has, and its draft starts from this turn's
  board; an outage ends in a connection or in a page that says so; a locked
  confirm button comes back.
* **game_page.** Nobody who is away is shown as present, a countdown does not run
  out before its timer, the clock does not show less time than is left, the end
  is shown only if it is one, and arrives with the server's winner.
* **adapter.** A budget is overrun by at most one answer for each request under
  way and each read Redis failed; whatever a model writes, a placement that is
  returned has groups of three or more without a misspelt code, and a
  `tilesFromRack` without one or of a type the game server does not decode
  (section 6); every request ends.
* **playtests.** A script takes itself to be at turn only if it is or the end of
  its turn is on the way; every script reports, and a PASS was earned; a tab
  shows the outcome of its last run, and routes that do not overlap lose none.

Each property has a mutant: a plausible bug in the mapped code, written beside
it (`PenaliseKeepingBoard`, `UnregisterUser`, `FollowingLateCancel`, ...), under
which TLC finds the property violated in the same run.

## 4. Bounds, fairness, assumptions

**GameService.** Three players, LLM first: enough for a forfeit that leaves a
game going, for going round past a forfeited seat, and for passes of different
players. Nine tiles with five groups that share tiles: a board that can be
rearranged, a joker that can be won back, a layout that is no meld, a first meld
of exactly 30 points, a hand that wins. Two deals: one with a tile to draw, one
with an empty pile, so that penalties draw fewer tiles than asked for and passes
end the game. `TurnCap` and `MaxTurns` are 5: a whole round and the start of
the next. `FlakySeat` is one browser.

**Rules.** The run universe is a whole color, both jokers, a duplicate and a
foreign tile, in all its subsets; the group universe four colors, two copies,
two numbers (6 and the boundary 13) and both jokers in sets of up to five; racks
have up to six tiles; a trial asks each variant at most twice. Colors and inner
numbers are treated alike by the code.

**TurnOrchestration.** `AbsentLimit` and `ForceDrawLimit` are 2 instead of 3 and
5: the counters are compared with >=, and 2 lets one come below and reach the
limit within five turns. `TimerId` allows five live timer goroutines; more never
occur within the turn limit. One restart. Timing the code relies on is assumed:
steps that wait for a message, an answer or a timer happen when the straight-line
steps of other handlers are done (`Settled`); one timer does not run out while
another's goroutine is between waking and acting; a turn is at least 30 s and a
grace period 60 s, so the grace timer acts before the last absent turn
(`GraceComesFirst`). A request over REST comes between two turns' handlers like
any message. A player who has forfeited does not reconnect.

**Session.** Four connections, each used once: one that drops, one that replaces
it, one that replaces the replacement while both goodbyes are out, and one
authenticated before the game. Interchangeable, and no property is temporal, so
symmetry is sound. The connections suffice for one to come back and drop again
while the grace timer of another that has run out waits for the lock.

**Rooms, WaitingPage.** Two users, two rooms and an AI seat: a game to forfeit and
another to go to; one lost answer; one of the users is a browser, the other asks
for anything at any time. `ToExplore`, a CONSTRAINT, stops where `raced` has
become true or no room is alive or to be created: `MappingIsTrue` is not claimed
of what follows, and of the waiting page's property only behaviors without a race
are examined. (With one room TLC goes through what follows the races too, in
125,000 states, and both properties hold.) **Draft.** Three turns: a joker to
recover with a tile that fits its place, one the hook takes it for although it
belongs beyond the run, and one that fits nowhere; two groups to rearrange; the
first meld of exactly 30; two or three drops each. `StartsAssumption` says of a
turn that each of its tiles is in one place and that its groups have ids of the
server (`convertToSetOnTable` replaces a "pending-" one). **Browser.** Three
turns, two reconnection attempts, one loss, one message limited, two in flight.
**GamePage.** Two people and an LLM, three ticks, two turns; turn and grace
periods of two ticks, which is enough for each to run out inside the other; seats
are numbered from 0, as in the code. **RateLimit.** Two calls, windows of two
ticks, one message of a type and two of all, decay after two, four inputs.
**Rankings.** Four loads, two at once, one promotion between them. **Practice.**
Two stages, four drops. **Adapter.** Two slots, limits of one unit, two hours and
two days: the overrun depends only on the number of requests under way.
**Playtest.** Three counted turns, three turns of the game, all five scripts.
**RunnerConsole.** Two tabs, three runs and a history of two, so that the oldest
is dropped.

**Fairness** is weak, and only on what the runtime, the clock and an open socket
do: the goroutines and timers of the server, a socket that opens or fails, a
message that is on its way, an answer or failure of a request (fetch and the
HTTP clients end every one), timers and waits of a script, a poll of an open
page. No person is asked to do anything, no message is promised to survive, and
which answer comes is never constrained. `GamePage` needs only delivery;
`Adapter` only that a slot is served.

**Deadlock** is checked where the program cannot stop (`adapter`, `draft`).
Elsewhere a finished game, a script that reported, a full set of tiles or a
used-up bound stops.

## 5. What is proved

Eight modules of proofs. Every theorem has the form
`Spec => []P` (or `Spec => [][A]_vars`) and holds for every value of the
constants that the named ASSUMEs of the component's module admit; TLC evaluates
these on the instances it checks. Where a property is not inductive, which is
nearly always, its proof has an invariant that TLC confirmed on the run's
instance before it was proved.

| Module | Theorems | About the runs' properties |
|---|---|---|
| GameServiceProofs | `Invariance`, `TypeCorrect`, `TurnHolderCorrect`, `SnapshotCorrect`, `TurnLimitCorrect`, `PenaltyCorrect`, `PlayedTilesCorrect`, `TilesConserved`, `EndingsCorrect` | all seven of `core` |
| TurnOrchestrationProofs | `OrchestrationInvariant`, `LimitsCorrect`, `NoTimerCorrect`, `DrivenCorrect` | the three safety properties of `orchestration` |
| RoomsProofs | `MappingCorrect`, `PageMappingCorrect` | `MappingIsTrue` of `rooms` |
| ConnectionProofs | `SessionInvariance`, `SessionTypes`, `OpenConnectionsAreRegistered`, `TimersCanBeStopped`, `NobodyForgotten`, `AbsentAreNotActive`; `BrowserInvariance`, `ViewCorrect` | all four of `session`; `ViewIsCurrent` of `browser` |
| PagesProofs | `PageInvariance`, `PageCorrect`; `LimitsInvariance`, `WarningComesFirst`; `RankingsInvariance`, `ChoiceIsShown`; `PracticeInvariance`, `PracticeKeeps` | `PageIsTrue` of `game_page`; the three safety properties of `pages` |
| AutoplayProofs | `AdapterInvariant`, `OverrunCorrect`, `PlacementCorrect`; `ScriptInvariance`, `ScriptKnowsItsTurn`, `PassesAreEarned`; `ConsoleInvariance`, `ReportsKept` | the two safety properties of `adapter`; both of `playtests` |
| DraftProofs | `DraftInvariance`, `MarksCorrect`, `SentCorrect`, `ImplementsTurnBoard`, `MovesCorrect`, `TilesSurvive`, `DraftKeepsTiles` | all three of `draft`, and what TurnBoard promises |
| RulesProofs | `EngineIsCorrect`, `ClientIsCorrect` | `EngineKeepsTheRules`, `ClientKeepsTheRules` of `rules_engine` |

**GameServiceProofs.** Assumed: at least two players; a finite deck, dealt
once; melds are groups of tiles; scores are natural numbers; answers are
well-typed; a turn limit is not 1, since the game would be at its limit after any
turn; the two "none" values are not data. Nothing is assumed of the rules. The
proof has four layers.

* `Inv`: types, the turn is with an active player while two are in play,
  snapshots, the limit. That the seat to move is active after a turn needs two
  active players before it; that `TurnBase` is the turn's start needs no other
  seat to hold a snapshot. The end of a turn is shared by five actions, so
  `AdvanceStartsTurn` proves once what it establishes for the next player;
  `AdvanceTurnIsActive` (from `SeatReached`: going round reaches every seat) is
  the fact about the helper.
* `PenaltyRollsBack` and `PlayedTilesStay` are action properties that follow from
  `Inv` at the step's start. The second rests on `ValidTurnKeepsTiles`: the
  comparison of the server counts tiles, so that it says something of a tile only
  since a tile of the turn's start is counted (`FreqCounts`).
* `TilesConserved` counts the places of a tile. The proof says the same without
  counting (`OnceEach`: groups share no tile, racks share none, the pile lists none
  twice, no tile is in two kinds of places, each is in one; `OnceEachCounts`
  leads back), and says it of the table as it is and of the turn's start, which a
  rollback restores, and that what is on its way to the server is a rearrangement
  of that start. `HonestRequestsAreDrafted` is where the trusted callers enter.
* `EndingsCorrect`: the passes since the pile ran out are counted by `passCount`
  and belong to neighbours in turn, so that N of them are everybody's; and the
  handler, which takes the lowest rack, arrives at the winner the service named by
  its own rule. The score of a rack is a fold over a set. That
  a fold has the values its equation says is induction over data; it is done here
  by taking the smallest subset for which it fails (`ScoresExist`,
  `RackScoreIsNat`), which is first-order.

**TurnOrchestrationProofs**, for every number of seats, timers and restarts.
`OrchInv` says which steps can be left to do in which status of the game (one that
ends over REST stays FINISHED, with nothing left to do), that while it is played a
player at a limit has forfeited and that somebody online is not counted absent,
that at most one timer has run out and that an LLM's goroutine is being started
only for the seat to move. `LimitsExclude` and `NoTimerAfterTheGame` follow.
`TurnIsDriven` needs more (`Driven`): who is disconnected has a grace timer, and
nobody at the last absence but one reaches the limit by the timer that has run
out, or its handler would clear the entry of the next turn. It has the hypothesis
`AbsentLimit >= 2`; the code's limit is 3 (section 6).

**ConnectionProofs, Session**, for every set of connections; assumed only that
`None` is no connection. The invariant adds three facts: before the game no
connection knows of it (`WaitingIsQuiet`), else a game could start with a player
nobody is responsible for; the hub's entry has not said goodbye (`HubIsOpen`), so
that who is told of the game's start will say it; and an active player has a
connection that knows the game and has its DISCONNECTED still to write
(`ActiveHasAConnection`), which is `AbsentIsNotActive` in a form steps preserve. A
timer that has run out may be beside the one that runs; only its deletion of that
one's entry, which `lateDelete` remembers, ends `TimersCanBeStopped`.

**RoomsProofs**, for every set of users, rooms and seats, every interleaving of
their requests; assumed only that `None` is no room. The invariant is kept by
every step that leaves `raced` false. It follows a request through its handler: a
copy that can still be saved without a race is the room as it is; who is about to
sit down sits nowhere else; a mapping that LeaveRoom has cleared is of a user
whose room is about to be saved without them; a mapping to a deleted room, which
DeleteRoom leaves behind, harms nobody, since every check asks for the room first.
`PageMappingCorrect` has one of the users be a browser that loses requests and
answers and acts on a stale room.

**ConnectionProofs, Browser**, for every bound. TURN_START carries a turn number and no
position, GAME_STATE a position and no turn number, and still the view and the
draft are right, because of the order of what is on its way: nothing names a
later turn than the game's (`NothingAhead`); behind a message of this turn
comes nothing of an earlier one (`InOrder`); a turn's start comes right behind its
position (`Paired`); a draft of this turn starts from its position
(`BaseIsStart`); and a connection that missed nothing knows the turn or has its
start on the way (`Informed`). Each action of the server adds one of four
patterns to the inbox, and each pattern has a lemma.

**PagesProofs, GamePage**, for every number of people and LLMs, every length of a turn
and of the grace period. Assumed: the seats are numbered from 0 and each is a
person's or an LLM's. The invariant says of each thing shown that it is true, or
that a message on its way makes it true and none behind it makes it false again:
a player who is away (`AbsentAreTold`), a clock with time enough (`ClockRuns`). A
countdown is never behind its grace timer (`CountdownsAreLong`), which a tick of
both preserves only because the timer would have acted before it reached zero.

**PagesProofs, the small pages**, for every limit, window and number of calls; every
ladder of players, page size and number of loads; every list of stages. The three
specifications take no step together, so that each has an invariant of its own.

* *Limits.* The server counts violations, the page counts the notes it gets, and a
  note is still on its way when the next message is judged. What is preserved: an
  open socket's violations are at most the page's stage and the notes on their way,
  unless the page has slowed down (`PageCountsAlong`). With two violations and no
  note read the warnings are still on their way, and the closing comes behind them.
* *Rankings.* Requests are numbered. While answers come in the order of the clicks,
  the last request is under way or answered, and is for what is chosen
  (`LastIsForChoice`); the panel is never on a page its list does not have
  (`PanelPageExists`), of whatever list an answer brings.
* *Practice.* Every tile of the stage is in the hand or on the board
  (`TilesAreOut`): each drop takes a tile from one and lays it on the other, and a
  group that has become empty goes, which is the one place where a tile could go
  with it. A best score is positive exactly where a stage was completed: a cleared
  board has a tile, and that a fold of positive scores is positive is again shown
  for the smallest counterexample.

**AutoplayProofs, Adapter**, for every number of slots, limits and costs. A budget
is overrun although every request reads it first, since the cost is recorded after
the answer. The invariant bounds the future: what is charged, plus the most that
the requests past the read may still be charged, is below the limit by one plus
the slack, which is one answer per slot and per failed read (`DayKept`,
`HourKept`); a read that lets a request in adds it to the second term
(`LetInByTheRead`), and its charge moves it to the first. For
`PlacementIsReadable` the parser's operators are proved to return readable groups
for texts of any length, and a `tilesFromRack` whose codes were examined whenever
it is a list.

**AutoplayProofs, the scripts**, for every number of turns and messages. A script
believes the last message it has read, which names a seat that need not be the one
to move. The invariant is about the messages not read yet: the last one that names
a seat names the one to move, or there is none and the script's own seat is right;
and a message that starts a turn comes right behind the one that names its seat
(`Told`). `PassesAreEarned` is the safety half of `ScriptsReport`: S4 and S5 found no
tile too many when they passed, and S3, which waits for a refusal nobody sends,
cannot pass (`NothingRefused`).

**AutoplayProofs, the console**, for every number of tabs and runs and every length
of the history. A run's route reads the file, empties it and writes it again, and
its tab may have gone on. The invariant numbers the runs (`RunsInOrder`): a tab waits
for, or shows, the last run it started, and unless two routes were at the history
together, the file has the latest recorded runs, newest first (`HistoryIsLatest`);
the route in between holds what it read (`OneAtHistory`).

**RulesProofs**, for every finite set of tiles of the game, whatever the universe.

* *Engine.* The code decides by counting: as many colors (numbers) as plain tiles, a
  span no wider than the set, a start that leaves room up to 13. The reference
  speaks of places. They agree since a map onto a set of the same size is one to one
  (`CountsTellDuplicates`) and distinct numbers are no more than their span
  (`SpanOfDistinct`). The score of a run is a fold over its places, shown to be an
  arithmetic progression (`SumIsValue`) from the highest start there is
  (`RunScoreIsBest`).
* *Client.* A sequence codes a set when it has the code of each tile once
  (`IsCodeOf`); that the fold `Listed` gives such a sequence is shown for the
  smallest subset for which it fails. Then the counts are the same on both sides
  (`ClientSees`), and the tests of both are said of the tiles (`GroupLike`,
  `RunLike`), where they meet: `ConfirmAgrees`; `PracticeAgrees`, although the
  practice mode stretches a run upwards and the server looks for room below;
  `MergeAgrees`, up to eleven tiles, since from twelve on the client takes spare
  jokers for both ends at once, and the property says so;
  `SwapAgrees`, which tries the jokers in the code's order and needs only that the
  first fitting one fits.

**DraftProofs**, for every set of turns that `StartsAssumption` admits: boards and
racks of any size, any number of drops. The argument goes bottom up.

* *Sequences.* Groups are stored and tiles are listed through `FlattenSeq`, whose
  recursive function is only chosen to satisfy its equation. That there is one, and
  what it returns, is shown for the shortest prefix for which it fails
  (`FlattenExists`, `FlattenProperties`, `NonEmptyProperties`), again first-order.
* *Places.* The copies of a tile on a board are the pairs of a group's id and an
  index (`Places`), the copies in the rack a bag's. One lemma for each change says
  what it does to both numbers: a tile appended, a group opened, a tile removed with
  the others moving up, a joker replaced (`NumberAppended` to `NumberRemoved`,
  `CopiesLess`, `CopiesMore`).
* *Drops.* Every branch of the drag handler leaves the draft alone or does one of
  four things to the tiles: `Laid`, `Returned`, `TakenFor`, `Rearranged` (`DropOK`),
  and keeps the draft well made and its marks right.
* *The invariant* (`DraftInv`) adds two facts that say why a rollback in the middle
  of a drag does no harm: each tile of the player's hand is in one place
  (`HeldOnce`; a joker of the table may be there twice), and a tile of the hand that
  is in the air is still in the rack (`DragOK`), where the rollback puts it too.
* `SentCorrect` needs `HeldOnce`, that a recovered joker not yet placed is in the
  rack, and that the first error the checks find is the one they return. What
  `TilesAdded` counts is not needed: both checks ask the same of the same number.
* `ImplementsTurnBoard` maps the four effects to Lay, TakeBack, Swap and
  stuttering, a rollback or undo to Reset and the passing turn to NewTurn. Lay and
  Swap need the tile in the rack; that it is there fails only for a tile that came
  off the table before a rollback, and then the draft is as the turn began
  (`DragOK`), which is where TurnBoard has LayAgain and SwapAgain. `TilesSurvive`,
  proved of TurnBoard, then holds of the draft (`DraftKeepsTiles`): the copies of
  each tile are those the turn started with, but for at most one tile of the table
  that is there once more. For the second half of `MovesTilesOnly`, drops that lay
  the tile into different groups have the same effect (`LaidAlike`).

Only model-checked:

* liveness, which is out of the prover's reach: `TurnEventuallyEnds`,
  `PlayersAreTakenToTheirGame`, `LimitsAllLetGo`, `LoadsEnd`, `PlayerIsNotStuck`,
  `ResultArrives`, `EveryRequestEnds`, `ScriptsReport`;
* `PlansKeepTheRules`, `PromptsAreTrue` and `VerdictsAreFair` of `rules_engine`: what
  recursive planners find, hints chosen by confidence, and ratios folded over the
  answers of a trial. For these the run's universe is the claim. Of `ScriptsReport`
  the half that is no liveness is `PassesAreEarned`.

## 6. What was learnt

A finding is something the repository says and a run refutes:

* **rooms_two_games** (`service/room_service.go:452`). FinishRoom clears the
  active room of everybody who has a seat in the finished room, also of a player
  who forfeited, was freed then, and is in another room by now. Their mapping is
  gone, and the next join passes checkDuplicateRoom, which says that no other room
  can be joined during a game: they play two.

Observations met while modelling; the properties are stated so that they hold
beside them, and say so.

*Game, turns, sessions.*
- Nothing relates `tilesFromRack` to what is new on the board, so a meld an LLM
  invents costs it nothing and its tiles exist twice (`game_service.go:356`,
  against D-05 in `docs/02-design/55-game-rules-enumeration.md:362`).
- PLACE_TILES between the two calls of HandleTimeout stands unvalidated
  (`turn_service.go:109`).
- `finishGameStalemate` scores every player, `resolveWinnerFromState` only those
  who have not forfeited (`ws_handler.go:1848`); after a forfeit a stalemate need
  not be a whole round. A browser that has laid out its whole rack and
  whose confirm is lost leaves an empty rack behind when a draw or a pass makes the
  placement final; the game goes on, and at its end the handler may name that seat
  (`EndingsAreFair` compares the winners when only the mover's rack is empty).
- Were one absence enough to forfeit, the goroutine of the timer that ran out
  would forfeit the player whose connection was lost meanwhile, and then delete
  the timer of the next player's turn (`checkAbsentTurnAndForfeit`): nothing would
  drive it. With the code's limit of 3 the grace timer has acted before.
- `ctx.Err() != nil` is read as "the game is over", but the context's own
  deadline looks the same, and the turn timer was cancelled when the LLM was
  asked: nobody ends the turn (`ws_handler.go:1048`; `TurnEventuallyEnds` excepts
  exactly this).
- The turn routes of the REST API end a turn and do no more: no timer is armed for
  the next player, no LLM is asked, and a game that ends this way is not cleaned
  up (`game_handler.go:97-172`). Only scripts and tests use them; `TurnIsDriven`
  and `TurnEventuallyEnds` except what they did.
- An answer of the LLM that comes after the timer has ended its turn is applied to
  a later turn of the same seat (`ws_handler.go:1089`): the rules check it like
  any other move, and no property forbids it.
- A grace timer that has run out deletes the entry under the player's key
  (`ws_handler.go:2381`), which may be the timer of a connection that has come and
  gone meanwhile; no reconnection can stop that one then, and the player forfeits
  though connected (`RunningTimerIsInTheMap` excepts this: `lateDelete`).
- LEAVE_GAME forfeits, then the closed socket reports a disconnection and
  overwrites FORFEITED (`ws_handler.go:2338`). An evicted connection's goodbye
  may start a grace timer against a player who is connected
  (`ws_handler.go:2351`). A connection authenticated before the game and
  registered after its start never learns of it, and still stops the grace timer
  (`blindCancel`).

*Rooms and waiting page.*
- Two requests between load and save undo each other: of two joins of one seat the
  later save wins, and both users are mapped to the room; a leave that saves after
  another puts the first user back; a room deleted before a save is there again. A
  JoinRoom whose LeaveRoom is refused, since the game has begun in between, seats
  the user in both rooms. `MappingIsTrue` ends there (`raced`).
- DeleteRoom has no test of status, and leaves the mappings to the room and its
  running game behind (`room_service.go:422`); joining by code pushes the code
  where an id is needed (`LobbyClient.tsx:232`); the page acts on a stale room of
  the store.

*Browser and game page.*
- `ROLLBACK_FORCED` is never handled; a throttled confirm may send PLACE_TILES
  and drop CONFIRM_TURN; CONFIRM_TURN carries no turn number; any new `lastError`
  is taken for an INVALID_MOVE, which no server sends; a client away at the end
  gets an ERROR, never GAME_OVER; the hub learns of a connection after
  TURN_START (`ws_handler.go:201`).
- The server sends PLAYER_RECONNECT, the page expects PLAYER_RECONNECTED; a
  reconnection's TURN_START gives the whole turn's time once more; GAME_STATE
  does not clear `disconnectedPlayers`; a forfeit renews the timer and not
  TurnStartAt.
- Hook and reducer differ in whether a table tile may go to a group it does not
  fit, and in joker swaps: the hook has a copy of its own
  (`useDragHandlers.ts:81`) that takes the first joker on the screen, for a tile
  next to an end of the run too. R7 dropped on R4 JK R6 takes the joker out and
  leaves R4 R7 R6, which the checks of confirm refuse; `lib/jokerSwap.ts` would
  not swap, and the reducer appends. `SwapAlike` is the hypothesis that this is
  not such a drop; `turnStateStore` and `canConfirmTurn` are read by no component.
- A tile of the table is in the air when a rollback puts it back; the drop lays it
  down beside its original. INV-G2 (`invariantValidator.ts:62-67`) is that a code
  exists once, and `pendingStore.ts:54-55` says that a mutation which breaks it is
  blocked: `applyMutation` blocks nothing. The checks of confirm find the pair,
  and it is never sent (`SentIsExact`); until the next undo it is on the screen.
- A table tile that the player takes back to the rack out of a pending server
  group is for the server to refuse: the checks of confirm do not ask whether the
  turn's start is still on the board.

*Pages.* Answers that come out of order, or fail, leave rows of another tab under
the chosen title; the pager may ask past the tier's end; the panel filters the
first hundred only. A key whose EXPIRE failed refuses everybody for good; a
comment says sliding window where the window is fixed; a shorter 429 replaces the
AI cooldown.

*Adapter, prompts.* Tokens of failed attempts are recorded nowhere. The planner's
estimate prunes some possible first melds, and v8 counts a joker as thirty. A
`tilesFromRack` that is no list is not examined and returned as it is
(`response-parser.service.ts:135,147`); the game server's decoder refuses the
whole answer, which ends in a forced draw. PairWarmupShaper offers a pair with a
gap for a run it adjoins on one side (K10 K12 for K4..K9) with confidence 0.95
(`PairWarmupShaper.ts:266-304`): never a set, and the only wrong hint there is
(`HintsAreSets`). `PROMPT_VARIANT` overrides `USE_V2_PROMPT`, which a comment says
forces v2; an unknown id falls back, while `getActive*` still report it. Trials:
one answer each may give V4_HONORED although v4 thought less; the benchmark counts
illegal placements as melds; a report shows the last run beside the verdict of
all.

*Playtests.* The server never sends INVALID_MOVE, so S3 can never pass and S4
takes every TURN_END for an acceptance; S2 credits an answer to whatever seat it
waits for; a wait is answered by an old message of its type. Routes that overlap
lose runs of the history.

## 7. Not modelled, and why

* **Connection send queue**: one buffered channel to one writer; a full one drops
  a message and logs. The models deliver what is sent on an open socket in order,
  and have losses of the connection, of confirms and of broadcasts instead.
* **Results and ELO**: rows of PostgreSQL written by goroutines after the game,
  out of floating-point ratings.
* **State repositories**: get, set, delete of a key.
* **Races inside a service call** (load, modify, save by two goroutines): service
  calls are atomic in GameService and TurnOrchestration; Rooms has such steps. A
  restart of the process inside GameService.
* **HTTP API, authentication; rankings, practice and administration endpoints**:
  parsing, tokens, single queries. The REST routes of a turn are in
  TurnOrchestration as far as they end it; place and reset over REST are the same
  service calls as over the socket.
* **Prompts, personas, DashScope**: text generation, and an adapter MoveService
  does not offer.
* **Presentation**: rendering, layout, sounds, notices, the login page, the other
  views of the admin dashboard, which show fixed data or the REST API.
* **Deployment**: configuration.

What each module leaves out of the code it models is in its header.

## 8. Plan

Done: the modules above, and a theorem for every safety property of the runs but
the three of `rules_engine` that section 5 names. Next, in this order:

1. **GameRace**: load, modify and save as separate steps for two goroutines of
   one game.
2. **Results**: one result per game, rating updates of two games.
3. The tournament view of the dashboard, whose filters live in the URL.
