---------------------------- MODULE WaitingPage ----------------------------
(***************************************************************************)
(* The lobby, the room creation page and the waiting page of one browser   *)
(* (LobbyClient.tsx, CreateRoomClient.tsx, WaitingRoomClient.tsx,          *)
(* roomStore.ts), composed with the room service; the other users send     *)
(* their requests as Rooms lets them.                                      *)
(*                                                                         *)
(* The waiting page hears of a start only by polling.  It shows first what *)
(* the store holds of whatever room was read last, and its buttons act on  *)
(* the room it shows.                                                      *)
(***************************************************************************)
EXTENDS Rooms

CONSTANTS
  Me,          \* the user whose browser it is
  MaxLosses    \* bound: requests and polls that fail on the way

ASSUME MeIsAUser == Me \in Users /\ Me \in Readers

VARIABLES
  page,     \* what the browser shows: the lobby, a waiting page, a game page
  store,    \* roomStore.currentRoom: None or what was last read of some room
  shown,    \* the room whose copy the waiting page shows (its useState)
  poll,     \* the waiting page's getRoom under way: None or what it has read
  losses

browser == <<page, store, shown, poll, losses>>
pageVars == <<vars, browser>>

Lobby      == [at |-> "lobby", room |-> None]
Waiting(r) == [at |-> "room", room |-> r]
Playing(r) == [at |-> "game", room |-> r]

(* What a browser keeps of a room it has read. *)
ReadOf(r) == [room |-> r, playing |-> rooms[r].status = "PLAYING"]

(* The page starts from the store, and a room it shows as PLAYING takes it  *)
(* to the game of its own URL.                                             *)
Open(r, known) ==
  IF known = None \/ ~known.playing
  THEN /\ page' = Waiting(r)
       /\ shown' = IF known = None THEN None ELSE known.room
  ELSE page' = Playing(r) /\ shown' = None

Leave == page' = Lobby /\ shown' = None

(***************************************************************************)
(* Buttons.  Those of the waiting page are hidden while it loads.          *)
(***************************************************************************)
HandleJoinRoom ==
  /\ page = Lobby
  /\ \E r \in RoomIds : rooms[r].status = "WAITING" /\ Send(Me, "join", r, 0)
  /\ UNCHANGED browser

HandleSubmit ==
  /\ page = Lobby
  /\ \E r \in RoomIds : rooms[r] = NoRoom
  /\ \E ai \in AiSeats : Send(Me, "create", None, ai)
  /\ UNCHANGED browser

ButtonsShown == page.at = "room" /\ poll = None /\ shown # None

HandleStartGame ==
  /\ ButtonsShown /\ rooms[shown].host = Me
  /\ Send(Me, "start", shown, 0)
  /\ UNCHANGED browser

HandleLeave ==
  /\ ButtonsShown
  /\ Send(Me, "leave", shown, 0)
  /\ UNCHANGED browser

(* A request is refused before it reaches the service (429 after the        *)
(* retries of apiFetch, the network, the AI cooldown), or its answer is    *)
(* lost after it took effect.                                              *)
RequestFails ==
  /\ req[Me].step \in {"sent", "done"}
  /\ losses < MaxLosses
  /\ losses' = losses + 1
  /\ Failed(Me)
  /\ UNCHANGED <<server, page, store, shown, poll>>

(* What a page does with the answer, wherever the browser is by then.       *)
(* handleLeave goes on to the lobby after a failure too.                   *)
AnswerArrives ==
  LET op == req[Me].op
      ok == req[Me].step = "done"
      r  == req[Me].room IN
  /\ AnswerRead(Me)
  /\ CASE op = "join" /\ ok -> Open(r, store) /\ UNCHANGED store
       [] op = "create" /\ ok -> store' = ReadOf(r) /\ Open(r, store')
       [] op = "start" /\ ok -> page' = Playing(r) /\ shown' = None
                                                  /\ UNCHANGED store
       [] op = "leave" -> store' = None /\ Leave
       [] OTHER -> UNCHANGED <<store, page, shown>>
  /\ UNCHANGED <<poll, losses>>

(* Somebody follows a link to a waiting page, or goes back to the lobby     *)
(* without a button.  Leaving a game page resets the store.                *)
Visit ==
  /\ page = Lobby
  /\ \E r \in RoomIds : rooms[r] # NoRoom /\ Open(r, store)
  /\ UNCHANGED <<vars, store, poll, losses>>

GoToLobby ==
  /\ page # Lobby
  /\ Leave
  /\ store' = IF page.at = "game" THEN None ELSE store
  /\ UNCHANGED <<vars, poll, losses>>

(***************************************************************************)
(* loadRoom, at once and every five seconds while the page is open.  Its    *)
(* answer always reaches the store, the page's own copy only if that page  *)
(* is still there.  Of a room that was deleted it reads nothing.           *)
(***************************************************************************)
Poll ==
  /\ page.at = "room" /\ poll = None /\ Exists(page.room)
  /\ poll' = ReadOf(page.room)
  /\ UNCHANGED <<vars, page, store, shown, losses>>

PollAnswered == poll # None /\ store' = poll /\ poll' = None

(* Mutant: a page that shows a room looks no further. *)
PollArrivesOnce ==
  /\ PollAnswered
  /\ IF page = Waiting(poll.room) /\ shown = None
     THEN Open(poll.room, poll) ELSE UNCHANGED <<page, shown>>
  /\ UNCHANGED <<vars, losses>>

PollArrives ==
  /\ PollAnswered
  /\ IF page = Waiting(poll.room) THEN Open(poll.room, poll)
                                  ELSE UNCHANGED <<page, shown>>
  /\ UNCHANGED <<vars, losses>>

PollFails ==
  /\ poll # None
  /\ losses < MaxLosses
  /\ losses' = losses + 1
  /\ poll' = None
  /\ UNCHANGED <<vars, page, store, shown>>

-----------------------------------------------------------------------------
PageInit ==
  /\ Init
  /\ page = Lobby /\ store = None /\ shown = None /\ poll = None
  /\ losses = 0

Browse ==
  \/ HandleJoinRoom \/ HandleSubmit \/ HandleStartGame \/ HandleLeave
  \/ RequestFails \/ AnswerArrives \/ Visit \/ GoToLobby
  \/ Poll \/ PollArrives \/ PollFails

(* The others ask for what the service may grant; a refusal changes nothing *)
(* that this browser could see.                                            *)
OtherAsks(u) ==
  /\ Ask(u)
  /\ LET room == rooms[req'[u].room] IN
       CASE req'[u].op = "create" -> TRUE
         [] req'[u].op = "join"   -> room.status = "WAITING" /\ u \notin room.seats
         [] req'[u].op = "leave"  -> MayLeave(room, u)
         [] req'[u].op = "start"  -> MayStart(room, u)
         [] req'[u].op = "delete" -> room.host = u

Others ==
  \/ Play
  \/ \E u \in Users : Serve(u)
  \/ \E u \in Users \ {Me} : OtherAsks(u)

PageNext == Browse \/ (Others /\ UNCHANGED browser)

(* The server goes on with a request it has begun, answers arrive, an open  *)
(* page polls.  Nobody has to press a button.                              *)
PageFairness ==
  /\ \A u \in Users : WF_pageVars(Serve(u) /\ UNCHANGED browser)
  /\ WF_pageVars(AnswerArrives)
  /\ WF_pageVars(Poll) /\ WF_pageVars(PollArrives)

PageSpec == PageInit /\ [][PageNext]_pageVars /\ PageFairness

-----------------------------------------------------------------------------
(* Nobody is left on the waiting page of a room whose game is on: the poll  *)
(* that finds the room PLAYING takes them to the game, whatever was lost,   *)
(* asked or visited before.                                                *)
PlayersAreTakenToTheirGame ==
  \A r \in RoomIds :
    ~<>[](page = Waiting(r) /\ rooms[r].status = "PLAYING")
=============================================================================
