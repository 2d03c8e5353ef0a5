------------------------------- MODULE Rooms -------------------------------
(***************************************************************************)
(* Rooms before and around a game: the room service of the game server     *)
(* (service/room_service.go over repository/memory_repo.go).  The pages    *)
(* that drive it are in WaitingPage.                                       *)
(*                                                                         *)
(* The repository hands out copies and locks each call alone: a request    *)
(* loads a room, decides on its copy and saves the copy, and the requests  *)
(* of other users run in between.  Nothing holds them apart; `raced' keeps *)
(* whether one of them has overtaken another for good.                     *)
(*                                                                         *)
(* Each user has one request under way.  FinishRoom is one step: a room    *)
(* that plays is changed by no request but the host's DELETE, which leaves *)
(* it as little alive as FinishRoom does.                                  *)
(*                                                                         *)
(* A seat is its occupant: which seat somebody sits on is left out, so are *)
(* names, room codes, timestamps and the best-effort PostgreSQL writes.    *)
(***************************************************************************)
EXTENDS Naturals, FiniteSets

CONSTANTS
  Users,       \* human users, each with one request at a time
  Readers,     \* those of them whose browsers are followed
  MaxRooms,    \* bound: how many rooms can be created
  Capacity,    \* seats of a room (playerCount)
  AiSeats,     \* how many AI players a new room may be asked for
  None

RoomIds == 1 .. MaxRooms

ASSUME NoneAssumption == None \notin RoomIds

VARIABLES
  rooms,    \* the memory repository: room id -> room
  active,   \* userRooms: user -> room id or None
  games,    \* the room's game: is it on, who plays it, who has left it
  req,      \* each user's request under way
  raced     \* history: whether a request has undone or missed what another did

server == <<rooms, active, games, raced>>
vars == <<server, req>>

NoRoom  == [status |-> "NONE", host |-> None, seats |-> {}, ai |-> 0]
Deleted == [NoRoom EXCEPT !.status = "DELETED"]
NoGame  == [on |-> FALSE, players |-> {}, gone |-> {}, ai |-> 0]
Idle    == [op |-> "none", room |-> None, ai |-> 0, step |-> "idle",
            copy |-> NoRoom, other |-> None, left |-> NoRoom]

Exists(r) == rooms[r].status \notin {"NONE", "DELETED"}
Live(r) == rooms[r].status \in {"WAITING", "PLAYING"}
Filled(copy) == Cardinality(copy.seats) + copy.ai

(***************************************************************************)
(* Requests.  req[u].step is the request's place in its handler:           *)
(*   sent      on the way                                                  *)
(*   joining   JoinRoom has loaded the room                                *)
(*   checked   checkDuplicateRoom has to leave a waiting room first        *)
(*   vacating  that LeaveRoom has loaded the other room                    *)
(*   entering  the duplicate check is over                                 *)
(*   leaving   LeaveRoom has loaded the room and cleared the mapping       *)
(*   starting  StartGame has loaded the room and checked it                *)
(*   deleting  DeleteRoom has loaded the room and checked it               *)
(*   done, failed   answered                                               *)
(***************************************************************************)
InHandler == {"sent", "joining", "checked", "vacating", "entering", "leaving",
              "starting", "deleting"}

Goto(u, step) == req' = [req EXCEPT ![u].step = step]

(* An answer waits for the browser, when that is followed. *)
Answer(u, step, r) ==
  req' = [req EXCEPT ![u] =
            IF u \in Readers
            THEN [Idle EXCEPT !.op = req[u].op, !.room = r, !.step = step]
            ELSE Idle]

Done(u)   == Answer(u, "done", req[u].room)
Failed(u) == Answer(u, "failed", req[u].room)

Send(u, op, r, ai) ==
  /\ req[u].step = "idle"
  /\ req' = [req EXCEPT ![u] = [Idle EXCEPT !.op = op, !.room = r, !.ai = ai,
                                            !.step = "sent"]]
  /\ UNCHANGED server

(* SaveRoom with what a request made of its copy.  A room that is no longer *)
(* that copy loses what was saved in between.                              *)
SaveRoom(r, copy, room) ==
  /\ rooms' = [rooms EXCEPT ![r] = room]
  /\ raced' = (raced \/ rooms[r] # copy)

(***************************************************************************)
(* JoinRoom                                                                *)
(***************************************************************************)
JoinLoads(u) ==
  /\ req[u].op = "join" /\ req[u].step = "sent"
  /\ LET room == rooms[req[u].room] IN
       IF room.status = "WAITING" /\ u \notin room.seats
       THEN req' = [req EXCEPT ![u].copy = room, ![u].step = "joining"]
       ELSE Failed(u)
  /\ UNCHANGED server

JoinSaves(u) ==
  LET copy == req[u].copy IN
  /\ req[u].op = "join" /\ req[u].step = "entering"
  /\ IF Filled(copy) < Capacity
     THEN /\ SaveRoom(req[u].room, copy, [copy EXCEPT !.seats = @ \cup {u}])
          /\ active' = [active EXCEPT ![u] = req[u].room]
          /\ Done(u)
     ELSE Failed(u) /\ UNCHANGED <<rooms, active, raced>>
  /\ UNCHANGED <<games>>

(***************************************************************************)
(* checkDuplicateRoom, called by JoinRoom (after its load) and CreateRoom. *)
(* A room somebody waits in is left for them; the outcome of that          *)
(* LeaveRoom is ignored.                                                   *)
(***************************************************************************)
AtDuplicateCheck(u) ==
  \/ req[u].step = "joining"
  \/ req[u].op = "create" /\ req[u].step = "sent"

(* Mutant: somebody in a waiting room may sit down elsewhere as well. *)
CheckDuplicateInGamesOnly(u) ==
  LET r == active[u] IN
  /\ AtDuplicateCheck(u)
  /\ IF r # None /\ rooms[r].status = "PLAYING"
     THEN Failed(u) ELSE Goto(u, "entering")
  /\ UNCHANGED server

CheckDuplicate(u) ==
  LET r == active[u] IN
  /\ AtDuplicateCheck(u)
  /\ \/ (r # None => ~Live(r)) /\ Goto(u, "entering")
     \/ r # None /\ rooms[r].status = "PLAYING" /\ Failed(u)
     \/ /\ r # None /\ rooms[r].status = "WAITING"
        /\ req' = [req EXCEPT ![u].step = "checked", ![u].other = r]
  /\ UNCHANGED server

(* What LeaveRoom makes of the copy it loaded, and whose mapping it clears: *)
(* a room does not outlive its host.                                        *)
After(copy, u) ==
  IF u = copy.host THEN [copy EXCEPT !.status = "CANCELLED"]
                   ELSE [copy EXCEPT !.seats = @ \ {u}]

Released(copy, u) == IF u = copy.host THEN copy.seats ELSE {u}

MayLeave(room, u) == room.status = "WAITING" /\ u \in room.seats

Clear(us) == [v \in Users |-> IF v \in us THEN None ELSE active[v]]

(* Whoever's LeaveRoom has cleared the mapping and not yet saved the room. *)
Leaves(u, r) == \/ req[u].step = "vacating" /\ req[u].other = r
                \/ req[u].step = "leaving" /\ req[u].room = r

(* LeaveRoom begins.  When two leave a room at once, the second to save it  *)
(* puts the first back.                                                    *)
LoadToLeave(u, r) ==
  /\ active' = Clear(Released(rooms[r], u))
  /\ raced' = (raced \/ \E v \in Users : Leaves(v, r))

(* A LeaveRoom that is refused, because the game has begun since the check, *)
(* leaves the user in both rooms.                                          *)
VacateLoads(u) ==
  LET r == req[u].other IN
  /\ req[u].step = "checked"
  /\ IF MayLeave(rooms[r], u)
     THEN /\ LoadToLeave(u, r)
          /\ req' = [req EXCEPT ![u].step = "vacating", ![u].left = rooms[r]]
     ELSE active' = active /\ raced' = TRUE /\ Goto(u, "entering")
  /\ UNCHANGED <<rooms, games>>

VacateSaves(u) ==
  /\ req[u].step = "vacating"
  /\ SaveRoom(req[u].other, req[u].left, After(req[u].left, u))
  /\ Goto(u, "entering")
  /\ UNCHANGED <<active, games>>

(***************************************************************************)
(* CreateRoom: the host takes the first seat, AI players the next ones.    *)
(***************************************************************************)
CreateSaves(u) ==
  /\ req[u].op = "create" /\ req[u].step = "entering"
  /\ \E r \in RoomIds :
       /\ rooms[r] = NoRoom
       /\ \A q \in 1 .. r - 1 : rooms[q] # NoRoom
       /\ rooms' = [rooms EXCEPT ![r] =
                      [status |-> "WAITING", host |-> u, seats |-> {u},
                       ai |-> req[u].ai]]
       /\ active' = [active EXCEPT ![u] = r]
       /\ Answer(u, "done", r)
  /\ UNCHANGED <<games, raced>>

(***************************************************************************)
(* LeaveRoom                                                               *)
(***************************************************************************)
LeaveLoads(u) ==
  LET r == req[u].room IN
  /\ req[u].op = "leave" /\ req[u].step = "sent"
  /\ IF MayLeave(rooms[r], u)
     THEN /\ LoadToLeave(u, r)
          /\ req' = [req EXCEPT ![u].step = "leaving", ![u].copy = rooms[r]]
     ELSE Failed(u) /\ UNCHANGED <<active, raced>>
  /\ UNCHANGED <<rooms, games>>

LeaveSaves(u) ==
  /\ req[u].step = "leaving"
  /\ SaveRoom(req[u].room, req[u].copy, After(req[u].copy, u))
  /\ Done(u)
  /\ UNCHANGED <<active, games>>

(***************************************************************************)
(* StartGame: only the host, only while the room waits, only when no seat  *)
(* is empty.  The game is created before the room is saved.                *)
(***************************************************************************)
MayStart(room, u) ==
  /\ room.host = u
  /\ room.status = "WAITING"
  /\ Filled(room) >= 2 /\ Filled(room) = Capacity

StartLoads(u) ==
  LET room == rooms[req[u].room] IN
  /\ req[u].op = "start" /\ req[u].step = "sent"
  /\ IF MayStart(room, u)
     THEN req' = [req EXCEPT ![u].step = "starting", ![u].copy = room]
     ELSE Failed(u)
  /\ UNCHANGED server

StartSaves(u) ==
  LET copy == req[u].copy IN
  /\ req[u].step = "starting"
  /\ games' = [games EXCEPT ![req[u].room] =
                 [on |-> TRUE, players |-> copy.seats, gone |-> {},
                  ai |-> copy.ai]]
  /\ SaveRoom(req[u].room, copy, [copy EXCEPT !.status = "PLAYING"])
  /\ Done(u)
  /\ UNCHANGED <<active>>

(***************************************************************************)
(* DeleteRoom: only the host, whatever the room's status.  The mappings to *)
(* it stay, and so does its game.                                          *)
(***************************************************************************)
DeleteLoads(u) ==
  /\ req[u].op = "delete" /\ req[u].step = "sent"
  /\ IF Exists(req[u].room) /\ rooms[req[u].room].host = u
     THEN Goto(u, "deleting") ELSE Failed(u)
  /\ UNCHANGED server

DeleteRemoves(u) ==
  /\ req[u].step = "deleting"
  /\ IF Exists(req[u].room)
     THEN rooms' = [rooms EXCEPT ![req[u].room] = Deleted] /\ Done(u)
     ELSE rooms' = rooms /\ Failed(u)
  /\ UNCHANGED <<active, games, raced>>

(***************************************************************************)
(* The end of a game.  FinishRoom clears the mapping of whoever sits in    *)
(* the room, wherever that mapping leads by then; it does nothing when the *)
(* room is gone.                                                           *)
(***************************************************************************)
FinishRoom(r, mapping) ==
  IF Live(r)
  THEN /\ rooms' = [rooms EXCEPT ![r].status = "FINISHED"]
       /\ active' = [v \in Users |-> IF v \in rooms[r].seats THEN None
                                                             ELSE mapping[v]]
  ELSE rooms' = rooms /\ active' = mapping

(* The human players still in a running game. *)
StillIn(g) == IF g.on THEN g.players \ g.gone ELSE {}

GameEnds(r) ==
  /\ games[r].on
  /\ games' = [games EXCEPT ![r].on = FALSE]
  /\ FinishRoom(r, active)
  /\ UNCHANGED <<req, raced>>

(* Mutant: a player who forfeits keeps the mapping to the room. *)
FreedLater(u) == active

(* ClearActiveRoomForUser, whichever room the user is in by now. *)
Freed(u) == [active EXCEPT ![u] = None]

(* forfeitAndBroadcast: the player leaves the game for good; it ends when   *)
(* one player is left, AI players counted.                                 *)
Forfeit(u, r) ==
  LET g == games[r]
      after == [g EXCEPT !.gone = @ \cup {u}]
      freed == Freed(u) IN
  /\ u \in StillIn(g)
  /\ IF Cardinality(StillIn(after)) + g.ai = 1
     THEN /\ games' = [games EXCEPT ![r] = [after EXCEPT !.on = FALSE]]
          /\ FinishRoom(r, freed)
     ELSE /\ games' = [games EXCEPT ![r] = after]
          /\ active' = freed /\ UNCHANGED rooms
  /\ UNCHANGED <<req, raced>>

(***************************************************************************)
(* The requests of a user: to any room, as the HTTP API takes them.        *)
(***************************************************************************)
Ask(u) ==
  \/ \E r \in RoomIds, op \in {"join", "leave", "start", "delete"} :
       rooms[r] # NoRoom /\ Send(u, op, r, 0)
  \/ \E r \in RoomIds, ai \in AiSeats :
       rooms[r] = NoRoom /\ Send(u, "create", None, ai)

Answered(u) == req[u].step \in {"done", "failed"}

AnswerRead(u) ==
  /\ Answered(u)
  /\ req' = [req EXCEPT ![u] = Idle]
  /\ UNCHANGED server

-----------------------------------------------------------------------------
Init ==
  /\ rooms  = [r \in RoomIds |-> NoRoom]
  /\ games  = [r \in RoomIds |-> NoGame]
  /\ active = [u \in Users |-> None]
  /\ req    = [u \in Users |-> Idle]
  /\ raced  = FALSE

Serve(u) ==
  \/ JoinLoads(u) \/ CheckDuplicate(u) \/ VacateLoads(u) \/ VacateSaves(u)
  \/ JoinSaves(u) \/ CreateSaves(u) \/ LeaveLoads(u) \/ LeaveSaves(u)
  \/ StartLoads(u) \/ StartSaves(u) \/ DeleteLoads(u) \/ DeleteRemoves(u)

Play ==
  \E r \in RoomIds : GameEnds(r) \/ \E u \in Users : Forfeit(u, r)

Next == Play \/ \E u \in Users : Serve(u) \/ Ask(u) \/ AnswerRead(u)

Spec == Init /\ [][Next]_vars

-----------------------------------------------------------------------------
(***************************************************************************)
(* Properties                                                              *)
(***************************************************************************)

(* Who left a game on the way; what they do afterwards is another matter,   *)
(* see PlaysOneGame.                                                       *)
HasForfeited(u) == \E r \in RoomIds : u \in games[r].gone

(* One seat per user: whoever has not walked out of a running game sits in  *)
(* at most one room that waits or plays, and the mapping leads there, save  *)
(* while a LeaveRoom is about to empty that seat.  This is what             *)
(* checkDuplicateRoom, the clearing in LeaveRoom and the clearing in       *)
(* FinishRoom keep up together.                                            *)
OneSeat ==
  \A u \in Users : ~HasForfeited(u) =>
    \A r \in RoomIds :
      Live(r) /\ u \in rooms[r].seats /\ (\A v \in Users : ~Leaves(v, r)) =>
        active[u] = r

(* Nobody is turned away by ALREADY_IN_ROOM on account of a game that they  *)
(* are not in: a mapping to a playing room is that of one of its players.   *)
NobodyIsLockedOut ==
  \A u \in Users : \A r \in RoomIds :
    active[u] = r /\ rooms[r].status = "PLAYING" => u \in StillIn(games[r])

(* The mapping of a user to a room is the one thing every check of          *)
(* room_service.go relies on: however the requests interleave, it is there  *)
(* when it must be, and only then, until one of them saves a room over      *)
(* another's change or passes over the refusal of its LeaveRoom.            *)
MappingIsTrue == ~raced => OneSeat /\ NobodyIsLockedOut

(* checkDuplicateRoom says of a user in a playing room that they cannot     *)
(* join another one while the game is on.  Rooms that were deleted and      *)
(* requests that overtook each other are left aside: they break it too.     *)
PlaysOneGame ==
  ~raced => \A u \in Users : \A q, r \in RoomIds :
    /\ u \in StillIn(games[q]) /\ rooms[q].status = "PLAYING"
    /\ u \in StillIn(games[r]) /\ rooms[r].status = "PLAYING"
    => q = r
=============================================================================
