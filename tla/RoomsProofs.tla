---------------------------- MODULE RoomsProofs ----------------------------
(***************************************************************************)
(* Proofs about Rooms and WaitingPage, for every number of users, rooms    *)
(* and seats.  The requests of the users interleave freely; as long as     *)
(* none has undone what another did, the mapping of users to rooms is      *)
(* true, whatever the games do meanwhile and whatever a browser asks for   *)
(* and loses.                                                              *)
(***************************************************************************)
EXTENDS WaitingPage, TLAPS

-----------------------------------------------------------------------------
(* The inductive invariant. *)

Statuses == {"NONE", "WAITING", "PLAYING", "FINISHED", "CANCELLED", "DELETED"}
Room     == [status : Statuses, host : Users \cup {None}, seats : SUBSET Users,
             ai : AiSeats \cup {0}]
Game     == [on : BOOLEAN, players : SUBSET Users, gone : SUBSET Users, ai : AiSeats \cup {0}]
Ops      == {"join", "leave", "start", "delete", "create"}
Request  == [op : Ops \cup {"none"}, room : RoomIds \cup {None},
             ai : AiSeats \cup {0}, step : InHandler \cup {"idle", "done", "failed"},
             copy : Room, other : RoomIds \cup {None}, left : Room]

TypeInv ==
  /\ rooms \in [RoomIds -> Room]
  /\ active \in [Users -> RoomIds \cup {None}]
  /\ games \in [RoomIds -> Game]
  /\ req \in [Users -> Request]

\* Which steps belong to which handler.
Joining  == {"joining", "checked", "vacating", "entering"}
Leaving  == {"vacating", "leaving"}
InItsHandler(q) ==
  \/ q.step = "sent" /\ q.op # "none"
  \/ q.step \in Joining /\ q.op = "join"
  \/ q.step \in Joining \ {"joining"} /\ q.op = "create"
  \/ q.step = "leaving" /\ q.op = "leave"
  \/ q.step = "starting" /\ q.op = "start"
  \/ q.step = "deleting" /\ q.op = "delete"

\* What a handler has found in its copies.
Sound(q, u) ==
  q.step \in InHandler =>
    /\ InItsHandler(q)
    /\ q.op # "create" => q.room \in RoomIds
    /\ q.step \in Joining /\ q.op = "join" => q.copy.status = "WAITING"
    /\ q.step \in {"checked", "vacating"} => q.other \in RoomIds
    /\ q.step = "vacating" => MayLeave(q.left, u)
    /\ q.step = "leaving"  => MayLeave(q.copy, u)
    /\ q.step = "starting" => q.copy.host = u /\ q.copy.status = "WAITING"

HandlerInv == \A u \in Users : Sound(req[u], u)

Sits(v, r) == Live(r) /\ v \in rooms[r].seats

\* A seat that some LeaveRoom is about to empty, and one that lasts.
Left(v, r) == \E u \in Users : Leaves(u, r) /\ v \in Released(rooms[r], u)
Held(v, r) == Sits(v, r) /\ ~Left(v, r)

\* Who is about to sit down is mapped to no room that is alive, who leaves one
\* is mapped to none, and a host who leaves has not started the game.
DoorInv ==
  \A u \in Users :
    /\ req[u].step = "entering" => active[u] = None \/ ~Live(active[u])
    /\ req[u].step \in Leaving => active[u] = None
    /\ \A r \in RoomIds :
          Leaves(u, r) /\ rooms[r].host = u => rooms[r].status # "PLAYING"

SeatMapped ==
  \A v \in Users : ~HasForfeited(v) =>
    \A r \in RoomIds : Held(v, r) => active[v] = r

MappedSits ==
  \A v \in Users, r \in RoomIds : active[v] = r =>
    /\ rooms[r].status # "NONE"
    /\ rooms[r].status = "WAITING" => v \in rooms[r].seats
    /\ rooms[r].status = "PLAYING" => v \in StillIn(games[r])

GamesFit ==
  \A r \in RoomIds :
    /\ rooms[r].status = "PLAYING" => games[r].on
    /\ games[r].on => rooms[r].status \in {"PLAYING", "DELETED"}
    /\ rooms[r].status \in {"NONE", "WAITING", "CANCELLED"} => games[r] = NoGame

SeatsInv == SeatMapped /\ MappedSits /\ GamesFit

RoomsInv == TypeInv /\ HandlerInv /\ DoorInv /\ SeatsInv

LEMMA RoomsInit == Init => RoomsInv
<1> SUFFICES ASSUME Init  PROVE RoomsInv
  OBVIOUS
<1>1. TypeInv
  BY DEF Init, TypeInv, NoRoom, NoGame, Idle, Room, Game, Request, Statuses
<1>2. \A u \in Users : req[u].step = "idle"
  BY DEF Init, Idle
<1>3. HandlerInv /\ DoorInv
  BY <1>2 DEF HandlerInv, Sound, DoorInv, Leaves, Leaving, InHandler
<1>4. SeatsInv
  BY NoneAssumption
  DEF Init, SeatsInv, SeatMapped, MappedSits, GamesFit, Held, Sits, Live, NoRoom, NoGame
<1> QED  BY <1>1, <1>3, <1>4 DEF RoomsInv

-----------------------------------------------------------------------------
(* Steps that leave the rooms alone. *)

LEMMA AnsweredRequest ==
  ASSUME TypeInv, NEW u \in Users, NEW step \in {"done", "failed"}, NEW r \in RoomIds \cup {None},
         Answer(u, step, r)
  PROVE  /\ req' \in [Users -> Request] /\ req'[u].step \in {"idle", step}
         /\ \A v \in Users \ {u} : req'[v] = req[v]
BY DEF TypeInv, Answer, Idle, NoRoom, Request, Room, Statuses

\* Nobody's place in a handler changes but u's.
LEMMA OthersStay ==
  ASSUME HandlerInv, NEW u \in Users, \A v \in Users \ {u} : req'[v] = req[v],
         Sound(req'[u], u)
  PROVE  HandlerInv'
<1> SUFFICES ASSUME NEW v \in Users  PROVE Sound(req'[v], v)
  BY DEF HandlerInv, Sound, InItsHandler, MayLeave
<1> QED  BY DEF HandlerInv

\* A request that goes on, or is answered, without leaving a room.
LEMMA GoesOn ==
  ASSUME RoomsInv, NEW u \in Users, UNCHANGED <<rooms, active, games>>,
         req' \in [Users -> Request], \A v \in Users \ {u} : req'[v] = req[v],
         req[u].step \notin Leaving, req'[u].step \notin Leaving, Sound(req'[u], u),
         req'[u].step = "entering" => active[u] = None \/ ~Live(active[u])
  PROVE  RoomsInv'
<1>1. \A v \in Users, r \in RoomIds : Leaves(v, r)' <=> Leaves(v, r)
  BY DEF Leaves, Leaving
<1>2. TypeInv'  BY DEF RoomsInv, TypeInv
<1>3. HandlerInv'  BY OthersStay DEF RoomsInv
<1>4. DoorInv'
  BY <1>1 DEF RoomsInv, DoorInv, Live
<1>5. SeatsInv'
  BY <1>1 DEF RoomsInv, SeatsInv, SeatMapped, MappedSits, GamesFit, HasForfeited, Held, Left, Sits, Live
<1> QED  BY <1>2, <1>3, <1>4, <1>5 DEF RoomsInv

LEMMA AnsweredKeeps ==
  ASSUME RoomsInv, NEW u \in Users, req[u].step \notin Leaving,
         NEW step \in {"done", "failed"}, Answer(u, step, req[u].room),
         UNCHANGED <<rooms, active, games>>
  PROVE  RoomsInv'
<1>1. req[u].room \in RoomIds \cup {None}  BY DEF RoomsInv, TypeInv, Request
<1>2. /\ req' \in [Users -> Request] /\ req'[u].step \in {"idle", step}
      /\ \A v \in Users \ {u} : req'[v] = req[v]
  BY <1>1, AnsweredRequest DEF RoomsInv
<1> QED  BY <1>2, GoesOn DEF Leaving, Sound, InHandler

LEMMA AnswerReadKeeps ==
  ASSUME RoomsInv, NEW u \in Users, AnswerRead(u)
  PROVE  RoomsInv'
<1>1. /\ req' = [req EXCEPT ![u] = Idle] /\ UNCHANGED server
      /\ req[u].step \in {"done", "failed"}
  BY DEF AnswerRead, Answered
<1>2. req' \in [Users -> Request] /\ req'[u].step = "idle"
  BY <1>1 DEF RoomsInv, TypeInv, Idle, NoRoom, Request, Room, Statuses
<1>3. \A v \in Users \ {u} : req'[v] = req[v]  BY <1>1 DEF RoomsInv, TypeInv
<1> QED  BY <1>1, <1>2, <1>3, GoesOn DEF Leaving, Sound, InHandler, server

LEMMA SendKeeps ==
  ASSUME RoomsInv, NEW u \in Users, NEW op \in Ops,
         NEW r \in RoomIds \cup {None}, op # "create" => r \in RoomIds,
         NEW ai \in AiSeats \cup {0}, Send(u, op, r, ai)
  PROVE  RoomsInv'
<1>1. /\ UNCHANGED server /\ req[u].step = "idle"
      /\ req' = [req EXCEPT ![u] = [Idle EXCEPT !.op = op, !.room = r, !.ai = ai,
                                                !.step = "sent"]]
  BY DEF Send
<1>2. /\ req' \in [Users -> Request] /\ req'[u].step = "sent" /\ req'[u].op = op
      /\ req'[u].room = r /\ \A v \in Users \ {u} : req'[v] = req[v]
  BY <1>1 DEF RoomsInv, TypeInv, Idle, NoRoom, Request, Room, Statuses, InHandler, Ops
<1>3. Sound(req'[u], u)  BY <1>2 DEF Sound, InItsHandler, Ops, Joining
<1> QED  BY <1>1, <1>2, <1>3, GoesOn DEF Leaving, server

-----------------------------------------------------------------------------
(* The steps of a handler. *)

LEMMA JoinLoadsKeeps ==
  ASSUME RoomsInv, NEW u \in Users, JoinLoads(u)
  PROVE  RoomsInv'
<1> DEFINE room == rooms[req[u].room]
<1>1. /\ req[u].op = "join" /\ req[u].step = "sent" /\ UNCHANGED server /\ TypeInv
      /\ req[u].room \in RoomIds
  BY DEF JoinLoads, RoomsInv, HandlerInv, Sound, InHandler
<1>2. CASE room.status = "WAITING" /\ u \notin room.seats
  <2>1. req' = [req EXCEPT ![u].copy = room, ![u].step = "joining"]
    BY <1>2 DEF JoinLoads
  <2>2. room \in Room  BY <1>1 DEF TypeInv
  <2>3. /\ req' \in [Users -> Request] /\ req'[u].step = "joining" /\ req'[u].copy = room
        /\ req'[u].op = "join" /\ req'[u].room = req[u].room
        /\ \A v \in Users \ {u} : req'[v] = req[v]
    BY <1>1, <2>1, <2>2 DEF TypeInv, Request, InHandler
  <2>4. Sound(req'[u], u)
    BY <1>1, <1>2, <2>3 DEF Sound, InItsHandler, Joining
  <2> QED  BY <1>1, <2>3, <2>4, GoesOn DEF Leaving, server
<1>3. CASE ~(room.status = "WAITING" /\ u \notin room.seats)
  BY <1>1, <1>3, AnsweredKeeps DEF JoinLoads, Failed, Leaving, server
<1> QED  BY <1>2, <1>3

LEMMA CheckDuplicateKeeps ==
  ASSUME RoomsInv, NEW u \in Users, CheckDuplicate(u)
  PROVE  RoomsInv'
<1> DEFINE r == active[u]
<1>1. /\ UNCHANGED server /\ TypeInv /\ req[u].step \in {"joining", "sent"}
      /\ req[u].step = "sent" => req[u].op = "create"
      /\ Sound(req[u], u)
  BY DEF CheckDuplicate, AtDuplicateCheck, RoomsInv, HandlerInv
<1>2. CASE (r # None => ~Live(r)) /\ Goto(u, "entering")
  <2>1. /\ req' \in [Users -> Request] /\ req'[u].step = "entering"
        /\ req'[u].copy = req[u].copy /\ req'[u].op = req[u].op /\ req'[u].room = req[u].room
        /\ \A v \in Users \ {u} : req'[v] = req[v]
    BY <1>1, <1>2 DEF Goto, TypeInv, Request, InHandler
  <2>2. Sound(req'[u], u)
    BY <1>1, <2>1 DEF Sound, InItsHandler, InHandler, Joining
  <2> QED  BY <1>1, <1>2, <2>1, <2>2, GoesOn DEF Leaving, server
<1>3. CASE Failed(u)
  BY <1>1, <1>3, AnsweredKeeps DEF Failed, Leaving, server
<1>4. CASE /\ r # None /\ rooms[r].status = "WAITING"
           /\ req' = [req EXCEPT ![u].step = "checked", ![u].other = r]
  <2>1. r \in RoomIds  BY <1>1, <1>4 DEF TypeInv
  <2>2. /\ req' \in [Users -> Request] /\ req'[u].step = "checked" /\ req'[u].other = r
        /\ req'[u].copy = req[u].copy /\ req'[u].op = req[u].op /\ req'[u].room = req[u].room
        /\ \A v \in Users \ {u} : req'[v] = req[v]
    BY <1>1, <1>4, <2>1 DEF TypeInv, Request, InHandler
  <2>3. Sound(req'[u], u)
    BY <1>1, <2>1, <2>2 DEF Sound, InItsHandler, InHandler, Joining
  <2> QED  BY <1>1, <2>2, <2>3, GoesOn DEF Leaving, server
<1> QED  BY <1>2, <1>3, <1>4 DEF CheckDuplicate

\* Who sits down is mapped to the room, and sits nowhere else for long.
LEMMA SeatedKeeps ==
  ASSUME RoomsInv, NEW u \in Users, req[u].step = "entering", NEW r \in RoomIds, NEW room \in Room,
         rooms[r].status \in {"NONE", "WAITING"}, room.status = "WAITING",
         rooms[r].status = "WAITING" => room.host = rooms[r].host,
         u \in room.seats, \A v \in Users \ {u} : v \in room.seats <=> Sits(v, r),
         rooms' = [rooms EXCEPT ![r] = room], active' = [active EXCEPT ![u] = r], UNCHANGED games,
         req' \in [Users -> Request], req'[u].step \in {"idle", "done"},
         \A v \in Users \ {u} : req'[v] = req[v]
  PROVE  RoomsInv'
<1>1. TypeInv'  BY DEF RoomsInv, TypeInv
<1>2. HandlerInv'  BY OthersStay DEF RoomsInv, Sound, InHandler
<1>3. /\ \A q \in RoomIds \ {r} : rooms'[q] = rooms[q]
      /\ rooms'[r] = room /\ active'[u] = r
      /\ \A v \in Users \ {u} : active'[v] = active[v]
  BY DEF RoomsInv, TypeInv
<1>4. \A v \in Users : HasForfeited(v)' <=> HasForfeited(v)  BY DEF HasForfeited
<1>5. /\ \A q \in RoomIds : ~Leaves(u, q) /\ ~Leaves(u, q)'
      /\ \A v \in Users \ {u}, q \in RoomIds : Leaves(v, q)' <=> Leaves(v, q)
  BY DEF Leaves
<1>6. \A v \in Users : active[v] = r => rooms[r].status = "WAITING"
  BY DEF RoomsInv, SeatsInv, MappedSits
<1>7. DoorInv'
  <2> SUFFICES ASSUME NEW v \in Users \ {u}
               PROVE  /\ req[v].step = "entering" => active[v] = None \/ ~Live(active[v])'
                      /\ req[v].step \in Leaving => active[v] = None
                      /\ \A q \in RoomIds :
                           Leaves(v, q) /\ rooms'[q].host = v => rooms'[q].status # "PLAYING"
    BY <1>3, <1>5 DEF DoorInv, Leaving
  <2>1. active[v] \in RoomIds \cup {None}  BY DEF RoomsInv, TypeInv
  <2> QED  BY <1>3, <1>6, <2>1 DEF RoomsInv, DoorInv, Live
<1>8. SeatMapped'
  <2> SUFFICES ASSUME NEW v \in Users, ~HasForfeited(v), NEW q \in RoomIds, Held(v, q)'
               PROVE  active'[v] = q
    BY <1>4 DEF SeatMapped
  <2>1. CASE v = u /\ q = r  BY <1>3, <2>1
  <2>2. CASE v # u \/ q # r
    <3>1. Sits(v, q)  BY <1>3, <2>2 DEF Held, Sits, Live
    <3>2. ~Left(v, q)
      <4> SUFFICES ASSUME NEW w \in Users, Leaves(w, q), v \in Released(rooms[q], w)
                   PROVE  Left(v, q)'
        BY DEF Held, Left
      <4>1. Leaves(w, q)'  BY <1>5
      <4>2. v \in Released(rooms'[q], w)
        BY <1>3, <2>2, <3>1 DEF Released, Sits, Live
      <4> QED  BY <4>1, <4>2 DEF Left
    <3>3. active[v] = q  BY <3>1, <3>2 DEF RoomsInv, SeatsInv, SeatMapped, Held
    <3>4. v # u
      BY <3>1, <3>3, NoneAssumption DEF RoomsInv, DoorInv, Sits
    <3> QED  BY <1>3, <3>3, <3>4
  <2> QED  BY <2>1, <2>2
<1>9. MappedSits'
  <2>1. \A v \in Users \ {u} : active[v] = r => v \in room.seats
    BY <1>6 DEF RoomsInv, SeatsInv, MappedSits, Sits, Live
  <2> QED
    BY <1>3, <2>1, NoneAssumption DEF RoomsInv, SeatsInv, MappedSits, StillIn
<1>10. GamesFit'  BY <1>3 DEF RoomsInv, SeatsInv, GamesFit
<1> QED  BY <1>1, <1>2, <1>7, <1>8, <1>9, <1>10 DEF RoomsInv, SeatsInv

LEMMA JoinSavesKeeps ==
  ASSUME RoomsInv, NEW u \in Users, JoinSaves(u), ~raced'
  PROVE  RoomsInv'
<1> DEFINE copy == req[u].copy
           r == req[u].room
<1>1. /\ req[u].op = "join" /\ req[u].step = "entering" /\ UNCHANGED games /\ TypeInv
      /\ r \in RoomIds /\ copy.status = "WAITING"
  BY DEF JoinSaves, RoomsInv, HandlerInv, Sound, InHandler, Joining
<1>2. CASE Filled(copy) < Capacity
  <2> DEFINE room == [copy EXCEPT !.seats = @ \cup {u}]
  <2>1. /\ SaveRoom(r, copy, room) /\ active' = [active EXCEPT ![u] = r] /\ Done(u)
    BY <1>2 DEF JoinSaves
  <2>2. copy = rooms[r] /\ rooms' = [rooms EXCEPT ![r] = room]
    BY <2>1 DEF SaveRoom
  <2>3. copy \in Room  BY <1>1, <2>2 DEF TypeInv
  <2>4. /\ room \in Room /\ room.status = "WAITING" /\ u \in room.seats /\ room.host = rooms[r].host
        /\ \A v \in Users \ {u} : v \in room.seats <=> Sits(v, r)
    BY <1>1, <2>2, <2>3 DEF Room, Sits, Live
  <2>5. /\ req' \in [Users -> Request] /\ req'[u].step \in {"idle", "done"}
        /\ \A v \in Users \ {u} : req'[v] = req[v]
    BY <1>1, <2>1, AnsweredRequest DEF Done
  <2> HIDE DEF room, copy, r
  <2> QED  BY <1>1, <2>1, <2>2, <2>4, <2>5, SeatedKeeps
<1>3. CASE ~(Filled(copy) < Capacity)
  BY <1>1, <1>3, AnsweredKeeps DEF JoinSaves, Failed, Leaving
<1> QED  BY <1>2, <1>3

LEMMA CreateSavesKeeps ==
  ASSUME RoomsInv, NEW u \in Users, CreateSaves(u)
  PROVE  RoomsInv'
<1>1. PICK r \in RoomIds :
        /\ rooms[r] = NoRoom
        /\ rooms' = [rooms EXCEPT ![r] = [status |-> "WAITING", host |-> u, seats |-> {u},
                                          ai |-> req[u].ai]]
        /\ active' = [active EXCEPT ![u] = r]
        /\ Answer(u, "done", r)
  BY DEF CreateSaves
<1>2. req[u].step = "entering" /\ UNCHANGED games /\ TypeInv
  BY DEF CreateSaves, RoomsInv
<1> DEFINE room == [status |-> "WAITING", host |-> u, seats |-> {u}, ai |-> req[u].ai]
<1>3. room \in Room  BY <1>2 DEF TypeInv, Request, Room, Statuses
<1>4. /\ rooms[r].status = "NONE" /\ room.status = "WAITING" /\ u \in room.seats
      /\ \A v \in Users \ {u} : v \in room.seats <=> Sits(v, r)
  BY <1>1 DEF NoRoom, Sits, Live
<1>5. /\ req' \in [Users -> Request] /\ req'[u].step \in {"idle", "done"}
      /\ \A v \in Users \ {u} : req'[v] = req[v]
  BY <1>1, <1>2, AnsweredRequest
<1>6. rooms' = [rooms EXCEPT ![r] = room]  BY <1>1
<1> HIDE DEF room
<1> QED  BY <1>1, <1>2, <1>3, <1>4, <1>5, <1>6, SeatedKeeps

(***************************************************************************)
(* Leaving a room: the mapping is cleared first, the room is saved later.  *)
(***************************************************************************)
LEMMA LoadedToLeave ==
  ASSUME RoomsInv, NEW u \in Users, req[u].step \notin Leaving, NEW r \in RoomIds,
         MayLeave(rooms[r], u), LoadToLeave(u, r), ~raced', UNCHANGED <<rooms, games>>,
         req' \in [Users -> Request], \A v \in Users \ {u} : req'[v] = req[v],
         req'[u].step \in Leaving, Sound(req'[u], u),
         \A q \in RoomIds : Leaves(u, q)' <=> q = r
  PROVE  RoomsInv'
<1>1. /\ TypeInv /\ \A v \in Users : active'[v] = IF v \in Released(rooms[r], u) THEN None ELSE active[v]
      /\ active' \in [Users -> RoomIds \cup {None}]
      /\ u \in Released(rooms[r], u)
  BY DEF LoadToLeave, Clear, RoomsInv, TypeInv, MayLeave, Released
<1>2. TypeInv'  BY <1>1 DEF TypeInv
<1>3. HandlerInv'  BY OthersStay DEF RoomsInv
<1>4. \A v \in Users : ~Leaves(v, r)  BY DEF LoadToLeave
<1>5. \A v \in Users \ {u}, q \in RoomIds : Leaves(v, q)' <=> Leaves(v, q)
  BY DEF Leaves
<1>6. DoorInv'
  <2>1. req'[u].step # "entering" /\ active'[u] = None  BY <1>1 DEF Leaving
  <2>2. \A q \in RoomIds :
          Leaves(u, q)' /\ rooms'[q].host = u => rooms'[q].status # "PLAYING"
    BY DEF MayLeave
  <2>3. \A v \in Users \ {u} :
          /\ req'[v].step = "entering" => active'[v] = None \/ ~Live(active[v])'
          /\ req'[v].step \in Leaving => active'[v] = None
          /\ \A q \in RoomIds :
                Leaves(v, q)' /\ rooms'[q].host = v => rooms'[q].status # "PLAYING"
    BY <1>1, <1>5 DEF RoomsInv, DoorInv, Live
  <2> QED  BY <2>1, <2>2, <2>3 DEF DoorInv, Live
<1>7. SeatMapped'
  <2> SUFFICES ASSUME NEW v \in Users, ~HasForfeited(v), NEW q \in RoomIds, Held(v, q)'
               PROVE  active'[v] = q
    BY DEF SeatMapped, HasForfeited
  <2>1. Held(v, q)
    <3>1. Sits(v, q)  BY DEF Held, Sits, Live
    <3>2. Left(v, q) => Left(v, q)'
      <4> SUFFICES ASSUME NEW w \in Users, Leaves(w, q), v \in Released(rooms[q], w)
                   PROVE  Left(v, q)'
        BY DEF Left
      <4>1. w # u  BY DEF Leaves, Leaving
      <4>2. Leaves(w, q)' /\ v \in Released(rooms'[q], w)  BY <1>5, <4>1
      <4> QED  BY <4>2 DEF Left
    <3> QED  BY <3>1, <3>2 DEF Held
  <2>2. active[v] = q  BY <2>1 DEF RoomsInv, SeatsInv, SeatMapped
  <2>3. v \notin Released(rooms[r], u)
    <3> SUFFICES ASSUME v \in Released(rooms[r], u)  PROVE FALSE
      OBVIOUS
    <3>1. Sits(v, r)  BY DEF Released, MayLeave, Sits, Live
    <3>2. Held(v, r)  BY <1>4, <3>1 DEF Held, Left
    <3>3. q = r  BY <2>2, <3>2 DEF RoomsInv, SeatsInv, SeatMapped
    <3>4. Left(v, r)'  BY DEF Left
    <3> QED  BY <3>3, <3>4 DEF Held
  <2> QED  BY <1>1, <2>2, <2>3
<1>8. MappedSits' /\ GamesFit'
  BY <1>1, NoneAssumption DEF RoomsInv, SeatsInv, MappedSits, GamesFit
<1> QED  BY <1>2, <1>3, <1>6, <1>7, <1>8 DEF RoomsInv, SeatsInv

LEMMA LeftRoom ==
  ASSUME RoomsInv, NEW u \in Users, NEW r \in RoomIds, Leaves(u, r), MayLeave(rooms[r], u),
         rooms' = [rooms EXCEPT ![r] = After(rooms[r], u)], UNCHANGED <<active, games>>,
         req' \in [Users -> Request], \A v \in Users \ {u} : req'[v] = req[v],
         req'[u].step \notin Leaving, Sound(req'[u], u)
  PROVE  RoomsInv'
<1>1. /\ TypeInv /\ rooms[r] \in Room /\ active[u] = None
      /\ \A q \in RoomIds : Leaves(u, q) => q = r
  BY DEF RoomsInv, TypeInv, DoorInv, Leaves, Leaving
<1>2. /\ rooms' \in [RoomIds -> Room] /\ \A q \in RoomIds \ {r} : rooms'[q] = rooms[q]
      /\ u = rooms[r].host => rooms'[r] = [rooms[r] EXCEPT !.status = "CANCELLED"]
      /\ u # rooms[r].host => rooms'[r] = [rooms[r] EXCEPT !.seats = @ \ {u}]
  BY <1>1 DEF TypeInv, After, Room, Statuses
<1>3. /\ rooms'[r].host = rooms[r].host /\ rooms'[r].status \in {"WAITING", "CANCELLED"}
      /\ rooms'[r].status = "WAITING" => u # rooms[r].host
      /\ rooms'[r].seats = IF u = rooms[r].host THEN rooms[r].seats ELSE rooms[r].seats \ {u}
  BY <1>1, <1>2 DEF Room, MayLeave
<1>4. TypeInv'  BY <1>1, <1>2 DEF TypeInv
<1>5. HandlerInv'  BY OthersStay DEF RoomsInv
<1>6. /\ \A q \in RoomIds : ~Leaves(u, q)'
      /\ \A v \in Users \ {u}, q \in RoomIds : Leaves(v, q)' <=> Leaves(v, q)
  BY DEF Leaves, Leaving
<1>7. \A q \in RoomIds : Live(q)' => Live(q)
  BY <1>2 DEF Live, MayLeave
<1>8. DoorInv'
  <2> SUFFICES ASSUME NEW v \in Users \ {u}
               PROVE  /\ req[v].step = "entering" => active[v] = None \/ ~Live(active[v])'
                      /\ req[v].step \in Leaving => active[v] = None
                      /\ \A q \in RoomIds :
                           Leaves(v, q) /\ rooms'[q].host = v => rooms'[q].status # "PLAYING"
    BY <1>1, <1>6 DEF DoorInv, Live
  <2>1. active[v] \in RoomIds \cup {None}  BY <1>1 DEF TypeInv
  <2> QED  BY <1>2, <1>3, <1>7, <2>1 DEF RoomsInv, DoorInv
<1>9. SeatMapped'
  <2> SUFFICES ASSUME NEW v \in Users, ~HasForfeited(v), NEW q \in RoomIds, Held(v, q)'
               PROVE  active[v] = q
    BY DEF SeatMapped, HasForfeited
  <2>1. Sits(v, q)  BY <1>2, <1>3, <1>7 DEF Held, Sits
  <2>2. ~Left(v, q)
    <3> SUFFICES ASSUME NEW w \in Users, Leaves(w, q), v \in Released(rooms[q], w)
                 PROVE  Left(v, q)'
      BY DEF Held, Left
    <3>1. CASE w = u
      <4>1. q = r  BY <1>1, <3>1
      <4>2. rooms'[r].status = "WAITING"  BY <1>3, <4>1 DEF Held, Sits, Live
      <4>3. v = u /\ v \notin rooms'[r].seats  BY <1>3, <3>1, <4>1, <4>2 DEF Released
      <4> QED  BY <4>1, <4>3 DEF Held, Sits
    <3>2. CASE w # u
      <4>1. Leaves(w, q)'  BY <1>6, <3>2
      <4>2. v \in Released(rooms'[q], w)
        BY <1>2, <1>3 DEF Released, Held, Sits
      <4> QED  BY <4>1, <4>2 DEF Left
    <3> QED  BY <3>1, <3>2
  <2> QED  BY <2>1, <2>2 DEF RoomsInv, SeatsInv, SeatMapped, Held
<1>10. MappedSits'
  <2> SUFFICES ASSUME NEW v \in Users, active[v] = r
               PROVE  /\ rooms'[r].status # "NONE"
                      /\ rooms'[r].status = "WAITING" => v \in rooms'[r].seats
                      /\ rooms'[r].status # "PLAYING"
    BY <1>2 DEF RoomsInv, SeatsInv, MappedSits
  <2>1. v \in rooms[r].seats /\ v # u
    BY <1>1, NoneAssumption DEF RoomsInv, SeatsInv, MappedSits, MayLeave
  <2> QED  BY <1>3, <2>1
<1>11. GamesFit'
  BY <1>2, <1>3 DEF RoomsInv, SeatsInv, GamesFit, MayLeave
<1> QED  BY <1>4, <1>5, <1>8, <1>9, <1>10, <1>11 DEF RoomsInv, SeatsInv

LEMMA VacateLoadsKeeps ==
  ASSUME RoomsInv, NEW u \in Users, VacateLoads(u), ~raced'
  PROVE  RoomsInv'
<1> DEFINE r == req[u].other
           room == rooms[r]
<1>1. /\ req[u].step = "checked" /\ UNCHANGED <<rooms, games>> /\ TypeInv /\ Sound(req[u], u)
      /\ r \in RoomIds /\ MayLeave(room, u) /\ LoadToLeave(u, r)
      /\ req' = [req EXCEPT ![u].step = "vacating", ![u].left = room]
  BY DEF VacateLoads, RoomsInv, HandlerInv, Sound, InHandler
<1>2. room \in Room  BY <1>1 DEF TypeInv
<1>3. /\ req' \in [Users -> Request] /\ req'[u].step = "vacating" /\ req'[u].left = room
      /\ req'[u].other = r
      /\ req'[u].copy = req[u].copy /\ req'[u].op = req[u].op /\ req'[u].room = req[u].room
      /\ \A v \in Users \ {u} : req'[v] = req[v]
  BY <1>1, <1>2 DEF TypeInv, Request, InHandler
<1>4. \A q \in RoomIds : Leaves(u, q)' <=> q = r  BY <1>3 DEF Leaves
<1>5. Sound(req'[u], u)
  BY <1>1, <1>3 DEF Sound, InItsHandler, InHandler, Joining
<1> HIDE DEF r
<1> QED  BY <1>1, <1>3, <1>4, <1>5, LoadedToLeave DEF Leaving

LEMMA VacateSavesKeeps ==
  ASSUME RoomsInv, NEW u \in Users, VacateSaves(u), ~raced'
  PROVE  RoomsInv'
<1> DEFINE r == req[u].other
<1>1. /\ req[u].step = "vacating" /\ UNCHANGED <<active, games>> /\ TypeInv /\ Sound(req[u], u)
      /\ r \in RoomIds /\ MayLeave(req[u].left, u) /\ Leaves(u, r)
      /\ SaveRoom(r, req[u].left, After(req[u].left, u)) /\ Goto(u, "entering")
  BY DEF VacateSaves, RoomsInv, HandlerInv, Sound, InHandler, Leaves
<1>2. req[u].left = rooms[r] /\ rooms' = [rooms EXCEPT ![r] = After(rooms[r], u)]
  BY <1>1 DEF SaveRoom
<1>3. /\ req' \in [Users -> Request] /\ req'[u].step = "entering"
      /\ req'[u].copy = req[u].copy /\ req'[u].op = req[u].op /\ req'[u].room = req[u].room
      /\ \A v \in Users \ {u} : req'[v] = req[v]
  BY <1>1 DEF Goto, TypeInv, Request, InHandler
<1>4. Sound(req'[u], u)
  BY <1>1, <1>3 DEF Sound, InItsHandler, InHandler, Joining
<1> HIDE DEF r
<1> QED  BY <1>1, <1>2, <1>3, <1>4, LeftRoom DEF Leaving

LEMMA LeaveLoadsKeeps ==
  ASSUME RoomsInv, NEW u \in Users, LeaveLoads(u), ~raced'
  PROVE  RoomsInv'
<1> DEFINE r == req[u].room
           room == rooms[r]
<1>1. /\ req[u].op = "leave" /\ req[u].step = "sent" /\ UNCHANGED <<rooms, games>> /\ TypeInv
      /\ r \in RoomIds /\ room \in Room
  BY DEF LeaveLoads, RoomsInv, HandlerInv, Sound, InHandler, TypeInv
<1>2. CASE MayLeave(room, u)
  <2>1. LoadToLeave(u, r) /\ req' = [req EXCEPT ![u].step = "leaving", ![u].copy = room]
    BY <1>2 DEF LeaveLoads
  <2>2. /\ req' \in [Users -> Request] /\ req'[u].step = "leaving" /\ req'[u].copy = room
        /\ req'[u].op = "leave" /\ req'[u].room = r
        /\ \A v \in Users \ {u} : req'[v] = req[v]
    BY <1>1, <2>1 DEF TypeInv, Request, InHandler
  <2>3. \A q \in RoomIds : Leaves(u, q)' <=> q = r  BY <2>2 DEF Leaves
  <2>4. Sound(req'[u], u)
    BY <1>1, <1>2, <2>2 DEF Sound, InItsHandler, InHandler, Joining
  <2> HIDE DEF r
  <2> QED  BY <1>1, <1>2, <2>1, <2>2, <2>3, <2>4, LoadedToLeave DEF Leaving
<1>3. CASE ~MayLeave(room, u)
  BY <1>1, <1>3, AnsweredKeeps DEF LeaveLoads, Failed, Leaving
<1> QED  BY <1>2, <1>3

LEMMA LeaveSavesKeeps ==
  ASSUME RoomsInv, NEW u \in Users, LeaveSaves(u), ~raced'
  PROVE  RoomsInv'
<1> DEFINE r == req[u].room
<1>1. /\ req[u].step = "leaving" /\ UNCHANGED <<active, games>> /\ TypeInv
      /\ r \in RoomIds /\ MayLeave(req[u].copy, u) /\ Leaves(u, r)
      /\ SaveRoom(r, req[u].copy, After(req[u].copy, u)) /\ Done(u)
  BY DEF LeaveSaves, RoomsInv, HandlerInv, Sound, InItsHandler, InHandler, Joining, Leaves
<1>2. req[u].copy = rooms[r] /\ rooms' = [rooms EXCEPT ![r] = After(rooms[r], u)]
  BY <1>1 DEF SaveRoom
<1>3. /\ req' \in [Users -> Request] /\ req'[u].step \in {"idle", "done"}
      /\ \A v \in Users \ {u} : req'[v] = req[v]
  BY <1>1, AnsweredRequest DEF Done
<1> HIDE DEF r
<1> QED  BY <1>1, <1>2, <1>3, LeftRoom DEF Leaving, Sound, InHandler

(***************************************************************************)
(* Starting a game, and deleting a room.                                   *)
(***************************************************************************)
LEMMA StartLoadsKeeps ==
  ASSUME RoomsInv, NEW u \in Users, StartLoads(u)
  PROVE  RoomsInv'
<1> DEFINE room == rooms[req[u].room]
<1>1. /\ req[u].op = "start" /\ req[u].step = "sent" /\ UNCHANGED server /\ TypeInv
      /\ req[u].room \in RoomIds
  BY DEF StartLoads, RoomsInv, HandlerInv, Sound, InHandler
<1>2. CASE MayStart(room, u)
  <2>1. req' = [req EXCEPT ![u].step = "starting", ![u].copy = room]
    BY <1>2 DEF StartLoads
  <2>2. room \in Room  BY <1>1 DEF TypeInv
  <2>3. /\ req' \in [Users -> Request] /\ req'[u].step = "starting" /\ req'[u].copy = room
        /\ req'[u].op = "start" /\ req'[u].room = req[u].room
        /\ \A v \in Users \ {u} : req'[v] = req[v]
    BY <1>1, <2>1, <2>2 DEF TypeInv, Request, InHandler
  <2>4. Sound(req'[u], u)
    BY <1>1, <1>2, <2>3 DEF Sound, InItsHandler, Joining, MayStart
  <2> QED  BY <1>1, <2>3, <2>4, GoesOn DEF Leaving, server
<1>3. CASE ~MayStart(room, u)
  BY <1>1, <1>3, AnsweredKeeps DEF StartLoads, Failed, Leaving, server
<1> QED  BY <1>2, <1>3

LEMMA StartSavesKeeps ==
  ASSUME RoomsInv, NEW u \in Users, StartSaves(u), ~raced'
  PROVE  RoomsInv'
<1> DEFINE r == req[u].room
           copy == req[u].copy
           game == [on |-> TRUE, players |-> copy.seats, gone |-> {}, ai |-> copy.ai]
<1>1. /\ req[u].step = "starting" /\ UNCHANGED active /\ TypeInv
      /\ r \in RoomIds /\ copy.status = "WAITING" /\ copy.host = u
      /\ SaveRoom(r, copy, [copy EXCEPT !.status = "PLAYING"])
      /\ games' = [games EXCEPT ![r] = game]
      /\ Done(u)
  BY DEF StartSaves, RoomsInv, HandlerInv, Sound, InItsHandler, InHandler, Joining
<1>2. copy = rooms[r] /\ rooms' = [rooms EXCEPT ![r] = [copy EXCEPT !.status = "PLAYING"]]
  BY <1>1 DEF SaveRoom
<1>3. copy \in Room  BY <1>1, <1>2 DEF TypeInv
<1>4. /\ [copy EXCEPT !.status = "PLAYING"] \in Room /\ game \in Game
      /\ [copy EXCEPT !.status = "PLAYING"].seats = copy.seats
      /\ [copy EXCEPT !.status = "PLAYING"].host = copy.host
      /\ [copy EXCEPT !.status = "PLAYING"].status = "PLAYING"
  BY <1>3 DEF Room, Game, Statuses
<1>5. /\ req' \in [Users -> Request] /\ req'[u].step \in {"idle", "done"}
      /\ \A v \in Users \ {u} : req'[v] = req[v]
  BY <1>1, AnsweredRequest DEF Done
<1>6. TypeInv'  BY <1>1, <1>2, <1>4, <1>5 DEF TypeInv
<1>7. HandlerInv'  BY <1>5, OthersStay DEF RoomsInv, Sound, InHandler
<1>8. /\ \A q \in RoomIds \ {r} : rooms'[q] = rooms[q] /\ games'[q] = games[q]
      /\ rooms'[r].seats = rooms[r].seats /\ rooms'[r].status = "PLAYING"
      /\ rooms'[r].host = rooms[r].host /\ rooms[r].host = u
      /\ games'[r] = game
  BY <1>1, <1>2, <1>4 DEF TypeInv
<1>9. games[r].gone = {}  BY <1>1, <1>2 DEF RoomsInv, SeatsInv, GamesFit, NoGame
<1>10. /\ \A v \in Users : HasForfeited(v)' <=> HasForfeited(v)
       /\ \A q \in RoomIds : Live(q)' <=> Live(q)
       /\ \A v \in Users, q \in RoomIds : Leaves(v, q)' <=> Leaves(v, q)
       /\ \A q \in RoomIds : ~Leaves(u, q)
  <2>1. \A v \in Users : HasForfeited(v)' <=> HasForfeited(v)
    BY <1>1, <1>8, <1>9 DEF HasForfeited
  <2> QED  BY <1>1, <1>2, <1>5, <1>8, <2>1 DEF Live, Leaves
<1>11. \A v \in Users, q \in RoomIds : Held(v, q)' => Held(v, q)
  BY <1>8, <1>10 DEF Held, Left, Sits, Released
<1>12. DoorInv'
  <2>1. \A v \in Users : active[v] \in RoomIds \cup {None}  BY <1>1 DEF TypeInv
  <2> QED  BY <1>1, <1>5, <1>8, <1>10, <2>1 DEF RoomsInv, DoorInv, Leaving
<1>13. SeatMapped'
  BY <1>1, <1>10, <1>11 DEF RoomsInv, SeatsInv, SeatMapped
<1>14. MappedSits'
  <2>1. \A v \in Users : active[v] = r => v \in StillIn(game)
    BY <1>1, <1>2 DEF RoomsInv, SeatsInv, MappedSits, StillIn
  <2> QED  BY <1>1, <1>8, <2>1 DEF RoomsInv, SeatsInv, MappedSits
<1>15. GamesFit'  BY <1>8 DEF RoomsInv, SeatsInv, GamesFit
<1> QED  BY <1>6, <1>7, <1>12, <1>13, <1>14, <1>15 DEF RoomsInv, SeatsInv

LEMMA DeleteLoadsKeeps ==
  ASSUME RoomsInv, NEW u \in Users, DeleteLoads(u)
  PROVE  RoomsInv'
<1>1. /\ req[u].op = "delete" /\ req[u].step = "sent" /\ UNCHANGED server /\ TypeInv
      /\ req[u].room \in RoomIds
  BY DEF DeleteLoads, RoomsInv, HandlerInv, Sound, InHandler
<1>2. CASE Goto(u, "deleting")
  <2>1. /\ req' \in [Users -> Request] /\ req'[u].step = "deleting"
        /\ req'[u].op = "delete" /\ req'[u].room = req[u].room
        /\ \A v \in Users \ {u} : req'[v] = req[v]
    BY <1>1, <1>2 DEF Goto, TypeInv, Request, InHandler
  <2>2. Sound(req'[u], u)  BY <1>1, <2>1 DEF Sound, InItsHandler, Joining
  <2> QED  BY <1>1, <2>1, <2>2, GoesOn DEF Leaving, server
<1>3. CASE Failed(u)
  BY <1>1, <1>3, AnsweredKeeps DEF Failed, Leaving, server
<1> QED  BY <1>2, <1>3 DEF DeleteLoads

\* The mappings to a deleted room and its game stay; nobody sits in it any more.
LEMMA DeleteRemovesKeeps ==
  ASSUME RoomsInv, NEW u \in Users, DeleteRemoves(u)
  PROVE  RoomsInv'
<1> DEFINE r == req[u].room
<1>1. /\ req[u].step = "deleting" /\ UNCHANGED <<active, games>> /\ TypeInv /\ r \in RoomIds
  BY DEF DeleteRemoves, RoomsInv, HandlerInv, Sound, InItsHandler, InHandler, Joining
<1>2. CASE ~Exists(r)
  BY <1>1, <1>2, AnsweredKeeps DEF DeleteRemoves, Failed, Leaving
<1>3. CASE Exists(r)
  <2>1. rooms' = [rooms EXCEPT ![r] = Deleted] /\ Done(u)
    BY <1>3 DEF DeleteRemoves
  <2>2. Deleted \in Room /\ Deleted.status = "DELETED"
    BY DEF Deleted, NoRoom, Room, Statuses
  <2>3. /\ rooms' \in [RoomIds -> Room] /\ rooms'[r].status = "DELETED"
        /\ \A q \in RoomIds \ {r} : rooms'[q] = rooms[q]
    BY <1>1, <2>1, <2>2 DEF TypeInv
  <2>4. /\ req' \in [Users -> Request] /\ req'[u].step \in {"idle", "done"}
        /\ \A v \in Users \ {u} : req'[v] = req[v]
    BY <1>1, <2>1, AnsweredRequest DEF Done
  <2>5. TypeInv'  BY <1>1, <2>3, <2>4 DEF TypeInv
  <2>6. HandlerInv'  BY <2>4, OthersStay DEF RoomsInv, Sound, InHandler
  <2>7. \A v \in Users, q \in RoomIds : Leaves(v, q)' <=> Leaves(v, q)
    BY <1>1, <2>4 DEF Leaves
  <2>8. \A q \in RoomIds : Live(q)' => q # r /\ Live(q)
    BY <2>3 DEF Live
  <2> HIDE DEF r
  <2>9. DoorInv'
    <3>1. \A v \in Users : active[v] \in RoomIds \cup {None}  BY <1>1 DEF TypeInv
    <3> QED  BY <1>1, <2>3, <2>4, <2>7, <2>8, <3>1 DEF RoomsInv, DoorInv, Leaving
  <2>10. \A v \in Users, q \in RoomIds : Held(v, q)' => Held(v, q)
    BY <2>3, <2>7, <2>8 DEF Held, Left, Sits
  <2>11. SeatMapped'
    BY <1>1, <2>10 DEF RoomsInv, SeatsInv, SeatMapped, HasForfeited
  <2>12. MappedSits' /\ GamesFit'
    BY <1>1, <2>3 DEF RoomsInv, SeatsInv, MappedSits, GamesFit
  <2> QED  BY <2>5, <2>6, <2>9, <2>11, <2>12 DEF RoomsInv, SeatsInv
<1> QED  BY <1>2, <1>3

-----------------------------------------------------------------------------
(* The games, which go on while requests are served. *)

\* A game goes on or ends, its room is finished with it unless it is gone; some
\* of the room's users lose their mapping: whoever has forfeited, and when the
\* room is finished whoever sits in it.
LEMMA GameGoesOn ==
  ASSUME RoomsInv, NEW r \in RoomIds, games[r].on, NEW game \in Game,
         games' = [games EXCEPT ![r] = game], games[r].gone \subseteq game.gone,
         rooms' = IF game.on \/ ~Live(r) THEN rooms ELSE [rooms EXCEPT ![r].status = "FINISHED"],
         active' \in [Users -> RoomIds \cup {None}],
         \A v \in Users : active'[v] # active[v] =>
             /\ active'[v] = None
             /\ HasForfeited(v)' \/ (~game.on /\ Live(r) /\ v \in rooms[r].seats),
         game.on => \A v \in Users : active'[v] = r => v \in StillIn(game) \/ ~Live(r),
         UNCHANGED req
  PROVE  RoomsInv'
<1>1. /\ TypeInv /\ SeatsInv /\ rooms[r] \in Room
      /\ rooms[r].status \in {"PLAYING", "DELETED"}
      /\ Live(r) <=> rooms[r].status = "PLAYING"
  BY DEF RoomsInv, TypeInv, SeatsInv, GamesFit, Live
<1>2. /\ \A q \in RoomIds \ {r} : rooms'[q] = rooms[q] /\ games'[q] = games[q]
      /\ games'[r] = game /\ rooms'[r] \in Room /\ rooms'[r].seats = rooms[r].seats
      /\ rooms'[r].host = rooms[r].host
      /\ rooms'[r].status = IF game.on \/ ~Live(r) THEN rooms[r].status ELSE "FINISHED"
  <2>1. [rooms[r] EXCEPT !.status = "FINISHED"] \in Room
    BY <1>1 DEF Room, Statuses
  <2> QED  BY <1>1, <2>1 DEF TypeInv, Room, Statuses
<1>3. TypeInv'  BY <1>1, <1>2 DEF TypeInv
<1>4. HandlerInv'  BY DEF RoomsInv, HandlerInv, Sound, InItsHandler, MayLeave
<1>5. /\ \A v \in Users : HasForfeited(v) => HasForfeited(v)'
      /\ \A q \in RoomIds : Live(q)' => Live(q) /\ (q = r => game.on)
      /\ \A u \in Users, q \in RoomIds : Leaves(u, q)' <=> Leaves(u, q)
      /\ \A v \in Users, q \in RoomIds : Sits(v, q)' => Sits(v, q)
      /\ \A v \in Users, q \in RoomIds : Left(v, q)' <=> Left(v, q)
  <2>1. \A v \in Users : HasForfeited(v) => HasForfeited(v)'
    BY <1>2 DEF HasForfeited
  <2>2. \A q \in RoomIds : Live(q)' => Live(q) /\ (q = r => game.on)
    BY <1>1, <1>2 DEF Live
  <2>3. /\ \A u \in Users, q \in RoomIds : Leaves(u, q)' <=> Leaves(u, q)
        /\ \A q \in RoomIds : rooms'[q].seats = rooms[q].seats /\ rooms'[q].host = rooms[q].host
    BY <1>2 DEF Leaves
  <2> QED  BY <2>1, <2>2, <2>3 DEF Sits, Left, Released
<1>6. DoorInv'
  <2> SUFFICES ASSUME NEW u \in Users
               PROVE  /\ (req[u].step = "entering" => active[u] = None \/ ~Live(active[u]))'
                      /\ req[u].step \in Leaving => active'[u] = None
                      /\ \A q \in RoomIds :
                           Leaves(u, q) /\ rooms'[q].host = u => rooms'[q].status # "PLAYING"
    BY <1>5 DEF DoorInv
  <2>1. active'[u] = None \/ active'[u] = active[u]  OBVIOUS
  <2>2. (req[u].step = "entering" => active[u] = None \/ ~Live(active[u]))'
    <3> SUFFICES ASSUME req[u].step = "entering", active'[u] # None  PROVE ~Live(active[u])'
      OBVIOUS
    <3>1. active'[u] = active[u] /\ active[u] \in RoomIds
      BY <1>1, <2>1 DEF TypeInv
    <3>2. ~Live(active[u])  BY <2>1 DEF RoomsInv, DoorInv
    <3>3. ASSUME NEW q \in RoomIds, q = active[u]  PROVE ~Live(q)'
      BY <1>5, <3>2, <3>3
    <3> QED  BY <3>1, <3>3 DEF Live
  <2>3. req[u].step \in Leaving => active'[u] = None  BY <2>1 DEF RoomsInv, DoorInv
  <2>4. \A q \in RoomIds :
           Leaves(u, q) /\ rooms'[q].host = u => rooms'[q].status # "PLAYING"
    BY <1>1, <1>2 DEF RoomsInv, DoorInv
  <2> QED  BY <2>2, <2>3, <2>4
<1>7. SeatMapped'
  <2> SUFFICES ASSUME NEW v \in Users, ~HasForfeited(v)', NEW q \in RoomIds, Held(v, q)'
               PROVE  active'[v] = q
    BY DEF SeatMapped
  <2>1. Held(v, q) /\ active[v] = q
    BY <1>1, <1>5 DEF Held, SeatsInv, SeatMapped
  <2> SUFFICES ASSUME ~game.on, Live(r), v \in rooms[r].seats  PROVE FALSE
    BY <2>1
  <2>2. Sits(v, r) /\ q # r  BY <1>5 DEF Held, Sits
  <2>3. ~Held(v, r)  BY <1>1, <1>5, <2>1, <2>2 DEF SeatsInv, SeatMapped
  <2>4. PICK u \in Users : Leaves(u, r) /\ v \in Released(rooms[r], u)
    BY <2>2, <2>3 DEF Held, Left
  <2>5. rooms[r].status = "PLAYING"  BY <1>1
  <2>6. rooms[r].host # u  BY <2>4, <2>5 DEF RoomsInv, DoorInv
  <2>7. v = u  BY <2>4, <2>6 DEF Released
  <2>8. active[v] = None  BY <2>4, <2>7 DEF RoomsInv, DoorInv, Leaves, Leaving
  <2> QED  BY <2>1, <2>8, NoneAssumption
<1>8. MappedSits'
  <2> SUFFICES ASSUME NEW v \in Users, NEW q \in RoomIds, active'[v] = q
               PROVE  /\ rooms'[q].status # "NONE"
                      /\ rooms'[q].status = "WAITING" => v \in rooms'[q].seats
                      /\ rooms'[q].status = "PLAYING" => v \in StillIn(games'[q])
    BY DEF MappedSits
  <2>1. active[v] = q  BY NoneAssumption
  <2>2. CASE q = r
    <3>1. rooms'[r].status \in {"PLAYING", "DELETED", "FINISHED"}  BY <1>1, <1>2
    <3>2. rooms'[r].status = "PLAYING" => game.on /\ Live(r)  BY <1>1, <1>2 DEF Live
    <3> QED  BY <1>2, <2>2, <3>1, <3>2
  <2>3. CASE q # r  BY <1>1, <1>2, <2>1, <2>3 DEF SeatsInv, MappedSits
  <2> QED  BY <2>2, <2>3
<1>9. GamesFit'  BY <1>1, <1>2 DEF SeatsInv, GamesFit
<1> QED  BY <1>3, <1>4, <1>6, <1>7, <1>8, <1>9 DEF RoomsInv, SeatsInv

LEMMA GameEndsKeeps ==
  ASSUME RoomsInv, NEW r \in RoomIds, GameEnds(r)
  PROVE  RoomsInv'
<1>1. /\ games[r].on /\ UNCHANGED req /\ TypeInv /\ FinishRoom(r, active)
      /\ games' = [games EXCEPT ![r].on = FALSE]
  BY DEF GameEnds, RoomsInv
<1> DEFINE game == [games[r] EXCEPT !.on = FALSE]
<1>2. game \in Game /\ ~game.on /\ game.gone = games[r].gone
  BY <1>1 DEF TypeInv, Game
<1>3. games' = [games EXCEPT ![r] = game]  BY <1>1
<1>4. /\ rooms' = IF game.on \/ ~Live(r) THEN rooms ELSE [rooms EXCEPT ![r].status = "FINISHED"]
      /\ active' \in [Users -> RoomIds \cup {None}]
      /\ \A v \in Users : active'[v] # active[v] =>
            active'[v] = None /\ Live(r) /\ v \in rooms[r].seats
  BY <1>1, <1>2 DEF FinishRoom, TypeInv
<1> HIDE DEF game
<1> QED  BY <1>1, <1>2, <1>3, <1>4, GameGoesOn

LEMMA ForfeitKeeps ==
  ASSUME RoomsInv, NEW u \in Users, NEW r \in RoomIds, Forfeit(u, r)
  PROVE  RoomsInv'
<1> DEFINE after == [games[r] EXCEPT !.gone = @ \cup {u}]
<1>1. /\ u \in StillIn(games[r]) /\ games[r].on /\ UNCHANGED req /\ TypeInv
      /\ Live(r) => rooms[r].status = "PLAYING"
  BY DEF Forfeit, StillIn, RoomsInv, SeatsInv, GamesFit, Live
<1>2. /\ after \in Game /\ after.on /\ games[r].gone \subseteq after.gone /\ u \in after.gone
      /\ after.players = games[r].players /\ after.gone = games[r].gone \cup {u}
  BY <1>1 DEF TypeInv, Game
<1>3. Freed(u) \in [Users -> RoomIds \cup {None}]
  BY <1>1 DEF TypeInv, Freed
<1>4. \A v \in Users : Freed(u)[v] = IF v = u THEN None ELSE active[v]
  BY <1>1 DEF TypeInv, Freed
<1>5. CASE Cardinality(StillIn(after)) + games[r].ai = 1
  <2> DEFINE game == [after EXCEPT !.on = FALSE]
  <2>1. game \in Game /\ ~game.on /\ game.gone = after.gone
    BY <1>2 DEF Game
  <2>2. games' = [games EXCEPT ![r] = game] /\ FinishRoom(r, Freed(u))
    BY <1>5 DEF Forfeit
  <2>3. HasForfeited(u)'
    <3>1. games'[r] = game  BY <1>1, <2>2 DEF TypeInv
    <3> QED  BY <1>2, <2>1, <3>1 DEF HasForfeited
  <2> HIDE DEF game, after
  <2>4. /\ rooms' = IF game.on \/ ~Live(r) THEN rooms
                    ELSE [rooms EXCEPT ![r].status = "FINISHED"]
        /\ active' \in [Users -> RoomIds \cup {None}]
        /\ \A v \in Users : active'[v] # active[v] =>
              active'[v] = None /\ (v = u \/ (Live(r) /\ v \in rooms[r].seats))
    BY <1>3, <1>4, <2>1, <2>2 DEF FinishRoom
  <2>5. games[r].gone \subseteq game.gone  BY <1>2, <2>1
  <2> QED  BY <1>1, <2>1, <2>2, <2>3, <2>4, <2>5, GameGoesOn
<1>6. CASE ~(Cardinality(StillIn(after)) + games[r].ai = 1)
  <2>1. /\ games' = [games EXCEPT ![r] = after] /\ active' = Freed(u) /\ UNCHANGED rooms
    BY <1>6 DEF Forfeit
  <2>2. HasForfeited(u)'
    <3>1. games'[r] = after  BY <1>1, <2>1 DEF TypeInv
    <3> QED  BY <1>2, <3>1 DEF HasForfeited
  <2>3. \A v \in Users : active'[v] # active[v] => active'[v] = None /\ v = u
    BY <1>4, <2>1
  <2>4. \A v \in Users : active'[v] = r => v \in StillIn(after) \/ ~Live(r)
    <3> SUFFICES ASSUME NEW v \in Users, active'[v] = r, Live(r)  PROVE v \in StillIn(after)
      OBVIOUS
    <3>1. v # u /\ active[v] = r  BY <1>4, <2>1, NoneAssumption
    <3>2. v \in StillIn(games[r])  BY <1>1, <3>1 DEF RoomsInv, SeatsInv, MappedSits
    <3> HIDE DEF after
    <3> QED  BY <1>1, <1>2, <3>1, <3>2 DEF StillIn
  <2> HIDE DEF after
  <2> QED  BY <1>1, <1>2, <1>3, <2>1, <2>2, <2>3, <2>4, GameGoesOn
<1> QED  BY <1>5, <1>6


-----------------------------------------------------------------------------
(* The theorems. *)

LEMMA ServeKeeps ==
  ASSUME RoomsInv, NEW u \in Users, Serve(u), ~raced'
  PROVE  RoomsInv'
BY JoinLoadsKeeps, CheckDuplicateKeeps, VacateLoadsKeeps, VacateSavesKeeps, JoinSavesKeeps,
   CreateSavesKeeps, LeaveLoadsKeeps, LeaveSavesKeeps, StartLoadsKeeps, StartSavesKeeps,
   DeleteLoadsKeeps, DeleteRemovesKeeps
DEF Serve

LEMMA PlayKeeps ==
  ASSUME RoomsInv, Play
  PROVE  RoomsInv'
BY GameEndsKeeps, ForfeitKeeps DEF Play

LEMMA AskKeeps ==
  ASSUME RoomsInv, NEW u \in Users, Ask(u)
  PROVE  RoomsInv'
<1>1. ASSUME NEW r \in RoomIds, NEW op \in {"join", "leave", "start", "delete"},
             Send(u, op, r, 0)
      PROVE  RoomsInv'
  BY <1>1, SendKeeps DEF Ops
<1>2. ASSUME NEW ai \in AiSeats, Send(u, "create", None, ai)
      PROVE  RoomsInv'
  BY <1>2, SendKeeps DEF Ops
<1> QED  BY <1>1, <1>2 DEF Ask

LEMMA UntouchedKeeps == RoomsInv /\ UNCHANGED vars => RoomsInv'
<1> SUFFICES ASSUME RoomsInv, UNCHANGED vars  PROVE RoomsInv'
  OBVIOUS
<1>1. UNCHANGED <<rooms, active, games, req>>  BY DEF vars, server
<1>2. TypeInv' /\ HandlerInv'
  BY <1>1 DEF RoomsInv, TypeInv, HandlerInv, Sound, InItsHandler, MayLeave
<1>3. DoorInv' /\ SeatsInv'
  BY <1>1 DEF RoomsInv, DoorInv, SeatsInv, SeatMapped, MappedSits, GamesFit, HasForfeited,
              Held, Left, Sits, Live, Leaves
<1> QED  BY <1>2, <1>3 DEF RoomsInv

LEMMA RoomsNext ==
  ASSUME RoomsInv, ~raced', [Next]_vars
  PROVE  RoomsInv'
<1>1. CASE Play  BY <1>1, PlayKeeps
<1>2. ASSUME NEW u \in Users, Serve(u) \/ Ask(u) \/ AnswerRead(u)  PROVE RoomsInv'
  BY <1>2, ServeKeeps, AskKeeps, AnswerReadKeeps
<1>3. CASE UNCHANGED vars  BY <1>3, UntouchedKeeps
<1> QED  BY <1>1, <1>2, <1>3 DEF Next

\* What was undone stays undone.
LEMMA RacedStays ==
  ASSUME raced \in BOOLEAN,
         Play \/ (\E u \in Users : Serve(u) \/ Ask(u) \/ AnswerRead(u)) \/ UNCHANGED raced
  PROVE  raced' \in BOOLEAN /\ (raced => raced')
<1>1. CASE UNCHANGED raced  BY <1>1
<1>2. CASE Play  BY <1>1, <1>2 DEF Play, GameEnds, Forfeit
<1>3. ASSUME NEW u \in Users, Ask(u) \/ AnswerRead(u)
      PROVE  UNCHANGED raced
  BY <1>3 DEF Ask, AnswerRead, Send, server
<1>4. ASSUME NEW r, NEW copy, NEW room, SaveRoom(r, copy, room)
      PROVE  raced' \in BOOLEAN /\ (raced => raced')
  BY <1>4 DEF SaveRoom
<1>5. ASSUME NEW u, NEW r, LoadToLeave(u, r)
      PROVE  raced' \in BOOLEAN /\ (raced => raced')
  BY <1>5 DEF LoadToLeave
<1>6. ASSUME NEW u \in Users, Serve(u)
      PROVE  raced' \in BOOLEAN /\ (raced => raced')
  <2>1. CASE \/ JoinLoads(u) \/ CheckDuplicate(u) \/ CreateSaves(u) \/ StartLoads(u)
             \/ DeleteLoads(u) \/ DeleteRemoves(u)
    <3>1. UNCHANGED raced
      BY <2>1 DEF JoinLoads, CheckDuplicate, CreateSaves, StartLoads, DeleteLoads, DeleteRemoves,
                  server
    <3> QED  BY <3>1
  <2>2. CASE VacateLoads(u) \/ LeaveLoads(u)
    BY <1>5, <2>2 DEF VacateLoads, LeaveLoads
  <2>3. CASE JoinSaves(u) \/ VacateSaves(u) \/ LeaveSaves(u) \/ StartSaves(u)
    BY <1>4, <2>3 DEF JoinSaves, VacateSaves, LeaveSaves, StartSaves
  <2> QED  BY <1>6, <2>1, <2>2, <2>3 DEF Serve
<1> QED  BY <1>1, <1>2, <1>3, <1>6

LEMMA MappingFollows == RoomsInv => MappingIsTrue
<1> SUFFICES ASSUME RoomsInv  PROVE OneSeat /\ NobodyIsLockedOut
  BY DEF MappingIsTrue
<1>1. OneSeat
  BY DEF RoomsInv, SeatsInv, SeatMapped, OneSeat, Held, Left, Sits
<1>2. NobodyIsLockedOut
  BY DEF RoomsInv, SeatsInv, MappedSits, NobodyIsLockedOut
<1> QED  BY <1>1, <1>2

Unraced(Inv) == raced \in BOOLEAN /\ (~raced => Inv)

(***************************************************************************)
(* However the requests of the users interleave, the mapping of users to   *)
(* rooms is true until one of them saves a room over another's change or   *)
(* passes over the refusal of its LeaveRoom: who sits in a room that waits  *)
(* or plays is mapped to it, and nobody is mapped to a game they are not   *)
(* in (room_service.go: checkDuplicateRoom, LeaveRoom, FinishRoom,         *)
(* DeleteRoom, ClearActiveRoomForUser).                                    *)
(***************************************************************************)
THEOREM MappingCorrect == Spec => []MappingIsTrue
<1>1. Init => Unraced(RoomsInv)
  BY RoomsInit DEF Unraced, Init
<1>2. Unraced(RoomsInv) /\ [Next]_vars => Unraced(RoomsInv)'
  <2> SUFFICES ASSUME Unraced(RoomsInv), [Next]_vars  PROVE Unraced(RoomsInv)'
    OBVIOUS
  <2>1. raced' \in BOOLEAN /\ (raced => raced')
    BY RacedStays DEF Next, vars, server, Unraced
  <2>2. ~raced' => RoomsInv'  BY <2>1, RoomsNext DEF Unraced
  <2> QED  BY <2>1, <2>2 DEF Unraced
<1>3. Unraced(RoomsInv) => MappingIsTrue
  BY MappingFollows DEF Unraced, MappingIsTrue
<1> QED  BY <1>1, <1>2, <1>3, PTL DEF Spec

-----------------------------------------------------------------------------
(* The same with a browser that loses requests and answers, and asks for   *)
(* what its page shows, which may be another room than its URL's.          *)

Read == [room : RoomIds, playing : BOOLEAN]

\* A request for a room, or for a new one that is there by now.
Served(q) == q.room \in RoomIds /\ q.op # "none"

AnswersFit == \A u \in Users : req[u].step = "done" => Served(req[u])

PageTypes ==
  /\ page.at = "room" => page.room \in RoomIds
  /\ store \in Read \cup {None}
  /\ shown \in RoomIds \cup {None}
  /\ poll \in Read \cup {None}

PageInv == RoomsInv /\ AnswersFit /\ PageTypes

\* What is answered has been asked of a room that is there.
LEMMA OneAnswer ==
  ASSUME RoomsInv, AnswersFit, NEW u \in Users, NEW step \in {"done", "failed"},
         NEW r \in RoomIds \cup {None}, Answer(u, step, r),
         step = "done" => r \in RoomIds /\ req[u].op # "none"
  PROVE  AnswersFit'
<1>1. \A v \in Users \ {u} : req'[v] = req[v]
  BY AnsweredRequest DEF RoomsInv
<1>2. req'[u].step = "done" => Served(req'[u])
  BY DEF Answer, Idle, Served, RoomsInv, TypeInv
<1> QED  BY <1>1, <1>2 DEF AnswersFit, Served

LEMMA NoAnswer ==
  ASSUME RoomsInv, AnswersFit, NEW u \in Users, req'[u].step # "done",
         \A v \in Users \ {u} : req'[v] = req[v]
  PROVE  AnswersFit'
BY DEF AnswersFit, Served

LEMMA ServeAnswers ==
  ASSUME RoomsInv, AnswersFit, NEW u \in Users, Serve(u)
  PROVE  AnswersFit'
<1>1. TypeInv /\ Sound(req[u], u) /\ req[u].room \in RoomIds \cup {None}
  BY DEF RoomsInv, HandlerInv, TypeInv, Request
<1>2. CASE Failed(u)  BY <1>1, <1>2, OneAnswer DEF Failed
<1>3. ASSUME Done(u), req[u].step \in InHandler, req[u].op # "create"  PROVE AnswersFit'
  <2>1. req[u].room \in RoomIds /\ req[u].op # "none"
    BY <1>1, <1>3 DEF Sound, InItsHandler
  <2> QED  BY <1>3, <2>1, OneAnswer DEF Done
<1>4. CASE JoinSaves(u) \/ LeaveSaves(u) \/ StartSaves(u) \/ DeleteRemoves(u)
  <2>1. req[u].step \in InHandler /\ req[u].op # "create"
    BY <1>1, <1>4
    DEF JoinSaves, LeaveSaves, StartSaves, DeleteRemoves, Sound, InItsHandler, InHandler, Joining
  <2>2. Done(u) \/ Failed(u)
    BY <1>4 DEF JoinSaves, LeaveSaves, StartSaves, DeleteRemoves
  <2> QED  BY <1>2, <1>3, <2>1, <2>2
<1>5. CASE CreateSaves(u)
  <2>1. PICK r \in RoomIds : Answer(u, "done", r)  BY <1>5 DEF CreateSaves
  <2>2. req[u].op = "create"  BY <1>5 DEF CreateSaves
  <2> QED  BY <2>1, <2>2, OneAnswer
<1>6. CASE /\ ~Failed(u)
           /\ \/ JoinLoads(u) \/ CheckDuplicate(u) \/ VacateLoads(u) \/ VacateSaves(u)
              \/ LeaveLoads(u) \/ StartLoads(u) \/ DeleteLoads(u)
  <2>1. req'[u].step # "done" /\ \A v \in Users \ {u} : req'[v] = req[v]
    BY <1>1, <1>6
    DEF JoinLoads, CheckDuplicate, VacateLoads, VacateSaves, LeaveLoads, StartLoads, DeleteLoads,
        Goto, TypeInv, Request
  <2> QED  BY <2>1, NoAnswer
<1> QED  BY <1>2, <1>4, <1>5, <1>6 DEF Serve

LEMMA SendAnswers ==
  ASSUME RoomsInv, AnswersFit, NEW u \in Users, NEW op, NEW r, NEW ai, Send(u, op, r, ai)
  PROVE  AnswersFit'
<1>1. req'[u].step # "done" /\ \A v \in Users \ {u} : req'[v] = req[v]
  BY DEF RoomsInv, TypeInv, Send, Idle
<1> QED  BY <1>1, NoAnswer

LEMMA ReadAnswers ==
  ASSUME RoomsInv, AnswersFit, NEW u \in Users, AnswerRead(u)
  PROVE  AnswersFit'
<1>1. req'[u].step # "done" /\ \A v \in Users \ {u} : req'[v] = req[v]
  BY DEF RoomsInv, TypeInv, AnswerRead, Idle
<1> QED  BY <1>1, NoAnswer

LEMMA Opened ==
  ASSUME NEW r \in RoomIds, NEW known \in Read \cup {None}, Open(r, known)
  PROVE  (page'.at = "room" => page'.room \in RoomIds) /\ shown' \in RoomIds \cup {None}
BY DEF Open, Waiting, Playing, Read

\* A browser's request is one that Rooms allows, or fails on its way.
LEMMA BrowseKeeps ==
  ASSUME PageInv, Browse
  PROVE  PageInv'
<1>1. RoomsInv /\ AnswersFit /\ PageTypes /\ TypeInv /\ Me \in Users
  BY MeIsAUser DEF PageInv, RoomsInv
<1>2. ASSUME NEW op \in Ops, NEW r \in RoomIds \cup {None}, op # "create" => r \in RoomIds,
             NEW ai \in AiSeats \cup {0}, Send(Me, op, r, ai), UNCHANGED browser
      PROVE  PageInv'
  <2>1. RoomsInv' /\ AnswersFit'  BY <1>1, <1>2, SendKeeps, SendAnswers
  <2> QED  BY <1>1, <1>2, <2>1 DEF PageInv, PageTypes, browser
<1>3. CASE HandleJoinRoom \/ HandleSubmit
  BY <1>2, <1>3 DEF HandleJoinRoom, HandleSubmit, Ops
<1>4. CASE HandleStartGame \/ HandleLeave
  <2>1. shown \in RoomIds
    BY <1>1, <1>4 DEF PageTypes, HandleStartGame, HandleLeave, ButtonsShown
  <2> QED  BY <1>2, <1>4, <2>1 DEF HandleStartGame, HandleLeave, Ops
<1>5. CASE RequestFails
  <2>1. /\ UNCHANGED <<rooms, active, games>> /\ req[Me].room \in RoomIds \cup {None}
        /\ Answer(Me, "failed", req[Me].room) /\ req[Me].step \notin Leaving
    BY <1>1, <1>5 DEF RequestFails, Failed, server, Leaving, TypeInv, Request
  <2>2. RoomsInv'  BY <1>1, <2>1, AnsweredKeeps
  <2>3. AnswersFit'  BY <1>1, <2>1, OneAnswer
  <2> QED  BY <1>1, <1>5, <2>2, <2>3 DEF PageInv, PageTypes, RequestFails
<1>6. CASE AnswerArrives
  <2>1. AnswerRead(Me) /\ poll' = poll  BY <1>6 DEF AnswerArrives
  <2>2. RoomsInv' /\ AnswersFit'  BY <1>1, <2>1, AnswerReadKeeps, ReadAnswers
  <2>3. req[Me].step = "done" => req[Me].room \in RoomIds
    BY <1>1 DEF AnswersFit, Served
  <2>4. PageTypes'
    <3>1. CASE req[Me].op = "join" /\ req[Me].step = "done"
      BY <1>1, <1>6, <2>1, <2>3, <3>1, Opened DEF AnswerArrives, PageTypes
    <3>2. CASE req[Me].op = "create" /\ req[Me].step = "done"
      <4>1. store' = ReadOf(req[Me].room) /\ Open(req[Me].room, store')
        BY <1>6, <3>2 DEF AnswerArrives
      <4>2. store' \in Read  BY <2>3, <3>2, <4>1 DEF ReadOf, Read
      <4> QED  BY <1>1, <2>1, <2>3, <3>2, <4>1, <4>2, Opened DEF PageTypes
    <3>3. CASE req[Me].op = "start" /\ req[Me].step = "done"
      BY <1>1, <1>6, <3>3 DEF AnswerArrives, PageTypes, Playing
    <3>4. CASE req[Me].op = "leave"
      BY <1>1, <1>6, <3>4 DEF AnswerArrives, PageTypes, Leave, Lobby
    <3>5. CASE /\ req[Me].op # "leave"
               /\ req[Me].step = "done" => req[Me].op \notin {"join", "create", "start"}
      BY <1>1, <1>6, <3>5 DEF AnswerArrives, PageTypes
    <3> QED  BY <3>1, <3>2, <3>3, <3>4, <3>5
  <2> QED  BY <2>2, <2>4 DEF PageInv
<1>7. UNCHANGED vars => RoomsInv' /\ AnswersFit'
  BY <1>1, UntouchedKeeps DEF AnswersFit, Served, vars
<1>8. CASE Visit
  <2>1. PICK r \in RoomIds : Open(r, store)  BY <1>8 DEF Visit
  <2>2. (page'.at = "room" => page'.room \in RoomIds) /\ shown' \in RoomIds \cup {None}
    BY <1>1, <2>1, Opened DEF PageTypes
  <2> QED  BY <1>1, <1>7, <1>8, <2>2 DEF Visit, PageInv, PageTypes
<1>9. CASE GoToLobby
  BY <1>1, <1>7, <1>9 DEF GoToLobby, Leave, Lobby, PageInv, PageTypes
<1>10. CASE Poll
  BY <1>1, <1>7, <1>10 DEF Poll, ReadOf, Read, PageInv, PageTypes
<1>11. CASE PollArrives
  <2>1. UNCHANGED vars /\ poll \in Read /\ store' = poll /\ poll' = None
    BY <1>1, <1>11 DEF PollArrives, PollAnswered, PageTypes
  <2>2. (page'.at = "room" => page'.room \in RoomIds) /\ shown' \in RoomIds \cup {None}
    <3>1. poll.room \in RoomIds  BY <2>1 DEF Read
    <3> QED  BY <1>1, <1>11, <2>1, <3>1, Opened DEF PollArrives, PageTypes
  <2> QED  BY <1>7, <2>1, <2>2 DEF PageInv, PageTypes
<1>12. CASE PollFails
  BY <1>1, <1>7, <1>12 DEF PollFails, PageInv, PageTypes
<1> QED
  BY <1>3, <1>4, <1>5, <1>6, <1>8, <1>9, <1>10, <1>11, <1>12 DEF Browse

LEMMA PageNextKeeps ==
  ASSUME PageInv, ~raced', [PageNext]_pageVars
  PROVE  PageInv'
<1>1. CASE Browse  BY <1>1, BrowseKeeps
<1>2. CASE Others /\ UNCHANGED browser
  <2>1. RoomsInv /\ AnswersFit /\ PageTypes'
    BY <1>2 DEF PageInv, PageTypes, browser
  <2>2. CASE Play
    BY <2>1, <2>2, PlayKeeps DEF PageInv, Play, GameEnds, Forfeit, AnswersFit, Served
  <2>3. ASSUME NEW u \in Users, Serve(u)  PROVE PageInv'
    BY <2>1, <2>3, ServeKeeps, ServeAnswers DEF PageInv
  <2>4. ASSUME NEW u \in Users, Ask(u)  PROVE PageInv'
    <3>1. AnswersFit'  BY <2>1, <2>4, SendAnswers DEF Ask
    <3> QED  BY <2>1, <2>4, <3>1, AskKeeps DEF PageInv
  <2> QED  BY <1>2, <2>2, <2>3, <2>4 DEF Others, OtherAsks
<1>3. CASE UNCHANGED pageVars
  BY <1>3, UntouchedKeeps DEF PageInv, PageTypes, AnswersFit, Served, pageVars, vars, browser
<1> QED  BY <1>1, <1>2, <1>3 DEF PageNext

LEMMA PageRacedStays ==
  ASSUME raced \in BOOLEAN, [PageNext]_pageVars
  PROVE  raced' \in BOOLEAN /\ (raced => raced')
<1>1. CASE Browse
  <2>1. UNCHANGED raced
    BY <1>1
    DEF Browse, HandleJoinRoom, HandleSubmit, HandleStartGame, HandleLeave, RequestFails,
        AnswerArrives, AnswerRead, Visit, GoToLobby, Poll, PollArrives, PollAnswered, PollFails,
        Send, vars, server
  <2> QED  BY <2>1
<1>2. CASE Others
  BY <1>2, RacedStays DEF Others, OtherAsks
<1>3. CASE UNCHANGED pageVars  BY <1>3 DEF pageVars, vars, server
<1> QED  BY <1>1, <1>2, <1>3 DEF PageNext

(***************************************************************************)
(* The mapping stays true when one of the users is a browser: one that     *)
(* sends the requests of the page it shows, loses some of them, or their   *)
(* answers, and learns late of a start (LobbyClient, CreateRoomClient,     *)
(* WaitingRoomClient over room_service.go).                                *)
(***************************************************************************)
THEOREM PageMappingCorrect == PageSpec => []MappingIsTrue
<1>1. PageInit => Unraced(PageInv)
  <2> SUFFICES ASSUME PageInit  PROVE Unraced(PageInv)
    OBVIOUS
  <2>1. RoomsInv /\ raced \in BOOLEAN  BY RoomsInit DEF PageInit, Init
  <2>2. AnswersFit  BY DEF PageInit, Init, Idle, AnswersFit
  <2>3. PageTypes  BY DEF PageInit, Lobby, PageTypes
  <2> QED  BY <2>1, <2>2, <2>3 DEF Unraced, PageInv
<1>2. Unraced(PageInv) /\ [PageNext]_pageVars => Unraced(PageInv)'
  <2> SUFFICES ASSUME Unraced(PageInv), [PageNext]_pageVars  PROVE Unraced(PageInv)'
    OBVIOUS
  <2>1. raced' \in BOOLEAN /\ (raced => raced')  BY PageRacedStays DEF Unraced
  <2>2. ~raced' => PageInv'  BY <2>1, PageNextKeeps DEF Unraced
  <2> QED  BY <2>1, <2>2 DEF Unraced
<1>3. Unraced(PageInv) => MappingIsTrue
  BY MappingFollows DEF Unraced, PageInv, MappingIsTrue
<1> QED  BY <1>1, <1>2, <1>3, PTL DEF PageSpec

=============================================================================
