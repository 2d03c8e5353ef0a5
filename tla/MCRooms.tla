------------------------------ MODULE MCRooms -------------------------------
(***************************************************************************)
(* Rooms and WaitingPage as TLC explores them: until a request undoes what *)
(* another did, and while a room is alive or still to be created.  Past    *)
(* that MappingIsTrue says nothing, and no game begins any more.           *)
(***************************************************************************)
EXTENDS WaitingPage

ToExplore == ~raced /\ \E r \in RoomIds : Live(r) \/ rooms[r] = NoRoom
=============================================================================
