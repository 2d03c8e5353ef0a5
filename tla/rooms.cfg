CONSTANTS
  Users = {u1, u2}
  Me = u1
  Readers = {u1}
  MaxRooms = 2
  Capacity = 3
  AiSeats = {1}
  MaxLosses = 1
  None = None
SPECIFICATION PageSpec
CONSTRAINT ToExplore
INVARIANT MappingIsTrue
PROPERTY PlayersAreTakenToTheirGame
CHECK_DEADLOCK FALSE
