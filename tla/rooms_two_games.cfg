CONSTANTS
  Users = {u1}
  Readers = {}
  MaxRooms = 3
  Capacity = 3
  AiSeats = {1, 2}
  None = None
SPECIFICATION Spec
INVARIANT PlaysOneGame
CHECK_DEADLOCK FALSE
