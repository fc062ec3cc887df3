SPECIFICATION RoomsSpec
CONSTANTS
  Players = {p1, p2}
  Rooms = {r1, r2}
  Duplicates = {r2}
  SeatCount = 2
  MaxCalls = 2
  MaxRaced = 1
  Nobody = Nobody
  NoRoom = NoRoom
  Quarter = 3
SYMMETRY AnyPlayer
INVARIANTS RoomShape MapsAgree NoGhostSeat NoMissedStart DrawReturns
PROPERTIES NoEviction ImplementsSupply OwnPartFirst
