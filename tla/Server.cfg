SPECIFICATION ServerSpec
CONSTANTS
  Players = {p1, p2}
  Rooms = {r1}
  Duplicates = {}
  SeatCount = 2
  MaxCalls = 2
  MaxRaced = 1
  Nobody = Nobody
  NoRoom = NoRoom
  Stacks = 12
  Clients = {c1}
  Sockets = {s1, s2, s3}
  Owner <- MCOwner
  NoSocket = NoSocket
  Watchers = {w1, w2}
  Spectators = {v1}
  Who <- MCWho
  Targets = {t1, t2}
  Chairs = {1, 2}
  MaxOutstanding = 1
  MaxRequests = 2
  MaxLookups = 1
  NoOne = NoOne
  Records <- MCRecords
  Squares <- MCSquares
  Written <- MCWritten
  Superior <- MCSuperior
  Asked <- MCAsked
  Sorts <- MCSorts
  Readers = {reader}
  MaxVersion = 3
  Overall = Overall
  NoFilter = NoFilter
INVARIANTS NoSeatWithoutSocket RequestsAnsweredOnce AnswersTrue CacheTrue TotalsAgree
PROPERTIES ImplementsSupply EmptyRoomsGo EvictionKeepsPlayer HandsByConsent DesertedGamesGo
CHECK_DEADLOCK FALSE
