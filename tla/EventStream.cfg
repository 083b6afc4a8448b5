SPECIFICATION FairSpec
CONSTANTS
  hereTurn = hereTurn
  elsewhereTurn = elsewhereTurn
  here = here
  elsewhere = elsewhere
  Turn = {hereTurn, elsewhereTurn}
  Session = {here, elsewhere}
  SessionOf <- TurnSessions
  First = here
  NoSocket = NoSocket
  ReplayLimit = 2
  PageLimit = 1
  WireLimit = 1
  MaxSockets = 2
  MaxEvents = 3
  MaxMessages = 1
INVARIANTS
  OneVisibleAnswer
PROPERTIES
  FeedSpec
  EveryEventArrives
CHECK_DEADLOCK FALSE
