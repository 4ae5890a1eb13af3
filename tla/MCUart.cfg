CONSTANTS
  InCapacity = 3
  OutCapacity = 3
  OUTBUF_THRESHOLD = 1
  Texts <- MCTexts
  MAX_KEYS = 4
  MAX_TEXTS = 2
SPECIFICATION FairSpec
INVARIANTS
  TypeOK
  OneNotificationInFlight
  LineAnnounced
  RoomAnnounced
  LineBusy
  TextsIntact
PROPERTIES
  LinesRead
  TextsPrinted
CHECK_DEADLOCK FALSE
