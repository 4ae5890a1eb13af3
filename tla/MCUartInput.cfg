CONSTANTS
  InCapacity = 3
  OutCapacity = 6
  OUTBUF_THRESHOLD = 1
  Texts <- MCTexts
  MAX_KEYS = 4
  MAX_TEXTS = 0
SPECIFICATION Spec
PROPERTIES
  ReturnAnnounced
CHECK_DEADLOCK FALSE
