CONSTANTS
  HOURS = 2
  MINUTES = 2
  SECONDS = 2
  PERIOD = 2
  NUM_BLOCKS = 4
  SetTimes <- MCSetTimes
  MAX_COMMANDS = 3
SPECIFICATION FairSpec
PROPERTIES
  Updated
