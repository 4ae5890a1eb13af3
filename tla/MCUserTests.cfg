CONSTANTS
  Procs = {0, 1, 2, 3, 4, 5, 6, 7, 8, 9, 10, 11, 12, 13, 14, 15}
  IProcs = {14, 15}
  PID_NULL = 0
  PID_P1 = 1
  PID_P2 = 2
  PID_P3 = 3
  PID_P4 = 4
  PID_A = 7
  PID_B = 8
  PID_C = 9
  PID_SET_PRIO = 10
  PID_CLOCK = 11
  PID_KCD = 12
  PID_CRT = 13
  PID_UART_IPROC = 15
  PID_NONE <- MCNone
  MAX_PID = 15
  Spinners = {5, 6}
  NULL_PRIO = 4
  InitOrder <- MCInitOrder
  InitPriority <- MCInitPriority
  StartPoint <- MCStartPoint
  NUM_MEM_BLOCKS = 30
  Delays = {}
  Receivers = {}
  PriorityCalls = {}
  MAX_TICKS = 0
  Lines <- MCNoLines
  PERIOD = 20
  HIBERNATION = 10000
  MAX_NUM = 40
  DELAY = 10
SPECIFICATION UserTestsFairSpec
INVARIANTS
  TestsPass
PROPERTIES
  TestsEnd
