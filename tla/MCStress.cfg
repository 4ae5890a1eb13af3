CONSTANTS
  null = null
  kcd = kcd
  crt = crt
  setprio = setprio
  pid_a = pid_a
  pid_b = pid_b
  pid_c = pid_c
  spin = spin
  uart = uart
  Procs = {null, kcd, crt, setprio, spin, pid_a, pid_b, pid_c, uart}
  IProcs = {uart}
  PID_NULL = null
  PID_KCD = kcd
  PID_CRT = crt
  PID_UART_IPROC = uart
  PID_NONE = none
  PID_SET_PRIO = setprio
  PID_A = pid_a
  PID_B = pid_b
  PID_C = pid_c
  Spinners = {spin}
  NULL_PRIO = 2
  InitOrder <- MCInitOrder
  InitPriority <- MCInitPriority
  StartPoint <- MCStartPoint
  NUM_MEM_BLOCKS = 5
  Delays = {}
  Receivers = {}
  PriorityCalls = {}
  MAX_TICKS = 0
  Lines <- MCLines
  PERIOD = 2
  HIBERNATION = 2
  MAX_NUM = 4
SPECIFICATION StressFairSpec
INVARIANTS
  NoReportLost
  BlocksInUse
  MemoryComesBack
PROPERTIES
  Hibernates
  GoesOn
  CommandsTake
