CONSTANTS
  null = null
  kcd = kcd
  crt = crt
  u1 = u1
  u2 = u2
  uart = uart
  Procs = {null, kcd, u1, u2, uart}
  IProcs = {uart}
  PID_NULL = null
  PID_KCD = kcd
  PID_CRT = kcd
  PID_UART_IPROC = uart
  PID_NONE = none
  NULL_PRIO = 2
  InitOrder <- MCInitOrder
  InitPriority <- MCInitPriority
  NUM_MEM_BLOCKS = 1
  Delays = {}
  MAX_TICKS = 1
  Receivers = {kcd, u1}
  PriorityCalls <- MCPriorityCalls
SPECIFICATION Spec
INVARIANTS
  TypeOK
  NoProcessLost
  NoMissedWakeup
  WaitsWhereItBlocked
  HighestPriorityRuns
PROPERTIES
  FirstComeFirstServed
  PreemptedByBetter
