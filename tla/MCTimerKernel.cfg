CONSTANTS
  null = null
  kcd = kcd
  crt = crt
  u1 = u1
  u2 = u2
  uart = uart
  Procs = {null, kcd, u1, uart}
  IProcs = {uart}
  PID_NULL = null
  PID_KCD = kcd
  PID_CRT = kcd
  PID_UART_IPROC = uart
  PID_NONE = none
  NULL_PRIO = 2
  InitOrder <- MCInitOrder2
  InitPriority <- MCInitPriority2
  NUM_MEM_BLOCKS = 2
  Delays = {1, 2}
  MAX_TICKS = 3
  MAX_MATCHES = 2
  Receivers = {kcd, u1}
  PriorityCalls = {}
SPECIFICATION TimerSpec
INVARIANTS
  TicksAreReal
