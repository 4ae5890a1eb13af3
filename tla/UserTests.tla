------------------------------- MODULE UserTests -------------------------------
(***************************************************************************)
(* The test processes of usr_proc.c, proc1 to proc6, over the kernel, with *)
(* all the other processes of the system.  They check the scheduling order *)
(* of processes of equal and of changing priorities, blocking on memory,   *)
(* messages and delayed messages, by naming the state that the test has    *)
(* reached and who must be the next to run.                                *)
(*                                                                         *)
(* A program is a sequence of statements, and stmt[p] the one that p has     *)
(* come to; behind the last one, a process is in infinite_loop.            *)
(*                                                                         *)
(* The tests are those of the build without HAS_TIMESLICING: MAX_YIELDS is *)
(* 0, a process that finds the wrong state fails its test at once.  Nobody *)
(* types: a key makes KCD preempt a test process, which then lines up      *)
(* behind the others, and the order that the tests ask for is gone.        *)
(***************************************************************************)
EXTENDS Stress, SequencesExt

CONSTANTS PID_P1, PID_P2, PID_P3, PID_P4, PID_CLOCK,
          MAX_PID,     \* 15, the largest pid
          DELAY        \* 100 counts, between the messages that proc2 delays

ASSUME UserTestsAssumption == MAX_PID \in Nat /\ DELAY \in Nat \ {0}

VARIABLES stmt,   \* the statement that each test process has come to
          ret,    \* what its last call returned
          from,   \* the sender of the message it has received
          t       \* the global variables of the tests; t.test_mem is the list
                  \* at test_mem_front, whose length is test_mem_blocks

testVars == <<stmt, ret, from, t>>
everything == <<allVars, testVars>>

RTX_OK == 0
RTX_ERR == -1

HIGH == 0
MEDIUM == 1
LOW == 2
LOWEST == 3

\* The 128 bytes on the stack of proc1 that it sends to itself.
stack_buf == NUM_MEM_BLOCKS + 1

-----------------------------------------------------------------------------
(* Statements. *)

transition(was, to) == [op |-> "transition", was |-> was, to |-> to]
expect(name, value) == [op |-> "expect", name |-> name, value |-> value]
expect_same(name, other) == [op |-> "same", name |-> name, other |-> other]
expect_priority(pid, value) == [op |-> "priority", pid |-> pid, value |-> value]
returned(value) == [op |-> "returned", value |-> value]
at_least(name, value) == [op |-> "at_least", name |-> name, value |-> value]
increment(name, by) == [op |-> "increment", name |-> name, by |-> by]
unless_state(state, skip) == [op |-> "unless_state", state |-> state, skip |-> skip]
unless_mem(skip) == [op |-> "unless_mem", skip |-> skip]
back(by) == [op |-> "back", by |-> by]

set_process_priority(pid, prio) == [op |-> "set", pid |-> pid, prio |-> prio]
keep_priority(pid) == [op |-> "keep", pid |-> pid]
release_processor == [op |-> "yield"]
request == [op |-> "request"]
release == [op |-> "release"]
push == [op |-> "push"]
pop == [op |-> "pop"]
receive == [op |-> "receive"]
message(fields) == [op |-> "message", fields |-> fields]
send(pid, mtype, mtext) == [op |-> "send", pid |-> pid, mtype |-> mtype, mtext |-> mtext]
delayed_send(pid, mtype, mtext, delay) ==
  [op |-> "delayed_send", pid |-> pid, mtype |-> mtype, mtext |-> mtext, delay |-> delay]

\* TEST_EXPECT(0, call)
Ok(call) == <<call, returned(RTX_OK)>>
Err(call) == <<call, returned(RTX_ERR)>>

mem_request == <<request, push>>
mem_request_while(state) == <<unless_state(state, 3), request, push, back(3)>>
mem_release == <<pop, release, returned(RTX_OK)>>
mem_release_all ==
  <<unless_mem(5), pop, release, returned(RTX_OK), increment("blocks", 1), back(5)>>

Hi == [str |-> "Hi"]
Number(n) == [num |-> n]

receive_42_from_proc1 ==
  <<receive,
    message([m_send_pid |-> PID_P1, mtype |-> 42, mtext |-> Number(42)]),
    release>>

\* One turn of the loop of test_time_primitives.
time_primitives == <<request, send(PID_P1, DEFAULT, Hi), receive, release>>

-----------------------------------------------------------------------------
(* The programs. *)

proc1 == FlattenSeq(<<
  <<transition("any", "FIFO scheduling")>>,
  FlattenSeq([n \in 1 .. 3 |->
    Ok(release_processor) \o <<expect("proc2_work_remaining", 3 - n),
                               expect("proc3_work_remaining", 3 - n)>>]),
  <<transition("FIFO scheduling", "Equal prio mem blocking")>>,
  mem_request_while("Equal prio mem blocking"),
  <<transition("Equal prio mem unblocked", "Get prio"),
    expect_priority(PID_P1, LOWEST), expect_priority(PID_P2, LOWEST),
    expect_priority(-1, RTX_ERR), expect_priority(MAX_PID + 1, RTX_ERR),
    expect_priority(PID_NULL, NULL_PRIO),
    transition("Get prio", "Set null prio")>>,
  Err(set_process_priority(PID_NULL, -1)),
  Err(set_process_priority(PID_NULL, 0)),
  Err(set_process_priority(PID_NULL, 3)),
  Ok(set_process_priority(PID_NULL, 4)),
  <<transition("Set null prio", "Set user prio (no-op)")>>,
  Err(set_process_priority(PID_P1, -1)),
  Err(set_process_priority(PID_P1, 4)),
  Ok(keep_priority(PID_P1)),
  Ok(keep_priority(PID_P2)),
  <<transition("Set user prio (no-op)", "Set user prio (higher)")>>,
  Ok(set_process_priority(PID_P2, MEDIUM)),
  <<transition("Set user prio (inversion 2)", "Preempt (inversion)")>>,
  Ok(set_process_priority(PID_P2, HIGH)),
  mem_release,
  <<transition("Set user prio (lower)", "Release processor (max prio)")>>,
  Ok(release_processor),
  <<transition("Release processor (max prio)", "Resource contention (1 blocked)")>>,
  mem_request,
  <<transition("Resource contention resolved", "Count blocks")>>,
  mem_release_all,
  <<at_least("blocks", 5),
    transition("Count blocks", "Send self msg"),
    [op |-> "stack_buf"]>>,
  Err(send(-1, DEFAULT, Hi)),
  Ok(delayed_send(PID_P1, DEFAULT, Hi, 0)),
  <<receive, message([m_send_pid |-> PID_P1, msg |-> stack_buf, mtext |-> Hi])>>,
  Ok(send(PID_P1, DEFAULT, Hi)),
  <<receive, message([mtext |-> Hi]),
    transition("Send self msg", "Send other msg"),
    set_process_priority(PID_P2, HIGH),
    set_process_priority(PID_P3, HIGH),
    transition("Send other msg (2 and 3 blocked)", "Recv other msg (2 and 3 blocked)"),
    request>>,
  Ok(send(PID_P2, 42, Number(42))),
  <<request>>,
  Ok(send(PID_P3, 42, Number(42))),
  <<release_processor,
    transition("Send delayed msg", "Recv delayed msg")>>,
  FlattenSeq([n \in 1 .. 3 |->
    <<receive,
      message([m_send_pid |-> PID_P2, mtype |-> 9 + n, mtext |-> Number(n - 1)])>>]),
  \* (The loop that waits for finished_proc follows a test that it is there.)
  <<transition("Recv delayed msg", "Tests done"),
    expect("changed_bytes", 0),
    at_least("finished_proc", 2),
    increment("finished", 1)>>,
  time_primitives, time_primitives, time_primitives>>)

proc2 == FlattenSeq(<<
  FlattenSeq([n \in 1 .. 3 |->
    <<expect_same("proc3_work_remaining", "proc2_work_remaining"),
      increment("proc2_work_remaining", -1)>> \o Ok(release_processor)]),
  <<transition("Equal prio mem blocking", "Equal prio mem unblocking")>>,
  mem_release,
  mem_release,
  <<transition("Equal prio mem unblocking", "Equal prio mem unblocking 2")>>,
  Ok(release_processor),
  <<transition("Set user prio (higher)", "Set user prio (inversion)")>>,
  FlattenSeq([n \in 1 .. 3 |-> <<unless_state("Set user prio (inversion)", 2), request, push>>]),
  <<transition("Preempt (inversion)", "Set prio preempt (failed)")>>,
  Ok(set_process_priority(PID_P1, LOW)),
  Ok(set_process_priority(PID_P2, MEDIUM)),
  <<transition("Set prio preempt (failed)", "Set user prio (lower, tied)")>>,
  Ok(set_process_priority(PID_P2, LOW)),
  <<transition("Set user prio (lower, tied)", "Set user prio (lower)")>>,
  Ok(set_process_priority(PID_P2, LOWEST)),
  <<transition("Resource contention (1 and 3 blocked)",
               "Resource contention (3 and 1 blocked)")>>,
  Ok(set_process_priority(PID_P3, HIGH)),
  Ok(set_process_priority(PID_P1, LOWEST)),
  Ok(set_process_priority(PID_P2, LOWEST)),
  mem_release,
  <<transition("Send other msg", "Send other msg (2 blocked)"),
    expect_priority(PID_P2, HIGH)>>,
  receive_42_from_proc1,
  <<transition("Recv other msg (2 and 3 blocked)", "Recv other msg (3 blocked)")>>,
  Ok(set_process_priority(PID_P2, LOWEST)),
  <<release_processor,
    transition("Recv other msg (done)", "Send delayed msg")>>,
  FlattenSeq([n \in 1 .. 3 |->
    <<request>> \o Ok(delayed_send(PID_P1, 13 - n, Number(3 - n), (3 - n) * DELAY))]),
  <<increment("finished_proc", 1)>>>>)

proc3 == FlattenSeq(<<
  FlattenSeq([n \in 1 .. 3 |->
    <<increment("proc3_work_remaining", -1),
      expect_same("proc2_work_remaining", "proc3_work_remaining")>>
    \o Ok(release_processor)]),
  <<transition("Equal prio mem unblocking 2", "Equal prio mem unblocked"),
    release_processor,
    transition("Set user prio (inversion)", "Set user prio (inversion 2)"),
    release_processor,
    transition("Resource contention (1 blocked)", "Resource contention (1 and 3 blocked)")>>,
  mem_request,
  <<transition("Resource contention (3 and 1 blocked)",
               "Resource contention (1 blocked again)")>>,
  mem_release,
  <<transition("Resource contention (1 blocked again)", "Resource contention resolved")>>,
  Ok(set_process_priority(PID_P3, LOWEST)),
  <<release_processor,
    transition("Send other msg (2 blocked)", "Send other msg (2 and 3 blocked)"),
    expect_priority(PID_P2, HIGH)>>,
  receive_42_from_proc1,
  <<transition("Recv other msg (3 blocked)", "Recv other msg (done)")>>,
  Ok(set_process_priority(PID_P3, LOWEST)),
  <<increment("finished_proc", 1)>>,
  Ok(release_processor)>>)

Testers == {PID_P1, PID_P2, PID_P3}
program == [p \in Testers |-> IF p = PID_P1 THEN proc1 ELSE IF p = PID_P2 THEN proc2 ELSE proc3]

-----------------------------------------------------------------------------
(* What the statements do. *)

InProgram(p) == stmt[p] \in DOMAIN program[p]
Statement(p) == program[p][stmt[p]]

\* p runs its own code at a statement `op`, or is inside the call that it makes.
Doing(p, op) == At(p, "test") /\ InProgram(p) /\ Statement(p).op = op

Jump(p, n) == stmt' = [stmt EXCEPT ![p] = @ + n]
Return(p, value) == ret' = [ret EXCEPT ![p] = value]
Returned == Return(Caller, RTX_OK) /\ Jump(Caller, 1) /\ UNCHANGED <<from, t>>

\* test_assert for the conditions of a statement: of n, `bad` do not hold.  When
\* the tests are over, the process goes to infinite_loop.
test_assert(p, n, bad) ==
  IF t.finished = 1
  THEN stmt' = [stmt EXCEPT ![p] = Len(program[p]) + 1] /\ UNCHANGED t
  ELSE /\ t' = [t EXCEPT !.tests_ran = @ + n, !.tests_failed = @ + bad,
                         !.test_state = IF Doing(p, "transition") THEN Statement(p).to ELSE @]
       /\ Jump(p, 1)

get_process_priority(pid) == IF pid \in Procs THEN k.m_priority[pid] ELSE RTX_ERR

\* What a statement with a single test asks for.
Passes(p) ==
  LET s == Statement(p)
  IN  \/ s.op = "transition" /\ s.was \in {"any", t.test_state}
      \/ s.op = "expect" /\ t[s.name] = s.value
      \/ s.op = "same" /\ t[s.name] = t[s.other]
      \/ s.op = "at_least" /\ t[s.name] >= s.value
      \/ s.op = "priority" /\ get_process_priority(s.pid) = s.value
      \/ s.op = "returned" /\ ret[p] = s.value

TestOne(p) ==
  /\ \E op \in {"transition", "expect", "same", "at_least", "priority", "returned"} :
       Doing(p, op)
  /\ test_assert(p, 1, IF Passes(p) THEN 0 ELSE 1)

\* The fields of the message received, a test each.
TestMessage(p) ==
  /\ Doing(p, "message")
  /\ LET fields == Statement(p).fields
         received == [m_send_pid |-> from[p], msg |-> hand[p],
                      mtype |-> text[hand[p]].mtype, mtext |-> text[hand[p]].mtext]
     IN  test_assert(p, Cardinality(DOMAIN fields),
                     Cardinality({f \in DOMAIN fields : fields[f] # received[f]}))

Increment(p) ==
  /\ Doing(p, "increment")
  /\ t' = [t EXCEPT ![Statement(p).name] = @ + Statement(p).by]
  /\ Jump(p, 1)

\* The loops.
Branch(p) ==
  /\ \/ /\ Doing(p, "unless_state")
        /\ Jump(p, IF t.test_state = Statement(p).state THEN 1 ELSE 1 + Statement(p).skip)
     \/ /\ Doing(p, "unless_mem")
        /\ Jump(p, IF t.test_mem # << >> THEN 1 ELSE 1 + Statement(p).skip)
     \/ Doing(p, "back") /\ Jump(p, - Statement(p).by)
  /\ UNCHANGED t

\* What needs no kernel.
Local(p) ==
  /\ CanCall
  /\ TestOne(p) \/ TestMessage(p) \/ Increment(p) \/ Branch(p)
  /\ UNCHANGED <<vars, procVars, ret, from>>

\* test_mem_request fills the block with its number in the list.
Push(p) ==
  /\ Doing(p, "push") /\ CanCall
  /\ t' = [t EXCEPT !.test_mem = <<hand[p]>> \o @]
  /\ text' = [text EXCEPT ![hand[p]] = Message(DEFAULT, Number(Len(t.test_mem) + 1))]
  /\ Put(p, NoBlock)
  /\ Jump(p, 1)
  /\ UNCHANGED <<vars, pc, display_msg, ret, from>>

\* test_mem_release takes the first block, whoever has requested it.
Pop(p) ==
  /\ Doing(p, "pop") /\ CanCall
  /\ LET cur == Head(t.test_mem)
     IN  /\ t' = [t EXCEPT !.test_mem = Tail(@),
                           !.changed_bytes =
                              IF text[cur].mtext = Number(Len(t.test_mem)) THEN @ ELSE @ + 1]
         /\ Put(p, cur)
         /\ held' = [q \in Procs |-> IF q = p THEN held[q] \cup {cur} ELSE held[q] \ {cur}]
  /\ Jump(p, 1)
  /\ UNCHANGED <<k, g_heap, g_message_queues, g_delayed_msg_queue, g_timer_count, cont,
                 pc, display_msg, text, ret, from>>

StackBuf(p) ==
  /\ Doing(p, "stack_buf") /\ CanCall
  /\ text' = text @@ (stack_buf :> Message(DEFAULT, Hi))
  /\ held' = [held EXCEPT ![p] = @ \cup {stack_buf}]
  /\ Put(p, stack_buf)
  /\ Jump(p, 1)
  /\ UNCHANGED <<k, g_heap, g_message_queues, g_delayed_msg_queue, g_timer_count, cont,
                 pc, display_msg, ret, from, t>>

\* The calls.
SetPriorityCall(p) ==
  /\ \/ /\ Doing(p, "set")
        /\ LET s == Statement(p)
           IN  \/ SetProcess(p, "test", s.pid, s.prio, "test") /\ Return(p, RTX_OK)
               \/ /\ SetPriorityFails(s.pid, s.prio)
                  /\ Step(p, "test", "test")
                  /\ Return(p, RTX_ERR)
     \/ /\ Doing(p, "keep")
        /\ SetProcess(p, "test", Statement(p).pid, get_process_priority(Statement(p).pid), "test")
        /\ Return(p, RTX_OK)
  /\ Jump(p, 1)
  /\ UNCHANGED <<locals, from, t>>

RequestCall(p) ==
  /\ Doing(p, "request")
  /\ Request(p, "test", "test")
  /\ Jump(p, IF g_heap = << >> THEN 0 ELSE 1)
  /\ UNCHANGED <<ret, from, t>>

ReceiveCall(p) ==
  /\ Doing(p, "receive")
  /\ Receive(p, "test", "test")
  /\ from' = [from EXCEPT ![p] = Mail(p).m_send_pid]
  /\ Jump(p, 1)
  /\ UNCHANGED <<ret, t>>

ReleaseCall(p) == Doing(p, "release") /\ Release(p, "test", "test") /\ Returned
YieldCall(p) == /\ Doing(p, "yield") /\ Yield(p, "test", "test") /\ Returned
                /\ UNCHANGED locals

\* The arguments are checked before anything else.
SendCall(p) ==
  LET s == Statement(p)
      content == Message(s.mtype, s.mtext)
  IN  \/ /\ Doing(p, "send") /\ s.pid \notin Procs
         /\ Step(p, "test", "test") /\ UNCHANGED locals
         /\ Return(p, RTX_ERR) /\ Jump(p, 1) /\ UNCHANGED <<from, t>>
      \/ /\ \/ Doing(p, "send") /\ s.pid \in Procs
            \/ Doing(p, "delayed_send") /\ s.delay = 0
         /\ Send(p, "test", s.pid, content, "test")
         /\ Returned
      \/ /\ Doing(p, "delayed_send") /\ s.delay > 0
         /\ DelayedSend(s.pid, hand[p], s.delay)
         /\ text' = [text EXCEPT ![hand[p]] = content]
         /\ Put(p, NoBlock)
         /\ Returned
         /\ UNCHANGED <<pc, display_msg>>

\* infinite_loop, behind the last statement.
End(p) ==
  /\ ~ InProgram(p)
  /\ Yield(p, "test", "test")
  /\ UNCHANGED <<locals, testVars>>

Tester(p) ==
  \/ Local(p)
  \/ /\ \/ Push(p) \/ Pop(p) \/ StackBuf(p) \/ SetPriorityCall(p) \/ RequestCall(p)
        \/ ReceiveCall(p) \/ ReleaseCall(p) \/ YieldCall(p) \/ SendCall(p) \/ End(p)
     /\ UNCHANGED consoleVars
  \/ /\ InProgram(p) /\ Statement(p).op = "receive"
     /\ ReceiveNothing(p, "test")
     /\ UNCHANGED testVars

\* proc4 receives for ever; proc5 and proc6 spin.  The wall clock waits for its
\* commands (module WallClock has it run).
OtherProcess ==
  \/ ReceiveNothing(PID_P4, "receive")
  \/ kcd_register(PID_CLOCK, "%W", "receive")
  \/ ReceiveNothing(PID_CLOCK, "receive")

-----------------------------------------------------------------------------
UserTestsInit ==
  /\ StressInit
  /\ stmt = [p \in Testers |-> 1]
  /\ ret = [p \in Testers |-> RTX_OK]
  /\ from = [p \in Testers |-> -1]
  /\ t = [test_state |-> "Starting tests", tests_ran |-> 0, tests_failed |-> 0,
          finished |-> 0, finished_proc |-> 0, proc2_work_remaining |-> 3,
          proc3_work_remaining |-> 3, test_mem |-> << >>, changed_bytes |-> 0, blocks |-> 0]

TestersRun ==
  /\ (\E p \in Testers : Tester(p)) \/ (OtherProcess /\ UNCHANGED testVars)
  /\ ran' = ~ ran
  /\ UNCHANGED stressVars

\* The tests take for granted that proc2 sends its three messages in less than DELAY
\* counts; else the order in which they expire is another one.
InTime ==
  InProgram(PID_P2) /\ g_delayed_msg_queue # << >>
    => Last(g_delayed_msg_queue).expiry > DELAY + 1

UserTestsNext ==
  \/ TestersRun
  \/ /\ Run \/ Finish \/ Irq \/ (InTime /\ Tick)
     /\ UNCHANGED testVars

UserTestsSpec == UserTestsInit /\ [][UserTestsNext]_everything

\* As in module Stress.
UserTestsFairSpec ==
  /\ UserTestsSpec
  /\ WF_allVars(Finish)
  /\ SF_ran(ProcessRuns)
  /\ SF_g_delayed_msg_queue(InTime /\ TimePasses)
-----------------------------------------------------------------------------
(* Properties. *)

\* Every test passes, wherever the timer and the UART interrupt the processes: the
\* kernel schedules, blocks and unblocks the processes in the order that the tests
\* name state by state, and a block keeps what was written into it
\* (usr_proc.c:248-527).
TestsPass == t.tests_failed = 0 /\ t.changed_bytes = 0

\* The tests come to their end: nobody waits for ever for a block, a message or its
\* turn, though three processes spin beside them (usr_proc.c:390).
TestsEnd == <>(t.finished = 1)
=============================================================================
