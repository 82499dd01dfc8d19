------------------------- MODULE EventWaitProofs -------------------------
(***************************************************************************)
(* The system calls of EventWait drive the run queues only through the     *)
(* operations of RunQueues, so what RunQueuesProofs shows carries over; and *)
(* the stack of a task never leaves the CPU of the task.                   *)
(***************************************************************************)
EXTENDS EventWait, RunQueuesProofs

-----------------------------------------------------------------------------
\* The stacks the CPUs execute, strengthened with what keeps a task at home: it is
\* known to the scheduler, which changes last_cpu of unknown tasks only.
HomeInv ==
    /\ exec \in [Cpus -> Tasks \cup {NoTask}]
    /\ StacksStayHome
    /\ \A c \in Cpus : exec[c] # NoTask => state[exec[c]] # "Absent"

\* Every step of a system call is a step of the run queues or leaves them alone.
LEMMA StepImplements ==
    ASSUME NEW c \in Cpus, Step(c)
    PROVE  [Next]_rqVars
<1> PICK t \in Tasks :
      \/ wait_for_single_object(c, t) \/ register_waiter(c, t) \/ check_signal(c, t)
      \/ unregister_waiter(c, t) \/ block(c, t)
      \/ set_event(c, t) \/ reset_event(c, t)
      \/ take_waiters(c, t) \/ wake_waiter(c, t) \/ waiters_woken(c, t)
      \/ yield_execution(c, t) \/ delay_execution(c, t) \/ cli(c, t) \/ resume(c, t)
      \/ spawn(c, t) \/ spawn_add(c, t) \/ (\E S : spawn_fail(c, t, S))
      \/ (\E objects : exit_begins(c, t, objects))
      \/ exit_thread_object(c, t) \/ exit_process_object(c, t) \/ on_task_exit(c, t)
  BY ZenonT(30) DEF Step, Call
<1>1. CASE \/ wait_for_single_object(c, t) \/ register_waiter(c, t) \/ check_signal(c, t)
           \/ unregister_waiter(c, t) \/ set_event(c, t) \/ reset_event(c, t)
           \/ take_waiters(c, t) \/ waiters_woken(c, t)
           \/ delay_execution(c, t) \/ cli(c, t) \/ resume(c, t)
           \/ (\E objects : exit_begins(c, t, objects)) \/ exit_thread_object(c, t) \/ exit_process_object(c, t)
  BY <1>1, ZenonT(30) DEF wait_for_single_object, register_waiter, check_signal, unregister_waiter,
       set_event, reset_event, take_waiters, waiters_woken, delay_execution, cli, resume,
       exit_begins, exit_thread_object, exit_process_object
<1>2. CASE block(c, t) \/ yield_execution(c, t)
  BY <1>2, ZenonT(30) DEF block, yield_execution, Next
<1>3. CASE wake_waiter(c, t)
  BY <1>3, ZenonT(30) DEF wake_waiter, Next
<1>4. CASE spawn(c, t) \/ spawn_add(c, t) \/ \E S : spawn_fail(c, t, S)
  BY <1>4, ZenonT(30) DEF spawn, spawn_add, spawn_fail, Next
<1>5. CASE on_task_exit(c, t)
  BY <1>5, ZenonT(30) DEF on_task_exit, Next
<1> QED  BY <1>1, <1>2, <1>3, <1>4, <1>5

\* So is every step of the system: scheduler_timer_tick, the boot of CPU 0, a call.
LEMMA EventImplements ==
    ASSUME [EventNext]_vars
    PROVE  [Next]_rqVars
<1>1. CASE boot_start
  BY <1>1, ZenonT(30) DEF boot_start, Next
<1>2. ASSUME NEW t \in Tasks, boot_add(t) PROVE [Next]_rqVars
  BY <1>2, ZenonT(30) DEF boot_add, Next
<1>3. ASSUME NEW c \in Cpus, Step(c) PROVE [Next]_rqVars
  BY <1>3, StepImplements
<1>4. ASSUME NEW c \in Cpus, scheduler_timer_tick(c) PROVE [Next]_rqVars
  BY <1>4, ZenonT(30) DEF scheduler_timer_tick, Next
<1>5. ASSUME NEW c \in Cpus, other_interrupt(c) PROVE [Next]_rqVars
  BY <1>5, ZenonT(30) DEF other_interrupt
<1>6. CASE UNCHANGED vars
  BY <1>6 DEF vars
<1> QED  BY <1>1, <1>2, <1>3, <1>4, <1>5, <1>6 DEF EventNext

\* A step of a system call other than the exit leaves every CPU on its stack.
LEMMA StepKeepsStacks ==
    ASSUME NEW c \in Cpus, Step(c)
    PROVE  UNCHANGED <<exec, CURRENT_TASK_IDS>> \/ \E t \in Tasks : on_task_exit(c, t)
<1> USE DEF rqVars, cpuVars, taskVars, Continue, Enter
<1> PICK t \in Tasks :
      \/ wait_for_single_object(c, t) \/ register_waiter(c, t) \/ check_signal(c, t)
      \/ unregister_waiter(c, t) \/ block(c, t)
      \/ set_event(c, t) \/ reset_event(c, t)
      \/ take_waiters(c, t) \/ wake_waiter(c, t) \/ waiters_woken(c, t)
      \/ yield_execution(c, t) \/ delay_execution(c, t) \/ cli(c, t) \/ resume(c, t)
      \/ spawn(c, t) \/ spawn_add(c, t) \/ (\E S : spawn_fail(c, t, S))
      \/ (\E objects : exit_begins(c, t, objects))
      \/ exit_thread_object(c, t) \/ exit_process_object(c, t) \/ on_task_exit(c, t)
  BY Zenon DEF Step, Call
<1>1. CASE wait_for_single_object(c, t) \/ set_event(c, t) \/ reset_event(c, t)
  BY <1>1, ZenonT(30) DEF wait_for_single_object, set_event, reset_event
<1>2. CASE register_waiter(c, t) \/ check_signal(c, t) \/ unregister_waiter(c, t)
  BY <1>2, ZenonT(30) DEF register_waiter, check_signal, unregister_waiter
<1>3. CASE block(c, t) \/ yield_execution(c, t)
  BY <1>3, ZenonT(30) DEF block, yield_execution, block_current, request_yield
<1>4. CASE take_waiters(c, t) \/ waiters_woken(c, t)
  BY <1>4, ZenonT(30) DEF take_waiters, waiters_woken
<1>5. CASE wake_waiter(c, t)
  BY <1>5, ZenonT(30) DEF wake_waiter, wake_task
<1>6. CASE delay_execution(c, t) \/ cli(c, t) \/ resume(c, t)
  BY <1>6, ZenonT(30) DEF delay_execution, cli, resume
<1>7. CASE spawn(c, t) \/ spawn_add(c, t) \/ \E S : spawn_fail(c, t, S)
  BY <1>7, ZenonT(30) DEF spawn, spawn_add, spawn_fail, allocate_task_id, add_task
<1>8. CASE (\E objects : exit_begins(c, t, objects)) \/ exit_thread_object(c, t) \/ exit_process_object(c, t)
  BY <1>8 DEF exit_begins, exit_thread_object, exit_process_object
<1> QED  BY <1>1, <1>2, <1>3, <1>4, <1>5, <1>6, <1>7, <1>8, ZenonT(30)

\* A task known to the scheduler stays known and never changes its CPU.
LEMMA KnownStaysHome ==
    ASSUME RQInv, IdleUntilStarted, [Next]_rqVars, NEW t \in Tasks, state[t] # "Absent"
    PROVE  state'[t] # "Absent" /\ last_cpu'[t] = last_cpu[t]
<1>0. TypeOK
  BY DEF RQInv
<1>1. CASE allocate_task_id \/ UNCHANGED rqVars
  BY <1>1 DEF allocate_task_id, rqVars, taskVars
<1>2. CASE start
  BY <1>0, <1>2, StartCallsPick, PickReports, SMTT(30)
<1>3. ASSUME NEW u \in Tasks, add_task(u) \/ wake_task(u)
      PROVE  state'[t] # "Absent" /\ last_cpu'[t] = last_cpu[t]
  BY <1>0, <1>3, ZenonT(30) DEF add_task, wake_task, TypeOK
<1>4. ASSUME NEW c \in Cpus, on_timer_tick(c)
      PROVE  state'[t] # "Absent" /\ last_cpu'[t] = last_cpu[t]
  <2>1. PICK prev, st, qd, qs : /\ PickReady(c, prev, st, qd, qs)
                                /\ pick_next_task(c, prev, st, qd, qs)
                                /\ class' \in [Tasks -> Class]
                                /\ SameFate(st)
    BY <1>4, TickCallsPick
  <2> QED  BY <1>0, <2>1, PickReports DEF SameFate
<1>5. ASSUME NEW c \in Cpus, request_yield(c) \/ block_current(c)
      PROVE  state'[t] # "Absent" /\ last_cpu'[t] = last_cpu[t]
  BY <1>0, <1>5 DEF request_yield, block_current, TypeOK
<1>6. ASSUME NEW c \in Cpus, exit_current(c)
      PROVE  state'[t] # "Absent" /\ last_cpu'[t] = last_cpu[t]
  <2>1. PICK st, qd, qs : /\ PickReady(c, NoTask, st, qd, qs)
                          /\ pick_next_task(c, NoTask, st, qd, qs)
                          /\ SameFate(st)
    BY <1>6, ExitCallsPick
  <2> QED  BY <1>0, <2>1, PickReports DEF SameFate
<1> QED  BY <1>1, <1>2, <1>3, <1>4, <1>5, <1>6 DEF Next

\* What start, a tick or an exit does to the reported tasks: only CPU c reports
\* another one, and if it got no task, then none or the same as before.
LEMMA SwitchReports ==
    ASSUME RQInv, IdleUntilStarted, NEW c \in Cpus,
           on_timer_tick(c) \/ exit_current(c) \/ (c = 0 /\ start)
    PROVE  /\ \A d \in Cpus \ {c} : CURRENT_TASK_IDS'[d] = CURRENT_TASK_IDS[d]
           /\ current_task'[c] = NoTask => CURRENT_TASK_IDS'[c] \in {NoTask, CURRENT_TASK_IDS[c]}
<1>0. TypeOK
  BY DEF RQInv
<1>1. CASE on_timer_tick(c)
  BY <1>0, <1>1, TickCallsPick, PickReports
<1>2. CASE exit_current(c)
  BY <1>0, <1>2, ExitCallsPick, PickReports
<1>3. CASE c = 0 /\ start
  BY <1>0, <1>3, StartCallsPick, PickReports
<1> QED  BY <1>1, <1>2, <1>3

\* A system call or an interrupt keeps the CPUs on stacks of their own tasks.
LEMMA HomeStep == RQInv /\ RQInv' /\ IdleUntilStarted /\ HomeInv /\ [EventNext]_vars => HomeInv'
<1> SUFFICES ASSUME RQInv, RQInv', IdleUntilStarted, HomeInv, [EventNext]_vars PROVE HomeInv'
  OBVIOUS
<1>1. \A t \in Tasks : state[t] # "Absent" => state'[t] # "Absent" /\ last_cpu'[t] = last_cpu[t]
  BY EventImplements, KnownStaysHome
<1>2. ASSUME UNCHANGED <<exec, CURRENT_TASK_IDS>> PROVE HomeInv'
  BY <1>1, <1>2 DEF HomeInv, StacksStayHome
<1>3. ASSUME NEW c \in Cpus, on_timer_tick(c) \/ exit_current(c) \/ (c = 0 /\ start),
             NEW s \in {current_task'[c], exec[c]}, s # NoTask /\ current_task'[c] # NoTask => s = current_task'[c],
             exec' = [exec EXCEPT ![c] = s]
      PROVE  HomeInv'
  <2>1. /\ current_task'[c] \in Tasks \cup {NoTask} /\ current_task \in [Cpus -> Tasks \cup {NoTask}]
        /\ current_task'[c] # NoTask =>
             /\ last_cpu'[current_task'[c]] = c /\ state'[current_task'[c]] # "Absent"
             /\ CURRENT_TASK_IDS'[c] = current_task'[c]
    BY DEF RQInv, TypeOK, OneCpuPerTask, ReportedTaskIsLocal
  <2>2. /\ \A d \in Cpus \ {c} : CURRENT_TASK_IDS'[d] = CURRENT_TASK_IDS[d]
        /\ current_task'[c] = NoTask => CURRENT_TASK_IDS'[c] \in {NoTask, CURRENT_TASK_IDS[c]}
    BY <1>3, SwitchReports
  <2>3. exec' \in [Cpus -> Tasks \cup {NoTask}] /\ exec'[c] = s /\ \A d \in Cpus \ {c} : exec'[d] = exec[d]
    BY <1>3, <2>1 DEF HomeInv
  <2>4. ASSUME NEW d \in Cpus, exec'[d] # NoTask
        PROVE  /\ last_cpu'[exec'[d]] = d
               /\ CURRENT_TASK_IDS'[d] \in {exec'[d], NoTask}
               /\ state'[exec'[d]] # "Absent"
    <3>1. CASE d = c
      BY <1>1, <1>3, <2>1, <2>2, <2>3, <2>4, <3>1 DEF HomeInv, StacksStayHome
    <3>2. CASE d # c
      BY <1>1, <2>2, <2>3, <2>4, <3>2 DEF HomeInv, StacksStayHome
    <3> QED  BY <3>1, <3>2
  <2> QED  BY <2>3, <2>4 DEF HomeInv, StacksStayHome
<1>4. CASE boot_start
  <2>1. 0 \in Cpus
    BY SizesAssumption DEF Cpus
  <2> QED  BY <1>3, <1>4, <2>1, ZenonT(30) DEF boot_start
<1>5. ASSUME NEW t \in Tasks, boot_add(t) PROVE HomeInv'
  BY <1>2, <1>5 DEF boot_add, callVars, add_task
<1>6. ASSUME NEW c \in Cpus, Step(c) PROVE HomeInv'
  <2>1. CASE UNCHANGED <<exec, CURRENT_TASK_IDS>>
    BY <1>2, <2>1
  <2>2. ASSUME NEW t \in Tasks, on_task_exit(c, t) PROVE HomeInv'
    BY <1>3, <2>2, ZenonT(30) DEF on_task_exit
  <2> QED  BY <1>6, <2>1, <2>2, StepKeepsStacks
<1>7. ASSUME NEW c \in Cpus, scheduler_timer_tick(c) PROVE HomeInv'
  BY <1>3, <1>7, ZenonT(30) DEF scheduler_timer_tick, switched
<1>8. ASSUME NEW c \in Cpus, other_interrupt(c) PROVE HomeInv'
  BY <1>2, <1>8 DEF other_interrupt, Continue, rqVars, cpuVars
<1>9. CASE UNCHANGED vars
  BY <1>2, <1>9 DEF vars, callVars, rqVars, cpuVars
<1> QED  BY <1>4, <1>5, <1>6, <1>7, <1>8, <1>9 DEF EventNext

\* Before process::start no CPU executes a task.
LEMMA HomeInit == EventInit => HomeInv
BY DEF EventInit, HomeInv, StacksStayHome

-----------------------------------------------------------------------------
\* The system calls and interrupts of EventWait, on any number of CPUs, implement the
\* run queues: every theorem about RunQueues holds of them.
THEOREM EventWaitImplementsRunQueues == EventSpec => Spec
<1>1. EventInit => Init
  BY DEF EventInit
<1> QED  BY <1>1, EventImplements, PTL DEF EventSpec, Spec

\* For any number of CPUs, tasks and objects, however calls interleave: a CPU executes
\* only stacks of tasks that are its own, and reports that task or none as the waiter.
THEOREM EventWaitStacksStayHome == EventSpec => []StacksStayHome
<1>1. HomeInv => StacksStayHome
  BY DEF HomeInv
<1>2. EventInit => Init
  BY DEF EventInit
<1> QED  BY <1>1, <1>2, HomeInit, HomeStep, EventImplements, RQInvInit, RQInvStep, IdleStep, PTL
            DEF EventSpec
=============================================================================
