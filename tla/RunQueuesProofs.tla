------------------------- MODULE RunQueuesProofs -------------------------
(***************************************************************************)
(* Proofs about the run queues, for every number of CPUs, classes and      *)
(* tasks: every operation preserves the invariant, by itself or, where it  *)
(* ends in pick_next_task, by PickPreserves.                               *)
(***************************************************************************)
EXTENDS PickCallersProofs

\* The invariant holds initially and every operation preserves it.
LEMMA RQInvInit == Init => RQInv /\ IdleUntilStarted
<1> SUFFICES ASSUME Init PROVE RQInv /\ IdleUntilStarted
  OBVIOUS
<1>1. 0 \in Cpus /\ 0 \in Class
  BY SizesAssumption DEF Cpus, Class
<1>2. TypeOK
  BY <1>1, ParamsAssumption, ZenonT(30) DEF Init, TypeOK, TaskState
<1>3. OneCpuPerTask /\ ReportedTaskIsLocal /\ IdleUntilStarted
  BY DEF Init, OneCpuPerTask, ReportedTaskIsLocal, IdleUntilStarted
<1>4. ReadyIsQueued /\ EntriesAtHome
  BY DEF Init, ReadyIsQueued, EntriesAtHome
<1> QED  BY <1>2, <1>3, <1>4 DEF RQInv

\* Until process::start no CPU has a task: no operation of Scheduler gives it one.
LEMMA IdleStep == RQInv /\ IdleUntilStarted /\ [Next]_rqVars => IdleUntilStarted'
<1> SUFFICES ASSUME RQInv, IdleUntilStarted, [Next]_rqVars, ~started'
             PROVE  \A c \in Cpus : current_task'[c] = NoTask
  BY DEF IdleUntilStarted
<1>1. ~started /\ ~start /\ \A c \in Cpus : /\ ~on_timer_tick(c) /\ ~exit_current(c)
                                            /\ ~request_yield(c) /\ ~block_current(c)
  <2>a. ~start
    BY DEF start
  <2>b. \A t \in Tasks : add_task(t) \/ wake_task(t) => started' = started
    BY DEF add_task, wake_task
  <2>c. \A c \in Cpus : request_yield(c) \/ block_current(c) => started' = started
    BY SMTT(30) DEF request_yield, block_current
  <2>d. \A c \in Cpus : on_timer_tick(c) => started' = started
    BY DEF on_timer_tick
  <2>e. \A c \in Cpus : exit_current(c) => started' = started
    BY DEF exit_current
  <2>f. started' = started
    BY <2>a, <2>b, <2>c, <2>d, <2>e DEF Next, rqVars, allocate_task_id
  <2>1. ~started /\ ~start
    BY <2>a, <2>f, SMTT(30)
  <2> QED  BY <2>1, ZenonT(30) DEF IdleUntilStarted, on_timer_tick, exit_current, request_yield, block_current
<1>2. current_task' = current_task
  BY <1>1, ZenonT(30) DEF Next, rqVars, cpuVars, allocate_task_id, add_task, wake_task
<1> QED  BY <1>1, <1>2 DEF IdleUntilStarted

\* Every operation of Scheduler preserves the inductive invariant.
LEMMA RQInvStep == RQInv /\ IdleUntilStarted /\ [Next]_rqVars => RQInv'
<1> SUFFICES ASSUME RQInv, IdleUntilStarted, [Next]_rqVars PROVE RQInv'
  OBVIOUS
<1> USE DEF RQInv
<1>T. /\ 0 \in Cpus /\ NoTask \notin Tasks
      /\ \A t \in Tasks : t \in Nat /\ InitClass[t] \in Class /\ ClassesOf[t] \subseteq Class
      /\ \A k \in Class, t \in Tasks : TaskQuantum[k][t] \in Nat
  BY TasksAssumption, SizesAssumption, QuantaAssumption, ParamsAssumption DEF Cpus, NoTask
<1>1. CASE allocate_task_id
  BY <1>1, <1>T DEF allocate_task_id, taskVars, cpuVars, TypeOK, OneCpuPerTask, ReadyIsQueued,
                    EntriesAtHome, ReportedTaskIsLocal
<1>2. CASE start
  BY <1>2, StartCallsPick, PickPreserves, ZenonT(30) DEF start, TypeOK
<1>3. ASSUME NEW t \in Tasks, add_task(t) PROVE RQInv'
  <2>1. PICK c \in Cpus : /\ last_cpu' = [last_cpu EXCEPT ![t] = c]
                          /\ queues' = [queues EXCEPT ![c][InitClass[t]][t] = @ + 1]
    BY <1>3, ZenonT(30) DEF add_task
  <2>2. /\ state[t] = "Absent"
        /\ state' = [state EXCEPT ![t] = "Ready"]
        /\ queued' = [queued EXCEPT ![t] = TRUE]
        /\ class' = [class EXCEPT ![t] = InitClass[t]]
        /\ deficit' = [deficit EXCEPT ![t] = TaskQuantum[InitClass[t]][t]]
        /\ next_task_id' = next_id_after(t) /\ handed_out' = handed_out \ {t}
        /\ UNCHANGED <<started, current_task, class_cursor, class_deficits, CURRENT_TASK_IDS>>
    BY <1>3, ZenonT(30) DEF add_task
  <2>3. TypeOK'
    <3>1. next_task_id' \in Nat /\ handed_out' \subseteq Tasks
      BY <2>2, <1>T DEF next_id_after, TypeOK
    <3>2. queues' \in [Cpus -> [Class -> [Tasks -> Nat]]]
      BY <2>1, <1>T DEF TypeOK
    <3>3. deficit' \in [Tasks -> Nat] /\ class' \in [Tasks -> Class]
      BY <2>2, <1>T DEF TypeOK
    <3>4. /\ state' \in [Tasks -> TaskState] /\ queued' \in [Tasks -> BOOLEAN]
          /\ last_cpu' \in [Tasks -> Cpus]
      BY <2>1, <2>2 DEF TypeOK, TaskState
    <3> QED  BY <2>2, <3>1, <3>2, <3>3, <3>4, ZenonT(30) DEF TypeOK
  <2>4. \A d \in Cpus : current_task[d] # t /\ CURRENT_TASK_IDS[d] # t
    BY <2>2, <1>T DEF OneCpuPerTask, ReportedTaskIsLocal, TypeOK
  <2>5. \A d \in Cpus, k \in Class, u \in Tasks :
           /\ u # t => queues'[d][k][u] = queues[d][k][u]
           /\ queues[d][k][u] > 0 => queues'[d][k][u] > 0
    BY <2>1, <1>T DEF TypeOK
  <2>6. OneCpuPerTask' /\ ReportedTaskIsLocal'
    BY <2>1, <2>2, <2>4, SMTT(30) DEF OneCpuPerTask, ReportedTaskIsLocal, TypeOK
  <2>7. ReadyIsQueued'
    <3>1. queues'[c][InitClass[t]][t] > 0
      BY <2>1, <1>T, SMTT(30) DEF TypeOK
    <3> QED  BY <2>1, <2>2, <2>5, <3>1, <1>T DEF ReadyIsQueued, TypeOK
  <2>8. EntriesAtHome'
    <3>1. \A d \in Cpus, k \in Class : queues'[d][k][t] > 0 => d = c
      BY <2>1, <2>2, <1>T DEF EntriesAtHome, TypeOK
    <3> QED  BY <2>1, <2>2, <2>5, <3>1, <1>T DEF EntriesAtHome, TypeOK
  <2> QED  BY <2>3, <2>6, <2>7, <2>8
<1>4. ASSUME NEW t \in Tasks, wake_task(t) PROVE RQInv'
  <2>1. /\ state[t] = "Blocked" /\ ~queued[t]
        /\ state' = [state EXCEPT ![t] = "Ready"]
        /\ queued' = [queued EXCEPT ![t] = TRUE]
        /\ queues' = [queues EXCEPT ![last_cpu[t]][class[t]][t] = @ + 1]
        /\ deficit' = [deficit EXCEPT ![t] = TaskQuantum[class[t]][t]]
        /\ UNCHANGED <<started, next_task_id, handed_out, class, last_cpu,
                       current_task, class_cursor, class_deficits, CURRENT_TASK_IDS>>
    BY <1>4, ZenonT(30) DEF wake_task, wake_cpu, ReadyIsQueued
  <2>2. last_cpu[t] \in Cpus /\ class[t] \in Class
    BY DEF TypeOK
  <2>3. queues' \in [Cpus -> [Class -> [Tasks -> Nat]]]
    BY <2>1, <2>2 DEF TypeOK
  <2>4. TypeOK'
    <3>1. /\ state' \in [Tasks -> TaskState] /\ queued' \in [Tasks -> BOOLEAN]
          /\ deficit' \in [Tasks -> Nat]
      BY <1>T, <2>1, <2>2, SMTT(30) DEF TypeOK, TaskState
    <3> QED  BY <2>1, <2>3, <3>1, ZenonT(30) DEF TypeOK
  <2>5. /\ queues'[last_cpu[t]][class[t]][t] > 0
        /\ \A d \in Cpus, k \in Class, u \in Tasks :
              /\ queues[d][k][u] > 0 => queues'[d][k][u] > 0
              /\ d # last_cpu[t] \/ u # t => queues'[d][k][u] = queues[d][k][u]
    BY <2>1, <2>2 DEF TypeOK
  <2>6. OneCpuPerTask' /\ ReportedTaskIsLocal'
    BY <2>1, SMTT(30) DEF OneCpuPerTask, ReportedTaskIsLocal, TypeOK
  <2>7. ReadyIsQueued'
    BY <2>1, <2>2, <2>5, SMTT(30) DEF ReadyIsQueued, TypeOK
  <2>8. EntriesAtHome'
    BY <2>1, <2>2, <2>5 DEF EntriesAtHome, TypeOK
  <2> QED  BY <2>4, <2>6, <2>7, <2>8
<1>5. ASSUME NEW c \in Cpus, on_timer_tick(c) PROVE RQInv'
  <2>1. started' \in BOOLEAN /\ next_task_id' \in Nat /\ handed_out' \subseteq Tasks
    BY <1>5, ZenonT(30) DEF on_timer_tick, TypeOK
  <2>2. TypeOK
    OBVIOUS
  <2> HIDE DEF RQInv
  <2> QED  BY <1>5, <2>1, <2>2, TickCallsPick, PickPreserves, ZenonT(30)
<1>6. ASSUME NEW c \in Cpus, request_yield(c) PROVE RQInv'
  BY <1>6 DEF request_yield, cpuVars, TypeOK, OneCpuPerTask, ReadyIsQueued, EntriesAtHome,
              ReportedTaskIsLocal
<1>7. ASSUME NEW c \in Cpus, block_current(c) PROVE RQInv'
  <2>1. current_task[c] \in Tasks /\ last_cpu[current_task[c]] = c
    BY <1>7 DEF block_current, TypeOK, OneCpuPerTask
  <2> QED  BY <1>7, <2>1 DEF block_current, cpuVars, TypeOK, TaskState, OneCpuPerTask,
                             ReadyIsQueued, EntriesAtHome, ReportedTaskIsLocal
<1>8. ASSUME NEW c \in Cpus, exit_current(c) PROVE RQInv'
  <2>1. UNCHANGED <<started, next_task_id, handed_out, class>>
    BY <1>8, ZenonT(30) DEF exit_current
  <2>2. TypeOK
    OBVIOUS
  <2>3. started' \in BOOLEAN /\ next_task_id' \in Nat /\ handed_out' \subseteq Tasks
        /\ class' \in [Tasks -> Class]
    BY <2>1, <2>2 DEF TypeOK
  <2> HIDE DEF RQInv
  <2> QED  BY <1>8, <2>2, <2>3, ExitCallsPick, PickPreserves, ZenonT(30)
<1>9. CASE UNCHANGED rqVars
  BY <1>9 DEF rqVars, taskVars, cpuVars, TypeOK, OneCpuPerTask, ReadyIsQueued, EntriesAtHome,
              ReportedTaskIsLocal
<1> QED  BY <1>1, <1>2, <1>3, <1>4, <1>5, <1>6, <1>7, <1>8, <1>9 DEF Next

\* For any number of CPUs, classes and tasks: every field keeps its type, a task runs
\* on at most one CPU, a Ready task always has a queue entry on its own CPU, no
\* entry lies elsewhere, and a CPU reports only a live task of its own.
THEOREM RunQueuesSafe ==
    Spec => [](TypeOK /\ OneCpuPerTask /\ ReadyIsQueued /\ EntriesAtHome /\ ReportedTaskIsLocal)
BY RQInvInit, RQInvStep, IdleStep, PTL DEF Spec, RQInv

\* What the two action properties say of one step.
LEMMA WorkConservingStep ==
    ASSUME RQInv, IdleUntilStarted, NEW c \in Cpus, current_task'[c] = NoTask,
           on_timer_tick(c) \/ exit_current(c) \/ (c = 0 /\ start)
    PROVE  \A t \in Tasks : last_cpu[t] = c => state'[t] # "Ready"
<1>1. TypeOK
  BY DEF RQInv
<1>2. CASE on_timer_tick(c)
  BY <1>1, <1>2, TickCallsPick, PickOutcome, ZenonT(30)
<1>3. CASE exit_current(c)
  BY <1>1, <1>3, ExitCallsPick, PickOutcome, ZenonT(30)
<1>4. CASE c = 0 /\ start
  BY <1>1, <1>4, StartCallsPick, PickOutcome, ZenonT(30)
<1> QED  BY <1>2, <1>3, <1>4

\* No operation of Scheduler changes the state of a task that exit_current ended.
LEMMA ExitedStaysExited ==
    ASSUME RQInv, IdleUntilStarted, Next, NEW t \in Tasks, state[t] = "Exited"
    PROVE  state'[t] = "Exited"
<1>0. TypeOK /\ OneCpuPerTask
  BY DEF RQInv
<1>1. CASE allocate_task_id
  BY <1>1 DEF allocate_task_id, taskVars
<1>2. CASE start
  BY <1>0, <1>2, StartCallsPick, PickOutcome, ZenonT(30)
<1>3. ASSUME NEW u \in Tasks, add_task(u) \/ wake_task(u) PROVE state'[t] = "Exited"
  BY <1>0, <1>3, SMTT(30) DEF add_task, wake_task, TypeOK
<1>4. ASSUME NEW c \in Cpus, on_timer_tick(c) PROVE state'[t] = "Exited"
  <2>1. PICK prev, st, qd, qs : /\ PickReady(c, prev, st, qd, qs)
                                /\ pick_next_task(c, prev, st, qd, qs)
                                /\ class' \in [Tasks -> Class]
                                /\ SameFate(st)
    BY <1>4, TickCallsPick, ZenonT(30)
  <2> QED  BY <1>0, <2>1, PickOutcome DEF SameFate
<1>5. ASSUME NEW c \in Cpus, request_yield(c) \/ block_current(c) PROVE state'[t] = "Exited"
  BY <1>0, <1>5, SMTT(30) DEF request_yield, block_current, TypeOK, OneCpuPerTask
<1>6. ASSUME NEW c \in Cpus, exit_current(c) PROVE state'[t] = "Exited"
  <2>1. PICK st, qd, qs : /\ PickReady(c, NoTask, st, qd, qs)
                          /\ pick_next_task(c, NoTask, st, qd, qs)
                          /\ SameFate(st)
    BY <1>6, ExitCallsPick, ZenonT(30)
  <2> QED  BY <1>0, <2>1, PickOutcome DEF SameFate
<1> QED  BY <1>1, <1>2, <1>3, <1>4, <1>5, <1>6 DEF Next

\* For any number of CPUs, classes and tasks: start, a tick or an exit leaves a CPU
\* without a task only if none of its tasks is Ready.
THEOREM RunQueuesWorkConserving == Spec => WorkConserving
<1>1. RQInv /\ IdleUntilStarted /\ [Next]_rqVars =>
        [\A c \in Cpus :
           current_task'[c] = NoTask /\ (\E t \in Tasks : last_cpu[t] = c /\ state'[t] = "Ready")
              => ~on_timer_tick(c) /\ ~exit_current(c) /\ ~(c = 0 /\ start)]_rqVars
  BY WorkConservingStep
<1> QED  BY <1>1, RQInvInit, RQInvStep, IdleStep, PTL DEF Spec, WorkConserving

\* For any number of CPUs, classes and tasks: an exited task stays exited, whatever
\* entries of it the queues still hold.
THEOREM RunQueuesExitIsFinal == Spec => ExitIsFinal
<1>1. RQInv /\ IdleUntilStarted /\ [Next]_rqVars =>
        [\A t \in Tasks : state[t] = "Exited" => state'[t] = "Exited"]_rqVars
  BY ExitedStaysExited
<1> QED  BY <1>1, RQInvInit, RQInvStep, IdleStep, PTL DEF Spec, ExitIsFinal
=============================================================================
