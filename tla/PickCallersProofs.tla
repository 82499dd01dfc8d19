------------------------ MODULE PickCallersProofs ------------------------
(***************************************************************************)
(* pick_next_task ends three operations (start, on_timer_tick,             *)
(* exit_current), each with its own state of the tasks and queues at the   *)
(* call: each of them is a state PickReady describes.                      *)
(***************************************************************************)
EXTENDS PickNextTaskProofs

\* A tick reaches pick_next_task in such a state: the previous task, if any, lost the
\* CPU and has a queue entry unless it is Blocked.
LEMMA TickCallsPick ==
    ASSUME RQInv, NEW c \in Cpus, on_timer_tick(c)
    PROVE  \E prev, st, qd, qs :
             /\ PickReady(c, prev, st, qd, qs)
             /\ pick_next_task(c, prev, st, qd, qs)
             /\ class' \in [Tasks -> Class]
             /\ SameFate(st)
<1> USE DEF RQInv
<1>T. /\ 0 \in Cpus /\ NoTask \notin Tasks
      /\ ClassesOf \in [Tasks -> SUBSET Class]
  BY TasksAssumption, SizesAssumption, ParamsAssumption DEF Cpus, NoTask
<1> DEFINE prev == current_task[c]
<1>2. CASE prev = NoTask
  <2>1. PickReady(c, NoTask, state, queued, queues)
    BY <1>2, <1>T DEF PickReady, TypeOK, OneCpuPerTask, ReadyIsQueued, EntriesAtHome,
                      ReportedTaskIsLocal
  <2>2. /\ pick_next_task(c, NoTask, state, queued, queues)
        /\ class' \in [Tasks -> Class] /\ SameFate(state)
    BY <1>2 DEF on_timer_tick, TypeOK, SameFate
  <2> QED  BY <2>1, <2>2
<1>3. CASE prev # NoTask
  <2>1. prev \in Tasks /\ last_cpu[prev] = c /\ state[prev] \in {"Ready", "Running", "Blocked"}
        /\ CURRENT_TASK_IDS[c] = prev
    BY <1>3, SMTT(30) DEF TypeOK, TaskState, OneCpuPerTask, ReportedTaskIsLocal
  <2> DEFINE st == [state EXCEPT ![prev] = IF @ = "Running" THEN "Ready" ELSE @]
             new == should_enqueue(prev, st)
             qd  == [queued EXCEPT ![prev] = @ \/ new]
  <2>2. PICK k \in ClassesOf[prev] :
           /\ class' = [class EXCEPT ![prev] = k]
           /\ pick_next_task(c, prev, st, qd,
                 [queues EXCEPT ![last_cpu[prev]][k][prev] = IF new THEN @ + 1 ELSE @])
    BY <1>3, ZenonT(30) DEF on_timer_tick
  <2> DEFINE qs == [queues EXCEPT ![last_cpu[prev]][k][prev] = IF new THEN @ + 1 ELSE @]
  <2>3. k \in Class /\ class' \in [Tasks -> Class]
    BY <2>1, <2>2, <1>T, ZenonT(30) DEF TypeOK
  <2>4. PickReady(c, prev, st, qd, qs)
    <3>1. st \in [Tasks -> TaskState] /\ qd \in [Tasks -> BOOLEAN]
      BY <2>1 DEF TypeOK, TaskState
    <3>2. /\ qs \in [Cpus -> [Class -> [Tasks -> Nat]]]
          /\ \A d \in Cpus, j \in Class, t \in Tasks :
                /\ queues[d][j][t] > 0 => qs[d][j][t] > 0
                /\ d # c \/ t # prev => qs[d][j][t] = queues[d][j][t]
          /\ new => qs[c][k][prev] > 0
      BY <2>1, <2>3 DEF TypeOK
    <3>3. \A t \in Tasks : /\ t # prev => st[t] = state[t] /\ qd[t] = queued[t]
                           /\ qd[t] <=> st[t] = "Ready"
      BY <2>1, ZenonT(30) DEF should_enqueue, TypeOK, ReadyIsQueued
    <3>4. new \/ (st[prev] = "Ready" => state[prev] = "Ready")
      BY <2>1 DEF should_enqueue, TypeOK, ReadyIsQueued
    <3>5. st[prev] \in {"Ready", "Blocked"}
      BY <2>1 DEF TypeOK
    <3> HIDE DEF st, qd, qs, new
    <3>6. \A t \in Tasks : st[t] = "Ready" => \E j \in Class : qs[last_cpu[t]][j][t] > 0
      <4> SUFFICES ASSUME NEW t \in Tasks, st[t] = "Ready"
                   PROVE  \E j \in Class : qs[last_cpu[t]][j][t] > 0
        OBVIOUS
      <4>1. last_cpu[t] \in Cpus
        BY DEF TypeOK
      <4>2. CASE state[t] = "Ready"
        <5>1. PICK j \in Class : queues[last_cpu[t]][j][t] > 0
          BY <4>2 DEF ReadyIsQueued
        <5> QED  BY <3>2, <4>1, <5>1
      <4>3. CASE state[t] # "Ready"
        <5>1. t = prev /\ new
          BY <3>3, <3>4, <4>3
        <5> QED  BY <2>1, <2>3, <3>2, <5>1
      <4> QED  BY <4>2, <4>3
    <3>7. \A d \in Cpus, j \in Class, t \in Tasks :
             qs[d][j][t] > 0 => last_cpu[t] = d /\ st[t] # "Absent"
      <4> SUFFICES ASSUME NEW d \in Cpus, NEW j \in Class, NEW t \in Tasks, qs[d][j][t] > 0
                   PROVE  last_cpu[t] = d /\ st[t] # "Absent"
        OBVIOUS
      <4>1. CASE t = prev /\ d = c
        BY <2>1, <3>5, <4>1
      <4>2. CASE t # prev \/ d # c
        <5>1. queues[d][j][t] > 0
          BY <3>2, <4>2
        <5>2. last_cpu[t] = d /\ state[t] # "Absent"
          BY <5>1 DEF EntriesAtHome
        <5> QED  BY <2>1, <3>3, <3>5, <5>2
      <4> QED  BY <4>1, <4>2
    <3>8. \A d \in Cpus \ {c} : current_task[d] # NoTask =>
             /\ last_cpu[current_task[d]] = d
             /\ st[current_task[d]] \notin {"Absent", "Exited"}
             /\ CURRENT_TASK_IDS[d] = current_task[d]
      BY <2>1, <3>3, <3>5 DEF OneCpuPerTask, ReportedTaskIsLocal, TypeOK
    <3>9. \A d \in Cpus \ {c} : CURRENT_TASK_IDS[d] # NoTask =>
             /\ last_cpu[CURRENT_TASK_IDS[d]] = d
             /\ st[CURRENT_TASK_IDS[d]] \notin {"Absent", "Exited"}
      BY <2>1, <3>3, <3>5 DEF ReportedTaskIsLocal, TypeOK
    <3>10. \A t \in Tasks : st[t] = "Running" => last_cpu[t] # c /\ current_task[last_cpu[t]] = t
      BY <2>1, <3>3, <3>5, SMTT(30) DEF OneCpuPerTask
    <3> QED  BY <2>1, <3>1, <3>2, <3>3, <3>5, <3>6, <3>7, <3>8, <3>9, <3>10 DEF PickReady
  <2>5. pick_next_task(c, prev, st, qd, qs)
    BY <2>2
  <2>6. SameFate(st)
    BY <2>1 DEF TypeOK, SameFate
  <2> HIDE DEF st, qd, qs, new
  <2> QED  BY <2>3, <2>4, <2>5, <2>6
<1> QED  BY <1>2, <1>3

\* exit_current reaches pick_next_task in such a state.
LEMMA ExitCallsPick ==
    ASSUME RQInv, NEW c \in Cpus, exit_current(c)
    PROVE  \E st, qd, qs :
             /\ PickReady(c, NoTask, st, qd, qs)
             /\ pick_next_task(c, NoTask, st, qd, qs)
             /\ SameFate(st)
<1> USE DEF RQInv
<1> DEFINE t == current_task[c]
           st == IF t = NoTask THEN state ELSE [state EXCEPT ![t] = "Exited"]
           qd == IF t = NoTask THEN queued ELSE [queued EXCEPT ![t] = FALSE]
<1>0. NoTask \notin Tasks
  BY TasksAssumption DEF NoTask
<1>1. t # NoTask => t \in Tasks /\ last_cpu[t] = c
  BY DEF TypeOK, OneCpuPerTask
<1>2. PickReady(c, NoTask, st, qd, queues)
  BY <1>0, <1>1 DEF PickReady, TypeOK, TaskState, OneCpuPerTask, ReadyIsQueued,
                    EntriesAtHome, ReportedTaskIsLocal
<1>3. pick_next_task(c, NoTask, st, qd, queues)
  BY DEF exit_current
<1>4. SameFate(st)
  BY <1>1 DEF TypeOK, OneCpuPerTask, SameFate
<1> HIDE DEF st, qd
<1> QED  BY <1>2, <1>3, <1>4

\* process::start reaches pick_next_task in such a state.
LEMMA StartCallsPick ==
    ASSUME RQInv, IdleUntilStarted, start
    PROVE  /\ PickReady(0, NoTask, state, queued, queues)
           /\ pick_next_task(0, NoTask, state, queued, queues)
<1>1. 0 \in Cpus /\ NoTask \notin Tasks
  BY TasksAssumption, SizesAssumption DEF Cpus, NoTask
<1>2. PickReady(0, NoTask, state, queued, queues)
  BY <1>1 DEF start, IdleUntilStarted, PickReady, RQInv, TypeOK, OneCpuPerTask, ReadyIsQueued,
              EntriesAtHome, ReportedTaskIsLocal
<1> QED  BY <1>2 DEF start
=============================================================================
