------------------------ MODULE PickNextTaskProofs ------------------------
(***************************************************************************)
(* Proofs about pick_next_task, for every number of CPUs, classes and      *)
(* tasks: PickReady states what the calls of it have in common, and        *)
(* PickPreserves that from there it restores the invariant.                *)
(***************************************************************************)
EXTENDS RunQueues, TLAPS

RQInv == TypeOK /\ OneCpuPerTask /\ ReadyIsQueued /\ EntriesAtHome /\ ReportedTaskIsLocal

\* No CPU has a task before process::start: what start needs to be such a call.
IdleUntilStarted == ~started => \A c \in Cpus : current_task[c] = NoTask

\* The states pick_next_task(c, prev, st, qd, qs) is called in: nothing is Running
\* on c, every Ready task has its entry, and prev is what c reported.
PickReady(c, prev, st, qd, qs) ==
    /\ c \in Cpus /\ prev \in Tasks \cup {NoTask}
    /\ st \in [Tasks -> TaskState] /\ qd \in [Tasks -> BOOLEAN]
    /\ qs \in [Cpus -> [Class -> [Tasks -> Nat]]]
    /\ \A d \in Cpus \ {c} : current_task[d] # NoTask =>
          /\ last_cpu[current_task[d]] = d
          /\ st[current_task[d]] \notin {"Absent", "Exited"}
          /\ CURRENT_TASK_IDS[d] = current_task[d]
    /\ \A d \in Cpus \ {c} : CURRENT_TASK_IDS[d] # NoTask =>
          /\ last_cpu[CURRENT_TASK_IDS[d]] = d
          /\ st[CURRENT_TASK_IDS[d]] \notin {"Absent", "Exited"}
    /\ \A t \in Tasks : st[t] = "Running" => last_cpu[t] # c /\ current_task[last_cpu[t]] = t
    /\ \A t \in Tasks :
          /\ qd[t] <=> st[t] = "Ready"
          /\ st[t] = "Ready" => \E k \in Class : qs[last_cpu[t]][k][t] > 0
    /\ \A d \in Cpus, k \in Class, t \in Tasks :
          qs[d][k][t] > 0 => last_cpu[t] = d /\ st[t] # "Absent"
    /\ prev # NoTask => /\ CURRENT_TASK_IDS[c] = prev
                        /\ last_cpu[prev] = c
                        /\ st[prev] \notin {"Absent", "Exited"}

\* The states st of the tasks at the call still know the exited and the known tasks.
SameFate(st) == \A t \in Tasks : /\ state[t] = "Exited" => st[t] = "Exited"
                                 /\ state[t] # "Absent" => st[t] # "Absent"

-----------------------------------------------------------------------------
\* A refill of a deficit, whatever it was, leaves a positive natural number.
LEMMA RefillPositive ==
    \A d \in Nat : \A q, n \in Nat \ {0} : Refill(d, q, n) \in Nat /\ Refill(d, q, n) > 0
<1> SUFFICES ASSUME NEW d \in Nat, NEW q \in Nat \ {0}, NEW n \in Nat \ {0}
             PROVE  Refill(d, q, n) \in Nat /\ Refill(d, q, n) > 0
  OBVIOUS
<1>1. n * q \in Nat /\ n * q > 0  BY SMT
<1> QED  BY <1>1 DEF Refill

\* refill_class_deficits keeps the deficits natural numbers and gives every class
\* with a Ready task a positive one.
LEMMA ClassRefill ==
    ASSUME TypeOK, NEW c \in Cpus, NEW st, NEW qs
    PROVE  /\ refill_class_deficits(c, st, qs) \in [Class -> Nat]
           /\ \A k \in Class : ReadyIn(c, k, st, qs) # {} => refill_class_deficits(c, st, qs)[k] > 0
<1>1. \A k \in Class : class_deficits[c][k] \in Nat /\ CLASS_QUANTA[k] \in Nat \ {0}
  BY QuantaAssumption DEF TypeOK
<1>2. \A k \in Class : /\ Refill(class_deficits[c][k], CLASS_QUANTA[k], 1) \in Nat
                       /\ Refill(class_deficits[c][k], CLASS_QUANTA[k], 1) > 0
  BY <1>1 DEF Refill
<1> QED  BY <1>1, <1>2 DEF refill_class_deficits

\* When the second round finds no class to serve, the queues of the CPU hold no
\* Ready task: the reason nothing_picked never leaves work behind.
LEMMA NothingReady ==
    ASSUME TypeOK, NEW c \in Cpus, NEW st, NEW qs,
           Servable(c, st, qs, refill_class_deficits(c, st, qs)) = {}
    PROVE  \A k \in Class : ReadyIn(c, k, st, qs) = {}
BY ClassRefill DEF Servable

\* refill_task_deficits keeps the deficits natural numbers.
LEMMA TaskRefill ==
    ASSUME TypeOK, NEW c \in Cpus, NEW k \in Class, NEW st,
           NEW qs \in [Cpus -> [Class -> [Tasks -> Nat]]]
    PROVE  refill_task_deficits(c, k, st, qs) \in [Tasks -> Nat]
<1>1. \A t \in Tasks : deficit[t] \in Nat /\ TaskQuantum[k][t] \in Nat \ {0} /\ qs[c][k][t] \in Nat
  BY QuantaAssumption DEF TypeOK
<1>2. \A t \in ReadyIn(c, k, st, qs) : qs[c][k][t] \in Nat \ {0}
  BY <1>1 DEF ReadyIn
<1>3. \A t \in ReadyIn(c, k, st, qs) : Refill(deficit[t], TaskQuantum[k][t], qs[c][k][t]) \in Nat
  BY <1>1, <1>2, RefillPositive, ZenonT(30) DEF ReadyIn
<1> QED  BY <1>1, <1>3 DEF refill_task_deficits

\* The switch to a picked task re-establishes the invariant.
LEMMA DispatchPreserves ==
    ASSUME TypeOK, NEW c, NEW prev, NEW st, NEW qd, NEW qs, PickReady(c, prev, st, qd, qs),
           NEW k \in Class, NEW cd \in [Class -> Nat], cd[k] > 0,
           dispatch(c, k, st, qd, qs, cd),
           started' \in BOOLEAN, next_task_id' \in Nat, handed_out' \subseteq Tasks,
           class' \in [Tasks -> Class]
    PROVE  RQInv'
<1> DEFINE ready == ReadyIn(c, k, st, qs)
           left  == IF \E t \in ready : deficit[t] > 0
                      THEN deficit ELSE refill_task_deficits(c, k, st, qs)
<1>1. PICK n \in {t \in ready : left[t] > 0} :
          /\ queues' = [qs EXCEPT ![c][k][n] = @ - 1]
          /\ queued' = [qd EXCEPT ![n] = FALSE]
          /\ class_cursor' = [class_cursor EXCEPT ![c] = advance(k)]
          /\ class_deficits' = [class_deficits EXCEPT ![c] = [cd EXCEPT ![k] = charge(@)]]
          /\ state' = [st EXCEPT ![n] = "Running"]
          /\ last_cpu' = [last_cpu EXCEPT ![n] = c]
          /\ deficit' = [left EXCEPT ![n] = charge(@)]
          /\ current_task' = [current_task EXCEPT ![c] = n]
          /\ CURRENT_TASK_IDS' = [CURRENT_TASK_IDS EXCEPT ![c] = n]
  BY ZenonT(30) DEF dispatch
<1>2. c \in Cpus /\ qs \in [Cpus -> [Class -> [Tasks -> Nat]]] /\ st \in [Tasks -> TaskState]
      /\ qd \in [Tasks -> BOOLEAN]
  BY DEF PickReady
<1>3. n \in Tasks /\ st[n] = "Ready" /\ qs[c][k][n] > 0 /\ last_cpu[n] = c /\ n # NoTask
  BY <1>1, <1>2, TasksAssumption DEF ReadyIn, PickReady, NoTask
<1>4. left \in [Tasks -> Nat]
  BY <1>2, TaskRefill DEF TypeOK
<1>5. TypeOK'
  <2>1. advance(k) \in Class
    BY SizesAssumption DEF advance, Class
  <2>2. deficit' \in [Tasks -> Nat]
    <3>1. left[n] \in Nat /\ left[n] > 0
      BY <1>1, <1>3, <1>4
    <3>2. deficit' = [left EXCEPT ![n] = left[n] - 1]
      BY <1>1 DEF charge
    <3> HIDE DEF left
    <3> QED  BY <1>3, <1>4, <3>1, <3>2
  <2>3. class_deficits' \in [Cpus -> [Class -> Nat]]
    BY <1>1, <1>2 DEF TypeOK, charge
  <2>4. queues' \in [Cpus -> [Class -> [Tasks -> Nat]]]
    <3>1. qs[c][k][n] - 1 \in Nat
      BY <1>2, <1>3
    <3> QED  BY <1>1, <1>2, <1>3, <3>1
  <2>5. /\ state' \in [Tasks -> TaskState] /\ last_cpu' \in [Tasks -> Cpus]
        /\ queued' \in [Tasks -> BOOLEAN]
    BY <1>1, <1>2, <1>3 DEF TypeOK, TaskState
  <2>6. /\ current_task' \in [Cpus -> Tasks \cup {NoTask}]
        /\ CURRENT_TASK_IDS' \in [Cpus -> Tasks \cup {NoTask}]
        /\ class_cursor' \in [Cpus -> Class]
    BY <1>1, <1>2, <1>3, <2>1 DEF TypeOK
  <2> QED  BY <2>2, <2>3, <2>4, <2>5, <2>6 DEF TypeOK
<1>6. last_cpu' = last_cpu
  BY <1>1, <1>3 DEF TypeOK
<1>7. \A d \in Cpus, j \in Class, t \in Tasks :
         /\ queues'[d][j][t] > 0 => qs[d][j][t] > 0
         /\ t # n => queues'[d][j][t] = qs[d][j][t]
  BY <1>1, <1>2, <1>3
<1>8. EntriesAtHome'
  BY <1>1, <1>2, <1>6, <1>7, SMTT(30) DEF EntriesAtHome, PickReady
<1>9. ReadyIsQueued'
  BY <1>1, <1>2, <1>3, <1>6, <1>7 DEF ReadyIsQueued, PickReady, TypeOK
<1>10. OneCpuPerTask'
  BY <1>1, <1>2, <1>3, <1>6, SMTT(30) DEF OneCpuPerTask, PickReady, TypeOK
<1>11. ReportedTaskIsLocal'
  BY <1>1, <1>2, <1>3, <1>6 DEF ReportedTaskIsLocal, PickReady, TypeOK
<1> QED  BY <1>5, <1>8, <1>9, <1>10, <1>11 DEF RQInv

\* pick_next_task re-establishes the invariant from every state it is called in:
\* its resume branch is dead code, because a previous task that could be resumed
\* has a queue entry, and then a class can be served.
LEMMA PickPreserves ==
    ASSUME TypeOK, NEW c, NEW prev, NEW st, NEW qd, NEW qs, PickReady(c, prev, st, qd, qs),
           pick_next_task(c, prev, st, qd, qs),
           started' \in BOOLEAN, next_task_id' \in Nat, handed_out' \subseteq Tasks,
           class' \in [Tasks -> Class]
    PROVE  RQInv'
<1> DEFINE refilled == refill_class_deficits(c, st, qs)
<1>0. c \in Cpus
  BY DEF PickReady
<1>1. class_deficits[c] \in [Class -> Nat] /\ refilled \in [Class -> Nat]
  BY <1>0, ClassRefill DEF TypeOK
<1>2. ASSUME NEW cd \in [Class -> Nat], NEW k \in Servable(c, st, qs, cd),
             dispatch(c, k, st, qd, qs, cd)
      PROVE  RQInv'
  <2>1. k \in Class /\ cd[k] > 0
    BY DEF Servable
  <2> QED  BY <1>2, <2>1, DispatchPreserves
<1>3. CASE Servable(c, st, qs, class_deficits[c]) # {}
  BY <1>1, <1>2, <1>3 DEF pick_next_task
<1>4. CASE /\ Servable(c, st, qs, class_deficits[c]) = {}
           /\ Servable(c, st, qs, refilled) # {}
  BY <1>1, <1>2, <1>4 DEF pick_next_task
<1>5. CASE /\ Servable(c, st, qs, class_deficits[c]) = {}
           /\ Servable(c, st, qs, refilled) = {}
  <2>1. nothing_picked(c, prev, st, qd, qs, refilled)
    BY <1>5 DEF pick_next_task
  <2>2. \A k \in Class : ReadyIn(c, k, st, qs) = {}
    BY <1>0, <1>5, NothingReady
  <2>3. \A t \in Tasks : last_cpu[t] = c => st[t] # "Ready" /\ st[t] # "Running"
    BY <2>2 DEF PickReady, ReadyIn
  <2>4. ~(prev # NoTask /\ st[prev] \in {"Ready", "Running"})
    BY <2>3 DEF PickReady
  <2>5. /\ state' = st /\ queued' = qd /\ queues' = qs
        /\ current_task' = [current_task EXCEPT ![c] = NoTask]
        /\ CURRENT_TASK_IDS' = [CURRENT_TASK_IDS EXCEPT
                                  ![c] = IF prev = NoTask THEN NoTask ELSE CURRENT_TASK_IDS[c]]
        /\ class_deficits' = [class_deficits EXCEPT ![c] = refilled]
        /\ last_cpu' = last_cpu /\ deficit' = deficit /\ class_cursor' = class_cursor
    BY <2>1, <2>4, ZenonT(30) DEF nothing_picked, current_after, reported_after
  <2> HIDE DEF refilled
  <2>6. TypeOK'
    BY <1>0, <1>1, <2>5 DEF TypeOK, PickReady
  <2>7. OneCpuPerTask'
    BY <2>3, <2>5 DEF OneCpuPerTask, PickReady, TypeOK
  <2>8. ReadyIsQueued' /\ EntriesAtHome'
    BY <2>5 DEF ReadyIsQueued, EntriesAtHome, PickReady
  <2>9. ReportedTaskIsLocal'
    BY <2>5 DEF ReportedTaskIsLocal, PickReady, TypeOK
  <2> QED  BY <2>6, <2>7, <2>8, <2>9 DEF RQInv
<1> QED  BY <1>3, <1>4, <1>5

\* A pick that leaves its CPU without a task found no Ready task there, and no pick
\* changes the state of an exited task.
LEMMA PickOutcome ==
    ASSUME TypeOK, NEW c, NEW prev, NEW st, NEW qd, NEW qs, PickReady(c, prev, st, qd, qs),
           pick_next_task(c, prev, st, qd, qs)
    PROVE  /\ current_task'[c] = NoTask => \A t \in Tasks : last_cpu[t] = c => state'[t] # "Ready"
           /\ \A t \in Tasks : st[t] = "Exited" => state'[t] = "Exited"
<1> DEFINE refilled == refill_class_deficits(c, st, qs)
<1>0. c \in Cpus /\ NoTask \notin Tasks
  BY TasksAssumption DEF PickReady, NoTask
<1>1. ASSUME NEW cd, NEW k, dispatch(c, k, st, qd, qs, cd)
      PROVE  /\ current_task'[c] # NoTask
             /\ \A t \in Tasks : st[t] = "Exited" => state'[t] = "Exited"
  <2>1. PICK n \in ReadyIn(c, k, st, qs) : /\ state' = [st EXCEPT ![n] = "Running"]
                                          /\ current_task' = [current_task EXCEPT ![c] = n]
    BY <1>1, ZenonT(30) DEF dispatch
  <2>2. n \in Tasks /\ st[n] = "Ready"
    BY DEF ReadyIn
  <2> QED  BY <1>0, <2>1, <2>2 DEF PickReady, TypeOK
<1>2. CASE Servable(c, st, qs, class_deficits[c]) # {} \/ Servable(c, st, qs, refilled) # {}
  BY <1>1, <1>2 DEF pick_next_task
<1>3. CASE Servable(c, st, qs, class_deficits[c]) = {} /\ Servable(c, st, qs, refilled) = {}
  <2>1. nothing_picked(c, prev, st, qd, qs, refilled)
    BY <1>3 DEF pick_next_task
  <2>2. \A k \in Class : ReadyIn(c, k, st, qs) = {}
    BY <1>0, <1>3, NothingReady
  <2>3. \A t \in Tasks : last_cpu[t] = c => st[t] # "Ready" /\ st[t] # "Running"
    BY <2>2 DEF PickReady, ReadyIn
  <2>4. state' = st
    BY <2>1, <2>3 DEF nothing_picked, PickReady
  <2> QED  BY <2>3, <2>4
<1> QED  BY <1>2, <1>3

\* A pick reports a task for its own CPU only: the picked one, else the one reported
\* before or none; it moves no task to another CPU and forgets none.
LEMMA PickReports ==
    ASSUME TypeOK, NEW c, NEW prev, NEW st, NEW qd, NEW qs, PickReady(c, prev, st, qd, qs),
           pick_next_task(c, prev, st, qd, qs)
    PROVE  /\ \A d \in Cpus \ {c} : CURRENT_TASK_IDS'[d] = CURRENT_TASK_IDS[d]
           /\ current_task'[c] = NoTask => CURRENT_TASK_IDS'[c] \in {NoTask, CURRENT_TASK_IDS[c]}
           /\ last_cpu' = last_cpu
           /\ \A t \in Tasks : st[t] # "Absent" => state'[t] # "Absent"
<1> DEFINE refilled == refill_class_deficits(c, st, qs)
           Goal == /\ \A d \in Cpus \ {c} : CURRENT_TASK_IDS'[d] = CURRENT_TASK_IDS[d]
                   /\ current_task'[c] = NoTask =>
                        CURRENT_TASK_IDS'[c] \in {NoTask, CURRENT_TASK_IDS[c]}
                   /\ last_cpu' = last_cpu
                   /\ \A t \in Tasks : st[t] # "Absent" => state'[t] # "Absent"
<1>0. c \in Cpus /\ NoTask \notin Tasks
  BY TasksAssumption DEF PickReady, NoTask
<1>1. ASSUME NEW cd, NEW k \in Class, dispatch(c, k, st, qd, qs, cd) PROVE Goal
  <2>1. PICK n \in ReadyIn(c, k, st, qs) :
           /\ state' = [st EXCEPT ![n] = "Running"]
           /\ last_cpu' = [last_cpu EXCEPT ![n] = c]
           /\ current_task' = [current_task EXCEPT ![c] = n]
           /\ CURRENT_TASK_IDS' = [CURRENT_TASK_IDS EXCEPT ![c] = n]
    BY <1>1, ZenonT(30) DEF dispatch
  <2>2. n \in Tasks /\ qs[c][k][n] > 0
    BY DEF ReadyIn
  <2>3. last_cpu[n] = c
    BY <1>0, <2>2 DEF PickReady
  <2>4. last_cpu' = last_cpu
    BY <2>1, <2>2, <2>3, SMTT(30) DEF TypeOK
  <2> QED  BY <1>0, <2>1, <2>2, <2>4 DEF PickReady, TypeOK
<1>2. CASE Servable(c, st, qs, class_deficits[c]) # {} \/ Servable(c, st, qs, refilled) # {}
  <2>1. \A d : Servable(c, st, qs, d) \subseteq Class
    BY DEF Servable
  <2> QED  BY <1>1, <1>2, <2>1, ZenonT(30) DEF pick_next_task
<1>3. CASE Servable(c, st, qs, class_deficits[c]) = {} /\ Servable(c, st, qs, refilled) = {}
  <2>1. nothing_picked(c, prev, st, qd, qs, refilled)
    BY <1>3 DEF pick_next_task
  <2> QED  BY <1>0, <2>1 DEF nothing_picked, current_after, reported_after, PickReady, TypeOK
<1> QED  BY <1>2, <1>3

=============================================================================
