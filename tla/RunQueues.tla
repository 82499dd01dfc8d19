---------------------------- MODULE RunQueues ----------------------------
(***************************************************************************)
(* The run queues of kernel/process.rs: which task each CPU runs, which    *)
(* queue a runnable task waits in, and the two levels of deficit (per      *)
(* class and per task) that decide who may be served.                      *)
(*                                                                         *)
(* A step is one critical section of the global SCHEDULER lock, so every   *)
(* operation of `impl Scheduler` is one action.  A VecDeque of task ids is *)
(* kept as the number of entries of each task: its order is only the       *)
(* tie-break of the virtual-runtime policy, which is left open.            *)
(***************************************************************************)
EXTENDS Integers, FiniteSets, Functions

CONSTANTS
    Tasks,          \* task ids, positive as in CURRENT_TASK_IDS (0 is "none")
    BootTasks,      \* the ids kernel_main_uefi adds before the scheduler starts
    NumCpus,        \* the length of Scheduler::cpus
    NUM_CLASSES,
    CLASS_QUANTA,   \* class -> quantum of the class
    TaskQuantum,    \* class -> task -> task_quantum(class, nice)
    InitClass,      \* task -> recompute_task_class of a new task
    ClassesOf,      \* task -> the classes its hint, nice and history allow
    Preferred,      \* task -> preferred_cpu
    MaxEntries      \* bound on the stale entries a wake-up may pile up

Cpus  == 0 .. NumCpus - 1
Class == 0 .. NUM_CLASSES - 1
NoTask == 0

ASSUME TasksAssumption == Tasks \subseteq Nat \ {0} /\ BootTasks \subseteq Tasks
ASSUME SizesAssumption == /\ NumCpus \in Nat \ {0}
                          /\ NUM_CLASSES \in Nat \ {0}
                          /\ MaxEntries \in Nat
ASSUME QuantaAssumption == /\ CLASS_QUANTA \in [Class -> Nat \ {0}]
                           /\ TaskQuantum \in [Class -> [Tasks -> Nat \ {0}]]
ASSUME ParamsAssumption == /\ ClassesOf \in [Tasks -> SUBSET Class]
                           /\ InitClass \in [Tasks -> Class]
                           /\ \A t \in Tasks : InitClass[t] \in ClassesOf[t]
                           /\ Preferred \in [Tasks -> Nat]

VARIABLES
    started,          \* Scheduler::started
    next_task_id,     \* Scheduler::next_task_id
    handed_out,       \* ids allocated by a task creation still in progress
    state,            \* Task::state, "Absent" before add_task
    class, last_cpu, deficit, queued,
    current_task,     \* CpuRunQueue::current_task
    class_cursor, class_deficits, queues,
    CURRENT_TASK_IDS

taskVars == <<state, class, last_cpu, deficit, queued>>
cpuVars  == <<current_task, class_cursor, class_deficits, queues, CURRENT_TASK_IDS>>
rqVars   == <<started, next_task_id, handed_out, taskVars, cpuVars>>

TaskState == {"Absent", "Ready", "Running", "Blocked", "Exited"}

Init ==
    /\ started = FALSE
    /\ next_task_id = 1
    /\ handed_out = {}
    /\ state = [t \in Tasks |-> "Absent"]
    /\ class = InitClass
    /\ last_cpu = [t \in Tasks |-> 0]
    /\ deficit = [t \in Tasks |-> 0]
    /\ queued = [t \in Tasks |-> FALSE]
    /\ current_task = [c \in Cpus |-> NoTask]
    /\ class_cursor = [c \in Cpus |-> 0]
    /\ class_deficits = [c \in Cpus |-> [k \in Class |-> 0]]
    /\ queues = [c \in Cpus |-> [k \in Class |-> [t \in Tasks |-> 0]]]
    /\ CURRENT_TASK_IDS = [c \in Cpus |-> NoTask]
-----------------------------------------------------------------------------
(* What pick_next_task reads and computes.  st, qd and qs are the task      *)
(* states, queued flags and queues at the point where it is called.         *)

\* Mutant: a stale queue entry counts, whatever the state of its task.
ReadyIn_ignores_state(c, k, st, qs) == {t \in Tasks : qs[c][k][t] > 0}

\* The tasks has_ready_task_in_class and pick_task_from_class can see.
ReadyIn(c, k, st, qs) == {t \in Tasks : qs[c][k][t] > 0 /\ st[t] = "Ready"}

\* deficit.max(0).saturating_add(quantum).min(quantum * 2), applied n times
Refill(d, quantum, n) ==
    LET sum == (IF d > 0 THEN d ELSE 0) + n * quantum
    IN  IF sum <= 2 * quantum THEN sum ELSE 2 * quantum

\* Mutant: a class is refilled once per Ready task instead of once.
refill_per_ready_task(c, st, qs) ==
    [k \in Class |-> LET n == Cardinality(ReadyIn(c, k, st, qs))
                     IN  Refill(class_deficits[c][k], CLASS_QUANTA[k], n)]

refill_class_deficits(c, st, qs) ==
    [k \in Class |-> IF ReadyIn(c, k, st, qs) = {}
                       THEN class_deficits[c][k]
                       ELSE Refill(class_deficits[c][k], CLASS_QUANTA[k], 1)]

\* One refill per queue entry of the task: the loop walks the queue.
refill_task_deficits(c, k, st, qs) ==
    [t \in Tasks |-> IF t \in ReadyIn(c, k, st, qs)
                       THEN Refill(deficit[t], TaskQuantum[k][t], qs[c][k][t])
                       ELSE deficit[t]]

\* Mutant: a class with a deficit of one is skipped (< 2 for <= 0).
Servable_off_by_one(c, st, qs, cd) == {k \in Class : cd[k] > 1 /\ ReadyIn(c, k, st, qs) # {}}

\* The classes a round of pick_next_task can serve with class deficits cd, and
\* how far from the cursor it meets class k: (class_cursor + offset) % NUM_CLASSES.
Servable(c, st, qs, cd) == {k \in Class : cd[k] > 0 /\ ReadyIn(c, k, st, qs) # {}}
OffsetOf(c, k) == IF k >= class_cursor[c] THEN k - class_cursor[c]
                                          ELSE k - class_cursor[c] + NUM_CLASSES

\* Mutants: the cursor does not wrap; service is not charged.
advance_unwrapped(k) == k + 1
charge_nothing(d) == d

\* (class_idx + 1) % NUM_CLASSES, and the charge for one pick
advance(k) == IF k + 1 = NUM_CLASSES THEN 0 ELSE k + 1
charge(d) == d - 1

\* pick_task_from_class and the switch to the task it returns.  Both passes:
\* deficits are refilled only when no Ready task of the class has one left.
dispatch(c, k, st, qd, qs, cd) ==
    LET ready == ReadyIn(c, k, st, qs)
        left  == IF \E t \in ready : deficit[t] > 0
                   THEN deficit ELSE refill_task_deficits(c, k, st, qs)
    IN  \E n \in {t \in ready : left[t] > 0} :
          /\ queues' = [qs EXCEPT ![c][k][n] = @ - 1]
          /\ queued' = [qd EXCEPT ![n] = FALSE]
          /\ class_cursor' = [class_cursor EXCEPT ![c] = advance(k)]
          /\ class_deficits' = [class_deficits EXCEPT ![c] = [cd EXCEPT ![k] = charge(@)]]
          /\ state' = [st EXCEPT ![n] = "Running"]
          /\ last_cpu' = [last_cpu EXCEPT ![n] = c]
          /\ deficit' = [left EXCEPT ![n] = charge(@)]
          /\ current_task' = [current_task EXCEPT ![c] = n]
          /\ CURRENT_TASK_IDS' = [CURRENT_TASK_IDS EXCEPT ![c] = n]

\* Mutant: exit_current does not take() the current task.
current_kept(c, resumed, prev) == IF resumed THEN prev ELSE current_task[c]
\* Mutant: CURRENT_TASK_IDS is never reset to 0.
reported_kept(c, resumed, prev) == IF resumed THEN prev ELSE CURRENT_TASK_IDS[c]

\* The current task and the reported id of a CPU for which nothing was picked.  The
\* callers took the current task; the id is cleared only without a previous task.
current_after(c, resumed, prev) == IF resumed THEN prev ELSE NoTask
reported_after(c, resumed, prev) ==
    IF resumed THEN prev ELSE IF prev = NoTask THEN NoTask ELSE CURRENT_TASK_IDS[c]

\* The code after both rounds found nothing: resume the previous task if it can
\* still run, else leave the CPU without a task.
nothing_picked(c, prev, st, qd, qs, cd) ==
    LET resumed == prev # NoTask /\ st[prev] \in {"Ready", "Running"}
    IN  /\ state' = IF resumed THEN [st EXCEPT ![prev] = "Running"] ELSE st
        /\ current_task' = [current_task EXCEPT ![c] = current_after(c, resumed, prev)]
        /\ CURRENT_TASK_IDS' = [CURRENT_TASK_IDS EXCEPT ![c] = reported_after(c, resumed, prev)]
        /\ class_deficits' = [class_deficits EXCEPT ![c] = cd]
        /\ queued' = qd /\ queues' = qs
        /\ UNCHANGED <<last_cpu, deficit, class_cursor>>

\* The two rounds of pick_next_task.  A round that finds nothing changes nothing:
\* refill_task_deficits only touches Ready tasks, which the second pass then takes.
pick_next_task(c, prev, st, qd, qs) ==
    LET cd       == class_deficits[c]
        refilled == refill_class_deficits(c, st, qs)
        Serve(d) == \E k \in Servable(c, st, qs, d) :
                       /\ \A j \in Servable(c, st, qs, d) : OffsetOf(c, k) <= OffsetOf(c, j)
                       /\ dispatch(c, k, st, qd, qs, d)
    IN  IF Servable(c, st, qs, cd) # {} THEN Serve(cd)
        ELSE IF Servable(c, st, qs, refilled) # {} THEN Serve(refilled)
        ELSE nothing_picked(c, prev, st, qd, qs, refilled)
\* Mutants: the queued flag is read the wrong way round; a Blocked task is pushed.
should_enqueue_inverted(t, st) == st[t] = "Ready" /\ queued[t]
should_enqueue_blocked(t, st) == ~queued[t]

\* enqueue_task pushes a Ready task whose queued flag is clear.
should_enqueue(t, st) == st[t] = "Ready" /\ ~queued[t]

-----------------------------------------------------------------------------
(* The operations of Scheduler, each under the SCHEDULER lock.              *)

allocate_task_id ==
    /\ started
    /\ next_task_id \in Tasks
    /\ handed_out' = handed_out \cup {next_task_id}
    /\ next_task_id' = next_task_id + 1
    /\ UNCHANGED <<started, taskVars, cpuVars>>

cpu_is_idle(c) == current_task[c] = NoTask /\ \A k \in Class, t \in Tasks : queues[c][k][t] = 0

\* current_task.is_some() plus the entries of all queues of the CPU
Load(c) == (IF current_task[c] = NoTask THEN 0 ELSE 1)
           + SumFunction([k \in Class |-> SumFunction(queues[c][k])])

\* Mutant: the preference is honoured before CPU 0 is tried.
select_cpu_preferred_first(t, c) ==
    IF Preferred[t] \in Cpus /\ cpu_is_idle(Preferred[t]) THEN c = Preferred[t]
    ELSE \A d \in Cpus : Load(c) < Load(d) \/ (Load(c) = Load(d) /\ c <= d)

\* A new task has last_cpu 0; min_by_key keeps the first of equal loads.
select_cpu_for_task(t, c) ==
    IF cpu_is_idle(0) THEN c = 0
    ELSE IF Preferred[t] \in Cpus /\ cpu_is_idle(Preferred[t]) THEN c = Preferred[t]
    ELSE \A d \in Cpus : Load(c) < Load(d) \/ (Load(c) = Load(d) /\ c <= d)

\* Mutant: the maximum with the current next_task_id is forgotten.
next_id_after_overwrites(t) == t + 1

\* next_task_id.max(task_id.saturating_add(1))
next_id_after(t) == IF next_task_id <= t THEN t + 1 ELSE next_task_id

add_task(t) ==
    /\ state[t] = "Absent"
    /\ IF t \in BootTasks THEN ~started ELSE started /\ t \in handed_out
    /\ \E c \in Cpus :
         /\ select_cpu_for_task(t, c)
         /\ last_cpu' = [last_cpu EXCEPT ![t] = c]
         /\ queues' = [queues EXCEPT ![c][InitClass[t]][t] = @ + 1]
    /\ state' = [state EXCEPT ![t] = "Ready"]
    /\ class' = [class EXCEPT ![t] = InitClass[t]]
    /\ deficit' = [deficit EXCEPT ![t] = TaskQuantum[InitClass[t]][t]]
    /\ queued' = [queued EXCEPT ![t] = TRUE]
    /\ next_task_id' = next_id_after(t)
    /\ handed_out' = handed_out \ {t}
    /\ UNCHANGED <<started, current_task, class_cursor, class_deficits, CURRENT_TASK_IDS>>

\* kernel_main_uefi adds its boot tasks first; process::start then expects one.
start ==
    /\ ~started
    /\ \E t \in Tasks : state[t] # "Absent"
    /\ started' = TRUE
    /\ pick_next_task(0, NoTask, state, queued, queues)
    /\ UNCHANGED <<next_task_id, handed_out, class>>

\* account_running_task on the task of the CPU, then pick_next_task.  k is the
\* class recompute_task_class_by_id gives the task: its inputs runnable_avg and
\* full_slice_runs never shrink, so a task can only go from Normal to Hog.  A task
\* still Running becomes Ready, and a Ready task without a queue entry gets one.
on_timer_tick(c) ==
    LET prev == current_task[c]
    IN  /\ started
        /\ UNCHANGED <<started, next_task_id, handed_out>>
        /\ IF prev = NoTask
             THEN pick_next_task(c, NoTask, state, queued, queues) /\ UNCHANGED class
             ELSE \E k \in {j \in ClassesOf[prev] : j >= class[prev]} :
                    LET st  == [state EXCEPT ![prev] = IF @ = "Running" THEN "Ready" ELSE @]
                        new == should_enqueue(prev, st)
                        qd  == [queued EXCEPT ![prev] = @ \/ new]
                        qs  == [queues EXCEPT ![last_cpu[prev]][k][prev] = IF new THEN @ + 1 ELSE @]
                    IN  /\ class' = [class EXCEPT ![prev] = k]
                        /\ pick_next_task(c, prev, st, qd, qs)

request_yield(c) ==
    /\ current_task[c] # NoTask
    /\ deficit' = [deficit EXCEPT ![current_task[c]] = 0]
    /\ UNCHANGED <<started, next_task_id, handed_out, state, class, last_cpu, queued, cpuVars>>

\* The task stays current_task until the next tick.
block_current(c) ==
    LET t == current_task[c]
    IN  /\ t # NoTask
        /\ state' = [state EXCEPT ![t] = "Blocked"]
        /\ queued' = [queued EXCEPT ![t] = FALSE]
        /\ deficit' = [deficit EXCEPT ![t] = 0]
        /\ UNCHANGED <<started, next_task_id, handed_out, class, last_cpu, cpuVars>>

\* Mutant: a woken task is queued on the CPU it prefers, not on its last CPU.
wake_cpu_preferred(t) == IF Preferred[t] \in Cpus THEN Preferred[t] ELSE last_cpu[t]

\* The queue enqueue_task pushes to
wake_cpu(t) == last_cpu[t]

\* Called by code running on some CPU that is not executing t itself.
wake_task(t) ==
    /\ \E c \in Cpus : current_task[c] # t
    /\ state[t] = "Blocked"
    /\ queues[last_cpu[t]][class[t]][t] < MaxEntries
    /\ state' = [state EXCEPT ![t] = "Ready"]
    /\ deficit' = [deficit EXCEPT ![t] = TaskQuantum[class[t]][t]]
    /\ queues' = [queues EXCEPT ![wake_cpu(t)][class[t]][t] = IF queued[t] THEN @ ELSE @ + 1]
    /\ queued' = [queued EXCEPT ![t] = TRUE]
    /\ UNCHANGED <<started, next_task_id, handed_out, class, last_cpu,
                   current_task, class_cursor, class_deficits, CURRENT_TASK_IDS>>

exit_current(c) ==
    LET t  == current_task[c]
        st == IF t = NoTask THEN state ELSE [state EXCEPT ![t] = "Exited"]
        qd == IF t = NoTask THEN queued ELSE [queued EXCEPT ![t] = FALSE]
    IN  /\ started
        /\ pick_next_task(c, NoTask, st, qd, queues)
        /\ UNCHANGED <<started, next_task_id, handed_out, class>>

Next ==
    \/ allocate_task_id
    \/ start
    \/ \E t \in Tasks : add_task(t) \/ wake_task(t)
    \/ \E c \in Cpus : \/ on_timer_tick(c) \/ request_yield(c)
                       \/ block_current(c) \/ exit_current(c)

Spec == Init /\ [][Next]_rqVars
-----------------------------------------------------------------------------
(* Properties                                                               *)

Entries(t) == SumFunction([c \in Cpus |-> SumFunction([k \in Class |-> queues[c][k][t]])])

\* Every field keeps the type of its declaration; deficits never go negative.
TypeOK ==
    /\ started \in BOOLEAN
    /\ next_task_id \in Nat
    /\ handed_out \subseteq Tasks
    /\ state \in [Tasks -> TaskState]
    /\ class \in [Tasks -> Class]
    /\ last_cpu \in [Tasks -> Cpus]
    /\ deficit \in [Tasks -> Nat]
    /\ queued \in [Tasks -> BOOLEAN]
    /\ current_task \in [Cpus -> Tasks \cup {NoTask}]
    /\ class_cursor \in [Cpus -> Class]
    /\ class_deficits \in [Cpus -> [Class -> Nat]]
    /\ queues \in [Cpus -> [Class -> [Tasks -> Nat]]]
    /\ CURRENT_TASK_IDS \in [Cpus -> Tasks \cup {NoTask}]

\* A task is the current task of at most one CPU, the CPU it last ran on, and a
\* Running task is current there: no interleaving of ticks, blocks and wake-ups of
\* several CPUs makes two of them execute on one kernel stack.
OneCpuPerTask ==
    /\ \A c \in Cpus : current_task[c] # NoTask =>
          /\ last_cpu[current_task[c]] = c
          /\ state[current_task[c]] \notin {"Absent", "Exited"}
    /\ \A t \in Tasks : state[t] = "Running" => current_task[last_cpu[t]] = t

\* A Ready task is never lost: it has an entry in a queue of its own CPU, the only
\* CPU whose pick_next_task looks for it, and the queued flag says exactly that.
ReadyIsQueued ==
    \A t \in Tasks :
      /\ queued[t] <=> state[t] = "Ready"
      /\ state[t] = "Ready" => \E k \in Class : queues[last_cpu[t]][k][t] > 0

\* A queue entry names a task the scheduler knows (task_index panics on any other
\* id) and sits on the CPU the task last ran on: a stale entry can never make a
\* second CPU pick the task.
EntriesAtHome ==
    \A c \in Cpus, k \in Class, t \in Tasks :
        queues[c][k][t] > 0 => last_cpu[t] = c /\ state[t] # "Absent"

\* current_task_id, which wait_for_single_object registers as the waiter, names the
\* CPU's current task, or after the CPU went idle a live task that last ran there.
ReportedTaskIsLocal ==
    \A c \in Cpus :
      /\ current_task[c] # NoTask => CURRENT_TASK_IDS[c] = current_task[c]
      /\ CURRENT_TASK_IDS[c] # NoTask =>
            /\ last_cpu[CURRENT_TASK_IDS[c]] = c
            /\ state[CURRENT_TASK_IDS[c]] \notin {"Absent", "Exited"}

\* No sequence of yields, wake-ups and refills lets a class or a task hoard service:
\* a class never has more than one quantum left (refills happen only when every
\* Ready class is spent, so their cap of two is not reached), a task never more than
\* two (a duplicate queue entry refills twice).
DeficitsBounded ==
    /\ \A c \in Cpus, k \in Class : class_deficits[c][k] <= CLASS_QUANTA[k]
    /\ \A t \in Tasks : \E k \in Class : deficit[t] <= 2 * TaskQuantum[k][t]

\* An id handed out by allocate_task_id is neither in use nor handed out again.
IdsNeverReused ==
    /\ \A t \in Tasks : state[t] # "Absent" \/ t \in handed_out => t < next_task_id
    /\ \A t \in handed_out : state[t] = "Absent"

\* process::start expects a runnable task on CPU 0: the first boot task is always
\* queued there, whatever CPU its parameters prefer.
StartFindsTask ==
    ~started /\ (\E t \in Tasks : state[t] # "Absent")
        => \E k \in Class : ReadyIn(0, k, state, queues) # {}

\* On one CPU a task has exactly one queue entry while Ready and none otherwise.
OneEntryPerReadyTask ==
    \A t \in Tasks : Entries(t) = IF state[t] = "Ready" THEN 1 ELSE 0

\* A CPU is left without a task by a tick or an exit only if none of its tasks is
\* Ready: the two refill levels always find the Ready task the queues hold.  With
\* StartFindsTask, process::start's expect of a runnable task cannot fail.
WorkConserving ==
    [][\A c \in Cpus :
         current_task'[c] = NoTask /\ (\E t \in Tasks : last_cpu[t] = c /\ state'[t] = "Ready")
            => ~on_timer_tick(c) /\ ~exit_current(c) /\ ~(c = 0 /\ start)]_rqVars

\* exit_current is final: no entry left in a queue brings an exited task back.
ExitIsFinal ==
    [][\A t \in Tasks : state[t] = "Exited" => state'[t] = "Exited"]_rqVars
=============================================================================
