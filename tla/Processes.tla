---------------------------- MODULE Processes ----------------------------
(***************************************************************************)
(* Which process a CPU works for (kernel/user.rs): the UserRegistry, the   *)
(* UserProcess record each CPU takes out of it (CURRENTS), and CR3.  The   *)
(* scheduler activates the process of every task it dispatches, and        *)
(* create_user_process borrows the CPU for the child while it loads the    *)
(* child's image.  Task creation, exits and ticks are those of EventWait;  *)
(* a step is one critical section of REGISTRY.                             *)
(*                                                                         *)
(* A record is named by the pid it was created for.  allocate_pid and      *)
(* allocate_address_space_id advance together under one lock from equal    *)
(* values, so an address space has the name of its process too.            *)
(***************************************************************************)
EXTENDS EventWait

CONSTANTS
    Pids,       \* pids that allocate_pid may hand out (a bound) and init's, 1
    InitTask,   \* the task of create_init_task
    Spawns      \* what programs create: "process", "thread"

NoPid == 0      \* active_pids of a CPU without a process
Default == 0    \* UserProcess::default(), whose pid and address space are 1
Missing == -1   \* no entry in by_pid
Kernel == 0     \* the page tables of the boot

ASSUME PidsAssumption == Pids \subseteq Nat \ {0} /\ 1 \in Pids
ASSUME InitTaskAssumption == InitTask \in Tasks /\ BootTasks = {InitTask}
ASSUME SpawnsAssumption == Spawns \subseteq {"process", "thread"}

VARIABLES
    next_pid,       \* UserRegistry::next_pid
    active_pids,    \* UserRegistry::active_pids
    by_pid,         \* UserRegistry::by_pid: pid -> record
    task_to_pid,    \* UserRegistry::task_to_pid, NoPid without an entry
    spaces,         \* UserRegistry::spaces
    slot,           \* CURRENTS: the record a CPU has taken
    cr3,            \* the address space a CPU has loaded
    process_of,     \* SchedParams::process_id of a task
    stage,          \* where a task in create_user_process or create_thread_ex stands
    child, parent   \* its locals pid and parent_active

registry == <<next_pid, by_pid, task_to_pid, spaces>>
cpuProc  == <<active_pids, slot, cr3>>
creation == <<process_of, stage, child, parent>>
procVars == <<registry, cpuProc, creation>>

Stages == {"none", "pid", "create", "registered", "child", "loaded", "thread"}

\* create_init_task has run on CPU 0 and left its process active.
ProcInit ==
    /\ EventInit
    /\ next_pid = 2
    /\ active_pids = [c \in Cpus |-> IF c = 0 THEN 1 ELSE NoPid]
    /\ slot = [c \in Cpus |-> IF c = 0 THEN 1 ELSE Default]
    /\ cr3 = [c \in Cpus |-> IF c = 0 THEN 1 ELSE Kernel]
    /\ by_pid = [p \in Pids |-> Missing]
    /\ task_to_pid = [t \in Tasks |-> IF t = InitTask THEN 1 ELSE NoPid]
    /\ spaces = {1}
    /\ process_of = [t \in Tasks |-> IF t = InitTask THEN 1 ELSE NoPid]
    /\ stage = [t \in Tasks |-> "none"]
    /\ child = [t \in Tasks |-> NoPid]
    /\ parent = [t \in Tasks |-> NoPid]
-----------------------------------------------------------------------------
(* switch_active_process and who calls it                                   *)

pid_of(record) == IF record = Default THEN 1 ELSE record
address_space_of(record) == IF record = Default THEN 1 ELSE record

\* current_pid_internal
current_pid(c) == IF active_pids[c] # NoPid THEN active_pids[c] ELSE pid_of(slot[c])

\* Mutant: the outgoing record is dropped.
stored_nothing(c) == by_pid

\* by_pid after the outgoing record has been put back, and after p was taken out
stored_back(c) ==
    IF active_pids[c] = NoPid THEN by_pid ELSE [by_pid EXCEPT ![active_pids[c]] = slot[c]]
taken_out(p, stored) == [stored EXCEPT ![p] = Missing]

\* Mutant: CR3 is not switched, as for a task without a process.
loaded_never(c, record) == cr3[c]

\* switch_address_space, whose error is ignored
loaded_space(c, record) ==
    IF address_space_of(record) \in spaces THEN address_space_of(record) ELSE cr3[c]

switch_active_process(c, p) ==
    LET stored == stored_back(c)
        Take(pid, record, space, rest) ==
          /\ active_pids' = [active_pids EXCEPT ![c] = pid]
          /\ slot' = [slot EXCEPT ![c] = record]
          /\ cr3' = [cr3 EXCEPT ![c] = space]
          /\ by_pid' = rest
    IN  IF active_pids[c] = p THEN UNCHANGED <<cpuProc, by_pid>>
        ELSE IF p = NoPid \/ stored[p] = Missing THEN Take(NoPid, Default, cr3[c], stored)
        ELSE Take(p, stored[p], loaded_space(c, stored[p]), taken_out(p, stored))

\* activate_task of the task the scheduler dispatches, if it dispatches one
activate_task(c) ==
    /\ IF current_task'[c] = NoTask THEN UNCHANGED <<cpuProc, by_pid>>
       ELSE switch_active_process(c, task_to_pid[current_task'[c]])
    /\ UNCHANGED <<next_pid, task_to_pid, spaces, creation>>
-----------------------------------------------------------------------------
(* create_user_process and create_thread_ex                                 *)

Stage(t, s) == stage' = [stage EXCEPT ![t] = s]

\* The calls after allocate_task_id; the thread names the process of its creator.
create_user_process(c, t) ==
    /\ "process" \in Spawns
    /\ spawn(c, t)
    /\ parent' = [parent EXCEPT ![t] = active_pids[c]]
    /\ Stage(t, "pid")
    /\ UNCHANGED <<registry, cpuProc, process_of, child>>

create_thread_ex(c, t) ==
    /\ "thread" \in Spawns
    /\ spawn(c, t)
    /\ process_of' = [process_of EXCEPT ![next_task_id] = current_pid(c)]
    /\ Stage(t, "thread")
    /\ UNCHANGED <<registry, cpuProc, child, parent>>

\* Mutant: the counter is not advanced.
next_pid_kept(p) == p

next_pid_after(p) == p + 1

allocate_pid(c, t) ==
    /\ At(c, t, "spawn") /\ stage[t] = "pid"
    /\ next_pid \in Pids
    /\ next_pid' = next_pid_after(next_pid)
    /\ child' = [child EXCEPT ![t] = next_pid]
    /\ Stage(t, "create")
    /\ UNCHANGED <<vars, by_pid, task_to_pid, spaces, cpuProc, process_of, parent>>

\* Mutant: the task of the child is entered with the parent's pid.
entered_for_parent(t) == [task_to_pid EXCEPT ![Head(ids[t])] = parent[t]]

entered(t) == [task_to_pid EXCEPT ![Head(ids[t])] = child[t]]

register_child(c, t) ==
    /\ At(c, t, "spawn") /\ stage[t] = "create"
    /\ by_pid' = [by_pid EXCEPT ![child[t]] = child[t]]
    /\ task_to_pid' = entered(t)
    /\ process_of' = [process_of EXCEPT ![Head(ids[t])] = child[t]]
    /\ spaces' = spaces \cup {child[t]}
    /\ Stage(t, "registered")
    /\ UNCHANGED <<vars, next_pid, cpuProc, child, parent>>

\* load_init_context runs between the two switches.
enter_child(c, t) ==
    /\ At(c, t, "spawn") /\ stage[t] = "registered"
    /\ switch_active_process(c, child[t])
    /\ Stage(t, "child")
    /\ UNCHANGED <<vars, next_pid, task_to_pid, spaces, process_of, child, parent>>

leave_child(c, t) ==
    /\ At(c, t, "spawn") /\ stage[t] = "child"
    /\ switch_active_process(c, parent[t])
    /\ Stage(t, "loaded")
    /\ UNCHANGED <<vars, next_pid, task_to_pid, spaces, process_of, child, parent>>

\* The call returns and its locals are gone.
Return(t) ==
    /\ stage' = [stage EXCEPT ![t] = "none"]
    /\ child' = [child EXCEPT ![t] = NoPid]
    /\ parent' = [parent EXCEPT ![t] = NoPid]

\* The new task is added; a thread gets no entry in task_to_pid.
created(c, t) ==
    /\ stage[t] \in {"loaded", "thread"}
    /\ spawn_add(c, t)
    /\ Return(t)
    /\ UNCHANGED <<registry, cpuProc, process_of>>

\* Mutant: the parent's address space is removed.
unregistered_parent(t) ==
    /\ by_pid' = [by_pid EXCEPT ![child[t]] = Missing]
    /\ task_to_pid' = [task_to_pid EXCEPT ![Head(ids[t])] = NoPid]
    /\ spaces' = spaces \ {parent[t]}

\* What cleanup_failed_spawn and the error path of load_init_context remove
unregistered(t) ==
    /\ by_pid' = [by_pid EXCEPT ![child[t]] = Missing]
    /\ task_to_pid' = [task_to_pid EXCEPT ![Head(ids[t])] = NoPid]
    /\ spaces' = spaces \ {child[t]}

\* A load that failed also signals the objects of the child; cleanup_failed_spawn does not.
not_created(c, t) ==
    /\ stage[t] \in {"create", "loaded", "thread"}
    /\ spawn_fail(c, t, IF stage[t] = "loaded" THEN Range(objects_of(Head(ids[t]))) ELSE {})
    /\ IF stage[t] = "thread" THEN UNCHANGED <<by_pid, task_to_pid, spaces>> ELSE unregistered(t)
    /\ Return(t)
    /\ UNCHANGED <<next_pid, cpuProc, process_of>>

\* user::exit_current up to its critical section of REGISTRY: it reads the objects from the
\* record of the CPU (the default one has none), and forgets the process of the task the
\* scheduler reports, if any.  The signals and wake-ups are further steps, of Call.
exit_current_process(c, t) ==
    /\ IF slot[c] = Default THEN exit_begins(c, t, <<>>)
       ELSE \E u \in Tasks : task_to_pid[u] = slot[c] /\ exit_begins(c, t, objects_of(u))
    /\ task_to_pid' = IF CURRENT_TASK_IDS[c] = NoTask THEN task_to_pid
                      ELSE [task_to_pid EXCEPT ![CURRENT_TASK_IDS[c]] = NoPid]
    /\ UNCHANGED <<next_pid, by_pid, spaces, cpuProc, creation>>
-----------------------------------------------------------------------------
ProcStep(c) ==
    \E t \in Tasks :
      \/ Call(c, t) /\ UNCHANGED procVars
      \/ create_user_process(c, t) \/ create_thread_ex(c, t)
      \/ allocate_pid(c, t) \/ register_child(c, t) \/ enter_child(c, t) \/ leave_child(c, t)
      \/ created(c, t) \/ not_created(c, t)
      \/ exit_current_process(c, t)
      \/ on_task_exit(c, t) /\ activate_task(c)

ProcNext ==
    \/ boot_start /\ activate_task(0)
    \/ \E t \in Tasks : boot_add(t) /\ UNCHANGED procVars
    \/ \E c \in Cpus :
         \/ ProcStep(c)
         \/ scheduler_timer_tick(c) /\ activate_task(c)
         \/ other_interrupt(c) /\ UNCHANGED procVars

ProcSpec == ProcInit /\ [][ProcNext]_<<vars, procVars>>
-----------------------------------------------------------------------------
(* Properties                                                               *)

\* The registry and the locals of a creation stay in range; no record is filed under
\* a pid that was never handed out.
ProcTypeOK ==
    /\ next_pid \in Nat
    /\ active_pids \in [Cpus -> Pids \cup {NoPid}]
    /\ slot \in [Cpus -> Pids \cup {Default}]
    /\ cr3 \in [Cpus -> Pids \cup {Kernel}]
    /\ by_pid \in [Pids -> Pids \cup {Missing}]
    /\ task_to_pid \in [Tasks -> Pids \cup {NoPid}]
    /\ spaces \subseteq Pids
    /\ process_of \in [Tasks -> Pids \cup {NoPid}]
    /\ stage \in [Tasks -> Stages]
    /\ child \in [Tasks -> Pids \cup {NoPid}]
    /\ parent \in [Tasks -> Pids \cup {NoPid}]
    /\ \A p \in Pids : p >= next_pid => by_pid[p] = Missing

\* Taking a record out of by_pid and putting it back never duplicates, misfiles or
\* loses it: a CPU holds the record of its active pid, by_pid holds a record under
\* its own pid, a pid is active on at most one CPU and then not in by_pid, and a
\* process that some task runs in is in one of the two places.
RecordInOnePlace ==
    /\ \A c \in Cpus : slot[c] = active_pids[c]
    /\ \A p \in Pids : by_pid[p] \in {p, Missing}
    /\ \A c \in Cpus : active_pids[c] # NoPid =>
         /\ by_pid[active_pids[c]] = Missing
         /\ \A d \in Cpus : active_pids[d] = active_pids[c] => c = d
    /\ \A t \in Tasks : task_to_pid[t] # NoPid =>
         by_pid[task_to_pid[t]] # Missing \/ \E c \in Cpus : active_pids[c] = task_to_pid[t]

\* The code of a process task works on its own process: on the CPU that executes it,
\* the active pid, the record and the page tables are those of its process, except
\* between the two switches of create_user_process.
RunsInOwnProcess ==
    \A c \in Cpus : exec[c] # NoTask =>
        LET t == exec[c] IN
        task_to_pid[t] # NoPid =>
            IF stage[t] = "child"
              THEN active_pids[c] = child[t] /\ cr3[c] = child[t]
              ELSE active_pids[c] = task_to_pid[t] /\ cr3[c] = task_to_pid[t]

\* Removing the address space of a failed child never removes one that a CPU with an
\* active process has in CR3.  (A task without a process, such as a thread, that fails to
\* create one leaves the page tables of the child loaded, with no process active.)
LoadedSpacesExist == \A c \in Cpus : active_pids[c] # NoPid => cr3[c] \in spaces

\* A task is only ever dispatched into a process of its own: two tasks never share
\* an entry, and the process of a creation in progress is nobody's yet.
PidsAreOwn ==
    /\ \A t, u \in Tasks : task_to_pid[t] = task_to_pid[u] /\ task_to_pid[t] # NoPid => t = u
    /\ \A t, u \in Tasks :
         stage[t] \in {"create", "registered", "child", "loaded"} /\ task_to_pid[u] = child[t]
            => InSeq(u, ids[t]) /\ state[u] = "Absent"

\* The code of a thread works on the process it was created in.
ThreadRunsInItsProcess ==
    \A c \in Cpus : exec[c] # NoTask /\ pc[exec[c]] = "user" =>
        slot[c] = process_of[exec[c]]
=============================================================================
