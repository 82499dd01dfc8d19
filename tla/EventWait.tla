---------------------------- MODULE EventWait ----------------------------
(***************************************************************************)
(* Waiting for events and process exits (kernel/user.rs) on top of the run *)
(* queues.  Tasks make system calls; a system call runs with interrupts    *)
(* disabled, so a CPU takes a timer tick only where the code executes hlt  *)
(* or int 0x20, and scheduler_timer_tick ignores ticks in user mode.  On   *)
(* several CPUs the steps of two calls interleave at every lock: the lock  *)
(* of the object manager (a signal is set, reset or consumed), WAITERS (a  *)
(* waiter is registered, removed or taken) and SCHEDULER (module           *)
(* RunQueues).                                                             *)
(***************************************************************************)
EXTENDS RunQueues, Sequences

CONSTANTS
    Events, AutoReset,            \* NT events; those that are not manual_reset
    process_object, thread_object,\* task -> the objects its exit signals
    Threads,                      \* the tasks that create_thread_ex makes
    Waitable,                     \* the objects that programs wait for
    Calls,                        \* the system calls that programs make
    Endless,                      \* those that a program may make for ever
    MaxCalls,                     \* bound on the other calls of a task
    MaxDelay                      \* ticks of the longest delay_execution

Objects == Events \cup {process_object[t] : t \in Tasks} \cup {thread_object[t] : t \in Tasks}

ASSUME CallsAssumption ==
    Calls \subseteq {"wait", "poll", "set", "reset", "yield", "delay", "spawn"}
\* Only calls that let a tick in: nothing preempts a program that makes none of these.
ASSUME EndlessAssumption == Endless \subseteq Calls \cap {"yield", "delay"}
ASSUME ThreadsAssumption == Threads \subseteq Tasks \ BootTasks
ASSUME ObjectsAssumption == AutoReset \subseteq Events /\ Waitable \subseteq Objects
ASSUME CallBoundsAssumption == MaxCalls \in Nat /\ MaxDelay \in Nat

VARIABLES
    exec,       \* the task whose stack a CPU executes, NoTask for an idle loop
    pc,         \* where the system call of a task stands, "user" outside of one
    obj,        \* the object of the call in progress
    saved,      \* where the context at Task::saved_rsp resumes a task
    todo,       \* objects whose waiters the call still has to wake
    ids,        \* task ids the call still has to wake, or to add
    calls,      \* system calls left
    delay,      \* ticks until global_tick reaches wake_tick of delay_execution
    signaled, WAITERS

callVars == <<exec, pc, saved, obj, todo, ids, calls, delay, signaled, WAITERS>>
vars == <<rqVars, callVars>>

\* Where a task waiting for obj can be, where a CPU executes hlt, and where it has left
\* hlt and not yet executed the cli that follows.
Waiting == {"register", "check", "block", "hlt", "hlt_cli"}
Halted == {"hlt", "pause", "delay"}
Awake == {"hlt_cli", "delay_cli"}
PC == Waiting \cup Halted \cup Awake \cup
        {"user", "unregister", "wake", "yield", "resumed", "spawn",
         "exit_thread", "exit_process", "exit_wake", "exit_switch", "gone"}

EventInit ==
    /\ Init
    /\ exec = [c \in Cpus |-> NoTask]
    /\ pc = [t \in Tasks |-> "user"]
    /\ saved = [t \in Tasks |-> "user"]
    /\ obj = [t \in Tasks |-> CHOOSE o \in Waitable : TRUE]
    /\ todo = [t \in Tasks |-> <<>>]
    /\ ids = [t \in Tasks |-> <<>>]
    /\ calls = [t \in Tasks |-> MaxCalls]
    /\ delay = [t \in Tasks |-> 0]
    /\ signaled = [o \in Objects |-> FALSE]
    /\ WAITERS = [o \in Objects |-> <<>>]
-----------------------------------------------------------------------------
(* One step of the code that CPU c executes.                                *)

At(c, t, p) == exec[c] = t /\ pc[t] = p

\* The system call of t goes on at p, without touching the scheduler.
Continue(t, p) ==
    /\ pc' = [pc EXCEPT ![t] = p]
    /\ UNCHANGED <<exec, saved, obj, todo, ids, calls, delay>>

\* t enters a call from user mode.
Enter(c, t, call, p) ==
    /\ At(c, t, "user")
    /\ call \in Calls
    /\ call \in Endless \/ calls[t] > 0
    /\ calls' = IF call \in Endless THEN calls ELSE [calls EXCEPT ![t] = @ - 1]
    /\ pc' = [pc EXCEPT ![t] = p]
    /\ UNCHANGED <<exec, saved>>

\* consume_waitable_signal of a signaled object: an auto-reset event is reset.
consume(o) == signaled' = [signaled EXCEPT ![o] = @ /\ o \notin AutoReset]

\* wait_for_single_object up to the first consume_waitable_signal; with a timeout of 0 it
\* returns STATUS_TIMEOUT.
wait_for_single_object(c, t) ==
    /\ \E o \in Waitable :
         \/ /\ signaled[o]
            /\ Enter(c, t, "wait", "user")
            /\ consume(o)
            /\ UNCHANGED obj
         \/ /\ ~signaled[o]
            /\ Enter(c, t, "poll", "user")
            /\ UNCHANGED <<obj, signaled>>
         \/ /\ ~signaled[o]
            /\ Enter(c, t, "wait", "register")
            /\ obj' = [obj EXCEPT ![t] = o]
            /\ UNCHANGED signaled
    /\ UNCHANGED <<rqVars, todo, ids, delay, WAITERS>>

\* Mutants: a list that exists is left as it is; nobody is removed from one.
with_first_waiter(list, t) == IF list # <<>> THEN list ELSE <<t>>
without_nobody(list, t) == list

InSeq(x, list) == \E i \in DOMAIN list : list[i] = x

\* What register_waiter and unregister_waiter make of the list of an object
with_waiter(list, t) == IF InSeq(t, list) THEN list ELSE Append(list, t)
without_waiter(list, t) == SelectSeq(list, LAMBDA u : u # t)

\* Mutant: the return without a current task is missing, and 0 is registered.
register_waiter_unchecked(c, t) ==
    /\ At(c, t, "register")
    /\ WAITERS' = [WAITERS EXCEPT ![obj[t]] = with_waiter(@, CURRENT_TASK_IDS[c])]
    /\ Continue(t, "check")
    /\ UNCHANGED <<rqVars, signaled>>

\* current_task_id names the waiter; without one the call returns STATUS_PENDING.
register_waiter(c, t) ==
    /\ At(c, t, "register")
    /\ IF CURRENT_TASK_IDS[c] = NoTask
         THEN Continue(t, "user") /\ UNCHANGED WAITERS
         ELSE /\ WAITERS' = [WAITERS EXCEPT ![obj[t]] = with_waiter(@, CURRENT_TASK_IDS[c])]
              /\ Continue(t, "check")
    /\ UNCHANGED <<rqVars, signaled>>

\* The consume_waitable_signal of the loop.  It fails for no object that the call before
\* the loop accepted: the caller's handle refers to it, and only the caller can close that.
check_signal(c, t) ==
    /\ At(c, t, "check")
    /\ IF signaled[obj[t]]
         THEN consume(obj[t]) /\ Continue(t, "unregister")
         ELSE Continue(t, "block") /\ UNCHANGED signaled
    /\ UNCHANGED <<rqVars, WAITERS>>

unregister_waiter(c, t) ==
    /\ At(c, t, "unregister")
    /\ WAITERS' = [WAITERS EXCEPT ![obj[t]] = without_waiter(@, t)]
    /\ Continue(t, "user")
    /\ UNCHANGED <<rqVars, signaled>>

\* process::block_current, which does nothing on a CPU without a current task
block(c, t) ==
    /\ At(c, t, "block")
    /\ IF current_task[c] = NoTask THEN UNCHANGED rqVars ELSE block_current(c)
    /\ Continue(t, "hlt")
    /\ UNCHANGED <<signaled, WAITERS>>

set_event(c, t) ==
    \E o \in Events :
      /\ Enter(c, t, "set", "wake")
      /\ signaled' = [signaled EXCEPT ![o] = TRUE]
      /\ todo' = [todo EXCEPT ![t] = <<o>>]
      /\ UNCHANGED <<rqVars, obj, ids, delay, WAITERS>>

\* reset_event and clear_event
reset_event(c, t) ==
    \E o \in Events :
      /\ Enter(c, t, "reset", "user")
      /\ signaled' = [signaled EXCEPT ![o] = FALSE]
      /\ UNCHANGED <<rqVars, obj, todo, ids, delay, WAITERS>>

\* wake_waiters, first half: the list of the object is removed from WAITERS.
take_waiters(c, t) ==
    /\ At(c, t, "wake") \/ At(c, t, "exit_wake")
    /\ ids[t] = <<>> /\ todo[t] # <<>>
    /\ ids' = [ids EXCEPT ![t] = WAITERS[Head(todo[t])]]
    /\ WAITERS' = [WAITERS EXCEPT ![Head(todo[t])] = <<>>]
    /\ todo' = [todo EXCEPT ![t] = Tail(@)]
    /\ UNCHANGED <<rqVars, exec, pc, saved, obj, calls, delay, signaled>>

\* wake_waiters, second half: process::wake_task of each task of the list
wake_waiter(c, t) ==
    /\ At(c, t, "wake") \/ At(c, t, "exit_wake")
    /\ ids[t] # <<>>
    /\ \E u \in Tasks : /\ u = Head(ids[t])
                        /\ IF state[u] = "Blocked" THEN wake_task(u) ELSE UNCHANGED rqVars
    /\ ids' = [ids EXCEPT ![t] = Tail(@)]
    /\ UNCHANGED <<exec, pc, saved, obj, todo, calls, delay, signaled, WAITERS>>

waiters_woken(c, t) ==
    /\ ids[t] = <<>> /\ todo[t] = <<>>
    /\ \/ At(c, t, "wake") /\ Continue(t, "user")
       \/ At(c, t, "exit_wake") /\ Continue(t, "exit_switch")
    /\ UNCHANGED <<rqVars, signaled, WAITERS>>

yield_execution(c, t) ==
    /\ Enter(c, t, "yield", "yield")
    /\ IF current_task[c] = NoTask THEN UNCHANGED rqVars ELSE request_yield(c)
    /\ UNCHANGED <<obj, todo, ids, delay, signaled, WAITERS>>

\* An interval of 0 halts once; another one halts until global_tick has advanced.
delay_execution(c, t) ==
    /\ \/ Enter(c, t, "delay", "pause") /\ UNCHANGED delay
       \/ /\ Enter(c, t, "delay", "resumed")
          /\ \E d \in 1 .. MaxDelay : delay' = [delay EXCEPT ![t] = d]
    /\ UNCHANGED <<rqVars, obj, todo, ids, signaled, WAITERS>>

\* The cli after hlt
cli(c, t) ==
    /\ \/ At(c, t, "hlt_cli") /\ Continue(t, "check")
       \/ At(c, t, "delay_cli") /\ Continue(t, "resumed")
    /\ UNCHANGED <<rqVars, signaled, WAITERS>>

\* The code after a hlt or int 0x20 that is not in a wait: delay_execution halts
\* again while process::global_tick() < wake_tick, any other call returns.
resume(c, t) ==
    /\ At(c, t, "resumed")
    /\ Continue(t, IF delay[t] = 0 THEN "user" ELSE "delay")
    /\ UNCHANGED <<rqVars, signaled, WAITERS>>

\* create_user_process and create_thread_ex: an id first, the task later.
spawn(c, t) ==
    /\ Enter(c, t, "spawn", "spawn")
    /\ allocate_task_id
    /\ ids' = [ids EXCEPT ![t] = <<next_task_id>>]
    /\ UNCHANGED <<obj, todo, delay, signaled, WAITERS>>

spawn_add(c, t) ==
    /\ At(c, t, "spawn")
    /\ \E u \in Tasks : ids[t] = <<u>> /\ add_task(u)
    /\ ids' = [ids EXCEPT ![t] = <<>>]
    /\ pc' = [pc EXCEPT ![t] = "user"]
    /\ UNCHANGED <<exec, saved, obj, todo, calls, delay, signaled, WAITERS>>

\* An early return of either (no memory, a bad image): the id is lost, and
\* create_user_process signals the objects in S that it had made for the child.
spawn_fail(c, t, S) ==
    /\ At(c, t, "spawn")
    /\ ids' = [ids EXCEPT ![t] = <<>>]
    /\ pc' = [pc EXCEPT ![t] = "user"]
    /\ signaled' = [o \in Objects |-> signaled[o] \/ o \in S]
    /\ UNCHANGED <<rqVars, exec, saved, obj, todo, calls, delay, WAITERS>>

objects_of(t) == <<thread_object[t], process_object[t]>>

\* The objects in the record of the process that the CPU of a task works for: a thread
\* runs with the default record, which has none (module Processes shows why).
record_objects(t) == IF t \in Threads THEN <<>> ELSE objects_of(t)

\* user::exit_current takes the objects from the record.
exit_begins(c, t, objects) ==
    /\ At(c, t, "user")
    /\ todo' = [todo EXCEPT ![t] = objects]
    /\ pc' = [pc EXCEPT ![t] = "exit_thread"]
    /\ UNCHANGED <<rqVars, exec, saved, obj, ids, calls, delay, signaled, WAITERS>>

\* The thread object, then the process object is signaled ...
exit_thread_object(c, t) ==
    /\ At(c, t, "exit_thread")
    /\ signaled' = [o \in Objects |-> signaled[o] \/ (todo[t] # <<>> /\ o = todo[t][1])]
    /\ Continue(t, "exit_process")
    /\ UNCHANGED <<rqVars, WAITERS>>

\* ... then the waiters of each are woken.
exit_process_object(c, t) ==
    /\ At(c, t, "exit_process")
    /\ signaled' = [o \in Objects |-> signaled[o] \/ (todo[t] # <<>> /\ o = todo[t][2])]
    /\ Continue(t, "exit_wake")
    /\ UNCHANGED <<rqVars, WAITERS>>

\* The context of the current task is kept by a tick, that of no other.  Of a task that
\* was not current, what saved_rsp points to is older than its last steps and may have
\* been overwritten: it goes on where the context was saved or where it was.
\* at and kept are pc and saved when the stack is switched.
restored(c, at, kept) ==
    LET n == current_task'[c]
    IN  IF n = NoTask THEN pc' = at
        ELSE \E p \in {kept[n], at[n]} : pc' = [at EXCEPT ![n] = p]

\* process::on_task_exit; without a next task it stays in an idle loop.
on_task_exit(c, t) ==
    /\ At(c, t, "exit_switch")
    /\ exit_current(c)
    /\ exec' = [exec EXCEPT ![c] = current_task'[c]]
    /\ restored(c, [pc EXCEPT ![t] = "gone"], saved)
    /\ UNCHANGED <<saved, obj, todo, ids, calls, delay, signaled, WAITERS>>

\* The calls that create or end no task
Call(c, t) ==
    \/ wait_for_single_object(c, t) \/ register_waiter(c, t) \/ check_signal(c, t)
    \/ unregister_waiter(c, t) \/ block(c, t)
    \/ set_event(c, t) \/ reset_event(c, t)
    \/ take_waiters(c, t) \/ wake_waiter(c, t) \/ waiters_woken(c, t)
    \/ yield_execution(c, t) \/ delay_execution(c, t) \/ cli(c, t) \/ resume(c, t)
    \/ exit_thread_object(c, t) \/ exit_process_object(c, t)

Step(c) ==
    \E t \in Tasks :
      \/ Call(c, t)
      \/ spawn(c, t) \/ spawn_add(c, t)
      \/ /\ At(c, t, "spawn")
         /\ \E S \in {{}, Range(record_objects(Head(ids[t])))} : spawn_fail(c, t, S)
      \/ exit_begins(c, t, record_objects(t))
      \/ on_task_exit(c, t)
-----------------------------------------------------------------------------
(* Interrupts and the boot of CPU 0                                         *)

\* Where an interrupt returns to: behind hlt with interrupts enabled, or behind int 0x20,
\* which was executed with interrupts disabled
after_interrupt(p) ==
    IF p \in {"hlt", "hlt_cli"} THEN "hlt_cli" ELSE IF p = "yield" THEN "resumed" ELSE "delay_cli"

\* Mutants: the CPU stays on the stack it was on; it takes the stack CPU 0 got.
switched_never(c) == exec[c]
switched_as_cpu0(c) == IF current_task'[0] = NoTask THEN exec[c] ELSE current_task'[0]

\* The stack scheduler_timer_tick returns: the picked task's, else current_rsp.
switched(c) == IF current_task'[c] = NoTask THEN exec[c] ELSE current_task'[c]

\* Mutant: the tick is not counted.
ticked_never(d) == d

\* global_tick advances.  delay_execution compares it with an absolute wake_tick, so only
\* their difference counts, and how far global_tick is past wake_tick does not.
ticked(d) == IF d = 0 THEN 0 ELSE d - 1

\* scheduler_timer_tick at CPL 0, from the APIC timer or from int 0x20
scheduler_timer_tick(c) ==
    LET s == exec[c]
        t == current_task[c]
        at == IF s = NoTask THEN pc ELSE [pc EXCEPT ![s] = after_interrupt(@)]
        kept == IF t = NoTask THEN saved ELSE [saved EXCEPT ![t] = at[t]]
    IN  /\ s # NoTask => pc[s] \in Halted \cup Awake \cup {"yield"}
        /\ on_timer_tick(c)
        /\ exec' = [exec EXCEPT ![c] = switched(c)]
        /\ saved' = kept
        /\ restored(c, at, kept)
        /\ delay' = [u \in Tasks |-> ticked(delay[u])]
        /\ UNCHANGED <<obj, todo, ids, calls, signaled, WAITERS>>

\* Another interrupt, such as the keyboard's, ends a hlt and leaves the task alone.
other_interrupt(c) ==
    /\ exec[c] # NoTask
    /\ pc[exec[c]] \in Halted
    /\ Continue(exec[c], after_interrupt(pc[exec[c]]))
    /\ UNCHANGED <<rqVars, signaled, WAITERS>>

boot_add(t) == t \in BootTasks /\ add_task(t) /\ UNCHANGED callVars

boot_start ==
    /\ start
    /\ exec' = [exec EXCEPT ![0] = current_task'[0]]
    /\ UNCHANGED <<pc, saved, obj, todo, ids, calls, delay, signaled, WAITERS>>

EventNext ==
    \/ boot_start
    \/ \E t \in Tasks : boot_add(t)
    \/ \E c \in Cpus : Step(c) \/ scheduler_timer_tick(c) \/ other_interrupt(c)

EventSpec == EventInit /\ [][EventNext]_vars

\* Code that can run does, user code included: scheduler_timer_tick returns at once in
\* user mode, so the other tasks depend on a program to make its next system call, and on
\* all but finitely many of its calls to halt or to yield.  A timer interrupt that arrives
\* while interrupts are disabled stays pending until the next hlt: a CPU that halts again
\* and again takes ticks again and again, whatever other interrupts do.  Ticks are further
\* apart than one instruction: none comes before the cli each time.
FairEventSpec ==
    /\ EventSpec
    /\ WF_vars(boot_start)
    /\ \A c \in Cpus : WF_vars(Step(c)) /\ SF_vars(scheduler_timer_tick(c))
    /\ \A t \in Tasks : SF_vars(\E c \in Cpus : cli(c, t))
-----------------------------------------------------------------------------
(* Properties                                                               *)

\* What the system calls of kernel/user.rs keep in their locals, in WAITERS and in the
\* object manager stays in range.  In particular every id in a list of waiters is that of
\* a task (wake_task panics on any other), though a CPU that went idle reports no task
\* while a waiter that was woken late still executes on it.
EventTypeOK ==
    /\ TypeOK
    /\ exec \in [Cpus -> Tasks \cup {NoTask}]
    /\ pc \in [Tasks -> PC]
    /\ saved \in [Tasks -> PC]
    /\ obj \in [Tasks -> Objects]
    /\ todo \in [Tasks -> Seq(Objects)]
    /\ ids \in [Tasks -> Seq(Tasks)]
    /\ calls \in [Tasks -> 0 .. MaxCalls]
    /\ delay \in [Tasks -> 0 .. MaxDelay]
    /\ signaled \in [Objects -> BOOLEAN]
    /\ WAITERS \in [Objects -> Seq(Tasks)]

\* The stack of a task is only ever executed by the CPU the task last ran on, and
\* that CPU reports this task or none: registering current_task_id as the waiter
\* registers the caller.
StacksStayHome ==
    \A c \in Cpus : exec[c] # NoTask =>
        /\ last_cpu[exec[c]] = c
        /\ CURRENT_TASK_IDS[c] \in {exec[c], NoTask}

\* A task is in the list of waiters of at most the object it is waiting for, once,
\* and only between register_waiter and unregister_waiter: no registration outlives
\* its wait, whatever the interleaving with wake_waiters.
RegistrationsAreOwn ==
    \A o \in Objects :
      /\ \A i, j \in DOMAIN WAITERS[o] : WAITERS[o][i] = WAITERS[o][j] => i = j
      /\ \A t \in Tasks : InSeq(t, WAITERS[o]) =>
            obj[t] = o /\ pc[t] \in {"check", "block", "hlt", "hlt_cli", "unregister"}

\* On one CPU the executing task is the scheduler's current task, except that a
\* blocked waiter idles on its own stack while its object is not signaled: no task
\* returns to user mode behind the scheduler's back.
ExecutingIsCurrent ==
    \A c \in Cpus : LET t == exec[c] IN
        t # NoTask => \/ current_task[c] = t
                      \/ /\ state[t] = "Blocked"
                         /\ pc[t] \in {"check", "block", "hlt", "hlt_cli"}
                         /\ ~signaled[obj[t]]

\* On one CPU, for objects that stay signaled: a blocked task is in the list of its
\* object and, if the object is signaled, some task is about to take that list; or
\* some task has taken it and is about to wake it.
NoLostWakeup ==
    \A t \in Tasks : state[t] = "Blocked" =>
        \/ /\ InSeq(t, WAITERS[obj[t]])
           /\ signaled[obj[t]] => \E u \in Tasks : InSeq(obj[t], todo[u])
        \/ \E u \in Tasks : pc[u] \in {"wake", "exit_wake"} /\ InSeq(t, ids[u])

\* Every call returns, except a wait for an object that is not signaled.
CallsReturn ==
    \A t \in Tasks : []<>(\/ pc[t] \in {"user", "gone"}
                          \/ pc[t] \in Waiting /\ ~signaled[obj[t]])

\* Every Ready task is served, where programs may go on for ever with yields and delays but
\* not with wake-ups and new tasks, which bring a fresh deficit: ticks come only where those
\* programs halt or yield, and the two levels of deficits leave no Ready task behind.
ReadyIsServed == \A t \in Tasks : []<>(state[t] # "Ready")

\* No task waits for ever for an object that stays signaled.
WaitReturns ==
    \A t \in Tasks : []<>~(pc[t] \in Waiting /\ signaled[obj[t]])

\* NtYieldExecution returns.
YieldReturns ==
    \A t \in Tasks : []<>(pc[t] \notin {"yield", "resumed"})
=============================================================================
