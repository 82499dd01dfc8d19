# A TLA+ verification of the theos kernel

theos is a small NT-style operating system in Rust: a UEFI kernel with a
multi-CPU scheduler, NT system calls, processes with their own page tables, a
compressed-memory pager, a read/write root file system, and host tools that
build the disk image. This directory models the kernel in TLA+, checks the
models on small instances with TLC, and proves the central safety properties
for every instance with TLAPS.

* [The system](#the-system): the parts, their state, operations and hard cases
* [What is modelled](#what-is-modelled): module by module, against the code
* [The runs](#the-runs): what each checks, bounds, fairness
* [The proofs](#the-proofs)
* [Where the code and its documentation disagree](#where-the-code-and-its-documentation-disagree)
* [Plan](#plan) and [what is left out](#what-is-left-out)

`PROJECT.json` lists the runs, a mutation for every checked property, the source
lines behind every definition, the hazards and the theorems.

## The system

| Part | Source | State | Operations | What is hard about it |
|---|---|---|---|---|
| Scheduler | `kernel/process.rs` | tasks with state, class, CPU, deficit; per CPU a current task, class queues, class deficits, a cursor; `CURRENT_TASK_IDS` | `add_task`, `start`, `on_timer_tick`, `request_yield`, `block_current`, `wake_task`, `exit_current`, `allocate_task_id` | operations of several CPUs in any order; stale queue entries; two levels of deficit |
| Timer tick, context switch | `process.rs`, `switch.s`, `idt.rs` | which stack a CPU executes | `scheduler_timer_tick`, `restore_task_context`, `on_task_exit` | ticks are ignored in user mode; a CPU without a task continues on the stack it has |
| Waiting and events | `user.rs`, `nt.rs` | `WAITERS`, signals, the locals of a call | wait, set, reset, delay, yield, exit | check and block are separate critical sections |
| Processes | `user.rs` | `UserRegistry`, `CURRENTS`, CR3 | `switch_active_process`, `create_user_process`, `create_thread_ex`, exit | a record moves between two tables; a creation borrows the CPU; error paths |
| System call entry | `syscall.rs`, `switch.s` | GS bases, kernel stack | `syscall_handler`, dispatch | writes to GS inside a call |
| Object manager, handles | `nt.rs`, `user.rs` | objects with reference counts, names, handle slots | create, open, retain, release, install, close | lookup and insert are separate; references on error paths |
| Virtual memory | `user.rs`, `allocator.rs`, `paging.rs` | address spaces, regions, frames | allocate, free, protect, map and unmap views | partial failure; ownership of frames |
| Pager and page store | `reclaim.rs`, `zram.rs` | entries, resident queue, slots with generations | reclaim, fault, store, load, invalidate | the allocator calls back into the pager |
| SMP bring-up | `smp.rs`, `apic.rs` | online count, start signal | AP entry, BSP wait | processors that arrive late |
| VFS, pipes | `vfs.rs` | descriptor slots, pipe ends | open, read, write, dup, close, pipe | end counts across dup and close |
| Block driver | `virtio_blk.rs` | one request queue | submit and poll | completion after a timeout |
| PE loader | `user.rs` | modules of a process | load, relocate, import | import cycles, partial loads |
| crabfs and readers | `lib/*` | none (images) | pack, read | layout arithmetic |
| Host tools | `tools/*` | none | image building | none that a model would show |

The parts meet in the scheduler. A system call runs with interrupts disabled on
the kernel stack of its task; it gives up the CPU only by `sti; hlt; cli`. A
timer tick taken there locks `SCHEDULER`, picks a task, and calls
`user::activate_task`, which locks the registry, swaps the process record of the
CPU and loads CR3 and GS. Waiting is built from `WAITERS`, `block_current` and
`wake_task`; exits signal objects and wake their waiters.

## What is modelled

The modules of the scheduler and the system calls form one tower; each EXTENDS
the one before it, so that a step of an upper module is a step of the lower ones
with more state attached. The page store is separate: it runs under the lock of
its caller.

```
RunQueues  ->  EventWait  ->  Processes  ->  SyscallGs
    |              |________________________________________________
    |                                                               |
PickNextTaskProofs -> PickCallersProofs -> RunQueuesProofs -> EventWaitProofs

PageStore  <=  Zram   (Zram implements PageStore)
                 |
             ZramProofs
```

### RunQueues: `impl Scheduler`

One action per operation; an action is one critical section of the `SCHEDULER`
lock. The variables are the fields of `Scheduler`, `Task` and `CpuRunQueue` of
the same names, and the atomics `CURRENT_TASK_IDS`. `pick_next_task` is an
operator with the parameters it has in the code (the previous task) and the task
states and queues at the call, because three operations change those first.

* A queue is the number of entries of each task, not their order. Order only
  breaks ties of virtual runtime.
* Which of the Ready tasks with a deficit is taken, and when a task changes its
  class, is a nondeterministic choice that covers every virtual runtime and
  every history. Classes only go up, as `runnable_avg` and `full_slice_runs`
  never shrink.
* `handed_out` is not a field: it holds the ids that `allocate_task_id` returned
  to a creation still in progress.

### EventWait: system calls that wait, wake, yield, delay, create and exit

`exec[c]` is the stack CPU `c` executes, `pc[t]` where task `t` is in its call.
A step is the code between two points where another CPU can intervene: one
critical section of `SCHEDULER`, `WAITERS` or `OBJECTS`. So
`wait_for_single_object` is six actions (`register_waiter`, `check_signal`,
`block`, the halt, `cli`, `unregister_waiter`), `wake_waiters` is `take_waiters`
and a `wake_waiter` per task. An exit reads its objects (`exit_begins`), signals
the thread and then the process object, wakes the waiters of each, and leaves the
scheduler (`on_task_exit`).

* `scheduler_timer_tick` is possible only where the code has interrupts enabled
  in kernel mode: at a halt, between a halt and the `cli` after it, or at the
  `int 0x20` of a yield. A tick in user mode returns at once and changes nothing,
  so it is not an action.
* A tick saves the context of `current_task` only. `saved[t]` is where that context
  resumes `t`. A task that executes while it is not current is dispatched into an
  older context, or into what its stack has been overwritten with: the model takes
  either the saved place or the one the task was at (`restored`).
* The objects that an exit signals come from the record of the CPU: those of the
  task, or none for a thread, which runs with the default record. In EventWait a
  constant says which tasks are threads; in Processes the record of the CPU decides.
* `delay[t]` is the distance from `global_tick` to the absolute `wake_tick`; how far
  the clock is past it makes no difference to the code.
* When the scheduler has no task for a CPU, the CPU continues on the stack it
  was on (`exec` is kept): a blocked waiter then idles on its own stack.
* `other_interrupt` ends a halt without a tick.
* User programs make any sequence of the calls in `Calls`, at most `MaxCalls`
  each, and any number of those in `Endless`. Handles are taken as resolved: the
  error returns for a bad handle come before the first state change, and the one in
  the loop of the wait cannot occur, as only the waiter could close its handle.

### Processes: which process a CPU works for

`by_pid`, `task_to_pid`, `active_pids`, `spaces` and `next_pid` are the
registry; `slot` is `CURRENTS`; `cr3` the loaded page tables. A record is named
by the pid it was created for, so that a misfiled or lost record is visible.
Every dispatch of EventWait is conjoined with `activate_task`. The steps of
`create_user_process` are its critical sections of the registry lock; it can
fail where the code can, before the child is registered and after its image was
loaded, and `not_created` takes back what that error path takes back; after a
failed load it also signals the child's objects, as the code does. The exit's
critical section of the registry is a step of its own, before the signals. Address
spaces carry the name of their process, because `next_pid` and the counter of
address-space ids start equal and advance under one lock.

### SyscallGs: the GS bases

`swapgs` on entry and exit of a call, and the write of `switch_active_process`,
which returns before it when the record of the process is missing. An exit is
either a call, which swaps, or a fault in user mode (`handle_fault`), which does not.
Processes itself lets behaviours go on past the failure this module shows; it
has more behaviours than the machine, so its invariants are not weakened by that.

### PageStore and Zram: the compressed page store

PageStore is what callers rely on: a map from page index to page, and the
`Result` of each call. Zram is `kernel/zram.rs`: a slot is named by class, zspage
and index; an action is a whole operation of `ZramDevice`, with the allocation,
the insertion and the release of the replaced slot in the order of the code. A
payload is a page together with its form (plain or compressed), so that decoding
with the wrong encoding is visible. Which free slot `pop` returns is left open.
Pages have a positive length, as every caller stores whole pages: a payload of
length zero would look like a free slot.

## The runs

| Run | Instance | Checks | States |
|---|---|---|---|
| `runqueues_smp` | 2 CPUs, 3 tasks, 2 classes | the invariants of the run queues, `WorkConserving`, `ExitIsFinal` | 302,585 |
| `runqueues_up` | 1 CPU, 3 tasks, 2 classes, unequal quanta | `OneEntryPerReadyTask` | 3,828 |
| `eventwait_up` | 1 CPU, 3 tasks, an event and an exit to wait for | `NoLostWakeup`, `ExecutingIsCurrent`, `CallsReturn` | 39,487 |
| `eventwait_served` | 1 CPU, 3 tasks, 2 classes, unequal quanta, endless yields and delays | `ReadyIsServed` | 46,312 |
| `eventwait_smp` | 2 CPUs, 3 tasks, an auto-reset event | `EventTypeOK`, `StacksStayHome`, `RegistrationsAreOwn` | 328,364 |
| `processes_smp` | 2 CPUs, 3 tasks, processes and threads | `RecordInOnePlace`, `RunsInOwnProcess`, `PidsAreOwn`, `LoadedSpacesExist` | 631,354 |
| `zram` | 2 indexes and one out of range, 4 pages, 2 classes, generations wrap at 3 | `StoresPages`, `SlotsOwned`, `ZspagesBounded` | 14,184 |
| `eventwait_autoreset`, `eventwait_lost`, `eventwait_yield`, `processes_thread`, `syscall_gs` | smallest that shows it | see [below](#where-the-code-and-its-documentation-disagree) | |

What the passing runs show:

* **Scheduler.** However ticks, blocks, wake-ups and exits of two CPUs
  interleave, a task is current on one CPU, a Ready task has an entry in a queue
  of its own CPU, an exited task stays exited, and a CPU idles only when none of
  its tasks is Ready. On two CPUs a wake-up that meets a task still current can
  leave duplicate entries; on one CPU there is exactly one entry per Ready task.
  `start`'s `expect` cannot fail, whatever CPU a boot task prefers.
* **Waiting, one CPU.** For objects that stay signaled no wake-up is lost and
  every call returns except a wait for an unsignaled object. These two are stated
  for one CPU and objects without auto-reset, because with two CPUs or auto-reset
  events the code does not have them; the violation runs show how.
* **Service, one CPU.** A Ready task is served although nothing preempts user mode:
  it is enough that the programs before it halt or yield again and again. A program
  that does neither starves the others, and no property says otherwise.
* **Waiting, two CPUs.** Stacks never migrate, and `register_waiter` always
  registers the caller or, on a CPU that reports no task, nobody.
* **Processes.** Records are neither lost nor duplicated; a process task runs
  with its own record and page tables; failed creations leave no trace but used
  ids. `LoadedSpacesExist` is about CPUs with an active process: a thread, or another
  task without a process, that creates one returns with the child's space still in
  CR3, a consequence of the finding about threads.
* **Page store.** Loading returns the page last stored, slots are neither shared
  nor leaked, and a pool never has more than `max_pages / slots + 1` zspages; the
  extra one is needed, since a replaced page is freed after the new one is stored.

**Bounds.** Three tasks are a waker, a waiter and a third that competes with
either; two CPUs are the least that interleave. `MaxEntries` bounds the entries
of one task in one queue: 2 in the scheduler runs, so that duplicates occur; 4
in the others, where it is never reached. `MaxCalls` bounds the calls of a task
and so makes the programs finite, but for the calls in `Endless` (the yields of
`processes_smp` and `eventwait_yield` are not counted either); all tasks may exit, which is why deadlock is not checked. One quantum per class and task makes
every refill happen; `runqueues_up` and `eventwait_served` have unequal quanta. In `zram` pages have four bytes, with
slots of two and four: one class has several slots per zspage, the other one.
`MaxZspages` is one more than `ZspagesBounded` allows, and `GenMod` stands for
2^32, small so that generations wrap.

**Fairness.** Only EventWait has a fair specification, `FairEventSpec`; RunQueues by
itself says nothing of when ticks come. It assumes

* that `process::start` is reached;
* weak fairness of the code of each CPU: an executing call goes on, and a user
  program makes its next call or exits. This is an assumption about programs, which
  the kernel does not enforce: `scheduler_timer_tick` returns at once in user mode,
  so a program that only computes keeps its CPU. All but finitely many calls of a
  program are among those in `Endless`, yields and delays, which let a tick in;
* strong fairness of the timer tick, because a timer interrupt that arrives with
  interrupts disabled stays pending until the next halt, so a CPU that halts again
  and again takes it eventually even if other interrupts end some of the halts;
* strong fairness of the `cli` after a halt: ticks are further apart than one
  instruction, so a task is not interrupted there every time.

## The proofs

All for any number of CPUs, classes, tasks, objects and calls, or any pages, size
classes and generation width, from the named assumptions on the constants in
`RunQueues`, `EventWait` and `Zram`.

* **`RunQueuesSafe`**: `Spec` implies always `OneCpuPerTask`, `ReadyIsQueued`,
  `EntriesAtHome`, `ReportedTaskIsLocal` and `TypeOK`. The conjunction `RQInv` is
  inductive together with `IdleUntilStarted`; none of the parts is by itself. That
  a task is current on one CPU needs that no queue of another CPU holds an entry
  of it (`EntriesAtHome`), and a wake-up keeps that only because a Running task is
  current on its `last_cpu`. Three operations end in `pick_next_task`, each from
  an intermediate state that does not satisfy the invariant (the old task is
  Ready, or Exited, and still recorded as current). `PickReady` states what those
  have in common; `TickCallsPick`, `ExitCallsPick` and `StartCallsPick` reach it,
  and `PickPreserves` leads from it back to the invariant.
* **`RunQueuesWorkConserving`**: a tick or an exit leaves a CPU without a task
  only if none of its tasks is Ready. By `ClassRefill` a class with a Ready task
  has a positive deficit after the refill, so if the second round serves nothing,
  the queues hold no Ready task (`NothingReady`); by `ReadyIsQueued` there is none.
* **`RunQueuesExitIsFinal`**: the state Exited is final.
* **`EventWaitImplementsRunQueues`**: `EventSpec => Spec`. Every step of a system
  call or an interrupt is one operation of the run queues or a stutter, so the
  theorems above hold of the larger system.
* **`EventWaitStacksStayHome`**: a CPU executes only stacks of tasks that last ran
  on it, and reports that task or none. `HomeInv` adds that an executed task is
  known to the scheduler, since `add_task` is the only operation that moves
  `last_cpu` of a task that is not being dispatched.
* **`ZramStoresPages`**: `ZramSpec => PS!Spec`, with `store[i]` mapped to what
  `load_page(i)` would return. The invariant `ZInv` adds to `SlotsOwned` that the
  bytes in the slot of an entry are the payload of some page in the encoding the
  entry records. The point of the argument is `StoreSlots`: a slot on the free
  list is nobody's, so filling it and then freeing the replaced one touch two
  different slots and the ignored error of that free cannot occur.
* **`ZramSlotsOwned`**: `ZramTypeOK` and `SlotsOwned` always hold.
* **`ZramSlicesInBounds`**: no payload reaches beyond the storage of its zspage,
  for any table of size classes (`SlotFits` is the arithmetic of it).

Only model-checked: `ZspagesBounded`, `DeficitsBounded`, `IdsNeverReused`, `StartFindsTask`,
`OneEntryPerReadyTask`, `RegistrationsAreOwn`, `NoLostWakeup`,
`ExecutingIsCurrent`, `EventTypeOK`, and the invariants of Processes. Liveness
(`ReadyIsServed`, `CallsReturn`) stays with TLC: the prover has no support for
fairness.

## Where the code and its documentation disagree

Each is a run in which TLC finds the stated property violated; `PROJECT.json`
quotes the line of the repository that states it.

* `eventwait_autoreset`: the loser of a race for an auto-reset event blocks again
  without being registered (`user.rs:1775`), and no later `NtSetEvent` wakes it.
* `eventwait_lost`: on two CPUs a signal between check and block is lost
  (`user.rs:1789`).
* `eventwait_yield`: a waiter can return to user mode while the scheduler has it as
  Blocked (`user.rs:1778`); a yield it makes then may not return.
* `processes_thread`: a thread is scheduled without an entry in `task_to_pid`
  (`user.rs:2518`) and runs with the default record instead of its process.
* `syscall_gs`: after `NtCreateUserProcess` both GS bases hold the caller's TEB
  (`user.rs:647`), and the next system call does not find its kernel stack.

## Plan

In order; each with its own module, runs and, where marked P, theorems.

1. **Reclaim** on top of PageStore, with the frame allocator (P): contents survive
   reclaim and fault, the resident queue names the resident pages, frames have one
   owner, no operation waits for a lock it holds.
2. **ObjectManager and Handles** (P): a reference count equals the handles and
   pins that exist; named lookups of two callers.
3. **ProcessesProofs** (P): `RecordInOnePlace`, `RunsInOwnProcess`, `PidsAreOwn`.
   The strengthening needed: a pid active on a CPU belongs to a task that last ran
   there, and a creation in progress is executing.
4. **Scheduler**: exact virtual runtime, sleep credit and classes, refining
   RunQueues.
5. **AddressSpace** (P): regions do not overlap, views, partial failure of
   `map_region`, ownership of frames.
6. **SmpBoot**, **VirtioBlk**, **FileDescriptors** with pipes.
7. Algorithms as operators against reference definitions: path resolution,
   the crabfs layout with its reader, PE imports and relocations.

## What is left out

Register contents, page-table bits and the layout of PEB and TEB are data no
property here depends on. Parsers of foreign formats (`udf`, `iso9660`, `regf`,
`wim_lzx`), the host tools, logging and the serial console have no state that
interacts with the rest. The remaining parts of the table above are not modelled
yet; the components of `PROJECT.json` say so one by one.
