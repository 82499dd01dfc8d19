---------------------------- MODULE SyscallGs ----------------------------
(***************************************************************************)
(* The two GS bases of a CPU.  syscall_handler (kernel/syscall.rs) swaps   *)
(* them on the way in and on the way out, so that %gs names the            *)
(* SYSCALL_CPU_LOCALS of the CPU while the kernel runs a call;             *)
(* switch_active_process (kernel/user.rs) writes the TEB of the process it *)
(* activates into GsBase.  Interrupts and faults do not swap               *)
(* (kernel/switch.s, kernel/idt.rs), and a new task enters user mode with  *)
(* iretq, without a swap.                                                  *)
(***************************************************************************)
EXTENDS Processes

Locals == -1    \* the address of SYSCALL_CPU_LOCALS[cpu]; p > 0 is the TEB of pid p

VARIABLES GsBase, KernelGsBase

gsVars == <<GsBase, KernelGsBase>>

\* syscall::init_for_cpu on every CPU, then create_init_task on CPU 0
GsInit ==
    /\ ProcInit
    /\ GsBase = [c \in Cpus |-> slot[c]]
    /\ KernelGsBase = [c \in Cpus |-> Locals]

\* The executing task goes from user mode into a call, or returns from one.
Crosses(c) ==
    /\ exec[c] # NoTask
    /\ exec'[c] = exec[c]
    /\ (pc[exec[c]] = "user") # (pc'[exec[c]] = "user")

swapgs(c) ==
    /\ GsBase' = [GsBase EXCEPT ![c] = KernelGsBase[c]]
    /\ KernelGsBase' = [KernelGsBase EXCEPT ![c] = GsBase[c]]

\* The process that a step of CPU c activates, if it activates one
activated(c) ==
    LET t == exec[c]
    IN  CASE t # NoTask /\ stage[t] = "registered" -> child[t]
          [] t # NoTask /\ stage[t] = "child" -> parent[t]
          [] OTHER -> task_to_pid[current_task'[c]]

\* GsBase::write in switch_active_process, which returns before it for the active process
\* and for one whose record is not in by_pid.
write_gs_base(c) ==
    /\ GsBase' = IF \/ active_pids'[c] = active_pids[c]
                    \/ active_pids'[c] # activated(c)
                 THEN GsBase ELSE [GsBase EXCEPT ![c] = active_pids'[c]]
    /\ UNCHANGED KernelGsBase

\* handle_fault: an exit that comes from a fault in user mode and not from a call
faults(c) == Crosses(c) /\ pc'[exec[c]] = "exit_thread" /\ UNCHANGED gsVars

GsNext ==
    \/ boot_start /\ activate_task(0) /\ write_gs_base(0)
    \/ \E t \in Tasks : boot_add(t) /\ UNCHANGED <<procVars, gsVars>>
    \/ \E c \in Cpus :
         \/ ProcStep(c) /\ \/ Crosses(c) /\ swapgs(c)
                           \/ faults(c)
                           \/ ~Crosses(c) /\ write_gs_base(c)
         \/ scheduler_timer_tick(c) /\ activate_task(c) /\ write_gs_base(c)
         \/ other_interrupt(c) /\ UNCHANGED <<procVars, gsVars>>

GsSpec == GsInit /\ [][GsNext]_<<vars, procVars, gsVars>>
-----------------------------------------------------------------------------
\* A CPU in user mode has its SYSCALL_CPU_LOCALS in KernelGsBase: the next system
\* call of the task finds its kernel stack there.
CallsFindKernelStack ==
    \A c \in Cpus : exec[c] # NoTask /\ pc[exec[c]] = "user" => KernelGsBase[c] = Locals
=============================================================================
