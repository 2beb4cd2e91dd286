----------------------------- MODULE Interrupt -----------------------------
(***************************************************************************)
(* process_interrupt (cpu/cpu.c) between the sem_wait and the sem_post of  *)
(* interrupt_semaphore that surround every call of it.  The CPU, the disk  *)
(* and the printer call it, so its steps are actions of a thread t.        *)
(*                                                                         *)
(* The semaphore keeps two interruptions apart.  It does not keep the CPU  *)
(* thread from reading and writing running_process meanwhile.              *)
(***************************************************************************)
EXTENDS Scheduler

Interrupter == {"cpu", "disk", "print"}

Type(t) ==
  CASE t = "cpu" -> irq
    [] t = "disk" -> "DISK_FINISHED"
    [] t = "print" -> "PRINT_FINISHED"

\* What the caller does once process_interrupt has returned.
Return(t) ==
  CASE Type(t) = "NEW_PROCESS" -> "clear_flag"
    [] Type(t) = "QUANTUM_TIME" -> "spin"
    [] Type(t) \in {"SEMAPHORE", "MEMORY"} -> "loop"
    [] Type(t) \in {"DISK_REQUEST", "PRINT_REQUEST"} -> "enqueue"
    [] Type(t) = "DISK_FINISHED" -> "disk_post"
    [] Type(t) = "PRINT_FINISHED" -> "poll"

\* An interruption raised by the CPU thread itself.
Raise(type) ==
  /\ irq' = type
  /\ Goto("cpu", "irq_lock")

IrqLock(t) ==
  /\ Before(t, "irq_lock")
  /\ interrupt_semaphore = 1
  /\ interrupt_semaphore' = 0
  /\ Goto(t, "irq_test")
  /\ UNCHANGED <<schedVars, createVars, procVars, semVars, memVars, ioVars,
                 localVars, scheduler_semaphore, disk_semaphore, os>>

\* if (scheduler->running_process)
IrqTest(t) ==
  /\ Before(t, "irq_test")
  /\ Goto(t, IF running = NULL THEN "irq_sched" ELSE "irq_mark")
  /\ UNCHANGED <<schedVars, createVars, procVars, semVars, memVars, ioVars,
                 localVars, lockVars, os>>

\* Mutant: a process that waits for a device is marked READY.
Blocking_NoDevice == {"SEMAPHORE"}

\* Interruptions that take the running process off the CPU.
Blocking == {"SEMAPHORE", "DISK_REQUEST", "PRINT_REQUEST"}

\* The interrupted process is read anew here, after the test.
IrqMark(t) ==
  /\ Before(t, "irq_mark")
  /\ running # NULL
  /\ status' = [status EXCEPT ![running] =
                  IF Type(t) \in Blocking THEN "WAITING" ELSE "READY"]
  /\ Goto(t, "irq_sched")
  /\ UNCHANGED <<schedVars, createVars, PC, remaining_time, exec, freed, semVars,
                 memVars, ioVars, localVars, lockVars, os>>

\* The process found by the test is gone, or print_interruption reads the
\* instructions of one whose segment has been freed.
IrqUndefined(t) ==
  at[t] = "irq_mark" /\ (running = NULL \/ running \in freed)

\* forward_scheduling, under scheduler_semaphore.
IrqSchedule(t) ==
  /\ Before(t, "irq_sched")
  /\ scheduler_semaphore = 1
  /\ scheduler_semaphore' = 0
  /\ forward_scheduling
  /\ Goto(t, "irq_scheduled")
  /\ UNCHANGED <<new_process, createVars, PC, exec, freed, semVars, memVars, ioVars,
                 localVars, interrupt_semaphore, disk_semaphore, os>>

\* Mutant: a return without sem_post.
IrqScheduled_NoPost(t) ==
  /\ Before(t, "irq_scheduled")
  /\ Goto(t, "irq_exit")
  /\ UNCHANGED <<schedVars, createVars, procVars, semVars, memVars, ioVars, localVars,
                 lockVars, os>>

IrqScheduled(t) ==
  /\ Before(t, "irq_scheduled")
  /\ scheduler_semaphore' = 1
  /\ Goto(t, "irq_exit")
  /\ UNCHANGED <<schedVars, createVars, procVars, semVars, memVars, ioVars, localVars,
                 interrupt_semaphore, disk_semaphore, os>>

\* Mutant: process_interrupt posts the semaphore, and its caller posts it again.
IrqExit_PostTwice(t) ==
  /\ Before(t, "irq_exit")
  /\ new_process' = FALSE
  /\ interrupt_semaphore' = interrupt_semaphore + 2
  /\ Goto(t, Return(t))
  /\ UNCHANGED <<running, ready, createVars, procVars, semVars, memVars, ioVars,
                 localVars, scheduler_semaphore, disk_semaphore, os>>

\* The flag is lowered whatever the interruption was.
IrqExit(t) ==
  /\ Before(t, "irq_exit")
  /\ new_process' = FALSE
  /\ interrupt_semaphore' = 1
  /\ Goto(t, Return(t))
  /\ UNCHANGED <<running, ready, createVars, procVars, semVars, memVars, ioVars,
                 localVars, scheduler_semaphore, disk_semaphore, os>>

Interrupt(t) ==
  \/ IrqLock(t) \/ IrqTest(t) \/ IrqMark(t)
  \/ IrqSchedule(t) \/ IrqScheduled(t) \/ IrqExit(t)

=============================================================================
