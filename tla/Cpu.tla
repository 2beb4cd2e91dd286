-------------------------------- MODULE Cpu --------------------------------
(***************************************************************************)
(* The CPU thread: the loop of cpu(), process_instruction and the system   *)
(* calls it makes (cpu/cpu.c), and the two functions that queue a device   *)
(* request on behalf of the running process (disk/disk.c, print/print.c).  *)
(*                                                                         *)
(* `cur` is the thread's local pointer.  Wherever the code reads           *)
(* scheduler->running_process again, the model reads `running` again.      *)
(***************************************************************************)
EXTENDS Memory

Instr == InstructionAt(cur)

\* while (!scheduler->running_process && new_process == false);
\* if (new_process) ...
Spin ==
  /\ Before("cpu", "spin")
  /\ \/ new_process /\ Raise("NEW_PROCESS")
     \/ running # NULL /\ ~new_process /\ Goto("cpu", "loop") /\ UNCHANGED irq
  /\ UNCHANGED <<schedVars, createVars, procVars, semVars, memVars, ioVars,
                 cur, victim, lockVars, os>>

\* update_new_process_flag(false), after the NEW_PROCESS interruption.
ClearFlag ==
  /\ Before("cpu", "clear_flag")
  /\ new_process' = FALSE
  /\ Goto("cpu", "loop")
  /\ UNCHANGED <<running, ready, createVars, procVars, semVars, memVars, ioVars,
                 localVars, lockVars, os>>

\* Mutants: no test of the program counter; the quantum test off by one.
CanExecute_PastEnd ==
  running # NULL /\ remaining_time[running] > 0 /\ ~new_process
CanExecute_QuantumOff ==
  running # NULL /\ ~Done(running) /\ remaining_time[running] > 1 /\ ~new_process

\* The condition of the inner while.  It reads running_process once per test; here
\* once in all, and a process that goes away meanwhile is missed by Fetch instead.
CanExecute ==
  /\ running # NULL
  /\ ~Done(running)
  /\ remaining_time[running] > 0
  /\ ~new_process

Loop ==
  /\ Before("cpu", "loop")
  /\ running \notin freed
  /\ Goto("cpu", IF CanExecute THEN "fetch" ELSE "exit")
  /\ UNCHANGED <<schedVars, createVars, procVars, semVars, memVars, ioVars,
                 localVars, lockVars, os>>

-----------------------------------------------------------------------------
(* One turn of the inner loop. *)

Fetchable == running # NULL /\ running \notin freed

FetchAbsent ==
  /\ Before("cpu", "fetch")
  /\ Fetchable
  /\ ~present_bit[running]
  /\ cur' = running
  /\ Goto("cpu", "load")
  /\ UNCHANGED <<schedVars, createVars, procVars, semVars, memVars, ioVars,
                 irq, victim, lockVars, os>>

\* The switch of process_instruction; disk_requisition and print_requisition
\* begin with an interruption.
Fetch ==
  /\ Before("cpu", "fetch")
  /\ Fetchable
  /\ present_bit[running]
  /\ ~Done(running)
  /\ cur' = running
  /\ used_bit' = [used_bit EXCEPT ![running] = TRUE]
  /\ LET opcode == InstructionAt(running).opcode IN
       \/ opcode = "EXEC" /\ Goto("cpu", "exec") /\ UNCHANGED irq
       \/ opcode = "P" /\ Goto("cpu", "p") /\ UNCHANGED irq
       \/ opcode = "V" /\ Goto("cpu", "v") /\ UNCHANGED irq
       \/ opcode \in {"READ", "WRITE"} /\ Raise("DISK_REQUEST")
       \/ opcode = "PRINT" /\ Raise("PRINT_REQUEST")
  /\ UNCHANGED <<schedVars, createVars, procVars, semVars, num_free_pages, segments,
                 present_bit, ioVars, victim, lockVars, os>>

NextPC == PC' = [PC EXCEPT ![cur] = @ + 1]

\* Mutant: a block runs to its end, and on, without a test of the loop's condition.
Exec_Unbroken ==
  /\ Before("cpu", "exec")
  /\ remaining_time' = [remaining_time EXCEPT ![cur] = @ - 1]
  /\ \/ /\ exec[cur] + 1 < Instr.operand
        /\ exec' = [exec EXCEPT ![cur] = @ + 1]
        /\ UNCHANGED PC
     \/ /\ exec[cur] + 1 = Instr.operand
        /\ exec' = [exec EXCEPT ![cur] = 0]
        /\ NextPC
  /\ UNCHANGED <<schedVars, createVars, status, freed, semVars, memVars, ioVars,
                 localVars, lockVars, at, os>>

\* One unit of an EXEC.
Exec ==
  /\ Before("cpu", "exec")
  /\ remaining_time' = [remaining_time EXCEPT ![cur] = @ - 1]
  /\ \/ /\ exec[cur] + 1 < Instr.operand
        /\ exec' = [exec EXCEPT ![cur] = @ + 1]
        /\ UNCHANGED PC
     \/ /\ exec[cur] + 1 = Instr.operand
        /\ exec' = [exec EXCEPT ![cur] = 0]
        /\ NextPC
  /\ Goto("cpu", "loop")
  /\ UNCHANGED <<schedVars, createVars, status, freed, semVars, memVars, ioVars,
                 localVars, lockVars, os>>

-----------------------------------------------------------------------------
(* semaphore_p_syscall and semaphore_v_syscall. *)

\* Mutant: the semaphore counts as free when nobody queues for it.
Available_NoneWaiting == processes_waiting[Instr.semaphore] = <<>>

Available == owner[Instr.semaphore] \in {-1, cur}

PSuccess ==
  /\ Before("cpu", "p")
  /\ Available
  /\ running # NULL
  /\ owner' = [owner EXCEPT ![Instr.semaphore] = running]
  /\ NextPC
  /\ Goto("cpu", "p_charge")
  /\ UNCHANGED <<schedVars, createVars, status, remaining_time, exec, freed,
                 processes_waiting, memVars, ioVars, localVars, lockVars, os>>

PFailure ==
  /\ Before("cpu", "p")
  /\ ~Available
  /\ processes_waiting' = [processes_waiting EXCEPT ![Instr.semaphore] =
                             Append(@, running)]
  /\ NextPC
  /\ Raise("SEMAPHORE")
  /\ UNCHANGED <<schedVars, createVars, status, remaining_time, exec, freed,
                 owner, memVars, ioVars, cur, victim, lockVars, os>>

PCharge ==
  /\ Before("cpu", "p_charge")
  /\ running # NULL
  /\ remaining_time' = [remaining_time EXCEPT ![running] = @ - P_TIME]
  /\ Goto("cpu", "loop")
  /\ UNCHANGED <<schedVars, createVars, status, PC, exec, freed, semVars, memVars,
                 ioVars, localVars, lockVars, os>>

VNoneWaiting ==
  /\ Before("cpu", "v")
  /\ processes_waiting[Instr.semaphore] = <<>>
  /\ owner' = [owner EXCEPT ![Instr.semaphore] = -1]
  /\ NextPC
  /\ Goto("cpu", "loop")
  /\ UNCHANGED <<schedVars, createVars, status, remaining_time, exec, freed,
                 processes_waiting, memVars, ioVars, localVars, lockVars, os>>

\* The first process waiting owns the semaphore and is ready again.  Of what the
\* code does before it locks the ready list, the other threads see only the status.
Waiter == Head(processes_waiting[Instr.semaphore])

VHandOver ==
  /\ Before("cpu", "v")
  /\ processes_waiting[Instr.semaphore] # <<>>
  /\ Waiter # NULL
  /\ scheduler_semaphore = 1
  /\ processes_waiting' = [processes_waiting EXCEPT ![Instr.semaphore] = Tail(@)]
  /\ owner' = [owner EXCEPT ![Instr.semaphore] = Waiter]
  /\ status' = [status EXCEPT ![Waiter] = "READY"]
  /\ ready' = add_process_scheduler(ready, Waiter)
  /\ NextPC
  /\ Goto("cpu", "loop")
  /\ UNCHANGED <<running, new_process, createVars, remaining_time, exec, freed,
                 memVars, ioVars, localVars, lockVars, os>>

-----------------------------------------------------------------------------
(* create_IO_request and create_print_request, once the interruption is over. *)

request == [process |-> cur, instr |-> PC[cur]]

\* Mutant: the request is pushed.
add_disk_request_Push(q, r) == Append(q, r)

add_disk_request(q, r) ==
  InsertBeforeFirst(q, r, {i \in DOMAIN q : Track(q[i]) > Track(r)})

EnqueueDisk ==
  /\ Before("cpu", "enqueue")
  /\ irq = "DISK_REQUEST"
  /\ disk_semaphore = 1
  /\ disk_requests' = add_disk_request(disk_requests, request)
  /\ NextPC
  /\ Goto("cpu", "loop")
  /\ UNCHANGED <<schedVars, createVars, status, remaining_time, exec, freed, semVars,
                 memVars, curr_track, sweep_next, disk_request, printVars,
                 localVars, lockVars, os>>

EnqueuePrint ==
  /\ Before("cpu", "enqueue")
  /\ irq = "PRINT_REQUEST"
  /\ print_requests' = Append(print_requests, request)
  /\ NextPC
  /\ Goto("cpu", "loop")
  /\ UNCHANGED <<schedVars, createVars, status, remaining_time, exec, freed, semVars,
                 memVars, diskVars, localVars, lockVars, os>>

-----------------------------------------------------------------------------
(* After the inner loop, and process_finish_syscall. *)

\* Mutant: whatever left the loop without a new process is finished.
Exit_NoQuantum ==
  /\ Before("cpu", "exit")
  /\ running \notin freed
  /\ \/ running = NULL /\ Goto("cpu", "spin")
     \/ running # NULL /\ ~new_process /\ Goto("cpu", "finish")
     \/ running # NULL /\ new_process /\ Goto("cpu", "spin")
  /\ UNCHANGED <<schedVars, createVars, procVars, semVars, memVars, ioVars,
                 localVars, lockVars, os>>

\* Mutant: the quantum is tested before the program counter.
Exit_QuantumFirst ==
  /\ Before("cpu", "exit")
  /\ running \notin freed
  /\ \/ running = NULL /\ Goto("cpu", "spin") /\ UNCHANGED irq
     \/ running # NULL /\ remaining_time[running] <= 0 /\ Raise("QUANTUM_TIME")
     \/ /\ running # NULL /\ remaining_time[running] > 0
        /\ Goto("cpu", IF Done(running) THEN "finish" ELSE "spin")
        /\ UNCHANGED irq
  /\ UNCHANGED <<schedVars, createVars, procVars, semVars, memVars, ioVars,
                 cur, victim, lockVars, os>>

Exit ==
  /\ Before("cpu", "exit")
  /\ running \notin freed
  /\ \/ running = NULL /\ Goto("cpu", "spin") /\ UNCHANGED irq
     \/ running # NULL /\ Done(running) /\ Goto("cpu", "finish") /\ UNCHANGED irq
     \/ /\ running # NULL /\ ~Done(running)
        /\ remaining_time[running] <= 0
        /\ Raise("QUANTUM_TIME")
     \/ /\ running # NULL /\ ~Done(running)
        /\ remaining_time[running] > 0
        /\ Goto("cpu", "spin")
        /\ UNCHANGED irq
  /\ UNCHANGED <<schedVars, createVars, procVars, semVars, memVars, ioVars,
                 cur, victim, lockVars, os>>

\* The argument of process_finish_syscall is read after the test.
Finish ==
  /\ Before("cpu", "finish")
  /\ running # NULL
  /\ cur' = running
  /\ Goto("cpu", "fin_wait")
  /\ UNCHANGED <<schedVars, createVars, procVars, semVars, memVars, ioVars,
                 irq, victim, lockVars, os>>

\* memory_unload_syscall(process)
FinishWait ==
  /\ Before("cpu", "fin_wait")
  /\ status' = [status EXCEPT ![cur] = "WAITING"]
  /\ Goto("cpu", "fin_unload")
  /\ UNCHANGED <<schedVars, createVars, PC, remaining_time, exec, freed, semVars,
                 memVars, ioVars, localVars, lockVars, os>>

FinishUnload ==
  /\ Before("cpu", "fin_unload")
  /\ ~UnloadUndefined(cur)
  /\ memory_unload_segment(cur)
  /\ status' = [status EXCEPT ![cur] = "READY"]
  /\ Goto("cpu", "fin_free")
  /\ UNCHANGED <<schedVars, createVars, PC, remaining_time, exec, freed, semVars,
                 ioVars, localVars, lockVars, os>>

FinishFree ==
  /\ Before("cpu", "fin_free")
  /\ freed' = freed \cup {cur}
  /\ status' = [status EXCEPT ![cur] = "FINISHED"]
  /\ Goto("cpu", "fin_unlink")
  /\ UNCHANGED <<schedVars, createVars, PC, remaining_time, exec, semVars, memVars,
                 ioVars, localVars, lockVars, os>>

\* delete_list on PCB, for which no thread takes a semaphore: the search, and the write
\* that cuts the node off.  It is the header, the tail with whatever has been linked
\* behind it since, or a node between two others.  For the only node the read of
\* place->next and the write of list->header are two steps: what is pushed meanwhile is
\* cut off too.
DeleteAbsent == ~Contains(PCB, cur) /\ UNCHANGED PCB /\ Goto("cpu", "fin_sched")

DeleteHeader ==
  /\ Contains(PCB, cur)
  /\ Head(PCB) = cur
  /\ \/ Len(PCB) > 1 /\ PCB' = Tail(PCB) /\ Goto("cpu", "fin_node")
     \/ Len(PCB) = 1 /\ UNCHANGED PCB /\ Goto("cpu", "fin_header")

PCBPosition == Min({i \in DOMAIN PCB : PCB[i] = cur})

DeleteTail ==
  /\ Contains(PCB, cur)
  /\ Head(PCB) # cur
  /\ PCB_tail = cur
  /\ PCB' = SubSeq(PCB, 1, PCBPosition - 1)
  /\ Goto("cpu", "fin_tail")

DeleteMiddle ==
  /\ Contains(PCB, cur)
  /\ Head(PCB) # cur
  /\ PCB_tail # cur
  /\ PCBPosition < Len(PCB)
  /\ PCB' = RemoveAt(PCB, PCBPosition)
  /\ Goto("cpu", "fin_sched")

\* delete_list on ready_processes, in case the process is there, and on PCB.
ReadyPosition == Min({i \in DOMAIN ready : ready[i] = cur})

FinishUnlink ==
  /\ Before("cpu", "fin_unlink")
  /\ scheduler_semaphore = 1
  /\ IF Contains(ready, cur)
     THEN ready' \in DeleteSorted(ready, ReadyPosition)
     ELSE UNCHANGED ready
  /\ DeleteAbsent \/ DeleteHeader \/ DeleteTail \/ DeleteMiddle
  /\ UNCHANGED <<running, new_process, processes_id, file, PCB_tail, behind, procVars,
                 semVars, memVars, ioVars, localVars, lockVars, os>>

\* list->header = NULL
FinishHeader ==
  /\ Before("cpu", "fin_header")
  /\ PCB' = <<>>
  /\ Goto("cpu", "fin_node")
  /\ UNCHANGED <<schedVars, processes_id, file, PCB_tail, behind, procVars, semVars,
                 memVars, ioVars, localVars, lockVars, os>>

\* free(place), where tail may still name the node and push may have read it.
Unless(p, gone) == IF p = gone THEN NULL ELSE p

FinishNode ==
  /\ Before("cpu", "fin_node")
  /\ PCB_tail' = Unless(PCB_tail, cur)
  /\ behind' = Unless(behind, cur)
  /\ Goto("cpu", "fin_sched")
  /\ UNCHANGED <<schedVars, processes_id, file, PCB, procVars, semVars, memVars, ioVars,
                 localVars, lockVars, os>>

\* list->tail = place->prev, and the same free.
FinishTail ==
  /\ Before("cpu", "fin_tail")
  /\ PCB_tail' = Last(PCB)
  /\ behind' = Unless(behind, cur)
  /\ Goto("cpu", "fin_sched")
  /\ UNCHANGED <<schedVars, processes_id, file, PCB, procVars, semVars, memVars, ioVars,
                 localVars, lockVars, os>>

\* forward_scheduling, this time without interrupt_semaphore.
FinishSchedule ==
  /\ Before("cpu", "fin_sched")
  /\ scheduler_semaphore = 1
  /\ scheduler_semaphore' = 0
  /\ forward_scheduling
  /\ Goto("cpu", "fin_post")
  /\ UNCHANGED <<new_process, createVars, PC, exec, freed, semVars, memVars, ioVars,
                 localVars, interrupt_semaphore, disk_semaphore, os>>

FinishPost ==
  /\ Before("cpu", "fin_post")
  /\ scheduler_semaphore' = 1
  /\ Goto("cpu", "spin")
  /\ UNCHANGED <<schedVars, createVars, procVars, semVars, memVars, ioVars, localVars,
                 interrupt_semaphore, disk_semaphore, os>>

-----------------------------------------------------------------------------

\* delete_list on PCB follows the NULL `next` of a last node that tail does not name, or
\* its search the unset `next` of a node that push has not finished.
UnlinkUndefined ==
  /\ at["cpu"] = "fin_unlink"
  /\ \/ /\ Contains(PCB, cur)
        /\ Head(PCB) # cur /\ PCB_tail # cur
        /\ PCBPosition = Len(PCB)
     \/ ~Contains(PCB, cur) /\ at["ui"] = "ui_tail" /\ Contains(PCB, NewProcess)

\* Reads through a NULL running_process or of a freed segment, an instruction
\* past the end, a waiter that was NULL when it was queued, a segment freed
\* twice, and a delete_list on ready_processes that follows a wrong `prev`.
RunUndefined ==
  \/ at["cpu"] \in {"loop", "exit"} /\ running \in freed
  \/ /\ at["cpu"] = "fetch"
     /\ \/ running = NULL
        \/ running \in freed
        \/ present_bit[running] /\ Done(running)
  \/ at["cpu"] = "p" /\ Available /\ running = NULL
  \/ at["cpu"] = "p_charge" /\ running = NULL
  \/ /\ at["cpu"] = "v"
     /\ processes_waiting[Instr.semaphore] # <<>>
     /\ Waiter = NULL
  \/ at["cpu"] = "finish" /\ running = NULL
  \/ at["cpu"] = "fin_unload" /\ UnloadUndefined(cur)
  \/ at["cpu"] = "fin_unlink" /\ Contains(ready, cur) /\ Head(ready) # cur
  \/ SwapUndefined
  \/ IrqUndefined("cpu")

CpuUndefined == RunUndefined \/ UnlinkUndefined

CpuNext ==
  \/ Interrupt("cpu") \/ MemoryNext
  \/ Spin \/ ClearFlag \/ Loop
  \/ FetchAbsent \/ Fetch \/ Exec
  \/ PSuccess \/ PFailure \/ PCharge \/ VNoneWaiting \/ VHandOver
  \/ EnqueueDisk \/ EnqueuePrint
  \/ Exit \/ Finish \/ FinishWait \/ FinishUnload \/ FinishFree
  \/ FinishUnlink \/ FinishHeader \/ FinishNode \/ FinishTail
  \/ FinishSchedule \/ FinishPost

=============================================================================
