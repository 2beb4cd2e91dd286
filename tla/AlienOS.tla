------------------------------ MODULE AlienOS ------------------------------
(***************************************************************************)
(* The whole program: the four host threads interleaved, step by step, over*)
(* the state of Machine, and the properties asked of it.                   *)
(***************************************************************************)
EXTENDS Cpu, Disk, Printer, Ui

\* What undefined behaviour does is not modelled: the run ends there.
Fault(undefined) ==
  /\ os = "up"
  /\ undefined
  /\ os' = "fault"
  /\ UNCHANGED <<schedVars, createVars, procVars, semVars, memVars, ioVars, localVars,
                 lockVars, at>>

Cpu == CpuNext \/ Fault(CpuUndefined)
DiskThread == DiskNext \/ Fault(DiskUndefined)
PrintThread == PrintNext \/ Fault(PrintUndefined)
UiThread == UiNext \/ Fault(PushUndefined)

Halted == os # "up" /\ UNCHANGED vars

Next == Cpu \/ DiskThread \/ PrintThread \/ UiThread \/ Halted

Spec == Init /\ [][Next]_vars

\* Each thread is scheduled by the host, and the user is under no obligation.
Fairness ==
  /\ WF_vars(Cpu)
  /\ WF_vars(DiskThread)
  /\ WF_vars(PrintThread)
  /\ WF_vars(Submission \/ Fault(PushUndefined))

FairSpec == Spec /\ Fairness

-----------------------------------------------------------------------------
(* Types. *)

IrqLabel ==
  {"irq_lock", "irq_test", "irq_mark", "irq_sched", "irq_scheduled", "irq_exit"}
MemoryLabel == {"load", "swap", "swap_unload"}
FinishLabel ==
  {"finish", "fin_wait", "fin_unload", "fin_free", "fin_unlink", "fin_sched",
   "fin_post", "fin_header", "fin_node", "fin_tail"}
CpuLabel ==
  {"spin", "clear_flag", "loop", "fetch", "exec", "p", "p_charge", "v", "enqueue",
   "exit"} \cup IrqLabel \cup MemoryLabel \cup FinishLabel
DiskLabel == {"poll", "sweep", "disk_lock", "disk_add", "disk_post"} \cup IrqLabel
PrintLabel == {"poll", "print_add"} \cup IrqLabel
UiLabel == {"prompt", "ui_link", "ui_tail", "ui_enqueue", "ui_announce"}

\* The interruptions the CPU thread raises.
CpuInterruption == INTERRUPTION_TYPE \ {"DISK_FINISHED", "PRINT_FINISHED"}

\* The requests there can be: an instruction of a process that exists.
IORequest == {r \in Request : /\ r.process \in Created
                              /\ r.instr < Len(CodeOf(r.process))}

SchedTypeOK ==
  /\ running \in Created \cup {NULL}
  /\ ready \in Seq(Created)
  /\ new_process \in BOOLEAN

CreateTypeOK ==
  /\ processes_id \in 0..MaxProcs
  /\ file \in [Proc -> File \cup {NULL}]
  /\ \A p \in Created : file[p] \in File
  /\ PCB \in Seq(Created)
  /\ PCB_tail \in Created \cup {NULL}
  /\ behind \in Created \cup {NULL}

ProcTypeOK ==
  /\ status \in [Proc -> Status]
  /\ PC \in [Proc -> Nat]
  /\ remaining_time \in [Proc -> Int]
  /\ exec \in [Proc -> Nat]
  /\ freed \subseteq Created

SemTypeOK ==
  /\ owner \in [Sem -> Created \cup {-1}]
  /\ processes_waiting \in [Sem -> Seq(Created \cup {NULL})]

MemTypeOK ==
  /\ num_free_pages \in Int
  /\ segments \in Seq(Created)
  /\ present_bit \in [Proc -> BOOLEAN]
  /\ used_bit \in [Proc -> BOOLEAN]

IOTypeOK ==
  /\ disk_requests \in Seq(IORequest)
  /\ curr_track \in Nat
  /\ sweep_next \in IORequest \cup {NULL}
  /\ disk_request \in IORequest \cup {NULL}
  /\ print_requests \in Seq(IORequest)

LockTypeOK ==
  /\ interrupt_semaphore \in {0, 1}
  /\ scheduler_semaphore \in {0, 1}
  /\ disk_semaphore \in {0, 1}

ControlTypeOK ==
  /\ at \in [Thread -> CpuLabel \cup DiskLabel \cup PrintLabel \cup UiLabel]
  /\ at["cpu"] \in CpuLabel /\ at["disk"] \in DiskLabel
  /\ at["print"] \in PrintLabel /\ at["ui"] \in UiLabel
  /\ irq \in CpuInterruption
  /\ cur \in Created \cup {NULL}
  /\ victim \in Created \cup {NULL}
  /\ os \in {"up", "exited", "fault"}

\* Every variable has its type; in particular every list holds processes, or
\* requests of processes, that have been created.
TypeOK ==
  /\ SchedTypeOK /\ CreateTypeOK /\ ProcTypeOK /\ SemTypeOK
  /\ MemTypeOK /\ IOTypeOK /\ LockTypeOK /\ ControlTypeOK

\* The CPU thread has a process in hand, is about to execute or has interrupted it
\* in the middle of an instruction.
HasProcess ==
  MemoryLabel \cup {"exec", "p", "p_charge", "v", "enqueue"}
  \cup (FinishLabel \ {"finish"})
Executing ==
  \/ at["cpu"] \in {"exec", "p", "v", "enqueue"}
  \/ at["cpu"] \in IrqLabel /\ irq \in {"DISK_REQUEST", "PRINT_REQUEST"}

\* What a thread holds in its local variables fits where it is: an instruction is
\* executed, or requested from a device, for a process that has one left, and
\* nothing else moves that process past it meanwhile.
CpuLocalsOK ==
  /\ at["cpu"] \in HasProcess => cur # NULL
  /\ Executing => cur # NULL /\ ~Done(cur)
  /\ at["cpu"] \in {"p", "v"} => Instr.opcode \in {"P", "V"}
  /\ at["cpu"] = "enqueue" => irq \in {"DISK_REQUEST", "PRINT_REQUEST"}
  /\ at["cpu"] = "swap_unload" => victim # NULL
  /\ at["cpu"] = "fin_tail" => PCB # <<>>
DiskLocalsOK == at["disk"] \in {"disk_lock", "disk_add"} => disk_request # NULL
PrintLocalsOK == at["print"] = "print_add" => print_requests # <<>>
UiLocalsOK == at["ui"] # "prompt" => processes_id > 0

LocalsOK == CpuLocalsOK /\ DiskLocalsOK /\ PrintLocalsOK /\ UiLocalsOK

-----------------------------------------------------------------------------
(* The semaphores of the host. *)

InterruptHolders == {t \in Thread : at[t] \in IrqLabel \ {"irq_lock"}}
SchedulerHolders == {t \in Thread : at[t] \in {"irq_scheduled", "fin_post"}}
DiskHolders == {t \in {"disk"} : at[t] \in IrqLabel \cup {"disk_add", "disk_post"}}

Guards(semaphore, holders) ==
  /\ semaphore = 1 <=> holders = {}
  /\ \A t, u \in holders : t = u

\* Each host semaphore is 0 exactly while one thread is in a section it guards:
\* nothing is posted twice and no return path leaves without the post.
HostLocks ==
  /\ Guards(interrupt_semaphore, InterruptHolders)
  /\ Guards(scheduler_semaphore, SchedulerHolders)
  /\ Guards(disk_semaphore, DiskHolders)

WaitsInterrupt(t) == at[t] = "irq_lock" /\ interrupt_semaphore = 0
WaitsScheduler(t) ==
  /\ \/ at[t] \in {"irq_sched", "fin_unlink", "fin_sched", "disk_add", "print_add",
                   "ui_enqueue"}
     \/ at[t] = "v" /\ processes_waiting[Instr.semaphore] # <<>>
  /\ scheduler_semaphore = 0
WaitsDisk(t) ==
  /\ \/ at[t] = "disk_lock"
     \/ at[t] = "enqueue" /\ irq = "DISK_REQUEST"
  /\ disk_semaphore = 0
Waits(t) == WaitsInterrupt(t) \/ WaitsScheduler(t) \/ WaitsDisk(t)

\* The order disk, interrupt, scheduler in which the code nests its semaphores is
\* never reversed: whenever a thread waits for one, some thread that holds one
\* can go on.
NoHostDeadlock ==
  (\E t \in Thread : Waits(t)) =>
    \E u \in InterruptHolders \cup SchedulerHolders \cup DiskHolders : ~Waits(u)

-----------------------------------------------------------------------------
(* The ready list. *)

\* The ready list is in priority order whatever mix of threads inserts into it.
ReadySorted ==
  \A i, j \in DOMAIN ready : i < j => Prio(ready[i]) <= Prio(ready[j])

Precedes(q, x, y) == \E i, j \in DOMAIN q : i < j /\ q[i] = x /\ q[j] = y

\* scheduler.h:21-22, "chooses the oldest process with the highest priority": no
\* step puts a newcomer before a process of its priority, or swaps two that stay.
NoOvertaking ==
  [][\A p, q \in Created :
       /\ p # q
       /\ Contains(ready, p) /\ Contains(ready', p) /\ Contains(ready', q)
       /\ IF Contains(ready, q) THEN ~Precedes(ready, q, p) ELSE Prio(p) <= Prio(q)
       => ~Precedes(ready', q, p)]_vars

-----------------------------------------------------------------------------
(* Where a process is. *)

Positions(q, x) == {i \in DOMAIN q : q[i] = x}
RequestsOf(q, p) == {i \in DOMAIN q : q[i].process = p}

\* Submitted, and not finished.
Live(p) ==
  /\ status[p] # "FINISHED"
  /\ ~(p = NewProcess /\ at["ui"] \in {"ui_link", "ui_tail", "ui_enqueue"})

\* The CPU thread is about to queue the request of the process it has just
\* interrupted.
Requesting(p) ==
  /\ at["cpu"] \in {"irq_scheduled", "irq_exit", "enqueue"}
  /\ irq \in {"DISK_REQUEST", "PRINT_REQUEST"}
  /\ cur = p

\* The process is queued on a semaphore and still has to leave the CPU.
Leaving(p) ==
  /\ running = p
  /\ irq = "SEMAPHORE"
  /\ at["cpu"] \in {"irq_lock", "irq_test", "irq_mark", "irq_sched"}

Held(condition, place) == IF condition THEN {<<place, "cpu", 0>>} ELSE {}
PlacesOf(p) ==
  Held(running = p /\ ~Leaving(p), "running") \cup Held(Requesting(p), "requesting")
  \cup {<<"ready", "", i>> : i \in Positions(ready, p)}
  \cup {<<"disk", "", i>> : i \in RequestsOf(disk_requests, p)}
  \cup {<<"print", "", i>> : i \in RequestsOf(print_requests, p)}
  \cup UNION {{<<"waiting", s, i>> : i \in Positions(processes_waiting[s], p)} :
               s \in Sem}

\* A live process is running, ready, waiting for one semaphore or for one device:
\* it is never dropped and never queued twice.
OnePlace == os = "up" => \A p \in Created : Live(p) => Cardinality(PlacesOf(p)) = 1

\* No thread is changing the state of a process.
Quiet ==
  /\ os = "up"
  /\ at["cpu"] \in {"spin", "clear_flag", "loop", "fetch", "exec", "p", "p_charge",
                    "v", "exit"}
  /\ at["disk"] \in {"poll", "sweep", "disk_lock", "disk_post"}
  /\ at["print"] = "poll"

Blocked(p) ==
  \/ \E s \in Sem : Contains(processes_waiting[s], p)
  \/ RequestsOf(disk_requests, p) \cup RequestsOf(print_requests, p) # {}

\* cpu.h:65-67 and process.h:12-13: the status says where the process is.
StatusAgrees ==
  Quiet =>
    \A p \in Created :
      /\ running = p => status[p] = "RUNNING"
      /\ Contains(ready, p) => status[p] = "READY"
      /\ Blocked(p) => status[p] = "WAITING"

\* cpu.c:193-194, "interruption by trying to access a sempahore [sic] or I/O moves the
\* process to WAIT status": when its request is queued, the process waits.
RequesterWaits == at["cpu"] = "enqueue" => status[cur] = "WAITING"

\* cpu.h:58-59, process_create_syscall "adds it to the PCB and the scheduler's
\* list": a live process is in the PCB, where memory.c looks for its segment's owner.
PCBComplete == os # "exited" => \A p \in Created : Live(p) => Contains(PCB, p)

\* cpu.c:173, "all inscructions [sic] were executed": only then is a process finished.
FinishesOnlyDone == \A p \in Created : status[p] = "FINISHED" => Done(p)

\* log.c:32-37: print_interruption reads the instruction at the interrupted process's
\* program counter, "considering the execution of a process can only be externally
\* interrupted by a new process".  As long as that is so there is one to read, also
\* for the process whose last instruction has used up its quantum.
ReadsAnInstruction ==
  at["cpu"] = "irq_mark" /\ running # NULL => ~Done(running)

\* cpu.h:77-78 and cpu.c:274: a finished process has left the PCB and the
\* scheduler for good.
FinishedIsGone ==
  os = "up" /\ at["cpu"] = "spin" =>
    \A p \in freed : running # p /\ ~Contains(ready, p) /\ ~Contains(PCB, p)

\* The program does not dereference NULL, use freed memory or follow a wrong link.
NoFault == os # "fault"

\* What a thread is about to do is undefined, and it is not that push and delete_list
\* meet on PCB (PushUndefined, UnlinkUndefined).
KernelUndefined == os = "up" /\ (RunUndefined \/ DiskUndefined \/ PrintUndefined)

\* The program uses a NULL or freed pointer nowhere but in list.c, on PCB, which two
\* threads change without a lock.
FaultsOnlyInPCB == ~KernelUndefined

\* The same with swapping, which can go wrong besides by a process that PCB has lost.
\* memory.c:29-31 and 85: swap_segment does not expect find_process to return NULL.
FaultNeedsLostPCB == KernelUndefined => ~PCBComplete

-----------------------------------------------------------------------------
(* The simulated semaphores. *)

Executed(p, opcode, s) ==
  Cardinality({i \in 1..PC[p] : /\ i <= Len(CodeOf(p))
                                /\ CodeOf(p)[i].opcode = opcode
                                /\ CodeOf(p)[i].semaphore = s})

\* By its own account, p is between P(s) and V(s).
InSection(p, s) ==
  /\ Executed(p, "P", s) > Executed(p, "V", s)
  /\ ~Contains(processes_waiting[s], p)

\* cpu.h:65-67: a process inside its section owns the semaphore, so that two
\* processes are never inside together.
OwnerInside ==
  \A s \in Sem : \A p \in Created : InSection(p, s) => owner[s] = p

-----------------------------------------------------------------------------
(* What the kernel promises, without its lists, flags, locks and memory. *)

Phase(p) ==
  CASE ~(p \in Created) -> "new"
    [] p \in Created /\ status[p] = "FINISHED" -> "finished"
    [] p \in Created /\ ~Live(p) /\ status[p] # "FINISHED" -> "new"
    [] Live(p) /\ running = p -> "running"
    [] Live(p) /\ running # p /\ Contains(ready, p) -> "ready"
    [] OTHER -> "blocked"

Promise == INSTANCE Lifecycle WITH
  Nobody <- -1,
  phase <- [p \in Proc |-> Phase(p)],
  priority <- [p \in Proc |-> IF Phase(p) = "new" THEN 0 ELSE Prio(p)],
  holder <- owner,
  queue <- processes_waiting

\* cpu.h:65-75, scheduler.h:20-22, process.h:12-13: the threads together do nothing to
\* the processes and the semaphores but what Lifecycle lets them do.
KeepsItsPromise == Promise!Spec

-----------------------------------------------------------------------------
(* Memory. *)

\* memory.h:51-52, the number of free pages: NUM_PAGES less those of the loaded
\* segments.
LoadedPages == UNION {{p} \X (1..PagesOf(p)) : p \in {q \in Created : present_bit[q]}}
FreePageCount == num_free_pages = NUM_PAGES - Cardinality(LoadedPages)

\* memory.c:190, "remove segment from the list, as it is not loaded anymore": a
\* segment is in the list once when it is loaded, and not at all otherwise.
ListedIfLoaded ==
  \A p \in Created :
    Cardinality(Positions(segments, p)) = IF present_bit[p] THEN 1 ELSE 0

\* memory.h:51-52: the count of free pages never exceeds the pages there are.
FreePagesBounded == num_free_pages <= NUM_PAGES

-----------------------------------------------------------------------------
(* The disk. *)

\* disk.h:34-35, "serving the requests in ascending order of the tracks": within a
\* sweep the head never turns back, whatever is inserted meanwhile.
SweepAscends ==
  [][at["disk"] = "sweep" /\ at'["disk"] = "disk_lock"
       => curr_track' >= curr_track]_vars

-----------------------------------------------------------------------------
(* Progress. *)

Finished(p) == status[p] = "FINISHED"

\* The processor idles beside a ready process and nothing is left that would
\* wake it.
Stranded ==
  /\ running = NULL /\ ready # <<>> /\ ~new_process
  /\ at["cpu"] = "spin" /\ at["disk"] = "poll" /\ at["print"] = "poll"
  /\ at["ui"] = "prompt"
  /\ disk_requests = <<>> /\ print_requests = <<>>

\* scheduler.h:21-22: a process is chosen "if there is any".
NeverStranded == os = "up" => ~Stranded

\* cpu.h:47-48, "while there is a process scheduled, the cpu calls the syscall to
\* execute the process's instructions": it is not busy for ever with anything else.
KeepsExecuting ==
  []<>(os = "up" /\ running # NULL) =>
    []<>(at["cpu"] \in {"exec", "p", "v", "enqueue"})

\* Every submitted process runs to completion, unless the processor is stranded.
EventuallyFinished ==
  \A p \in Proc : p < processes_id ~> (Finished(p) \/ Stranded \/ os # "up")

=============================================================================
