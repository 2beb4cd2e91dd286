---------------------------- MODULE ComputeProofs ----------------------------
(***************************************************************************)
(* What the kernel guarantees to programs that only compute and share      *)
(* semaphores and the memory, for every set of such program files, number  *)
(* of processes and size of memory.                                        *)
(*                                                                         *)
(* The devices' threads change the running process behind the back of the  *)
(* CPU thread, and the processor loses and mistakes processes when they    *)
(* do.  ComputesOnly is the hypothesis that keeps them asleep; what is     *)
(* left to interleave is the CPU thread and the user who submits programs. *)
(***************************************************************************)
EXTENDS KernelProofs, FiniteSetTheorems

\* What is asked of the programs.
INSTANCE Workload

-----------------------------------------------------------------------------
(* The invariant. *)

\* Nothing ever wakes the disk or the printer.
DevicesIdle ==
  /\ disk_requests = <<>> /\ print_requests = <<>>
  /\ at["disk"] = "poll" /\ at["print"] = "poll"
  /\ irq \notin {"DISK_REQUEST", "PRINT_REQUEST"}

\* Where the process the CPU thread has in hand is still the running one.
UnlinkLabel == {"fin_unlink", "fin_header", "fin_node", "fin_tail", "fin_sched"}
HandLabel ==
  MemoryLabel \cup {"exec", "p", "p_charge", "v", "fin_wait", "fin_unload", "fin_free"}
  \cup UnlinkLabel

\* The process that runs when an interruption comes to schedule another one has the
\* status the interruption gave it.
InHand ==
  /\ at["cpu"] \in HandLabel => running = cur
  /\ at["cpu"] \in {"fetch", "finish", "irq_mark"} => running # NULL
  /\ at["cpu"] = "irq_sched" /\ running # NULL =>
       status[running] = IF irq = "SEMAPHORE" THEN "WAITING" ELSE "READY"

\* Only a process that has executed all of its instructions is finished.
Endings ==
  /\ at["cpu"] = "finish" => Done(running)
  /\ at["cpu"] \in {"fin_wait", "fin_unload", "fin_free"} => Done(cur)
  /\ at["cpu"] \in UnlinkLabel => cur \in freed
  /\ \A p \in Proc : p \in freed <=> status[p] = "FINISHED"
  /\ \A p \in freed : Done(p)

\* The running process has been queued on a semaphore and is on its way off the CPU.
Blocks ==
  /\ irq = "SEMAPHORE"
  /\ at["cpu"] \in {"irq_lock", "irq_test", "irq_mark", "irq_sched"}

\* A process that has been created but not submitted yet.
Submitting == at["ui"] \in {"ui_link", "ui_tail", "ui_enqueue"}
Pending(p) == p = NewProcess /\ Submitting

WaitingFor(s) == ToSet(processes_waiting[s])
Queued(p) == p \in ToSet(ready) \/ \E s \in Sem : p \in WaitingFor(s)

\* No list holds a process twice, and no two lists share one.
Apart ==
  /\ IsInjective(ready)
  /\ \A s \in Sem :
       /\ IsInjective(processes_waiting[s])
       /\ WaitingFor(s) \cap ToSet(ready) = {}
       /\ NULL \notin WaitingFor(s)
       /\ \A t \in Sem : s # t => WaitingFor(s) \cap WaitingFor(t) = {}

\* The running process is in no list, unless it has just been queued by P.
RunningApart ==
  /\ running \notin ToSet(ready)
  /\ (\E s \in Sem : running \in WaitingFor(s)) <=> Blocks
  /\ running \in freed => at["cpu"] \in UnlinkLabel

\* Nor is a finished process, or one that has not been submitted.
OthersApart ==
  /\ \A p \in freed : ~Queued(p)
  /\ \A p \in Created : Pending(p) => ~Queued(p) /\ p # running /\ p \notin freed

\* No process is lost.
Somewhere == \A p \in Created : Queued(p) \/ p = running \/ p \in freed \/ Pending(p)

Places == Apart /\ RunningApart /\ OthersApart /\ Somewhere

\* The PCB holds nothing twice, and no finished process for long.
PCBApart ==
  /\ IsInjective(PCB)
  /\ at["ui"] = "ui_link" => NewProcess \notin ToSet(PCB)
  /\ \A p \in freed :
       p \in ToSet(PCB) => p = cur /\ at["cpu"] \in {"fin_unlink", "fin_header"}

CInv == DevicesIdle /\ InHand /\ Endings /\ Places /\ PCBApart

-----------------------------------------------------------------------------
(* Which steps there are. *)

\* All that can change is os.
OsOnly ==
  UNCHANGED <<schedVars, createVars, procVars, semVars, memVars, ioVars, localVars,
              lockVars, at>>

\* delete_list, on the ready list and on PCB.
Unlinking == FinishUnlink \/ FinishHeader \/ FinishNode \/ FinishTail

\* The CPU thread without the requests to devices.
CpuStep ==
  \/ Interrupt("cpu") \/ MemoryNext
  \/ Spin \/ ClearFlag \/ Loop
  \/ FetchAbsent \/ Fetch \/ Exec
  \/ PSuccess \/ PFailure \/ PCharge \/ VNoneWaiting \/ VHandOver
  \/ Exit \/ Finish \/ FinishWait \/ FinishUnload \/ FinishFree
  \/ Unlinking \/ FinishSchedule \/ FinishPost

\* All that delete_list changes are lists, and the pointers into PCB.
LEMMA UnlinkStep ==
  ASSUME Unlinking
  PROVE  /\ os = "up" /\ at["cpu"] \in UnlinkLabel \ {"fin_sched"}
         /\ \E label \in UnlinkLabel \ {"fin_unlink"} : Goto("cpu", label)
         /\ UNCHANGED <<running, new_process, processes_id, file, procVars, semVars,
                        memVars, ioVars, localVars, lockVars, os>>
<1>1. CASE FinishUnlink
  BY <1>1, UnlinkGoes DEF FinishUnlink, Before, UnlinkLabel
<1>2. CASE FinishHeader \/ FinishNode \/ FinishTail
  BY <1>2 DEF FinishHeader, FinishNode, FinishTail, Before, UnlinkLabel, schedVars
<1>. QED BY <1>1, <1>2 DEF Unlinking

\* Neither device has a step to take.
LEMMA Steps ==
  ASSUME IInv, DevicesIdle, [Next]_vars
  PROVE  CpuStep \/ UiNext \/ OsOnly
<1>1. ~DiskNext
  BY DEF DevicesIdle, DiskNext, Interrupt, IrqLock, IrqTest, IrqMark, IrqSchedule,
     IrqScheduled, IrqExit, SweepStart, SweepNext, SweepEnd, FulfillDiskRequest,
     DiskRequestFinished, DiskPost, Before
<1>2. ~PrintNext
  BY DEF DevicesIdle, PrintNext, Interrupt, IrqLock, IrqTest, IrqMark, IrqSchedule,
     IrqScheduled, IrqExit, FulfillPrint, PrintRequestFinished, Before
<1>3. ~EnqueueDisk /\ ~EnqueuePrint
  BY DEF DevicesIdle, EnqueueDisk, EnqueuePrint
<1>4. CASE \/ Fault(CpuUndefined) \/ Fault(DiskUndefined)
           \/ Fault(PrintUndefined) \/ Fault(PushUndefined)
  BY <1>4 DEF Fault, OsOnly
<1>5. CASE UNCHANGED vars
  BY <1>5 DEF vars, OsOnly
<1>6. CASE CpuNext
  BY <1>3, <1>6 DEF CpuNext, CpuStep, Unlinking
<1>. QED
  BY <1>1, <1>2, <1>4, <1>5, <1>6
     DEF Next, Cpu, DiskThread, PrintThread, UiThread, Halted

\* The instruction fetched is one of those of ComputesOnly.
LEMMA Computes ==
  ASSUME IInv, ComputesOnly, running \in Created, ~Done(running)
  PROVE  InstructionAt(running).opcode \in {"EXEC", "P", "V"}
<1>1. file[running] \in File /\ PC[running] \in Nat
  BY CreatedProc DEF IInv, TypeOK, CreateTypeOK, ProcTypeOK
<1>2. Code[file[running]] \in Seq(Instruction)
  BY <1>1, FileAssumption
<1>3. PC[running] + 1 \in DOMAIN Code[file[running]]
  BY <1>1, <1>2, LenProperties DEF Done, CodeOf
<1>. QED BY <1>1, <1>3 DEF ComputesOnly, InstructionAt, CodeOf

\* What a jump of the CPU thread does to the four control points.
LEMMA CpuGoes ==
  ASSUME IInv, NEW label, Goto("cpu", label)
  PROVE  /\ at'["cpu"] = label
         /\ at'["ui"] = at["ui"] /\ at'["disk"] = at["disk"]
         /\ at'["print"] = at["print"]
  BY DEF Goto, IInv, TypeOK, ControlTypeOK, Thread

\* The same for the user interface.
LEMMA UiGoes ==
  ASSUME IInv, NEW label, Goto("ui", label)
  PROVE  /\ at'["ui"] = label
         /\ at'["cpu"] = at["cpu"] /\ at'["disk"] = at["disk"]
         /\ at'["print"] = at["print"]
  BY DEF Goto, IInv, TypeOK, ControlTypeOK, Thread

\* DevicesIdle is kept.
LEMMA StepIdle ==
  ASSUME IInv, ComputesOnly, DevicesIdle, InHand, CpuStep \/ UiNext \/ OsOnly
  PROVE  DevicesIdle'
<1>. USE DEF DevicesIdle, ioVars, diskVars, printVars, localVars
<1>1. CASE Fetch
  <2>1. running \in Created /\ ~Done(running)
    BY <1>1 DEF Fetch, Fetchable, IInv, TypeOK, SchedTypeOK
  <2>2. InstructionAt(running).opcode \in {"EXEC", "P", "V"}
    BY <2>1, Computes
  <2>3. irq' = irq
    BY <1>1, <2>2 DEF Fetch
  <2>4. at'["disk"] = at["disk"] /\ at'["print"] = at["print"]
    BY <1>1, CpuGoes DEF Fetch, Raise
  <2>. QED BY <1>1, <2>3, <2>4 DEF Fetch
<1>2. CASE Interrupt("cpu")
  BY <1>2, CpuGoes DEF Interrupt, IrqLock, IrqTest, IrqMark, IrqSchedule, IrqScheduled,
     IrqExit
<1>3. CASE MemoryNext
  BY <1>3, CpuGoes DEF MemoryNext, LoadStart, SwapChoose, SwapUnload, LoadSegment, Raise
<1>4. CASE Spin \/ ClearFlag \/ Loop \/ FetchAbsent \/ Exec
  BY <1>4, CpuGoes DEF Spin, ClearFlag, Loop, FetchAbsent, Exec, Raise
<1>5. CASE PSuccess \/ PFailure \/ PCharge \/ VNoneWaiting \/ VHandOver
  BY <1>5, CpuGoes DEF PSuccess, PFailure, PCharge, VNoneWaiting, VHandOver, Raise
<1>6. CASE Exit \/ Finish \/ FinishWait \/ FinishUnload \/ FinishFree
  BY <1>6, CpuGoes DEF Exit, Finish, FinishWait, FinishUnload, FinishFree, Raise
<1>7. CASE Unlinking \/ FinishSchedule \/ FinishPost
  BY <1>7, CpuGoes, UnlinkStep DEF FinishSchedule, FinishPost, UnlinkLabel
<1>8. CASE UiNext
  BY <1>8, UiGoes
     DEF UiNext, Submission, CreateProcess, LinkPCB, MoveTail, Enqueue, Announce, Quit
<1>9. CASE OsOnly
  BY <1>9 DEF OsOnly
<1>. QED BY <1>1, <1>2, <1>3, <1>4, <1>5, <1>6, <1>7, <1>8, <1>9 DEF CpuStep

-----------------------------------------------------------------------------
(* What forward_scheduling does. *)

\* The processes it chooses from.
Able == IF StillReady THEN ToSet(ready) \cup {running} ELSE ToSet(ready)

\* One of them runs and leaves the list, or there are none.
Dispatched ==
  /\ IsInjective(ready')
  /\ \/ /\ Able = {}
        /\ running' = NULL /\ ToSet(ready') = {} /\ status' = status
     \/ /\ running' \in Able
        /\ ToSet(ready') = Able \ {running'}
        /\ status' = [status EXCEPT ![running'] = "RUNNING"]

\* add_process_scheduler adds the process and no other.
LEMMA AddSet ==
  ASSUME CreateTypeOK, NEW q \in Seq(Created), NEW p \in Created
  PROVE  /\ ToSet(add_process_scheduler(q, p)) = ToSet(q) \cup {p}
         /\ IsInjective(q) /\ p \notin ToSet(q)
              => IsInjective(add_process_scheduler(q, p))
<1>. DEFINE later == {i \in DOMAIN q : Prio(q[i]) > Prio(p)}
<1>1. later \in SUBSET (1..Len(q))
  BY LenProperties
<1>2. add_process_scheduler(q, p) = InsertBeforeFirst(q, p, later)
  BY DEF add_process_scheduler
<1>. HIDE DEF later
<1>. QED BY <1>1, <1>2, InsertSet

\* forward_scheduling dispatches.
LEMMA SchedulingSets ==
  ASSUME IInv, Places, forward_scheduling
  PROVE  Dispatched
<1>0. /\ ready \in Seq(Created) /\ IsInjective(ready) /\ running \notin ToSet(ready)
      /\ CreateTypeOK /\ running \in Created \cup {NULL}
  BY DEF IInv, TypeOK, SchedTypeOK, Places, Apart, RunningApart, UnlinkLabel
<1>1. /\ Candidates \in Seq(Created) /\ IsInjective(Candidates)
      /\ ToSet(Candidates) = Able
  BY <1>0, AddProcessType, AddSet DEF Candidates, Able, StillReady
<1>2. CASE NoneToSchedule
  <2>1. ToSet(<<>>) = {} /\ IsInjective(<<>>)
    BY DEF ToSet, IsInjective
  <2>. QED BY <1>1, <1>2, <2>1 DEF NoneToSchedule, Dispatched
<1>3. CASE ScheduleFirst
  BY <1>1, <1>3, TailSet DEF ScheduleFirst, Dispatched
<1>. QED BY <1>2, <1>3 DEF forward_scheduling

\* Who is dispatched exists, and is not finished.
LEMMA DispatchedLive ==
  ASSUME IInv, CInv, Dispatched, running' # NULL
  PROVE  running' \in Created /\ running' \notin freed
<1>1. ready \in Seq(Created) /\ running \in Created \cup {NULL}
  BY DEF IInv, TypeOK, SchedTypeOK
<1>2. ToSet(ready) \subseteq Created
  BY <1>1, ContainsElements
<1>3. \A p \in ToSet(ready) : p \notin freed
  BY DEF CInv, Places, OthersApart, Queued
<1>4. StillReady => running \in Created /\ running \notin freed
  BY <1>1, CreatedProc DEF IInv, TypeOK, StillReady, CInv, Endings, UnlinkLabel
<1>. QED BY <1>1, <1>2, <1>3, <1>4 DEF Dispatched, Able

-----------------------------------------------------------------------------
(* What the CPU thread has in hand. *)

\* process_interrupt.
LEMMA InHandInterrupt ==
  ASSUME IInv, CInv, Interrupt("cpu")
  PROVE  InHand'
<1>. USE DEF InHand, HandLabel, MemoryLabel, UnlinkLabel
<1>1. CASE IrqLock("cpu")
  BY <1>1, CpuGoes DEF IrqLock, schedVars, procVars
<1>2. CASE IrqTest("cpu")
  BY <1>2, CpuGoes DEF IrqTest, schedVars, procVars
<1>3. CASE IrqMark("cpu")
  <2>1. running \in Proc /\ status \in [Proc -> Status]
    BY <1>3, CreatedProc DEF IrqMark, IInv, TypeOK, SchedTypeOK, ProcTypeOK
  <2>2. irq \notin {"DISK_REQUEST", "PRINT_REQUEST"}
    BY DEF CInv, DevicesIdle
  <2>. QED BY <1>3, <2>1, <2>2, CpuGoes
              DEF IrqMark, Type, Blocking, schedVars, localVars
<1>4. CASE IrqSchedule("cpu")
  BY <1>4, CpuGoes DEF IrqSchedule
<1>5. CASE IrqScheduled("cpu")
  BY <1>5, CpuGoes DEF IrqScheduled
<1>6. CASE IrqExit("cpu")
  <2>1. Return("cpu") \in {"clear_flag", "spin", "loop"}
    BY DEF Return, Type, CInv, DevicesIdle, IInv, TypeOK, ControlTypeOK,
       CpuInterruption, INTERRUPTION_TYPE
  <2>. QED BY <1>6, <2>1, CpuGoes DEF IrqExit
<1>. QED BY <1>1, <1>2, <1>3, <1>4, <1>5, <1>6 DEF Interrupt

\* InHand is kept.
LEMMA StepInHand ==
  ASSUME IInv, CInv, CpuStep \/ UiNext \/ OsOnly
  PROVE  InHand'
<1>. USE DEF InHand, HandLabel, MemoryLabel, UnlinkLabel
<1>0. InHand
  BY DEF CInv
<1>1. CASE Interrupt("cpu")
  BY <1>1, InHandInterrupt
<1>2. CASE MemoryNext
  BY <1>0, <1>2, CpuGoes DEF MemoryNext, LoadStart, SwapChoose, SwapUnload, LoadSegment,
     Before, Raise, schedVars, localVars
<1>3. CASE Spin \/ ClearFlag \/ Loop
  BY <1>0, <1>3, CpuGoes DEF Spin, ClearFlag, Loop, CanExecute, Raise, schedVars
<1>4. CASE FetchAbsent \/ Fetch
  BY <1>0, <1>4, CpuGoes DEF FetchAbsent, Fetch, Fetchable, Raise, schedVars
<1>5. CASE Exec \/ PCharge \/ VNoneWaiting \/ VHandOver
  BY <1>0, <1>5, CpuGoes DEF Exec, PCharge, VNoneWaiting, VHandOver
<1>6. CASE PSuccess \/ PFailure
  BY <1>0, <1>6, CpuGoes DEF PSuccess, PFailure, Before, Raise, schedVars, localVars
<1>7. CASE Exit \/ Finish
  BY <1>0, <1>7, CpuGoes DEF Exit, Finish, Raise, schedVars
<1>8. CASE FinishWait \/ FinishUnload \/ FinishFree \/ Unlinking
  BY <1>0, <1>8, CpuGoes, UnlinkStep
     DEF FinishWait, FinishUnload, FinishFree, Before, schedVars, localVars, UnlinkLabel
<1>9. CASE FinishSchedule \/ FinishPost
  BY <1>0, <1>9, CpuGoes DEF FinishSchedule, FinishPost
<1>10. CASE UiNext
  BY <1>0, <1>10, UiGoes
     DEF UiNext, Submission, CreateProcess, LinkPCB, MoveTail, Enqueue, Announce, Quit,
         schedVars, procVars, localVars
<1>11. CASE OsOnly
  BY <1>0, <1>11 DEF OsOnly, schedVars, procVars, localVars
<1>. QED BY <1>1, <1>2, <1>3, <1>4, <1>5, <1>6, <1>7, <1>8, <1>9, <1>10, <1>11
         DEF CpuStep

-----------------------------------------------------------------------------
(* How processes end. *)

\* A step that is not FinishFree finishes nobody, and gives a status of its own only to
\* processes that are not finished.
Unfinished ==
  /\ freed' = freed
  /\ \A p \in Proc : status'[p] = "FINISHED" <=> status[p] = "FINISHED"

\* The process the CPU thread has in hand, and the running one, can still be given a
\* status.
LEMMA CurLive ==
  ASSUME IInv, CInv
  PROVE  /\ at["cpu"] \in HandLabel \ UnlinkLabel
              => cur \in Created /\ cur \in Proc /\ cur \notin freed
         /\ at["cpu"] \in {"irq_mark", "fetch", "finish"}
              => running \in Created /\ running \in Proc /\ running \notin freed
  BY CurCreated, CreatedProc
     DEF CInv, InHand, Places, RunningApart, HandLabel, UnlinkLabel, MemoryLabel,
         HasProcess, FinishLabel, IInv, TypeOK, SchedTypeOK

\* A status written to a process that is not finished finishes nobody.
LEMMA StatusWritten ==
  ASSUME IInv, CInv, NEW p \in Created, p \notin freed, NEW x \in Status \ {"FINISHED"},
         status' = [status EXCEPT ![p] = x], freed' = freed
  PROVE  Unfinished
  BY CreatedProc DEF IInv, TypeOK, ProcTypeOK, CInv, Endings, UnlinkLabel, Unfinished

\* The waiter V makes ready exists, and is not finished.
LEMMA WaiterQueued ==
  ASSUME IInv, CInv, VHandOver
  PROVE  /\ Instr.semaphore \in Sem /\ Waiter \in Created
         /\ processes_waiting[Instr.semaphore] \in Seq(Created \cup {NULL})
         /\ processes_waiting[Instr.semaphore] # <<>>
         /\ Waiter \in WaitingFor(Instr.semaphore)
         /\ Waiter \notin freed
<1>1. Instr.semaphore \in Sem
  BY InstrSem DEF VHandOver, Before
<1>2. /\ Waiter \in Created /\ processes_waiting[Instr.semaphore] # <<>>
      /\ processes_waiting[Instr.semaphore] \in Seq(Created \cup {NULL})
  BY <1>1, WaiterType DEF VHandOver, IInv, TypeOK, SemTypeOK
<1>3. IsInjective(processes_waiting[Instr.semaphore])
  BY <1>1 DEF CInv, Places, Apart
<1>4. Waiter \in WaitingFor(Instr.semaphore)
  BY <1>2, <1>3, TailSet DEF Waiter, WaitingFor
<1>. QED BY <1>1, <1>2, <1>4 DEF CInv, Places, OthersApart, Queued

\* Every step but FinishFree finishes nobody.
LEMMA StepUnfinished ==
  ASSUME IInv, CInv, CpuStep \/ UiNext \/ OsOnly, ~FinishFree
  PROVE  Unfinished
<1>1. CASE UNCHANGED <<freed, status>>
  BY <1>1 DEF Unfinished
<1>2. CASE IrqMark("cpu")
  BY <1>2, CurLive, StatusWritten DEF IrqMark, Before, Status
<1>3. CASE forward_scheduling /\ UNCHANGED freed
  <2>1. Dispatched
    BY <1>3, SchedulingSets DEF CInv
  <2>2. CASE status' = status
    BY <1>1, <1>3, <2>2
  <2>3. CASE running' \in Able /\ status' = [status EXCEPT ![running'] = "RUNNING"]
    <3>1. running' \in Created
      <4>1. ready \in Seq(Created) /\ running \in Created \cup {NULL}
        BY DEF IInv, TypeOK, SchedTypeOK
      <4>2. ToSet(ready) \subseteq Created
        BY <4>1, ContainsElements
      <4>. QED BY <2>3, <4>1, <4>2 DEF Able, StillReady
    <3>2. running' # NULL
      BY <3>1, CreatedProc DEF IInv, TypeOK
    <3>. QED BY <1>3, <2>1, <2>3, <3>1, <3>2, DispatchedLive, StatusWritten DEF Status
  <2>. QED BY <2>1, <2>2, <2>3 DEF Dispatched
<1>4. CASE VHandOver
  BY <1>4, WaiterQueued, StatusWritten DEF VHandOver, Status
<1>5. CASE LoadStart
  BY <1>5, CurLive, StatusWritten
     DEF LoadStart, Before, HandLabel, UnlinkLabel, MemoryLabel, Status
<1>6. CASE SwapChoose
  <2>1. segments[VictimIndex] \in Created
    BY <1>6, VictimCreated DEF SwapChoose
  <2>2. segments[VictimIndex] \notin freed
    BY <1>6 DEF SwapChoose, Scanned
  <2>. QED BY <1>6, <2>1, <2>2, StatusWritten DEF SwapChoose, Status
<1>7. CASE SwapUnload
  <2>1. victim \in Created /\ victim \notin freed
    BY <1>7, VictimInHand DEF SwapUnload, Before, UnloadUndefined
  <2>. QED BY <1>7, <2>1, StatusWritten DEF SwapUnload, Status
<1>8. CASE FinishWait \/ FinishUnload
  BY <1>8, CurLive, StatusWritten
     DEF FinishWait, FinishUnload, Before, HandLabel, UnlinkLabel, Status
<1>. QED BY <1>1, <1>2, <1>3, <1>4, <1>5, <1>6, <1>7, <1>8, UnlinkStep
            DEF CpuStep, Interrupt, IrqLock, IrqTest, IrqSchedule, IrqScheduled,
                IrqExit, MemoryNext, LoadSegment, Spin, ClearFlag, Loop, FetchAbsent,
                Fetch, Exec, PSuccess, PFailure, PCharge, VNoneWaiting, Exit, Finish,
                FinishSchedule, FinishPost, UiNext, Submission, CreateProcess, LinkPCB,
                MoveTail, Enqueue, Announce, Quit, OsOnly, procVars, UnlinkLabel

\* The program counters only ever advance.
LEMMA DoneKept ==
  ASSUME IInv, CInv, [Next]_vars
  PROVE  \A p \in Created : Done(p) => Done(p)'
<1>1. PC' = PC \/ NextPC
  BY UnlinkStep
     DEF Next, Cpu, DiskThread, PrintThread, UiThread, UiNext, Submission, Fault,
         Halted, vars, procVars, CpuNext, DiskNext, PrintNext, Interrupt, IrqLock,
         IrqTest, IrqMark, IrqSchedule, IrqScheduled, IrqExit, MemoryNext, LoadStart,
         SwapChoose, SwapUnload, LoadSegment, Spin, ClearFlag, Loop, FetchAbsent, Fetch,
         Exec, PSuccess, PFailure, PCharge, VNoneWaiting, VHandOver, EnqueueDisk,
         EnqueuePrint, Exit, Finish, FinishWait, FinishUnload, FinishFree,
         FinishSchedule, FinishPost, SweepStart, SweepNext, SweepEnd,
         FulfillDiskRequest, DiskRequestFinished, DiskPost, FulfillPrint,
         PrintRequestFinished, CreateProcess, LinkPCB, MoveTail, Enqueue, Announce,
         Quit, Unlinking, UnlinkLabel
<1>2. ASSUME NEW p \in Created, Done(p)
      PROVE  Done(p)'
  <2>1. PC[p] \in Nat /\ CodeOf(p) \in Seq(Instruction)
    BY CreatedProc DEF IInv, TypeOK, ProcTypeOK
  <2>2. PC'[p] \in {PC[p], PC[p] + 1}
    BY <1>1, <2>1, CreatedProc DEF NextPC, IInv, TypeOK, ProcTypeOK
  <2>3. CodeOf(p)' = CodeOf(p)
    BY FileKept DEF CodeOf
  <2>4. Len(CodeOf(p)) \in Nat
    BY <2>1, LenProperties
  <2>. QED BY <1>2, <2>1, <2>2, <2>3, <2>4 DEF Done
<1>. QED BY <1>2

\* Endings is kept.
LEMMA StepEndings ==
  ASSUME IInv, CInv, CpuStep \/ UiNext \/ OsOnly, [Next]_vars
  PROVE  Endings'
<1>0. InHand /\ Endings
  BY DEF CInv
<1>1. freed \subseteq Created
  BY DEF IInv, TypeOK, ProcTypeOK
<1>2. CASE FinishFree
  <2>1. cur \in Created /\ cur \in Proc
    BY <1>2, CurLive DEF FinishFree, Before, HandLabel, UnlinkLabel
  <2>2. at'["cpu"] = "fin_unlink"
    BY <1>2, CpuGoes DEF FinishFree
  <2>3. \A p \in Proc : p \in freed' <=> status'[p] = "FINISHED"
    BY <1>0, <1>2, <2>1 DEF FinishFree, Endings, IInv, TypeOK, ProcTypeOK
  <2>4. \A p \in freed' : Done(p)'
    BY <1>0, <1>1, <1>2, <2>1, DoneKept DEF FinishFree, Before, Endings
  <2>. QED BY <1>2, <2>2, <2>3, <2>4 DEF FinishFree, Endings, localVars
<1>3. CASE ~FinishFree
  <2>1. Unfinished
    BY <1>3, StepUnfinished
  <2>2. \A p \in Proc : p \in freed' <=> status'[p] = "FINISHED"
    BY <1>0, <2>1 DEF Unfinished, Endings
  <2>3. \A p \in freed' : Done(p)'
    BY <1>0, <1>1, <2>1, DoneKept DEF Unfinished, Endings
  <2>. DEFINE Labels == /\ at["cpu"] = "finish" => Done(running)
                        /\ at["cpu"] \in {"fin_wait", "fin_unload", "fin_free"}
                             => Done(cur)
                        /\ at["cpu"] \in UnlinkLabel => cur \in freed
  <2>4. Labels'
    <3>. USE DEF UnlinkLabel
    <3>0. Labels
      BY <1>0 DEF Endings
    <3>1. CASE Exit
      <4>1. at'["cpu"] \in {"spin", "irq_lock", "finish"}
        BY <1>3, <3>1, CpuGoes DEF Exit, Raise
      <4>2. at'["cpu"] = "finish" => Done(running) /\ running' = running
        BY <3>1, CpuGoes DEF Exit, Raise, schedVars
      <4>3. Done(running) /\ running' = running => Done(running)'
        BY <3>1 DEF Exit, Done, CodeOf, procVars, createVars
      <4>. QED BY <4>1, <4>2, <4>3
    <3>2. CASE Finish
      <4>1. at'["cpu"] = "fin_wait" /\ Done(running) /\ cur' = running
        BY <1>0, <3>2, CpuGoes DEF Finish, Before, Endings
      <4>2. Done(cur)'
        BY <3>2, <4>1 DEF Finish, Done, CodeOf, procVars, createVars
      <4>. QED BY <4>1, <4>2
    <3>3. CASE FinishWait \/ FinishUnload
      <4>1. at'["cpu"] \in {"fin_unload", "fin_free"} /\ Done(cur) /\ cur' = cur
        BY <1>0, <3>3, CpuGoes
           DEF FinishWait, FinishUnload, Before, Endings, localVars
      <4>2. Done(cur)'
        BY <3>3, <4>1 DEF FinishWait, FinishUnload, Done, CodeOf, createVars
      <4>. QED BY <4>1, <4>2
    <3>4. CASE Unlinking
      BY <3>0, <3>4, CpuGoes, UnlinkStep DEF Before, procVars, localVars
    <3>5. CASE UiNext \/ OsOnly
      <4>1. at'["cpu"] = at["cpu"] /\ UNCHANGED <<running, cur, freed>>
        BY <3>5, UiGoes
           DEF UiNext, Submission, CreateProcess, LinkPCB, MoveTail, Enqueue, Announce,
               Quit, OsOnly, schedVars, procVars, localVars
      <4>2. at["cpu"] = "finish" => running \in Created
        BY CurLive
      <4>3. at["cpu"] \in {"fin_wait", "fin_unload", "fin_free"} => cur \in Created
        BY CurLive DEF HandLabel
      <4>. QED BY <3>0, <4>1, <4>2, <4>3, DoneKept
    <3>6. CASE Interrupt("cpu")
      <4>1. at'["cpu"] \in {"irq_test", "irq_mark", "irq_sched", "irq_scheduled",
                            "irq_exit", "clear_flag", "spin", "loop", "enqueue",
                            "disk_post", "poll"}
        BY <3>6, CpuGoes DEF Interrupt, IrqLock, IrqTest, IrqMark, IrqSchedule,
           IrqScheduled, IrqExit, Return, Type, IInv, TypeOK, ControlTypeOK,
           CpuInterruption, INTERRUPTION_TYPE
      <4>. QED BY <4>1
    <3>7. CASE MemoryNext
      BY <3>7, CpuGoes DEF MemoryNext, LoadStart, SwapChoose, SwapUnload, LoadSegment,
         Raise
    <3>8. CASE Spin \/ ClearFlag \/ Loop \/ FetchAbsent \/ Fetch \/ Exec
      BY <3>8, CpuGoes DEF Spin, ClearFlag, Loop, FetchAbsent, Fetch, Exec, Raise
    <3>9. CASE PSuccess \/ PFailure \/ PCharge \/ VNoneWaiting \/ VHandOver
      BY <3>9, CpuGoes DEF PSuccess, PFailure, PCharge, VNoneWaiting, VHandOver, Raise
    <3>10. CASE FinishSchedule \/ FinishPost
      BY <3>10, CpuGoes DEF FinishSchedule, FinishPost
    <3>. QED BY <1>3, <3>1, <3>2, <3>3, <3>4, <3>5, <3>6, <3>7, <3>8, <3>9, <3>10
             DEF CpuStep
  <2>. QED BY <2>2, <2>3, <2>4 DEF Endings
<1>. QED BY <1>2, <1>3

-----------------------------------------------------------------------------
(* Where the processes are.  Seven actions move one; nothing else does. *)

Moves ==
  \/ CreateProcess \/ Enqueue \/ PFailure \/ VHandOver
  \/ IrqSchedule("cpu") \/ FinishSchedule \/ FinishFree

\* Everybody stays where he was.
StayPut ==
  /\ UNCHANGED <<running, ready, processes_waiting, freed, processes_id>>
  /\ Submitting' <=> Submitting
  /\ Blocks' <=> Blocks
  /\ running \in freed => at'["cpu"] \in UnlinkLabel

\* The CPU thread's steps that move nobody.  FinishUnlink is one of them: the process
\* it looks for in the ready list is the running one, which is not there.
LEMMA CpuStays ==
  ASSUME IInv, CInv, CpuStep, ~Moves
  PROVE  StayPut
<1>. USE DEF StayPut, Submitting, Blocks, schedVars, createVars, procVars, semVars,
     localVars, Moves, Before, UnlinkLabel
<1>0. /\ running \in freed => at["cpu"] \in UnlinkLabel
      /\ at["cpu"] \in HandLabel => running = cur
      /\ running \notin ToSet(ready)
  BY DEF CInv, Places, RunningApart, InHand
<1>1. CASE IrqLock("cpu") \/ IrqTest("cpu") \/ IrqMark("cpu")
  BY <1>0, <1>1, CpuGoes DEF IrqLock, IrqTest, IrqMark
<1>2. CASE IrqScheduled("cpu")
  BY <1>0, <1>2, CpuGoes DEF IrqScheduled
<1>3. CASE IrqExit("cpu")
  <2>1. Return("cpu") \in {"clear_flag", "spin", "loop"}
    BY DEF Return, Type, CInv, DevicesIdle, IInv, TypeOK, ControlTypeOK,
       CpuInterruption, INTERRUPTION_TYPE
  <2>. QED BY <1>0, <1>3, <2>1, CpuGoes DEF IrqExit
<1>4. CASE MemoryNext
  BY <1>0, <1>4, CpuGoes DEF MemoryNext, LoadStart, SwapChoose, SwapUnload, LoadSegment,
     Raise
<1>5. CASE Spin \/ ClearFlag \/ Loop
  BY <1>0, <1>5, CpuGoes DEF Spin, ClearFlag, Loop, Raise
<1>6. CASE FetchAbsent \/ Exec \/ PSuccess \/ PCharge \/ VNoneWaiting
  BY <1>0, <1>6, CpuGoes DEF FetchAbsent, Exec, PSuccess, PCharge, VNoneWaiting
<1>7. CASE Fetch
  BY <1>0, <1>7, CpuGoes DEF Fetch, Raise
<1>8. CASE Exit \/ Finish
  BY <1>0, <1>8, CpuGoes DEF Exit, Finish, Raise
<1>9. CASE FinishWait \/ FinishUnload \/ FinishPost
  BY <1>0, <1>9, CpuGoes DEF FinishWait, FinishUnload, FinishPost
<1>10. CASE Unlinking
  <2>1. ready \in Seq(Created) /\ running = cur
    BY <1>0, <1>10, UnlinkStep DEF IInv, TypeOK, SchedTypeOK, HandLabel
  <2>2. ~Contains(ready, cur)
    BY <1>0, <2>1, ContainsElements
  <2>3. UNCHANGED ready
    BY <1>10, <2>2 DEF Unlinking, FinishUnlink, FinishHeader, FinishNode, FinishTail
  <2>. QED BY <1>0, <1>10, <2>3, CpuGoes, UnlinkStep
<1>. QED BY <1>1, <1>2, <1>3, <1>4, <1>5, <1>6, <1>7, <1>8, <1>9, <1>10
         DEF CpuStep, Interrupt

\* The steps that move nobody.
LEMMA Stays ==
  ASSUME IInv, CInv, CpuStep \/ UiNext \/ OsOnly, ~Moves
  PROVE  StayPut
<1>0. running \in freed => at["cpu"] \in UnlinkLabel
  BY DEF CInv, Places, RunningApart, UnlinkLabel
<1>1. CASE CpuStep
  BY <1>1, CpuStays
<1>2. CASE LinkPCB \/ MoveTail \/ Announce \/ Quit
  BY <1>0, <1>2, UiGoes
     DEF LinkPCB, MoveTail, Announce, Quit, StayPut, Submitting, Blocks, Before,
         schedVars, createVars, procVars, semVars, localVars
<1>3. CASE OsOnly
  BY <1>0, <1>3 DEF OsOnly, StayPut, Submitting, Blocks, schedVars, createVars,
     procVars,
     semVars, localVars
<1>. QED BY <1>1, <1>2, <1>3 DEF UiNext, Submission, Moves

\* Places is about nothing that StayPut changes.
LEMMA PlacesStay ==
  ASSUME Places, StayPut
  PROVE  Places'
<1>1. Created' = Created /\ NewProcess' = NewProcess
  BY DEF StayPut, Created, NewProcess
<1>2. \A s \in Sem : WaitingFor(s)' = WaitingFor(s)
  BY DEF StayPut, WaitingFor
<1>3. Apart'
  BY <1>2 DEF StayPut, Places, Apart
<1>4. RunningApart'
  BY <1>2 DEF StayPut, Places, RunningApart, UnlinkLabel
<1>5. \A p : (Queued(p) <=> Queued(p)') /\ (Pending(p) <=> Pending(p)')
  BY <1>1, <1>2 DEF StayPut, Queued, Pending
<1>6. OthersApart'
  BY <1>1, <1>5 DEF StayPut, Places, OthersApart
<1>7. Somewhere'
  BY <1>1, <1>5 DEF StayPut, Places, Somewhere
<1>. QED BY <1>3, <1>4, <1>6, <1>7 DEF Places

\* Who is queued, and who runs, has been created.
LEMMA QueuedCreated ==
  ASSUME IInv, CInv
  PROVE  /\ ToSet(ready) \subseteq Created
         /\ \A s \in Sem : WaitingFor(s) \subseteq Created
         /\ \A p : Queued(p) => p \in Created
         /\ NULL \notin Created /\ freed \subseteq Created
<1>1. ToSet(ready) \subseteq Created
  BY ContainsElements DEF IInv, TypeOK, SchedTypeOK
<1>2. \A s \in Sem : WaitingFor(s) \subseteq Created
  <2>1. \A s \in Sem : processes_waiting[s] \in Seq(Created \cup {NULL})
    BY DEF IInv, TypeOK, SemTypeOK
  <2>2. \A s \in Sem : WaitingFor(s) \subseteq Created \cup {NULL}
    BY <2>1, ContainsElements DEF WaitingFor
  <2>. QED BY <2>2 DEF CInv, Places, Apart
<1>. QED BY <1>1, <1>2, CreatedProc DEF Queued, IInv, TypeOK, ProcTypeOK

\* create_process: the new process is in no list yet.
LEMMA PlacesCreate ==
  ASSUME IInv, CInv, CreateProcess
  PROVE  Places'
<1>1. /\ processes_id \in Nat /\ processes_id' = processes_id + 1
      /\ processes_id \notin Created /\ Created' = Created \cup {processes_id}
      /\ NewProcess' = processes_id
  BY BoundAssumption DEF CreateProcess, Created, NewProcess, IInv, TypeOK, CreateTypeOK
<1>2. UNCHANGED <<running, ready, processes_waiting, freed>> /\ (Blocks' <=> Blocks)
  BY UiGoes DEF CreateProcess, schedVars, procVars, semVars, localVars, Blocks
<1>3. Submitting' /\ ~Submitting
  BY UiGoes DEF CreateProcess, Before, Submitting
<1>4. at'["cpu"] = at["cpu"]
  BY UiGoes DEF CreateProcess
<1>5. \A s \in Sem : WaitingFor(s)' = WaitingFor(s)
  BY <1>2 DEF WaitingFor
<1>6. Apart' /\ RunningApart'
  BY <1>2, <1>4, <1>5 DEF CInv, Places, Apart, RunningApart, UnlinkLabel
<1>7. \A p : Queued(p) <=> Queued(p)'
  BY <1>2, <1>5 DEF Queued
<1>8. \A p : (Pending(p)' <=> p = processes_id) /\ ~Pending(p)
  BY <1>1, <1>3 DEF Pending
<1>9. processes_id # running /\ processes_id \notin freed /\ ~Queued(processes_id)
  BY <1>1, QueuedCreated, BoundAssumption DEF IInv, TypeOK, SchedTypeOK, CreateProcess,
     Proc
<1>10. OthersApart'
  BY <1>1, <1>2, <1>7, <1>8, <1>9 DEF CInv, Places, OthersApart
<1>11. Somewhere'
  BY <1>1, <1>2, <1>7, <1>8 DEF CInv, Places, Somewhere
<1>. QED BY <1>6, <1>10, <1>11 DEF Places

\* process_create_syscall adds it to the ready list.
LEMMA PlacesEnqueue ==
  ASSUME IInv, CInv, Enqueue
  PROVE  Places'
<1>1. NewProcess \in Created /\ Pending(NewProcess)
  BY NewProcessType DEF Enqueue, Before, Pending, Submitting
<1>2. ~Queued(NewProcess) /\ NewProcess # running /\ NewProcess \notin freed
  BY <1>1 DEF CInv, Places, OthersApart
<1>3. /\ UNCHANGED <<running, processes_waiting, freed, processes_id>>
      /\ Created' = Created /\ NewProcess' = NewProcess
  BY DEF Enqueue, createVars, procVars, semVars, Created, NewProcess
<1>4. ~Submitting' /\ (Blocks' <=> Blocks) /\ at'["cpu"] = at["cpu"]
  BY UiGoes DEF Enqueue, Submitting, Blocks, localVars
<1>5. \A s \in Sem : WaitingFor(s)' = WaitingFor(s)
  BY <1>3 DEF WaitingFor
<1>6. /\ ToSet(ready') = ToSet(ready) \cup {NewProcess}
      /\ IsInjective(ready')
  BY <1>1, <1>2, AddSet DEF Enqueue, IInv, TypeOK, SchedTypeOK, CInv, Places, Apart,
     Queued
<1>7. Apart'
  BY <1>2, <1>3, <1>5, <1>6 DEF CInv, Places, Apart, Queued
<1>8. RunningApart'
  BY <1>2, <1>3, <1>4, <1>5, <1>6 DEF CInv, Places, RunningApart, UnlinkLabel
<1>9. \A p : (Queued(p)' <=> Queued(p) \/ p = NewProcess) /\ ~Pending(p)'
  BY <1>4, <1>5, <1>6 DEF Queued, Pending
<1>10. OthersApart'
  BY <1>2, <1>3, <1>9 DEF CInv, Places, OthersApart
<1>11. Somewhere'
  BY <1>3, <1>9 DEF CInv, Places, Somewhere, Pending
<1>. QED BY <1>7, <1>8, <1>10, <1>11 DEF Places

\* P queues the running process, which is in no list.
LEMMA PlacesPFailure ==
  ASSUME IInv, CInv, PFailure
  PROVE  Places'
<1>0. PICK s : s = Instr.semaphore
  OBVIOUS
<1>1. s \in Sem
  BY <1>0, InstrSem DEF PFailure, Before
<1>2. running = cur /\ cur \in Created /\ cur \notin freed
  BY CurLive DEF PFailure, Before, HandLabel, UnlinkLabel, CInv, InHand
<1>3. ~Blocks /\ Blocks'
  BY CpuGoes DEF PFailure, Before, Raise, Blocks
<1>4. /\ UNCHANGED <<running, ready, freed, processes_id>>
      /\ Created' = Created /\ NewProcess' = NewProcess
      /\ Submitting' <=> Submitting
  BY CpuGoes DEF PFailure, Raise, schedVars, createVars, Created, NewProcess, Submitting
<1>5. running \notin ToSet(ready) /\ \A t \in Sem : running \notin WaitingFor(t)
  BY <1>3 DEF CInv, Places, RunningApart, UnlinkLabel
<1>6. /\ processes_waiting[s] \in Seq(Created \cup {NULL})
      /\ IsInjective(processes_waiting[s])
  BY <1>1 DEF IInv, TypeOK, SemTypeOK, CInv, Places, Apart
<1>7. processes_waiting' = [processes_waiting EXCEPT ![s] = Append(@, running)]
  BY <1>0 DEF PFailure
<1>8. processes_waiting'[s] = Append(processes_waiting[s], running)
  BY <1>1, <1>7 DEF IInv, TypeOK, SemTypeOK
<1>9. \A t \in Sem \ {s} : processes_waiting'[t] = processes_waiting[t]
  BY <1>7 DEF IInv, TypeOK, SemTypeOK
<1>10. /\ WaitingFor(s)' = WaitingFor(s) \cup {running}
       /\ IsInjective(processes_waiting'[s])
  BY <1>1, <1>2, <1>5, <1>6, <1>8, AppendSet DEF WaitingFor
<1>11. \A t \in Sem \ {s} : WaitingFor(t)' = WaitingFor(t)
  BY <1>9 DEF WaitingFor
<1>12. NULL # running
  BY <1>2, QueuedCreated
<1>13. Apart'
  <2>0. Apart
    BY DEF CInv, Places
  <2>1. ASSUME NEW t \in Sem
        PROVE  /\ IsInjective(processes_waiting'[t])
               /\ WaitingFor(t)' \cap ToSet(ready) = {}
               /\ NULL \notin WaitingFor(t)'
    <3>1. CASE t = s
      BY <1>5, <1>10, <1>12, <2>0, <3>1 DEF Apart
    <3>2. CASE t # s
      BY <1>9, <1>11, <2>0, <3>2 DEF Apart
    <3>. QED BY <3>1, <3>2
  <2>2. ASSUME NEW t \in Sem, NEW u \in Sem, t # u
        PROVE  WaitingFor(t)' \cap WaitingFor(u)' = {}
    <3>1. WaitingFor(t) \cap WaitingFor(u) = {}
      BY <2>0, <2>2 DEF Apart
    <3>. QED BY <1>5, <1>10, <1>11, <2>2, <3>1
  <2>. QED BY <1>4, <2>0, <2>1, <2>2 DEF Apart
<1>14. RunningApart'
  BY <1>1, <1>2, <1>3, <1>4, <1>5, <1>10 DEF RunningApart, UnlinkLabel
<1>15. \A p : (Queued(p)' <=> Queued(p) \/ p = running) /\ (Pending(p)' <=> Pending(p))
  BY <1>1, <1>4, <1>10, <1>11 DEF Queued, Pending
<1>16. OthersApart'
  BY <1>2, <1>4, <1>15 DEF CInv, Places, OthersApart
<1>17. Somewhere'
  BY <1>4, <1>15 DEF CInv, Places, Somewhere
<1>. QED BY <1>13, <1>14, <1>16, <1>17 DEF Places

\* V makes the first process waiting ready.
LEMMA PlacesVHandOver ==
  ASSUME IInv, CInv, VHandOver
  PROVE  Places'
<1>0. PICK s : s = Instr.semaphore
  OBVIOUS
<1>1. PICK w : w = Waiter
  OBVIOUS
<1>2. /\ s \in Sem /\ w \in Created /\ w \in WaitingFor(s) /\ w \notin freed
      /\ processes_waiting[s] \in Seq(Created \cup {NULL})
      /\ processes_waiting[s] # <<>>
      /\ w = Head(processes_waiting[s])
  BY <1>0, <1>1, WaiterQueued DEF Waiter
<1>3. ~Blocks /\ ~Blocks' /\ at'["cpu"] = "loop"
  BY CpuGoes DEF VHandOver, Before, Blocks
<1>4. /\ UNCHANGED <<running, freed, processes_id>>
      /\ Created' = Created /\ NewProcess' = NewProcess
      /\ Submitting' <=> Submitting
  BY CpuGoes DEF VHandOver, createVars, Created, NewProcess, Submitting
<1>5. /\ running \notin ToSet(ready) /\ running \notin freed
      /\ \A t \in Sem : running \notin WaitingFor(t)
  BY <1>3 DEF VHandOver, Before, CInv, Places, RunningApart, UnlinkLabel
<1>6. w \notin ToSet(ready) /\ w # running
  BY <1>2, <1>5 DEF CInv, Places, Apart
<1>7. IsInjective(processes_waiting[s])
  BY <1>2 DEF CInv, Places, Apart
<1>8. processes_waiting' = [processes_waiting EXCEPT ![s] = Tail(@)]
  BY <1>0 DEF VHandOver
<1>9. /\ processes_waiting'[s] = Tail(processes_waiting[s])
      /\ \A t \in Sem \ {s} : processes_waiting'[t] = processes_waiting[t]
  BY <1>2, <1>8 DEF IInv, TypeOK, SemTypeOK
<1>10. WaitingFor(s)' = WaitingFor(s) \ {w} /\ IsInjective(processes_waiting'[s])
  BY <1>2, <1>7, <1>9, TailSet DEF WaitingFor
<1>11. \A t \in Sem \ {s} : WaitingFor(t)' = WaitingFor(t)
  BY <1>9 DEF WaitingFor
<1>12. ToSet(ready') = ToSet(ready) \cup {w} /\ IsInjective(ready')
  BY <1>1, <1>2, <1>6, AddSet DEF VHandOver, IInv, TypeOK, SchedTypeOK, CInv, Places,
     Apart
<1>13. Apart'
  <2>0. Apart
    BY DEF CInv, Places
  <2>1. ASSUME NEW t \in Sem
        PROVE  /\ IsInjective(processes_waiting'[t])
               /\ WaitingFor(t)' \cap ToSet(ready') = {}
               /\ NULL \notin WaitingFor(t)'
    <3>1. CASE t = s
      BY <1>10, <1>12, <2>0, <3>1 DEF Apart
    <3>2. CASE t # s
      <4>1. w \notin WaitingFor(t)
        BY <1>2, <2>0, <3>2 DEF Apart
      <4>. QED BY <1>9, <1>11, <1>12, <2>0, <3>2, <4>1 DEF Apart
    <3>. QED BY <3>1, <3>2
  <2>2. ASSUME NEW t \in Sem, NEW u \in Sem, t # u
        PROVE  WaitingFor(t)' \cap WaitingFor(u)' = {}
    <3>1. WaitingFor(t) \cap WaitingFor(u) = {}
      BY <2>0, <2>2 DEF Apart
    <3>. QED BY <1>10, <1>11, <2>2, <3>1
  <2>. QED BY <1>12, <2>1, <2>2 DEF Apart
<1>14. RunningApart'
  BY <1>2, <1>3, <1>4, <1>5, <1>6, <1>10, <1>11, <1>12 DEF RunningApart, UnlinkLabel
<1>15. \A p : (Queued(p)' <=> Queued(p)) /\ (Pending(p)' <=> Pending(p))
  <2>1. ASSUME NEW p
        PROVE  Queued(p)' <=> Queued(p)
    <3>1. CASE p = w
      BY <1>2, <1>12, <3>1 DEF Queued
    <3>2. CASE p # w
      <4>1. \A t \in Sem : p \in WaitingFor(t)' <=> p \in WaitingFor(t)
        BY <1>10, <1>11, <3>2
      <4>. QED BY <1>12, <3>2, <4>1 DEF Queued
    <3>. QED BY <3>1, <3>2
  <2>. QED BY <1>4, <2>1 DEF Pending
<1>16. OthersApart'
  BY <1>4, <1>15 DEF CInv, Places, OthersApart
<1>17. Somewhere'
  BY <1>4, <1>15 DEF CInv, Places, Somewhere
<1>. QED BY <1>13, <1>14, <1>16, <1>17 DEF Places

\* forward_scheduling takes one of the able ones; a process that is not able any more
\* is finished, or queued on a semaphore.
LEMMA PlacesDispatch ==
  ASSUME IInv, CInv, Dispatched, ~Blocks', at'["ui"] = at["ui"],
         UNCHANGED <<processes_waiting, freed, processes_id>>,
         running \in Able <=> running # NULL /\ running \notin freed /\ ~Blocks
  PROVE  Places'
<1>1. /\ Created' = Created /\ NewProcess' = NewProcess
      /\ Submitting' <=> Submitting
      /\ \A s \in Sem : WaitingFor(s)' = WaitingFor(s)
  BY DEF Created, NewProcess, Submitting, WaitingFor
<1>2. Able \subseteq ToSet(ready) \cup {running} /\ ToSet(ready) \subseteq Able
  BY DEF Able
<1>3. /\ \A p \in Able : p \notin freed /\ p # NULL
      /\ \A s \in Sem : \A p \in Able : p \notin WaitingFor(s)
  <2>1. ASSUME NEW p \in Able
        PROVE  p \notin freed /\ p # NULL /\ \A s \in Sem : p \notin WaitingFor(s)
    <3>1. CASE p \in ToSet(ready)
      BY <3>1, QueuedCreated DEF CInv, Places, Apart, OthersApart, Queued
    <3>2. CASE p = running /\ p \notin ToSet(ready)
      BY <3>2 DEF CInv, Places, RunningApart, UnlinkLabel
    <3>. QED BY <1>2, <3>1, <3>2
  <2>. QED BY <2>1
<1>4. /\ IsInjective(ready')
      /\ \/ Able = {} /\ running' = NULL /\ ToSet(ready') = {}
         \/ running' \in Able /\ ToSet(ready') = Able \ {running'}
  BY DEF Dispatched
<1>5. ToSet(ready') \subseteq Able /\ running' \in Able \cup {NULL}
  BY <1>4
<1>6. /\ \A p \in Able : p = running' \/ p \in ToSet(ready')
      /\ running' \notin ToSet(ready')
  BY <1>4
<1>7. Apart'
  BY <1>1, <1>3, <1>4, <1>5 DEF CInv, Places, Apart
<1>8. RunningApart'
  <2>1. \A s \in Sem : NULL \notin WaitingFor(s)
    BY DEF CInv, Places, Apart
  <2>2. running' \notin freed
    BY <1>3, <1>5, QueuedCreated
  <2>. QED BY <1>1, <1>3, <1>5, <1>6, <2>1, <2>2 DEF RunningApart, UnlinkLabel
<1>9. OthersApart'
  <2>1. \A p \in freed : ~Queued(p)'
    BY <1>1, <1>3, <1>5 DEF CInv, Places, OthersApart, Queued
  <2>2. \A p \in Created : Pending(p) => p \notin Able /\ p # NULL
    BY <1>2, QueuedCreated DEF CInv, Places, OthersApart, Queued
  <2>3. \A p \in Created : Pending(p) => ~Queued(p)' /\ p # running' /\ p \notin freed
    BY <1>1, <1>5, <2>2 DEF CInv, Places, OthersApart, Queued
  <2>. QED BY <1>1, <2>1, <2>3 DEF OthersApart, Pending
<1>10. Somewhere'
  <2>1. ASSUME NEW p \in Created
        PROVE  Queued(p)' \/ p = running' \/ p \in freed \/ Pending(p)'
    <3>1. CASE p \in Able
      BY <1>6, <3>1 DEF Queued
    <3>2. CASE \E s \in Sem : p \in WaitingFor(s)
      BY <1>1, <3>2 DEF Queued
    <3>3. CASE p = running /\ p \notin Able
      <4>1. p \in freed \/ Blocks
        BY <3>3, QueuedCreated
      <4>2. Blocks => \E s \in Sem : p \in WaitingFor(s)
        BY <3>3 DEF CInv, Places, RunningApart, UnlinkLabel
      <4>. QED BY <3>2, <4>1, <4>2
    <3>4. CASE p \in freed \/ Pending(p)
      BY <1>1, <3>4 DEF Pending
    <3>. QED BY <1>2, <3>1, <3>2, <3>3, <3>4 DEF CInv, Places, Somewhere, Queued
  <2>. QED BY <1>1, <2>1 DEF Somewhere
<1>. QED BY <1>7, <1>8, <1>9, <1>10 DEF Places

\* process_interrupt puts the running process back unless P has just queued it.
LEMMA AbleInterrupted ==
  ASSUME CInv, IrqSchedule("cpu")
  PROVE  running \in Able <=> running # NULL /\ running \notin freed /\ ~Blocks
<1>1. running \notin freed /\ running \notin ToSet(ready)
  BY DEF IrqSchedule, Before, CInv, Places, RunningApart, UnlinkLabel
<1>2. running # NULL =>
        status[running] = IF irq = "SEMAPHORE" THEN "WAITING" ELSE "READY"
  BY DEF IrqSchedule, Before, CInv, InHand
<1>3. Blocks <=> irq = "SEMAPHORE"
  BY DEF IrqSchedule, Before, Blocks
<1>. QED BY <1>1, <1>2, <1>3 DEF Able, StillReady

\* process_finish_syscall does not put back the one that has ended.
LEMMA UnableFinished ==
  ASSUME IInv, CInv, FinishSchedule
  PROVE  running \in Able <=> running # NULL /\ running \notin freed /\ ~Blocks
<1>1. running = cur /\ cur \in freed /\ running \notin ToSet(ready)
  BY DEF FinishSchedule, Before, CInv, InHand, HandLabel, Endings, Places, RunningApart,
     UnlinkLabel
<1>2. cur \in Proc /\ status[cur] = "FINISHED"
  BY <1>1, QueuedCreated, CreatedProc DEF CInv, Endings, UnlinkLabel, IInv, TypeOK
<1>. QED BY <1>1, <1>2 DEF Able, StillReady

\* In process_interrupt.
LEMMA PlacesIrqSchedule ==
  ASSUME IInv, CInv, IrqSchedule("cpu")
  PROVE  Places'
<1>1. Dispatched
  BY SchedulingSets DEF IrqSchedule, CInv
<1>2. ~Blocks' /\ at'["ui"] = at["ui"]
  BY CpuGoes DEF IrqSchedule, Blocks
<1>3. UNCHANGED <<processes_waiting, freed, processes_id>>
  BY DEF IrqSchedule, semVars, createVars
<1>. QED BY <1>1, <1>2, <1>3, AbleInterrupted, PlacesDispatch

\* In process_finish_syscall.
LEMMA PlacesFinishSchedule ==
  ASSUME IInv, CInv, FinishSchedule
  PROVE  Places'
<1>1. Dispatched
  BY SchedulingSets DEF FinishSchedule, CInv
<1>2. ~Blocks' /\ at'["ui"] = at["ui"]
  BY CpuGoes DEF FinishSchedule, Blocks
<1>3. UNCHANGED <<processes_waiting, freed, processes_id>>
  BY DEF FinishSchedule, semVars, createVars
<1>. QED BY <1>1, <1>2, <1>3, UnableFinished, PlacesDispatch

\* The running process ends.
LEMMA PlacesFinishFree ==
  ASSUME IInv, CInv, FinishFree
  PROVE  Places'
<1>1. running = cur /\ cur \in Created /\ cur \notin freed
  BY CurLive DEF FinishFree, Before, HandLabel, UnlinkLabel, CInv, InHand
<1>2. ~Blocks /\ ~Blocks' /\ at'["cpu"] = "fin_unlink" /\ (Submitting' <=> Submitting)
  BY CpuGoes DEF FinishFree, Before, Blocks, Submitting
<1>3. /\ UNCHANGED <<running, ready, processes_waiting, processes_id>>
      /\ freed' = freed \cup {running}
      /\ Created' = Created /\ NewProcess' = NewProcess
  BY <1>1 DEF FinishFree, schedVars, createVars, semVars, Created, NewProcess
<1>4. \A s \in Sem : WaitingFor(s)' = WaitingFor(s)
  BY <1>3 DEF WaitingFor
<1>5. Apart' /\ RunningApart'
  BY <1>2, <1>3, <1>4 DEF CInv, Places, Apart, RunningApart, UnlinkLabel
<1>6. ~Queued(running)
  BY <1>2 DEF CInv, Places, RunningApart, UnlinkLabel, Queued
<1>7. \A p : (Queued(p)' <=> Queued(p)) /\ (Pending(p)' <=> Pending(p))
  BY <1>2, <1>3, <1>4 DEF Queued, Pending
<1>8. OthersApart'
  BY <1>3, <1>6, <1>7 DEF CInv, Places, OthersApart
<1>9. Somewhere'
  BY <1>3, <1>7 DEF CInv, Places, Somewhere
<1>. QED BY <1>5, <1>8, <1>9 DEF Places

\* Places is kept.
LEMMA StepPlaces ==
  ASSUME IInv, CInv, CpuStep \/ UiNext \/ OsOnly
  PROVE  Places'
<1>1. CASE ~Moves
  BY <1>1, Stays, PlacesStay DEF CInv
<1>2. CASE Moves
  BY <1>2, PlacesCreate, PlacesEnqueue, PlacesPFailure, PlacesVHandOver,
     PlacesIrqSchedule, PlacesFinishSchedule, PlacesFinishFree DEF Moves
<1>. QED BY <1>1, <1>2

-----------------------------------------------------------------------------
(* The PCB, and the invariant as a whole. *)

\* delete_list takes the process out of PCB; when it is the only one, FinishHeader does.
LEMMA PCBUnlinked ==
  ASSUME IInv, IsInjective(PCB), FinishUnlink
  PROVE  /\ IsInjective(PCB') /\ ToSet(PCB') \subseteq ToSet(PCB)
         /\ cur \in ToSet(PCB') => at'["cpu"] = "fin_header"
<1>1. PCB \in Seq(Created)
  BY DEF IInv, TypeOK, CreateTypeOK
<1>2. Contains(PCB, cur) => PCBPosition \in 1..Len(PCB) /\ PCB[PCBPosition] = cur
  BY <1>1, PCBPositionIs
<1>3. CASE DeleteAbsent
  BY <1>1, <1>3, ContainsElements DEF DeleteAbsent
<1>4. CASE DeleteHeader
  <2>1. PCB # <<>>
    BY <1>4 DEF DeleteHeader, Contains
  <2>. QED BY <1>1, <1>4, <2>1, TailSet, CpuGoes DEF DeleteHeader
<1>5. CASE DeleteTail
  BY <1>1, <1>2, <1>5, PrefixSet DEF DeleteTail
<1>6. CASE DeleteMiddle
  BY <1>1, <1>2, <1>6, RemoveAtSet DEF DeleteMiddle
<1>. QED BY <1>3, <1>4, <1>5, <1>6 DEF FinishUnlink

\* Who is in the PCB, and who has ended, can change in these steps only.
LEMMA PCBStays ==
  ASSUME CpuStep, ~FinishUnlink, ~FinishHeader, ~FinishFree
  PROVE  /\ at["cpu"] \notin {"fin_unlink", "fin_header"}
         /\ UNCHANGED <<PCB, freed, processes_id>>
         /\ \E label : Goto("cpu", label)
<1>. USE DEF Interrupt, MemoryNext
<1>1. at["cpu"] \notin {"fin_unlink", "fin_header"}
  BY DEF CpuStep, IrqLock, IrqTest, IrqMark, IrqSchedule, IrqScheduled, IrqExit,
     LoadStart, SwapChoose, SwapUnload, LoadSegment, Spin, ClearFlag, Loop, FetchAbsent,
     Fetch, Exec, PSuccess, PFailure, PCharge, VNoneWaiting, VHandOver, Exit, Finish,
     FinishWait, FinishUnload, Unlinking, FinishNode, FinishTail, FinishSchedule,
     FinishPost, Before
<1>2. UNCHANGED <<PCB, freed, processes_id>>
  BY DEF CpuStep, IrqLock, IrqTest, IrqMark, IrqSchedule, IrqScheduled, IrqExit,
     LoadStart, SwapChoose, SwapUnload, LoadSegment, Spin, ClearFlag, Loop, FetchAbsent,
     Fetch, Exec, PSuccess, PFailure, PCharge, VNoneWaiting, VHandOver, Exit, Finish,
     FinishWait, FinishUnload, Unlinking, FinishNode, FinishTail, FinishSchedule,
     FinishPost, createVars, procVars
<1>3. \E label : Goto("cpu", label)
  BY DEF CpuStep, IrqLock, IrqTest, IrqMark, IrqSchedule, IrqScheduled, IrqExit,
     LoadStart, SwapChoose, SwapUnload, LoadSegment, Spin, ClearFlag, Loop, FetchAbsent,
     Fetch, Exec, PSuccess, PFailure, PCharge, VNoneWaiting, VHandOver, Exit, Finish,
     FinishWait, FinishUnload, Unlinking, FinishNode, FinishTail, FinishSchedule,
     FinishPost, Raise
<1>. QED BY <1>1, <1>2, <1>3

\* PCBApart is kept.
LEMMA StepPCB ==
  ASSUME IInv, CInv, CpuStep \/ UiNext \/ OsOnly
  PROVE  PCBApart'
<1>0. PCBApart
  BY DEF CInv
<1>1. PCB \in Seq(Created) /\ ToSet(PCB) \subseteq Created
  BY ContainsElements DEF IInv, TypeOK, CreateTypeOK
<1>2. CASE CreateProcess
  <2>1. /\ processes_id \notin Created /\ NewProcess' = processes_id
        /\ processes_id \notin freed /\ processes_id \notin ToSet(PCB)
    BY <1>1, <1>2 DEF CreateProcess, Created, NewProcess, IInv, TypeOK, CreateTypeOK,
       ProcTypeOK
  <2>2. UNCHANGED <<freed, cur>> /\ at'["cpu"] = at["cpu"]
    BY <1>2, UiGoes DEF CreateProcess, procVars, localVars
  <2>3. CASE PCB' = PCB
    BY <1>0, <2>1, <2>2, <2>3 DEF PCBApart
  <2>4. CASE PCB' = <<processes_id>> /\ at'["ui"] = "ui_tail"
    <3>1. IsInjective(PCB') /\ ToSet(PCB') = {processes_id}
      BY <2>4 DEF IsInjective, ToSet
    <3>. QED BY <2>1, <2>2, <2>4, <3>1 DEF PCBApart
  <2>. QED BY <1>2, <2>3, <2>4, UiGoes DEF CreateProcess
<1>3. CASE LinkPCB
  <2>1. /\ NewProcess \in Created /\ NewProcess \notin freed
        /\ NewProcess \notin ToSet(PCB)
    BY <1>0, <1>3, NewProcessType DEF LinkPCB, Before, PCBApart, CInv, Places,
       OthersApart, Pending, Submitting
  <2>2. UNCHANGED <<freed, cur>> /\ at'["cpu"] = at["cpu"] /\ at'["ui"] = "ui_tail"
    BY <1>3, UiGoes DEF LinkPCB, procVars, localVars
  <2>3. /\ IsInjective(Append(PCB, NewProcess))
        /\ ToSet(Append(PCB, NewProcess)) = ToSet(PCB) \cup {NewProcess}
    BY <1>0, <1>1, <2>1, AppendSet DEF PCBApart
  <2>4. IsInjective(PCB') /\ ToSet(PCB') \subseteq ToSet(PCB) \cup {NewProcess}
    BY <1>0, <1>3, <2>3 DEF LinkPCB, PCBApart
  <2>. QED BY <1>0, <2>1, <2>2, <2>4 DEF PCBApart
<1>4. CASE MoveTail \/ Enqueue \/ Announce \/ Quit \/ OsOnly
  <2>1. UNCHANGED <<PCB, freed, cur, processes_id>> /\ at'["cpu"] = at["cpu"]
    BY <1>4, UiGoes DEF MoveTail, Enqueue, Announce, Quit, OsOnly, createVars, procVars,
       localVars
  <2>2. at'["ui"] = "ui_link" => at["ui"] = "ui_link"
    BY <1>4, UiGoes DEF MoveTail, Enqueue, Announce, Quit, OsOnly
  <2>. QED BY <1>0, <2>1, <2>2 DEF PCBApart, NewProcess
<1>5. CASE FinishUnlink
  <2>1. UNCHANGED <<freed, processes_id, cur>> /\ at'["ui"] = at["ui"]
    BY <1>5, CpuGoes, UnlinkStep DEF Unlinking, procVars, localVars, UnlinkLabel
  <2>2. /\ IsInjective(PCB') /\ ToSet(PCB') \subseteq ToSet(PCB)
        /\ cur \in ToSet(PCB') => at'["cpu"] = "fin_header"
    BY <1>0, <1>5, PCBUnlinked DEF PCBApart
  <2>. QED BY <1>0, <2>1, <2>2 DEF PCBApart, NewProcess
<1>6. CASE FinishHeader
  <2>1. PCB' = <<>> /\ UNCHANGED <<freed, processes_id>> /\ at'["ui"] = at["ui"]
    BY <1>6, CpuGoes DEF FinishHeader, procVars
  <2>2. IsInjective(<<>>) /\ ToSet(<<>>) = {}
    BY DEF IsInjective, ToSet
  <2>. QED BY <2>1, <2>2 DEF PCBApart
<1>7. CASE FinishFree
  <2>1. /\ UNCHANGED <<PCB, processes_id, cur>> /\ at'["ui"] = at["ui"]
        /\ at'["cpu"] = "fin_unlink" /\ freed' = freed \cup {cur}
    BY <1>7, CpuGoes DEF FinishFree, createVars, localVars
  <2>2. at["cpu"] = "fin_free"
    BY <1>7 DEF FinishFree, Before
  <2>. QED BY <1>0, <2>1, <2>2 DEF PCBApart, NewProcess
<1>8. CASE CpuStep /\ ~FinishUnlink /\ ~FinishHeader /\ ~FinishFree
  <2>1. at'["ui"] = at["ui"]
    BY <1>8, PCBStays, CpuGoes
  <2>. QED BY <1>0, <1>8, <2>1, PCBStays DEF PCBApart, NewProcess
<1>. QED BY <1>2, <1>3, <1>4, <1>5, <1>6, <1>7, <1>8 DEF UiNext, Submission

\* Every step keeps the invariant.
LEMMA StepCompute ==
  ASSUME ComputesOnly, IInv, CInv, [Next]_vars
  PROVE  CInv'
<1>1. CpuStep \/ UiNext \/ OsOnly
  BY Steps DEF CInv
<1>2. DevicesIdle'
  BY <1>1, StepIdle DEF CInv
<1>. QED BY <1>1, <1>2, StepInHand, StepEndings, StepPlaces, StepPCB DEF CInv

\* The state main() leaves satisfies it.
LEMMA InitCompute ==
  ASSUME Init
  PROVE  CInv
<1>. USE DEF Init
<1>1. /\ at["cpu"] = "spin" /\ at["disk"] = "poll"
      /\ at["print"] = "poll" /\ at["ui"] = "prompt"
  BY DEF Thread
<1>2. Created = {}
  <2>1. processes_id = 0
    OBVIOUS
  <2>. QED BY <2>1 DEF Created
<1>3. ToSet(<<>>) = {} /\ IsInjective(<<>>)
  BY DEF ToSet, IsInjective
<1>4. \A s \in Sem : WaitingFor(s) = {}
  BY <1>3 DEF WaitingFor
<1>5. DevicesIdle /\ InHand
  BY <1>1 DEF DevicesIdle, InHand, HandLabel, UnlinkLabel, MemoryLabel
<1>6. Endings
  BY <1>1 DEF Endings, UnlinkLabel
<1>7. Apart /\ RunningApart
  BY <1>1, <1>3, <1>4 DEF Apart, RunningApart, UnlinkLabel, Blocks
<1>8. OthersApart /\ Somewhere
  BY <1>2 DEF OthersApart, Somewhere
<1>9. PCBApart
  BY <1>1, <1>3 DEF PCBApart
<1>. QED BY <1>5, <1>6, <1>7, <1>8, <1>9 DEF CInv, Places

\* Programs that only compute: the invariant.
THEOREM ComputeInvariant ==
  ASSUME ComputesOnly
  PROVE  Spec => [](IInv /\ CInv)
<1>1. IInv /\ CInv /\ [Next]_vars => CInv'
  BY StepCompute
<1>2. Init => CInv
  BY InitCompute
<1>. QED BY Invariant, <1>1, <1>2, PTL DEF Spec

-----------------------------------------------------------------------------
(* What follows for the processes. *)

\* The positions of an element in a list without repetitions.
LEMMA PositionsOf ==
  ASSUME NEW S, NEW q \in Seq(S), IsInjective(q), NEW x
  PROVE  /\ x \in ToSet(q) => \E i : Positions(q, x) = {i}
         /\ x \notin ToSet(q) => Positions(q, x) = {}
<1>1. ASSUME x \in ToSet(q) PROVE \E i : Positions(q, x) = {i}
  <2>1. PICK i \in DOMAIN q : q[i] = x
    BY <1>1 DEF ToSet
  <2>. QED BY <2>1 DEF Positions, IsInjective
<1>. QED BY <1>1 DEF Positions, ToSet

\* A live process has a place, and only one.
LEMMA LivePlace ==
  ASSUME IInv, CInv, NEW p \in Created, Live(p)
  PROVE  \E x : PlacesOf(p) = {x}
<1>1. p \in Proc /\ p \notin freed /\ ~Pending(p)
  BY CreatedProc DEF Live, CInv, Endings, UnlinkLabel, Pending, Submitting, IInv, TypeOK
<1>2. Queued(p) \/ p = running
  BY <1>1 DEF CInv, Places, Somewhere
<1>3. /\ Requesting(p) = FALSE
      /\ RequestsOf(disk_requests, p) = {} /\ RequestsOf(print_requests, p) = {}
  BY DEF Requesting, RequestsOf, CInv, DevicesIdle
<1>4. Leaving(p) <=> running = p /\ Blocks
  BY DEF Leaving, Blocks
<1>. DEFINE Run == Held(running = p /\ ~Leaving(p), "running")
            Rdy == {<<"ready", "", i>> : i \in Positions(ready, p)}
            Wtg(s) == {<<"waiting", s, i>> : i \in Positions(processes_waiting[s], p)}
<1>5. PlacesOf(p) = Run \cup Rdy \cup UNION {Wtg(s) : s \in Sem}
  BY <1>3 DEF PlacesOf, Held
<1>6. /\ p \in ToSet(ready) => \E i : Rdy = {<<"ready", "", i>>}
      /\ p \notin ToSet(ready) => Rdy = {}
  <2>1. ready \in Seq(Created) /\ IsInjective(ready)
    BY DEF IInv, TypeOK, SchedTypeOK, CInv, Places, Apart
  <2>2. /\ p \in ToSet(ready) => \E i : Positions(ready, p) = {i}
        /\ p \notin ToSet(ready) => Positions(ready, p) = {}
    BY <2>1, PositionsOf
  <2>. QED BY ONLY <2>2
<1>7. ASSUME NEW s \in Sem
      PROVE  /\ p \in WaitingFor(s) => \E i : Wtg(s) = {<<"waiting", s, i>>}
             /\ p \notin WaitingFor(s) => Wtg(s) = {}
  <2>1. /\ processes_waiting[s] \in Seq(Created \cup {NULL})
        /\ IsInjective(processes_waiting[s])
    BY DEF IInv, TypeOK, SemTypeOK, CInv, Places, Apart
  <2>. DEFINE q == processes_waiting[s]
  <2>2. /\ p \in WaitingFor(s) => \E i : Positions(q, p) = {i}
        /\ p \notin WaitingFor(s) => Positions(q, p) = {}
    BY <2>1, PositionsOf DEF WaitingFor
  <2>. HIDE DEF WaitingFor
  <2>. QED BY ONLY <2>2
<1>8. /\ running = p /\ ~Blocks => Run = {<<"running", "cpu", 0>>}
      /\ ~(running = p /\ ~Blocks) => Run = {}
  BY <1>4 DEF Held
<1>. HIDE DEF Run, Rdy, Wtg
<1>9. CASE p = running /\ ~Blocks
  <2>1. p \notin ToSet(ready) /\ \A s \in Sem : p \notin WaitingFor(s)
    BY <1>9 DEF CInv, Places, RunningApart, UnlinkLabel
  <2>2. UNION {Wtg(s) : s \in Sem} = {}
    BY <1>7, <2>1
  <2>. QED BY <1>5, <1>6, <1>8, <1>9, <2>1, <2>2
<1>10. CASE p \in ToSet(ready)
  <2>1. p # running /\ \A s \in Sem : p \notin WaitingFor(s)
    BY <1>10 DEF CInv, Places, Apart, RunningApart, UnlinkLabel
  <2>2. UNION {Wtg(s) : s \in Sem} = {}
    BY <1>7, <2>1
  <2>. QED BY <1>5, <1>6, <1>8, <1>10, <2>1, <2>2
<1>11. ASSUME NEW s \in Sem, p \in WaitingFor(s)
       PROVE  \E x : PlacesOf(p) = {x}
  <2>1. /\ p \notin ToSet(ready) /\ (running = p => Blocks)
        /\ \A t \in Sem \ {s} : p \notin WaitingFor(t)
    BY <1>11 DEF CInv, Places, Apart, RunningApart, UnlinkLabel
  <2>2. UNION {Wtg(t) : t \in Sem} = Wtg(s)
    BY <1>7, <2>1
  <2>. QED BY <1>5, <1>6, <1>7, <1>8, <1>11, <2>1, <2>2
<1>12. p = running /\ Blocks => \E s \in Sem : p \in WaitingFor(s)
  BY DEF CInv, Places, RunningApart, UnlinkLabel
<1>. QED BY <1>2, <1>9, <1>10, <1>11, <1>12 DEF Queued

\* No process that only computes is ever dropped from the lists, or in two of them, or
\* twice in one: however the user's submissions interleave with the steps of the
\* CPU thread, whatever segments share an id and however small the memory.
THEOREM NeverLost ==
  ASSUME ComputesOnly
  PROVE  Spec => []OnePlace
<1>1. IInv /\ CInv => OnePlace
  BY LivePlace, FS_Singleton DEF OnePlace
<1>. QED BY ComputeInvariant, <1>1, PTL

\* cpu.c:173: none of them is ended before its last instruction.
THEOREM NeverCutShort ==
  ASSUME ComputesOnly
  PROVE  Spec => []FinishesOnlyDone
<1>1. IInv /\ CInv => FinishesOnlyDone
  BY CreatedProc DEF FinishesOnlyDone, CInv, Endings, UnlinkLabel, IInv, TypeOK
<1>. QED BY ComputeInvariant, <1>1, PTL

\* cpu.c:274: once it has ended, no list and no pointer of the kernel leads to it.
THEOREM NeverRevived ==
  ASSUME ComputesOnly
  PROVE  Spec => []FinishedIsGone
<1>1. ASSUME IInv, CInv PROVE FinishedIsGone
  <2>1. ready \in Seq(Created) /\ PCB \in Seq(Created)
    BY <1>1 DEF IInv, TypeOK, SchedTypeOK, CreateTypeOK
  <2>. QED BY <1>1, <2>1, ContainsElements
              DEF FinishedIsGone, CInv, Places, RunningApart, UnlinkLabel, OthersApart,
                  Queued, PCBApart
<1>2. IInv /\ CInv => FinishedIsGone
  BY <1>1
<1>. QED BY ComputeInvariant, <1>2, PTL

-----------------------------------------------------------------------------
(* Nobody overtakes. *)

\* add_process_scheduler puts the newcomer behind those who are as urgent, and does not
\* change the order of the others.
LEMMA AddBehind ==
  ASSUME CreateTypeOK, NEW q \in Seq(Created), Sorted(q), NEW x \in Created,
         x \notin ToSet(q), NEW u \in ToSet(q), NEW v,
         Precedes(add_process_scheduler(q, x), v, u)
  PROVE  IF v = x THEN Prio(x) < Prio(u) ELSE Precedes(q, v, u)
<1>. DEFINE later == {i \in DOMAIN q : Prio(q[i]) > Prio(x)}
<1>0. /\ DOMAIN q = 1..Len(q) /\ Len(q) \in Nat
      /\ \A i \in 1..Len(q) : Prio(q[i]) \in Nat
  <2>1. \A i \in 1..Len(q) : q[i] \in Created
    BY ElementOfSeq
  <2>. QED BY <2>1, CreatedProc, LenProperties
<1>1. later \in SUBSET (1..Len(q))
  BY <1>0
<1>2. PICK r : r = add_process_scheduler(q, x)
  OBVIOUS
<1>3. r = InsertBeforeFirst(q, x, later)
  BY <1>2 DEF add_process_scheduler
<1>. HIDE DEF later
<1>4. /\ r \in Seq(Created) /\ Len(r) = Len(q) + 1
      /\ \E k \in 1..(Len(q) + 1) :
           (k <= Len(q) => k \in later) /\ Inserted(r, q, x, k)
  BY <1>1, <1>3, InsertBeforeFirstElements
<1>5. PICK k \in 1..(Len(q) + 1) : (k <= Len(q) => k \in later) /\ Inserted(r, q, x, k)
  BY <1>4
<1>6. DOMAIN r = 1..(Len(q) + 1)
  BY <1>4, LenProperties
<1>7. PICK i \in 1..(Len(q) + 1), j \in 1..(Len(q) + 1) : i < j /\ r[i] = v /\ r[j] = u
  BY <1>2, <1>6 DEF Precedes
<1>8. /\ r[i] = (IF i < k THEN q[i] ELSE IF i = k THEN x ELSE q[i - 1])
      /\ r[j] = (IF j < k THEN q[j] ELSE IF j = k THEN x ELSE q[j - 1])
  BY <1>5 DEF Inserted
<1>9. j # k
  BY <1>7, <1>8
<1>10. /\ i < k => i \in 1..Len(q)
       /\ i > k => i - 1 \in 1..Len(q)
       /\ j < k => j \in 1..Len(q)
       /\ j > k => j - 1 \in 1..Len(q) /\ k <= j - 1 /\ k <= Len(q)
  BY <1>0
<1>11. i = k <=> v = x
  <2>1. \A n \in 1..Len(q) : q[n] # x
    BY <1>0 DEF ToSet
  <2>. QED BY <1>0, <1>7, <1>8, <1>10, <2>1
<1>12. CASE v = x
  <2>1. j > k /\ q[j - 1] = u /\ k \in later
    <3>1. i = k
      BY <1>11, <1>12
    <3>2. j > k
      BY <1>0, <1>7, <3>1
    <3>3. q[j - 1] = u
      BY <1>0, <1>7, <1>8, <3>2
    <3>. QED BY <1>5, <1>10, <3>2, <3>3
  <2>2. Prio(q[k]) > Prio(x) /\ k \in 1..Len(q)
    BY <1>0, <2>1 DEF later
  <2>3. Prio(q[k]) <= Prio(q[j - 1])
    <3>1. j - 1 \in 1..Len(q) /\ (k < j - 1 \/ k = j - 1)
      BY <1>0, <1>10, <2>1
    <3>. QED BY <1>0, <2>2, <3>1 DEF Sorted
  <2>4. j - 1 \in 1..Len(q) /\ Prio(x) \in Nat
    BY <1>10, <2>1, CreatedProc
  <2>. QED BY <1>0, <1>12, <2>1, <2>2, <2>3, <2>4
<1>13. CASE v # x
  <2>1. i # k
    BY <1>11, <1>13
  <2>2. PICK a \in 1..Len(q) : q[a] = v /\ a = IF i < k THEN i ELSE i - 1
    BY <1>0, <1>7, <1>8, <1>10, <2>1
  <2>3. PICK b \in 1..Len(q) : q[b] = u /\ b = IF j < k THEN j ELSE j - 1
    BY <1>0, <1>7, <1>8, <1>9, <1>10
  <2>4. a < b
    BY <1>0, <1>7, <1>9, <2>1, <2>2, <2>3
  <2>. QED BY <1>0, <1>13, <2>2, <2>3, <2>4 DEF Precedes
<1>. QED BY <1>12, <1>13

\* pop does not change the order of those who stay.
LEMMA TailBehind ==
  ASSUME NEW S, NEW q \in Seq(S), q # <<>>, NEW u, NEW v, Precedes(Tail(q), v, u)
  PROVE  Precedes(q, v, u)
<1>1. /\ Len(q) \in Nat /\ DOMAIN q = 1..Len(q)
      /\ DOMAIN Tail(q) = 1..(Len(q) - 1)
      /\ \A i \in 1..(Len(q) - 1) : Tail(q)[i] = q[i + 1]
  <2>1. Tail(q) \in Seq(S) /\ Len(Tail(q)) = Len(q) - 1
    BY HeadTailProperties
  <2>. QED BY <2>1, HeadTailProperties, LenProperties
<1>2. PICK i \in 1..(Len(q) - 1), j \in 1..(Len(q) - 1) :
        i < j /\ Tail(q)[i] = v /\ Tail(q)[j] = u
  BY <1>1 DEF Precedes
<1>3. i + 1 \in 1..Len(q) /\ j + 1 \in 1..Len(q) /\ i + 1 < j + 1
  BY <1>1, <1>2
<1>. QED BY <1>1, <1>2, <1>3 DEF Precedes

\* What the threads add to the ready list was not in it.
LEMMA ReadyGrows ==
  ASSUME IInv, CInv, CpuStep \/ UiNext \/ OsOnly
  PROVE  \/ UNCHANGED ready
         \/ \E x \in Created \ ToSet(ready) : ready' = add_process_scheduler(ready, x)
         \/ forward_scheduling
<1>1. CASE Enqueue
  <2>1. NewProcess \in Created /\ Pending(NewProcess)
    BY <1>1, NewProcessType DEF Enqueue, Before, Pending, Submitting
  <2>2. NewProcess \notin ToSet(ready)
    BY <2>1 DEF CInv, Places, OthersApart, Queued
  <2>. QED BY <1>1, <2>1, <2>2 DEF Enqueue
<1>2. CASE VHandOver
  <2>1. Waiter \in Created /\ Waiter \notin ToSet(ready)
    BY <1>2, WaiterQueued DEF CInv, Places, Apart
  <2>. QED BY <1>2, <2>1 DEF VHandOver
<1>3. CASE ~Moves
  BY <1>3, Stays DEF StayPut
<1>4. CASE CreateProcess \/ PFailure \/ FinishFree
  BY <1>4 DEF CreateProcess, PFailure, FinishFree, schedVars
<1>5. CASE IrqSchedule("cpu") \/ FinishSchedule
  BY <1>5 DEF IrqSchedule, FinishSchedule
<1>. QED BY <1>1, <1>2, <1>3, <1>4, <1>5 DEF Moves

\* Two who stay keep their order, and who comes is behind his equals.
LEMMA StepBehind ==
  ASSUME IInv, CInv, ReadySorted, CpuStep \/ UiNext \/ OsOnly,
         NEW u \in ToSet(ready), NEW v,
         IF v \in ToSet(ready) THEN ~Precedes(ready, v, u) ELSE Prio(u) <= Prio(v)
  PROVE  ~Precedes(ready', v, u)
<1>0. /\ ready \in Seq(Created) /\ CreateTypeOK /\ Sorted(ready)
      /\ running \in Created \cup {NULL} /\ running \notin ToSet(ready)
  BY DEF IInv, TypeOK, SchedTypeOK, ReadySorted, Sorted, CInv, Places, RunningApart,
     UnlinkLabel
<1>1. Precedes(ready, v, u) => v \in ToSet(ready)
  BY DEF Precedes, ToSet
<1>2. ~Precedes(ready, v, u)
  BY <1>1
<1>3. ASSUME NEW x \in Created, x \notin ToSet(ready)
      PROVE  ~Precedes(add_process_scheduler(ready, x), v, u)
  <2>1. Prio(x) \in Nat /\ Prio(u) \in Nat
    <3>1. u \in Created
      BY <1>0, ContainsElements
    <3>. QED BY <1>0, <3>1, CreatedProc
  <2>. QED BY <1>0, <1>2, <1>3, <2>1, AddBehind
<1>4. CASE forward_scheduling
  <2>1. Candidates \in Seq(Created) /\ ~Precedes(Candidates, v, u)
    BY <1>0, <1>2, <1>3, AddProcessType DEF Candidates, StillReady
  <2>2. CASE NoneToSchedule
    BY <2>2 DEF NoneToSchedule, Precedes
  <2>3. CASE ScheduleFirst
    BY <2>1, <2>3, TailBehind DEF ScheduleFirst
  <2>. QED BY <1>4, <2>2, <2>3 DEF forward_scheduling
<1>. QED BY <1>2, <1>3, <1>4, ReadyGrows

\* scheduler.h:21-22: no step of any thread puts a process before one that was ready
\* already and is as urgent, or changes the order of two that stay in the ready list.
THEOREM FirstComeFirstServed ==
  ASSUME ComputesOnly
  PROVE  Spec => NoOvertaking
<1>. DEFINE Overtaking ==
       \E p, q \in Created :
         /\ p # q
         /\ Contains(ready, p) /\ Contains(ready', p) /\ Contains(ready', q)
         /\ IF Contains(ready, q) THEN ~Precedes(ready, q, p) ELSE Prio(p) <= Prio(q)
         /\ Precedes(ready', q, p)
<1>1. ASSUME IInv, CInv, ReadySorted, [Next]_vars PROVE ~Overtaking
  <2>1. CpuStep \/ UiNext \/ OsOnly
    BY <1>1, Steps DEF CInv
  <2>2. \A p : Contains(ready, p) <=> p \in ToSet(ready)
    BY <1>1, ContainsElements DEF IInv, TypeOK, SchedTypeOK
  <2>. QED BY <1>1, <2>1, <2>2, StepBehind
<1>2. IInv /\ CInv /\ ReadySorted /\ [Next]_vars =>
        [\A p, q \in Created :
           /\ p # q
           /\ Contains(ready, p) /\ Contains(ready', p) /\ Contains(ready', q)
           /\ IF Contains(ready, q) THEN ~Precedes(ready, q, p) ELSE Prio(p) <= Prio(q)
           => ~Precedes(ready', q, p)]_vars
  BY <1>1
<1>. HIDE DEF Overtaking
<1>. QED BY ComputeInvariant, ReadyOrder, <1>2, PTL DEF Spec, NoOvertaking

-----------------------------------------------------------------------------
(* The promise: how the state maps to that of Lifecycle. *)

Phases == [p \in Proc |-> Phase(p)]
Priorities == [p \in Proc |-> IF Phase(p) = "new" THEN 0 ELSE Prio(p)]

\* The phase of a process, read off the lists instead of its status.
WhereIs(p) ==
  IF p \notin Created \/ Pending(p) THEN "new"
  ELSE IF p \in freed THEN "finished"
  ELSE IF p = running THEN "running"
  ELSE IF p \in ToSet(ready) THEN "ready" ELSE "blocked"

\* The lists and the status agree.
LEMMA PhaseIs ==
  IInv /\ CInv => /\ Phases = [p \in Proc |-> WhereIs(p)]
                  /\ \A p \in Proc : Phases[p] = WhereIs(p)
<1>. SUFFICES ASSUME IInv, CInv
              PROVE  \A p \in Proc : Phase(p) = WhereIs(p)
  BY DEF Phases
<1>. TAKE p \in Proc
<1>1. Contains(ready, p) <=> p \in ToSet(ready)
  BY ContainsElements DEF IInv, TypeOK, SchedTypeOK
<1>2. Live(p) <=> p \notin freed /\ ~Pending(p)
  BY DEF Live, Pending, Submitting, CInv, Endings, UnlinkLabel
<1>3. status[p] = "FINISHED" <=> p \in freed
  BY DEF CInv, Endings, UnlinkLabel
<1>4. Pending(p) /\ p \in Created => p \notin freed
  BY DEF CInv, Places, OthersApart
<1>5. p = running \/ p \in ToSet(ready) => p \in Created
  BY ContainsElements, BoundAssumption DEF IInv, TypeOK, SchedTypeOK
<1>6. CASE p \notin Created
  BY <1>1, <1>5, <1>6 DEF Phase, WhereIs
<1>7. CASE p \in Created /\ p \in freed
  BY <1>2, <1>3, <1>4, <1>7 DEF Phase, WhereIs
<1>8. CASE p \in Created /\ Pending(p)
  BY <1>2, <1>3, <1>4, <1>8 DEF Phase, WhereIs
<1>9. CASE p \in Created /\ p \notin freed /\ ~Pending(p)
  BY <1>1, <1>2, <1>3, <1>9 DEF Phase, WhereIs
<1>. QED BY <1>6, <1>7, <1>8, <1>9

\* The same in the next state.
LEMMA PhaseWillBe ==
  ASSUME IInv', CInv'
  PROVE  /\ Phases' = [p \in Proc |-> WhereIs(p)']
         /\ \A p \in Proc : Phases'[p] = WhereIs(p)'
<1>1. (IInv /\ CInv => /\ Phases = [p \in Proc |-> WhereIs(p)]
                       /\ \A p \in Proc : Phases[p] = WhereIs(p))'
  BY PhaseIs, PTL
<1>. QED BY <1>1 DEF Proc

\* A process that stays new, or stays submitted, keeps its priority.
LEMMA PriorityKept ==
  ASSUME IInv, CInv, [Next]_vars, NEW p \in Proc,
         Phases[p] = "new" <=> Phases'[p] = "new"
  PROVE  Priorities'[p] = Priorities[p]
<1>1. Phase(p) # "new" => p \in Created
  BY PhaseIs DEF Phases, WhereIs
<1>. QED BY <1>1, FileKept DEF Phases, Priorities, Proc

\* Where nobody moves, the promise sees nothing of the processes.
LEMMA PhasesStay ==
  ASSUME IInv, CInv, IInv', CInv', [Next]_vars, StayPut
  PROVE  Phases' = Phases /\ Priorities' = Priorities
<1>1. \A p \in Proc : WhereIs(p)' = WhereIs(p)
  BY DEF StayPut, WhereIs, Pending, NewProcess, Created
<1>2. Phases' = Phases
  BY <1>1, PhaseIs, PhaseWillBe
<1>3. \A p \in Proc : Priorities'[p] = Priorities[p]
  BY <1>2, PriorityKept
<1>. QED BY <1>2, <1>3 DEF Priorities, Proc

-----------------------------------------------------------------------------
(* Each step is one of Lifecycle's, or none. *)

\* What those who move do to the phases: x goes to one of another name, and nobody else.
LEMMA OnePhase ==
  ASSUME IInv, CInv, IInv', CInv', NEW x \in Proc,
         \A p \in Proc \ {x} : WhereIs(p)' = WhereIs(p)
  PROVE  Phases' = [Phases EXCEPT ![x] = WhereIs(x)']
<1>1. \A p \in Proc : Phases'[p] = [Phases EXCEPT ![x] = WhereIs(x)'][p]
  BY PhaseIs, PhaseWillBe DEF Phases
<1>. QED BY <1>1 DEF Phases, Proc

\* create_process: nothing has been promised yet.
LEMMA PromiseCreate ==
  ASSUME IInv, CInv, IInv', CInv', [Next]_vars, CreateProcess
  PROVE  UNCHANGED <<Phases, Priorities, owner, processes_waiting>>
<1>1. /\ processes_id \in Nat /\ processes_id' = processes_id + 1
      /\ processes_id \notin Created /\ Created' = Created \cup {processes_id}
      /\ NewProcess' = processes_id
  BY BoundAssumption DEF CreateProcess, Created, NewProcess, IInv, TypeOK, CreateTypeOK
<1>2. UNCHANGED <<running, ready, freed>> /\ Submitting' /\ ~Submitting
  BY UiGoes DEF CreateProcess, Before, Submitting, schedVars, procVars
<1>3. \A p \in Proc : WhereIs(p)' = WhereIs(p)
  BY <1>1, <1>2 DEF WhereIs, Pending
<1>4. Phases' = Phases
  BY <1>3, PhaseIs, PhaseWillBe
<1>5. \A p \in Proc : Priorities'[p] = Priorities[p]
  BY <1>4, PriorityKept
<1>. QED BY <1>4, <1>5 DEF Priorities, Proc, CreateProcess, semVars

\* The ready list gets the new process.
LEMMA PromiseSubmit ==
  ASSUME IInv, CInv, IInv', CInv', [Next]_vars, Enqueue
  PROVE  \E p \in Proc : Promise!Submit(p)
<1>0. PICK x : x = NewProcess
  OBVIOUS
<1>1. x \in Created /\ x \in Proc /\ Pending(x) /\ x # running /\ x \notin freed
  BY <1>0, NewProcessType, CreatedProc DEF Enqueue, Before, Pending, Submitting, CInv,
     Places, OthersApart, IInv, TypeOK
<1>2. /\ UNCHANGED <<running, freed, owner, processes_waiting>>
      /\ Created' = Created /\ ~Submitting'
  BY UiGoes DEF Enqueue, Submitting, Created, createVars, procVars, semVars
<1>3. ToSet(ready') = ToSet(ready) \cup {x}
  BY <1>0, <1>1, AddSet DEF Enqueue, IInv, TypeOK, SchedTypeOK
<1>4. WhereIs(x) = "new" /\ WhereIs(x)' = "ready"
  BY <1>1, <1>2, <1>3 DEF WhereIs, Pending
<1>5. \A p \in Proc \ {x} : WhereIs(p)' = WhereIs(p)
  BY <1>0, <1>2, <1>3 DEF WhereIs, Pending
<1>6. Phases[x] = "new" /\ Phases' = [Phases EXCEPT ![x] = "ready"]
  BY <1>1, <1>4, <1>5, OnePhase, PhaseIs
<1>7. \A p \in Proc \ {x} : Priorities'[p] = Priorities[p]
  BY <1>6, PriorityKept DEF Phases
<1>8. Priorities'[x] \in Nat
  <2>1. x \in Created' /\ CreateTypeOK'
    BY <1>1, <1>2 DEF IInv, TypeOK
  <2>2. Prio(x)' \in Nat
    BY <1>1, FileKept, CreatedProc DEF IInv, TypeOK
  <2>3. Priorities'[x] \in {0, Prio(x)'}
    BY <1>1 DEF Priorities, Proc
  <2>. QED BY <2>2, <2>3
<1>9. Priorities' = [Priorities EXCEPT ![x] = Priorities'[x]]
  <2>1. \A p \in Proc : Priorities'[p] = [Priorities EXCEPT ![x] = Priorities'[x]][p]
    BY <1>1, <1>7 DEF Priorities
  <2>. QED BY <2>1 DEF Priorities, Proc
<1>. HIDE DEF Phases, Priorities
<1>10. /\ Phases[x] = "new" /\ Phases' = [Phases EXCEPT ![x] = "ready"]
       /\ Priorities'[x] \in Nat
       /\ Priorities' = [Priorities EXCEPT ![x] = Priorities'[x]]
       /\ UNCHANGED <<owner, processes_waiting>>
  BY <1>2, <1>6, <1>8, <1>9
<1>11. Promise!Submit(x)
  BY <1>10 DEF Promise!Submit, Phases, Priorities
<1>. QED BY <1>1, <1>11

\* A process that is running and has not finished is running by the promise too.
LEMMA RunsByPromise ==
  ASSUME IInv, CInv, running \in Created, running \notin freed
  PROVE  running \in Proc /\ Phases[running] = "running"
<1>1. running \in Proc /\ ~Pending(running)
  BY CreatedProc DEF IInv, TypeOK, CInv, Places, OthersApart
<1>. QED BY <1>1, PhaseIs DEF WhereIs

\* P takes the semaphore.
LEMMA PromiseAcquire ==
  ASSUME IInv, CInv, IInv', CInv', [Next]_vars, PSuccess
  PROVE  \E p \in Proc, s \in Sem : Promise!Acquire(p, s)
<1>0. PICK s : s = Instr.semaphore
  OBVIOUS
<1>1. s \in Sem
  BY <1>0, InstrSem DEF PSuccess, Before
<1>2. running = cur /\ running \in Created /\ running \notin freed
  BY CurLive DEF PSuccess, Before, HandLabel, UnlinkLabel, CInv, InHand
<1>3. StayPut
  BY <1>2, CpuGoes DEF PSuccess, Before, StayPut, Submitting, Blocks, schedVars,
     createVars
<1>4. Phases' = Phases /\ Priorities' = Priorities
  BY <1>3, PhasesStay
<1>5. /\ owner[s] \in {running, -1}
      /\ owner' = [owner EXCEPT ![s] = running]
      /\ UNCHANGED processes_waiting
  BY <1>0, <1>2 DEF PSuccess, Available
<1>6. running \in Proc /\ Phases[running] = "running"
  BY <1>2, RunsByPromise
<1>7. Promise!Acquire(running, s)
  BY <1>4, <1>5, <1>6 DEF Promise!Acquire, Phases, Priorities
<1>. QED BY <1>1, <1>6, <1>7

\* P queues.
LEMMA PromiseAwait ==
  ASSUME IInv, CInv, IInv', CInv', [Next]_vars, PFailure
  PROVE  \E p \in Proc, s \in Sem : Promise!Await(p, s)
<1>0. PICK s : s = Instr.semaphore
  OBVIOUS
<1>1. s \in Sem
  BY <1>0, InstrSem DEF PFailure, Before
<1>2. running = cur /\ running \in Created /\ running \notin freed
  BY CurLive DEF PFailure, Before, HandLabel, UnlinkLabel, CInv, InHand
<1>3. /\ UNCHANGED <<running, ready, freed, processes_id>>
      /\ Submitting' <=> Submitting
  BY CpuGoes DEF PFailure, Raise, schedVars, createVars, Submitting
<1>4. \A p \in Proc : WhereIs(p)' = WhereIs(p)
  BY <1>3 DEF WhereIs, Pending, NewProcess, Created
<1>5. Phases' = Phases
  BY <1>4, PhaseIs, PhaseWillBe
<1>6. Priorities' = Priorities
  <2>1. \A p \in Proc : Priorities'[p] = Priorities[p]
    BY <1>5, PriorityKept
  <2>. QED BY <2>1 DEF Priorities, Proc
<1>7. /\ owner[s] \notin {running, -1}
      /\ processes_waiting' = [processes_waiting EXCEPT ![s] = Append(@, running)]
      /\ UNCHANGED owner
  BY <1>0, <1>2 DEF PFailure, Available
<1>8. running \in Proc /\ Phases[running] = "running"
  BY <1>2, RunsByPromise
<1>9. Promise!Await(running, s)
  BY <1>5, <1>6, <1>7, <1>8 DEF Promise!Await, Phases, Priorities
<1>. QED BY <1>1, <1>8, <1>9

\* V frees a semaphore nobody waits for.
LEMMA PromiseFree ==
  ASSUME IInv, CInv, IInv', CInv', [Next]_vars, VNoneWaiting
  PROVE  \E s \in Sem : Promise!Release(s)
<1>0. PICK s : s = Instr.semaphore
  OBVIOUS
<1>1. s \in Sem
  BY <1>0, InstrSem DEF VNoneWaiting, Before
<1>2. running = cur /\ running \in Created /\ running \notin freed
  BY CurLive DEF VNoneWaiting, Before, HandLabel, UnlinkLabel, CInv, InHand
<1>3. StayPut
  BY <1>2, CpuGoes DEF VNoneWaiting, Before, StayPut, Submitting, Blocks, schedVars,
     createVars
<1>4. Phases' = Phases /\ Priorities' = Priorities
  BY <1>3, PhasesStay
<1>5. /\ processes_waiting[s] = <<>>
      /\ owner' = [owner EXCEPT ![s] = -1]
      /\ UNCHANGED processes_waiting
  BY <1>0 DEF VNoneWaiting
<1>6. running \in Proc /\ Phases[running] = "running"
  BY <1>2, RunsByPromise
<1>7. Promise!Release(s)
  BY <1>4, <1>5, <1>6 DEF Promise!Release, Phases, Priorities
<1>. QED BY <1>1, <1>7

\* V hands it over to the first in the queue.
LEMMA PromiseHandOver ==
  ASSUME IInv, CInv, IInv', CInv', [Next]_vars, VHandOver
  PROVE  \E s \in Sem : Promise!Release(s)
<1>0. PICK s : s = Instr.semaphore
  OBVIOUS
<1>1. PICK w : w = Waiter
  OBVIOUS
<1>2. /\ s \in Sem /\ w \in Created /\ w \in WaitingFor(s) /\ w \notin freed
      /\ processes_waiting[s] # <<>> /\ w = Head(processes_waiting[s])
  BY <1>0, <1>1, WaiterQueued DEF Waiter
<1>3. running = cur /\ running \in Created /\ running \notin freed
  BY CurLive DEF VHandOver, Before, HandLabel, UnlinkLabel, CInv, InHand
<1>4. w # running /\ w \notin ToSet(ready) /\ ~Pending(w) /\ w \in Proc
  <2>1. ~Blocks
    BY DEF VHandOver, Before, Blocks
  <2>. QED BY <1>2, <2>1, CreatedProc
              DEF CInv, Places, Apart, RunningApart, UnlinkLabel, OthersApart, Queued,
                  IInv, TypeOK
<1>5. /\ UNCHANGED <<running, freed, processes_id>>
      /\ Submitting' <=> Submitting
  BY CpuGoes DEF VHandOver, createVars, Submitting
<1>6. ToSet(ready') = ToSet(ready) \cup {w}
  BY <1>1, <1>2, AddSet DEF VHandOver, IInv, TypeOK, SchedTypeOK
<1>7. WhereIs(w) = "blocked" /\ WhereIs(w)' = "ready"
  BY <1>2, <1>4, <1>5, <1>6 DEF WhereIs, Pending, NewProcess, Created
<1>8. \A p \in Proc \ {w} : WhereIs(p)' = WhereIs(p)
  BY <1>5, <1>6 DEF WhereIs, Pending, NewProcess, Created
<1>9. Phases[w] = "blocked" /\ Phases' = [Phases EXCEPT ![w] = "ready"]
  BY <1>4, <1>7, <1>8, OnePhase, PhaseIs
<1>10. Priorities' = Priorities
  <2>1. \A p \in Proc : Priorities'[p] = Priorities[p]
    BY <1>9, PriorityKept DEF Phases
  <2>. QED BY <2>1 DEF Priorities, Proc
<1>11. /\ owner' = [owner EXCEPT ![s] = w]
       /\ processes_waiting' = [processes_waiting EXCEPT ![s] = Tail(@)]
  BY <1>0, <1>1 DEF VHandOver
<1>12. running \in Proc /\ Phases[running] = "running"
  BY <1>3, RunsByPromise
<1>13. Promise!Release(s)
  BY <1>2, <1>9, <1>10, <1>11, <1>12 DEF Promise!Release, Phases, Priorities
<1>. QED BY <1>2, <1>13

\* The running process ends.
LEMMA PromiseFinish ==
  ASSUME IInv, CInv, IInv', CInv', [Next]_vars, FinishFree
  PROVE  \E p \in Proc : Promise!Finish(p)
<1>1. running = cur /\ running \in Created /\ running \notin freed
  BY CurLive DEF FinishFree, Before, HandLabel, UnlinkLabel, CInv, InHand
<1>2. running \in Proc /\ Phases[running] = "running" /\ ~Pending(running)
  BY <1>1, RunsByPromise DEF CInv, Places, OthersApart
<1>3. /\ UNCHANGED <<running, ready, processes_id, owner, processes_waiting>>
      /\ freed' = freed \cup {running}
      /\ Submitting' <=> Submitting
  BY <1>1, CpuGoes DEF FinishFree, schedVars, createVars, semVars, Submitting
<1>4. \A s \in Sem : running \notin WaitingFor(s)
  BY DEF FinishFree, Before, CInv, Places, RunningApart, UnlinkLabel, Blocks
<1>5. ~Promise!Queued(running)
  BY <1>4 DEF Promise!Queued, WaitingFor, ToSet
<1>6. WhereIs(running)' = "finished"
  BY <1>1, <1>2, <1>3 DEF WhereIs, Pending, NewProcess, Created
<1>7. \A p \in Proc \ {running} : WhereIs(p)' = WhereIs(p)
  BY <1>3 DEF WhereIs, Pending, NewProcess, Created
<1>8. Phases' = [Phases EXCEPT ![running] = "finished"]
  BY <1>2, <1>3, <1>6, <1>7, OnePhase
<1>9. Priorities' = Priorities
  <2>1. \A p \in Proc : Priorities'[p] = Priorities[p]
    BY <1>2, <1>8, PriorityKept DEF Phases
  <2>. QED BY <2>1 DEF Priorities, Proc
<1>10. Promise!Finish(running)
  BY <1>2, <1>3, <1>5, <1>8, <1>9 DEF Promise!Finish, Phases, Priorities
<1>. QED BY <1>2, <1>10

\* forward_scheduling takes a process as urgent as those it leaves.
LEMMA UrgentFirst ==
  ASSUME IInv, ReadySorted, forward_scheduling, NEW p \in ToSet(ready')
  PROVE  /\ running' \in Created /\ p \in Created
         /\ Priority[file[running']] <= Prio(p)
<1>0. /\ ready \in Seq(Created) /\ CreateTypeOK /\ Sorted(ready)
      /\ running \in Created \cup {NULL}
  BY DEF IInv, TypeOK, SchedTypeOK, ReadySorted, Sorted
<1>1. Candidates \in Seq(Created) /\ Sorted(Candidates)
  BY <1>0, AddProcessType, SortedAdd DEF Candidates, StillReady
<1>2. CASE NoneToSchedule
  BY <1>2 DEF NoneToSchedule, ToSet
<1>3. CASE ScheduleFirst
  <2>. PICK q : q = Candidates
    OBVIOUS
  <2>1. /\ q \in Seq(Created) /\ q # <<>> /\ Sorted(q)
        /\ running' = Head(q) /\ ready' = Tail(q)
    BY <1>1, <1>3 DEF ScheduleFirst
  <2>2. /\ Len(q) \in Nat /\ Len(q) # 0 /\ DOMAIN q = 1..Len(q) /\ Head(q) = q[1]
        /\ \A i \in 1..Len(q) : q[i] \in Created
    BY <2>1, HeadTailProperties, LenProperties, ElementOfSeq
  <2>3. /\ DOMAIN Tail(q) = 1..(Len(q) - 1)
        /\ \A i \in 1..(Len(q) - 1) : Tail(q)[i] = q[i + 1]
    <3>1. Tail(q) \in Seq(Created) /\ Len(Tail(q)) = Len(q) - 1
      BY <2>1, HeadTailProperties
    <3>. QED BY <2>1, <3>1, HeadTailProperties, LenProperties
  <2>4. PICK i \in 1..(Len(q) - 1) : p = Tail(q)[i]
    BY <2>1, <2>3 DEF ToSet
  <2>5. p = q[i + 1] /\ i + 1 \in 1..Len(q) /\ 1 \in 1..Len(q) /\ 1 < i + 1
    BY <2>2, <2>3, <2>4
  <2>6. Prio(q[1]) <= Prio(q[i + 1])
    BY <2>1, <2>2, <2>5 DEF Sorted
  <2>. QED BY <2>1, <2>2, <2>5, <2>6 DEF Prio
<1>. QED BY <1>2, <1>3 DEF forward_scheduling

\* forward_scheduling dispatches a most urgent process, nobody only if there is none.
LEMMA PromiseDispatch ==
  ASSUME IInv, CInv, ReadySorted, IInv', CInv', [Next]_vars, forward_scheduling,
         at'["ui"] = at["ui"],
         UNCHANGED <<owner, processes_waiting, freed, processes_id>>,
         running \in Able <=> running # NULL /\ running \notin freed /\ ~Blocks
  PROVE  \E q \in Proc \cup {-1} : Promise!Dispatch(q)
<1>0. PICK q : q = IF running' = NULL THEN -1 ELSE running'
  OBVIOUS
<1>1. /\ Dispatched
      /\ Created' = Created /\ NewProcess' = NewProcess /\ (Submitting' <=> Submitting)
  BY SchedulingSets DEF CInv, Created, NewProcess, Submitting
<1>2. /\ Able \subseteq ToSet(ready) \cup {running} /\ ToSet(ready) \subseteq Able
      /\ ToSet(ready) \subseteq Created /\ running \in Created \cup {NULL}
      /\ NULL \notin Created /\ Created \subseteq Proc /\ -1 \notin Proc
      /\ running \notin ToSet(ready)
  BY QueuedCreated, CreatedProc
     DEF Able, IInv, TypeOK, SchedTypeOK, Proc, CInv, Places, RunningApart, UnlinkLabel
<1>3. \A p : Promise!Queued(p) <=> \E s \in Sem : p \in WaitingFor(s)
  BY DEF Promise!Queued, WaitingFor, ToSet
<1>4. \A p \in Able : /\ p \in Created /\ p \notin freed /\ ~Pending(p)
                      /\ ~Promise!Queued(p)
  <2>1. ASSUME NEW p \in Able
        PROVE  /\ p \in Created /\ p \notin freed /\ ~Pending(p)
               /\ \A s \in Sem : p \notin WaitingFor(s)
    <3>1. CASE p \in ToSet(ready)
      BY <1>2, <3>1 DEF CInv, Places, Apart, OthersApart, Queued
    <3>2. CASE p = running /\ p \notin ToSet(ready)
      BY <1>2, <3>2 DEF CInv, Places, RunningApart, UnlinkLabel, OthersApart
    <3>. QED BY <1>2, <3>1, <3>2
  <2>. QED BY <1>3, <2>1
<1>5. \/ Able = {} /\ running' = NULL /\ ToSet(ready') = {}
      \/ running' \in Able /\ ToSet(ready') = Able \ {running'}
  BY <1>1 DEF Dispatched
<1>6. q \in Able \cup {-1} /\ (q = -1 <=> running' = NULL)
  BY <1>0, <1>2, <1>4, <1>5
<1>7. ASSUME NEW p \in Proc
      PROVE  Phases'[p] = IF p = q THEN "running"
                          ELSE IF Phases[p] # "running" THEN Phases[p]
                          ELSE IF Promise!Queued(p) THEN "blocked" ELSE "ready"
  <2>0. Phases[p] = WhereIs(p) /\ Phases'[p] = WhereIs(p)'
    BY PhaseIs, PhaseWillBe
  <2>1. (Pending(p)' <=> Pending(p)) /\ (p = q <=> p = running')
    BY <1>0, <1>1, <1>2, BoundAssumption DEF Pending
  <2>2. CASE p \notin Created \/ Pending(p) \/ p \in freed
    <3>1. p \notin Able
      BY <1>4, <2>2
    <3>2. p # q
      BY <1>2, <1>6, <3>1
    <3>. QED BY <1>1, <2>0, <2>1, <2>2, <3>2 DEF WhereIs
  <2>3. CASE p \in Created /\ ~Pending(p) /\ p \notin freed /\ p \in Able
    <3>1. p = running \/ p \in ToSet(ready)
      BY <1>2, <2>3
    <3>2. p = running' \/ p \in ToSet(ready')
      BY <1>5, <2>3
    <3>3. ~Promise!Queued(p)
      BY <1>4, <2>3
    <3>. QED BY <1>1, <2>0, <2>1, <2>3, <3>1, <3>2, <3>3 DEF WhereIs
  <2>4. CASE p \in Created /\ ~Pending(p) /\ p \notin freed /\ p \notin Able
    <3>1. p \notin ToSet(ready') /\ p # running' /\ p \notin ToSet(ready) /\ p # q
      BY <1>2, <1>5, <1>6, <2>1, <2>4
    <3>2. p = running => Promise!Queued(p)
      BY <1>2, <1>3, <2>4 DEF CInv, Places, RunningApart, UnlinkLabel
    <3>. QED BY <1>1, <2>0, <2>1, <2>4, <3>1, <3>2 DEF WhereIs
  <2>. QED BY <2>2, <2>3, <2>4
<1>8. Phases' = [p \in Proc |-> IF p = q THEN "running"
                                ELSE IF Phases[p] # "running" THEN Phases[p]
                                ELSE IF Promise!Queued(p) THEN "blocked" ELSE "ready"]
  BY <1>7 DEF Phases, Proc
<1>9. Priorities' = Priorities
  <2>1. \A p \in Proc : Phases[p] = "new" <=> Phases'[p] = "new"
    <3>1. q \in Able => WhereIs(q) \in {"running", "ready"}
      BY <1>2, <1>4 DEF WhereIs
    <3>2. \A p \in Proc : p = q => Phases[p] # "new"
      BY <1>2, <1>6, <3>1, PhaseIs
    <3>. QED BY <1>7, <3>2
  <2>2. \A p \in Proc : Priorities'[p] = Priorities[p]
    BY <2>1, PriorityKept
  <2>. QED BY <2>2 DEF Priorities, Proc
<1>10. q # -1 => Phases[q] \in {"ready", "running"} /\ ~Promise!Queued(q)
  <2>. SUFFICES ASSUME q \in Able
                PROVE  Phases[q] \in {"ready", "running"} /\ ~Promise!Queued(q)
    BY <1>6
  <2>1. q \in Proc /\ WhereIs(q) \in {"running", "ready"}
    BY <1>2, <1>4 DEF WhereIs
  <2>. QED BY <1>4, <2>1, PhaseIs
<1>11. ASSUME NEW p \in Proc, Phases'[p] = "ready"
       PROVE  q # -1 /\ Priorities[q] <= Priorities[p]
  <2>1. p \in ToSet(ready')
    BY <1>11, PhaseWillBe DEF WhereIs
  <2>2. running' \in Created /\ p \in Created /\ Priority[file[running']] <= Prio(p)
    BY <2>1, UrgentFirst
  <2>3. q = running' /\ q \in Proc /\ q \in Able /\ p \in Able
    BY <1>0, <1>2, <1>5, <2>1, <2>2
  <2>4. Phases[q] # "new" /\ Phases[p] # "new"
    BY <1>2, <1>4, <2>3, PhaseIs DEF WhereIs
  <2>5. Priorities[q] = Prio(q) /\ Priorities[p] = Prio(p)
    BY <2>3, <2>4 DEF Priorities, Phases
  <2>6. Priority[file[q]] <= Prio(p)
    BY <2>2, <2>3
  <2>. QED BY <1>2, <2>3, <2>5, <2>6 DEF Prio
<1>12. Promise!Dispatch(q)
  BY <1>8, <1>9, <1>10, <1>11 DEF Promise!Dispatch, Phases, Priorities
<1>. QED BY <1>2, <1>4, <1>6, <1>12

\* In process_interrupt.
LEMMA PromiseIrqSchedule ==
  ASSUME IInv, CInv, ReadySorted, IInv', CInv', [Next]_vars, IrqSchedule("cpu")
  PROVE  \E q \in Proc \cup {-1} : Promise!Dispatch(q)
<1>1. /\ UNCHANGED <<owner, processes_waiting, freed, processes_id>>
      /\ at'["ui"] = at["ui"] /\ forward_scheduling
  BY CpuGoes DEF IrqSchedule, semVars, createVars
<1>2. running \in Able <=> running # NULL /\ running \notin freed /\ ~Blocks
  BY AbleInterrupted
<1>. QED BY <1>1, <1>2, PromiseDispatch

\* In process_finish_syscall.
LEMMA PromiseFinishSchedule ==
  ASSUME IInv, CInv, ReadySorted, IInv', CInv', [Next]_vars, FinishSchedule
  PROVE  \E q \in Proc \cup {-1} : Promise!Dispatch(q)
<1>1. /\ UNCHANGED <<owner, processes_waiting, freed, processes_id>>
      /\ at'["ui"] = at["ui"] /\ forward_scheduling
  BY CpuGoes DEF FinishSchedule, semVars, createVars
<1>2. running \in Able <=> running # NULL /\ running \notin freed /\ ~Blocks
  BY UnableFinished
<1>. QED BY <1>1, <1>2, PromiseDispatch

\* The other steps do nothing to the semaphores.
LEMMA SemaphoresStay ==
  ASSUME CpuStep \/ UiNext \/ OsOnly, ~Moves, ~PSuccess, ~VNoneWaiting
  PROVE  UNCHANGED <<owner, processes_waiting>>
  BY UnlinkStep
     DEF CpuStep, Moves, Interrupt, IrqLock, IrqTest, IrqMark, IrqScheduled, IrqExit,
         MemoryNext, LoadStart, SwapChoose, SwapUnload, LoadSegment, Spin, ClearFlag,
         Loop, FetchAbsent, Fetch, Exec, PCharge, Exit, Finish, FinishWait,
         FinishUnload, FinishPost, UiNext, Submission, LinkPCB, MoveTail, Announce,
         Quit, OsOnly, semVars, UnlinkLabel

\* Every step is a step of Lifecycle, or does not change what it is about.
LEMMA StepPromise ==
  ASSUME ComputesOnly, IInv, CInv, ReadySorted, IInv', CInv', [Next]_vars
  PROVE  Promise!Next \/ UNCHANGED <<Phases, Priorities, owner, processes_waiting>>
<1>0. CpuStep \/ UiNext \/ OsOnly
  BY Steps DEF CInv
<1>1. CASE CreateProcess
  BY <1>1, PromiseCreate
<1>2. CASE Enqueue
  BY <1>2, PromiseSubmit DEF Promise!Next
<1>3. CASE PSuccess
  BY <1>3, PromiseAcquire DEF Promise!Next
<1>4. CASE PFailure
  BY <1>4, PromiseAwait DEF Promise!Next
<1>5. CASE VNoneWaiting \/ VHandOver
  BY <1>5, PromiseFree, PromiseHandOver DEF Promise!Next
<1>6. CASE IrqSchedule("cpu") \/ FinishSchedule
  BY <1>6, PromiseIrqSchedule, PromiseFinishSchedule DEF Promise!Next
<1>7. CASE FinishFree
  BY <1>7, PromiseFinish DEF Promise!Next
<1>8. CASE ~Moves /\ ~PSuccess /\ ~VNoneWaiting
  BY <1>0, <1>8, SemaphoresStay, Stays, PhasesStay
<1>. QED BY <1>1, <1>2, <1>3, <1>4, <1>5, <1>6, <1>7, <1>8 DEF Moves

\* What the threads start from is what Lifecycle starts from.
LEMMA InitPromise ==
  ASSUME Init
  PROVE  Promise!Init
<1>1. Created = {}
  <2>1. processes_id = 0
    BY DEF Init
  <2>. QED BY <2>1 DEF Created
<1>2. \A p \in Proc : Phase(p) = "new"
  BY <1>1, InitCompute, InitType, PhaseIs DEF WhereIs, Phases
<1>. QED BY <1>2 DEF Promise!Init, Init

\* cpu.h:65-75, scheduler.h:20-22, process.h:12-13.  With their lists, flags, host
\* semaphores and swapping, the threads implement Lifecycle: a process goes from new to
\* ready, from ready to running and back, waits in the one queue it has joined,
\* is given the semaphore in the order of that queue, and ends while it is running;
\* and whoever is dispatched is as urgent as anybody left ready.
THEOREM PromiseKept ==
  ASSUME ComputesOnly
  PROVE  Spec => KeepsItsPromise
<1>1. IInv /\ CInv /\ ReadySorted /\ IInv' /\ CInv' /\ [Next]_vars
        => [Promise!Next]_(Promise!vars)
  <2>. SUFFICES ASSUME IInv, CInv, ReadySorted, IInv', CInv', [Next]_vars
                PROVE  Promise!Next \/ UNCHANGED Promise!vars
    OBVIOUS
  <2>1. Promise!vars = <<Phases, Priorities, owner, processes_waiting>>
    BY DEF Promise!vars, Phases, Priorities
  <2>2. Promise!vars' = <<Phases, Priorities, owner, processes_waiting>>'
    BY DEF Promise!vars, Phases, Priorities
  <2>. QED BY <2>1, <2>2, StepPromise
<1>2. Init => Promise!Init
  BY InitPromise
<1>. QED BY ComputeInvariant, ReadyOrder, <1>1, <1>2, PTL
         DEF Spec, KeepsItsPromise, Promise!Spec

-----------------------------------------------------------------------------
(* Who is in a critical section. *)

\* The CPU thread is where the instruction of the process in hand leads it.
Fetched ==
  /\ at["cpu"] = "exec" => Instr.opcode = "EXEC"
  /\ at["cpu"] = "p" => Instr.opcode = "P"
  /\ at["cpu"] = "v" => Instr.opcode = "V"

\* A process starts at its first instruction.
FreshPC == \A p \in Proc \ Created : PC[p] = 0

SInv == Fetched /\ FreshPC /\ OwnerInside

\* Calls, as executed.
LEMMA ExecutedCalls ==
  ASSUME IInv, NEW p \in Created, NEW opcode, NEW s
  PROVE  /\ Executed(p, opcode, s) = Cardinality(Calls(file[p], opcode, s, PC[p]))
         /\ IsFiniteSet(Calls(file[p], opcode, s, PC[p]))
         /\ Executed(p, opcode, s) \in Nat
<1>1. PC[p] \in Nat
  BY CreatedProc DEF IInv, TypeOK, ProcTypeOK
<1>2. Executed(p, opcode, s) = Cardinality(Calls(file[p], opcode, s, PC[p]))
  BY DEF Executed, Calls, CodeOf
<1>3. IsFiniteSet(1..PC[p]) /\ Calls(file[p], opcode, s, PC[p]) \subseteq 1..PC[p]
  BY <1>1, FS_Interval DEF Calls
<1>4. IsFiniteSet(Calls(file[p], opcode, s, PC[p]))
  BY <1>3, FS_Subset
<1>. QED BY <1>2, <1>4, FS_CardinalityType

\* A process that executes nothing has executed the same.
LEMMA ExecutedKept ==
  ASSUME IInv, [Next]_vars, NEW p \in Created, PC'[p] = PC[p], NEW opcode, NEW s
  PROVE  Executed(p, opcode, s)' = Executed(p, opcode, s)
<1>1. file'[p] = file[p]
  BY FileKept
<1>. QED BY <1>1 DEF Executed, CodeOf

\* Calls, as they will have been executed.
LEMMA CallsExecuted ==
  ASSUME NEW p, NEW n, NEW f, PC'[p] = n, file'[p] = f, NEW opcode, NEW s
  PROVE  Executed(p, opcode, s)' = Cardinality(Calls(f, opcode, s, n))
<1>1. Executed(p, opcode, s)' =
        Cardinality({i \in 1..PC'[p] : /\ i <= Len(Code[file'[p]])
                                       /\ Code[file'[p]][i].opcode = opcode
                                       /\ Code[file'[p]][i].semaphore = s})
  BY DEF Executed, CodeOf
<1>2. Executed(p, opcode, s)' =
        Cardinality({i \in 1..n : /\ i <= Len(Code[f])
                                  /\ Code[f][i].opcode = opcode
                                  /\ Code[f][i].semaphore = s})
  BY <1>1
<1>. QED BY <1>2 DEF Calls

\* One instruction more counts if it is the call asked for.
LEMMA ExecutedNext ==
  ASSUME IInv, [Next]_vars, NEW p \in Created, p = cur, ~Done(p), NextPC,
         NEW opcode, NEW s
  PROVE  Executed(p, opcode, s)' =
           Executed(p, opcode, s)
             + IF Instr.opcode = opcode /\ Instr.semaphore = s THEN 1 ELSE 0
<1>0. PICK f : f = file[p]
  OBVIOUS
<1>1. PICK n : n = PC[p]
  OBVIOUS
<1>2. /\ n \in Nat /\ f \in File /\ Code[f] \in Seq(Instruction)
      /\ PC'[p] = n + 1 /\ file'[p] = f
  BY <1>0, <1>1, CreatedProc, FileKept, FileAssumption
     DEF NextPC, IInv, TypeOK, ProcTypeOK, CreateTypeOK
<1>3. n + 1 <= Len(Code[f]) /\ Instr = Code[f][n + 1]
  BY <1>0, <1>1, <1>2, LenProperties DEF Done, CodeOf, Instr, InstructionAt
<1>4. PICK before : before = Calls(f, opcode, s, n)
  OBVIOUS
<1>5. PICK after : after = Calls(f, opcode, s, n + 1)
  OBVIOUS
<1>6. Executed(p, opcode, s)' = Cardinality(after)
  BY <1>2, <1>5, CallsExecuted
<1>7. /\ Executed(p, opcode, s) = Cardinality(before) /\ IsFiniteSet(before)
      /\ Cardinality(before) \in Nat
  BY <1>0, <1>1, <1>4, ExecutedCalls, FS_CardinalityType
<1>8. n + 1 \notin before
  BY <1>2, <1>4 DEF Calls
<1>9. CASE Instr.opcode = opcode /\ Instr.semaphore = s
  <2>1. \A i \in 1..(n + 1) : i \in 1..n \/ i = n + 1
    BY <1>2
  <2>2. n + 1 \in 1..(n + 1) /\ 1..n \subseteq 1..(n + 1)
    BY <1>2
  <2>3. after = before \cup {n + 1}
    BY <1>3, <1>4, <1>5, <1>9, <2>1, <2>2 DEF Calls
  <2>4. Cardinality(after) = Cardinality(before) + 1
    BY <1>7, <1>8, <2>3, FS_AddElement
  <2>. QED BY <1>6, <1>7, <1>9, <2>4
<1>10. CASE ~(Instr.opcode = opcode /\ Instr.semaphore = s)
  <2>1. \A i \in 1..(n + 1) : i \in 1..n \/ i = n + 1
    BY <1>2
  <2>2. 1..n \subseteq 1..(n + 1)
    BY <1>2
  <2>3. after = before
    BY <1>3, <1>4, <1>5, <1>10, <2>1, <2>2 DEF Calls
  <2>. QED BY <1>6, <1>7, <1>10, <2>3
<1>. QED BY <1>9, <1>10

\* Where a program calls V it is in the section, and leaves it.
LEMMA LeavesAtV ==
  ASSUME PairsPV, IInv, [Next]_vars, NEW p \in Created, p = cur, ~Done(p), NextPC,
         Instr.opcode = "V", NEW s \in Sem, Instr.semaphore = s
  PROVE  /\ Executed(p, "P", s) > Executed(p, "V", s)
         /\ Executed(p, "P", s)' <= Executed(p, "V", s)'
<1>1. /\ Executed(p, "P", s)' = Executed(p, "P", s)
      /\ Executed(p, "V", s)' = Executed(p, "V", s) + 1
      /\ Executed(p, "P", s) \in Nat /\ Executed(p, "V", s) \in Nat
  <2>1. Executed(p, "P", s) \in Nat /\ Executed(p, "V", s) \in Nat
    BY ExecutedCalls
  <2>. QED BY <2>1, ExecutedNext
<1>2. PICK f : f = file[p]
  OBVIOUS
<1>3. PICK n : n = PC[p]
  OBVIOUS
<1>4. /\ f \in File /\ n \in 0..Len(Code[f]) /\ n + 1 \in 0..Len(Code[f])
      /\ PC'[p] = n + 1 /\ file'[p] = f
  <2>1. n \in Nat /\ f \in File /\ PC'[p] = n + 1 /\ file'[p] = f
    BY <1>2, <1>3, CreatedProc, FileKept
       DEF NextPC, IInv, TypeOK, ProcTypeOK, CreateTypeOK
  <2>2. Len(Code[f]) \in Nat
    BY <2>1, FileAssumption, LenProperties
  <2>3. n + 1 <= Len(Code[f])
    BY <1>2, <1>3, <2>1, <2>2 DEF Done, CodeOf
  <2>. QED BY <2>1, <2>2, <2>3
<1>5. /\ Executed(p, "P", s) = Cardinality(Calls(f, "P", s, n))
      /\ Executed(p, "V", s) = Cardinality(Calls(f, "V", s, n))
  BY <1>2, <1>3, ExecutedCalls
<1>6. /\ Executed(p, "P", s)' = Cardinality(Calls(f, "P", s, n + 1))
      /\ Executed(p, "V", s)' = Cardinality(Calls(f, "V", s, n + 1))
  BY <1>4, CallsExecuted
<1>7. /\ Executed(p, "P", s) - Executed(p, "V", s) \in {0, 1}
      /\ Executed(p, "P", s)' - Executed(p, "V", s)' \in {0, 1}
  BY <1>4, <1>5, <1>6 DEF PairsPV
<1>8. /\ Executed(p, "P", s) > Executed(p, "V", s)
      /\ Executed(p, "P", s)' <= Executed(p, "V", s)'
  BY <1>1, <1>7
<1>. QED BY <1>8

\* How the call of cur, and nothing else, changes what has been executed.
LEMMA ExecutedBy ==
  ASSUME IInv, [Next]_vars, cur \in Created, ~Done(cur), NextPC,
         NEW p \in Created, NEW opcode, NEW s,
         p # cur \/ Instr.opcode # opcode \/ Instr.semaphore # s
  PROVE  Executed(p, opcode, s)' = Executed(p, opcode, s)
<1>1. CASE p # cur
  <2>1. PC'[p] = PC[p]
    BY <1>1, CreatedProc DEF NextPC, IInv, TypeOK, ProcTypeOK
  <2>. QED BY <2>1, ExecutedKept
<1>2. CASE p = cur
  <2>1. Executed(p, opcode, s) \in Nat
    BY ExecutedCalls
  <2>2. Executed(p, opcode, s)' = Executed(p, opcode, s) + 0
    BY <1>2, ExecutedNext
  <2>. QED BY <2>1, <2>2
<1>. QED BY <1>1, <1>2

\* The process in hand runs, and is about to call P or V.
AtCall(opcode) ==
  /\ cur \in Created /\ running = cur /\ ~Done(cur)
  /\ Instr.opcode = opcode /\ Instr.semaphore \in Sem
  /\ \A s \in Sem : cur \notin WaitingFor(s)

\* There it is at a P or a V.
LEMMA CallsInHand ==
  ASSUME IInv, CInv, Fetched
  PROVE  /\ at["cpu"] = "p" => AtCall("P")
         /\ at["cpu"] = "v" => AtCall("V")
<1>. SUFFICES ASSUME at["cpu"] \in {"p", "v"}
              PROVE  /\ at["cpu"] = "p" => AtCall("P")
                     /\ at["cpu"] = "v" => AtCall("V")
  OBVIOUS
<1>1. cur \in Created /\ running = cur
  BY CurLive DEF HandLabel, UnlinkLabel, CInv, InHand
<1>2. ~Done(cur)
  BY DEF IInv, LocalsOK, CpuLocalsOK, Executing
<1>3. \A s \in Sem : cur \notin WaitingFor(s)
  BY <1>1 DEF CInv, Places, RunningApart, UnlinkLabel, Blocks
<1>. QED BY <1>1, <1>2, <1>3, InstrSem DEF Fetched, AtCall

\* Contains, for the waiting lists.
LEMMA WaitingContains ==
  ASSUME SemTypeOK, NEW s \in Sem, NEW p
  PROVE  Contains(processes_waiting[s], p) <=> p \in WaitingFor(s)
<1>1. processes_waiting[s] \in Seq(Created \cup {NULL})
  BY DEF SemTypeOK
<1>. QED BY <1>1, ContainsElements DEF WaitingFor

\* The same in the next state.
LEMMA WillContain ==
  ASSUME IInv', NEW s \in Sem, NEW p
  PROVE  Contains(processes_waiting'[s], p) <=> p \in WaitingFor(s)'
<1>1. processes_waiting'[s] \in Seq(Created' \cup {NULL})
  BY DEF IInv, TypeOK, SemTypeOK
<1>. QED BY <1>1, ContainsElements DEF WaitingFor

\* P gets the semaphore.
LEMMA InsidePSuccess ==
  ASSUME IInv, OwnerInside, AtCall("P"), [Next]_vars, IInv', PSuccess
  PROVE  OwnerInside'
<1>0. /\ cur \in Created /\ ~Done(cur) /\ Instr.opcode = "P" /\ Instr.semaphore \in Sem
      /\ NextPC /\ running = cur
  BY DEF PSuccess, AtCall
<1>1. /\ owner' = [owner EXCEPT ![Instr.semaphore] = cur]
      /\ owner[Instr.semaphore] \in {-1, cur}
      /\ Created' = Created /\ UNCHANGED processes_waiting
  BY <1>0 DEF PSuccess, Available, createVars, Created
<1>2. SUFFICES ASSUME NEW s \in Sem, NEW p \in Created, InSection(p, s)'
               PROVE  owner'[s] = p
  BY <1>1 DEF OwnerInside
<1>3. CASE s = Instr.semaphore /\ p = cur
  BY <1>0, <1>1, <1>3 DEF IInv, TypeOK, SemTypeOK
<1>4. CASE s # Instr.semaphore \/ p # cur
  <2>1. /\ Executed(p, "P", s)' = Executed(p, "P", s)
        /\ Executed(p, "V", s)' = Executed(p, "V", s)
    BY <1>0, <1>4, ExecutedBy
  <2>2. InSection(p, s)
    BY <1>1, <1>2, <2>1 DEF InSection
  <2>3. owner[s] = p /\ p # -1
    BY <2>2 DEF OwnerInside, Created
  <2>. QED BY <1>0, <1>1, <1>4, <2>3 DEF IInv, TypeOK, SemTypeOK
<1>. QED BY <1>3, <1>4

\* P queues.
LEMMA InsidePFailure ==
  ASSUME IInv, OwnerInside, AtCall("P"), [Next]_vars, IInv', PFailure
  PROVE  OwnerInside'
<1>0. /\ cur \in Created /\ ~Done(cur) /\ Instr.opcode = "P" /\ Instr.semaphore \in Sem
      /\ NextPC /\ running = cur
  BY DEF PFailure, AtCall
<1>1. /\ processes_waiting' =
           [processes_waiting EXCEPT ![Instr.semaphore] = Append(@, cur)]
      /\ Created' = Created /\ UNCHANGED owner
  BY <1>0 DEF PFailure, createVars, Created
<1>2. SUFFICES ASSUME NEW s \in Sem, NEW p \in Created, InSection(p, s)'
               PROVE  owner'[s] = p
  BY <1>1 DEF OwnerInside
<1>3. PICK q : q = processes_waiting[s] /\ q \in Seq(Created \cup {NULL})
  BY DEF IInv, TypeOK, SemTypeOK
<1>4. processes_waiting'[s] = IF s = Instr.semaphore THEN Append(q, cur) ELSE q
  BY <1>0, <1>1, <1>3 DEF IInv, TypeOK, SemTypeOK
<1>5. /\ Append(q, cur) \in Seq(Created \cup {NULL})
      /\ ToSet(Append(q, cur)) = ToSet(q) \cup {cur}
  BY <1>0, <1>3, AppendSet, AppendProperties
<1>6. /\ Contains(q, p) <=> p \in ToSet(q)
      /\ Contains(Append(q, cur), p) <=> p \in ToSet(Append(q, cur))
  BY <1>3, <1>5, ContainsElements
<1>7. ~(s = Instr.semaphore /\ p = cur) /\ ~Contains(q, p)
  BY <1>2, <1>4, <1>5, <1>6 DEF InSection
<1>8. /\ Executed(p, "P", s)' = Executed(p, "P", s)
      /\ Executed(p, "V", s)' = Executed(p, "V", s)
  BY <1>0, <1>7, ExecutedBy
<1>9. InSection(p, s)
  BY <1>2, <1>3, <1>7, <1>8 DEF InSection
<1>. QED BY <1>1, <1>9 DEF OwnerInside

\* V: the process in hand was the owner, and leaves the section.
LEMMA InsideV ==
  ASSUME PairsPV, IInv, OwnerInside, AtCall("V"), [Next]_vars, IInv',
         VNoneWaiting \/ (VHandOver /\ CInv)
  PROVE  OwnerInside'
<1>0. /\ cur \in Created /\ ~Done(cur) /\ Instr.opcode = "V" /\ Instr.semaphore \in Sem
      /\ NextPC /\ cur \notin WaitingFor(Instr.semaphore)
  BY DEF VNoneWaiting, VHandOver, AtCall
<1>. PICK c \in Created : c = cur
  BY <1>0
<1>. PICK t \in Sem : t = Instr.semaphore
  BY <1>0
<1>1. /\ Executed(c, "P", t) > Executed(c, "V", t)
      /\ Executed(c, "P", t)' <= Executed(c, "V", t)'
      /\ Executed(c, "P", t)' \in Nat /\ Executed(c, "V", t)' \in Nat
  <2>1. /\ Executed(c, "P", t) > Executed(c, "V", t)
        /\ Executed(c, "P", t)' <= Executed(c, "V", t)'
    BY <1>0, LeavesAtV
  <2>2. /\ Executed(c, "P", t) \in Nat /\ Executed(c, "V", t) \in Nat
    BY ExecutedCalls
  <2>3. /\ Executed(c, "P", t)' \in Nat /\ Executed(c, "V", t)' \in Nat
    BY <1>0, <2>2, ExecutedNext
  <2>. QED BY <2>1, <2>3
<1>2. owner[t] = c
  <2>1. ~Contains(processes_waiting[t], c)
    BY <1>0, WaitingContains DEF IInv, TypeOK
  <2>. QED BY <1>1, <2>1 DEF OwnerInside, InSection
<1>3. Created' = Created
  BY DEF VNoneWaiting, VHandOver, createVars, Created
<1>4. SUFFICES ASSUME NEW s \in Sem, NEW p \in Created, InSection(p, s)'
               PROVE  owner'[s] = p
  BY <1>3 DEF OwnerInside
<1>5. ~(s = t /\ p = c)
  BY <1>1, <1>4 DEF InSection
<1>6. /\ Executed(p, "P", s)' = Executed(p, "P", s)
      /\ Executed(p, "V", s)' = Executed(p, "V", s)
  BY <1>0, <1>5, ExecutedBy
<1>7. InSection(p, s) => owner[s] = p
  BY DEF OwnerInside
<1>8. CASE VNoneWaiting
  <2>1. /\ owner' = [owner EXCEPT ![t] = -1]
        /\ UNCHANGED processes_waiting
    BY <1>8 DEF VNoneWaiting
  <2>2. owner[s] = p
    BY <1>4, <1>6, <1>7, <2>1 DEF InSection
  <2>. QED BY <1>2, <1>5, <2>1, <2>2 DEF IInv, TypeOK, SemTypeOK
<1>9. CASE VHandOver /\ CInv
  <2>. PICK w : w = Waiter
    OBVIOUS
  <2>1. /\ owner' = [owner EXCEPT ![t] = w]
        /\ processes_waiting' = [processes_waiting EXCEPT ![t] = Tail(@)]
    BY <1>9 DEF VHandOver
  <2>2. CASE s = t /\ p = w
    BY <2>1, <2>2 DEF IInv, TypeOK, SemTypeOK
  <2>3. CASE s # t
    <3>1. processes_waiting'[s] = processes_waiting[s] /\ owner'[s] = owner[s]
      BY <2>1, <2>3 DEF IInv, TypeOK, SemTypeOK
    <3>. QED BY <1>4, <1>6, <1>7, <3>1 DEF InSection
  <2>4. CASE s = t /\ p # w
    <3>. PICK q : q = processes_waiting[t]
      OBVIOUS
    <3>1. /\ q \in Seq(Created \cup {NULL}) /\ q # <<>> /\ IsInjective(q) /\ w = Head(q)
      BY <1>9, WaiterQueued DEF Waiter, CInv, Places, Apart
    <3>2. processes_waiting'[t] = Tail(q)
      BY <2>1 DEF IInv, TypeOK, SemTypeOK
    <3>3. ToSet(Tail(q)) = ToSet(q) \ {w} /\ Tail(q) \in Seq(Created \cup {NULL})
      BY <3>1, TailSet, HeadTailProperties
    <3>4. Contains(q, p) <=> p \in ToSet(q)
      BY <3>1, ContainsElements
    <3>4a. Contains(Tail(q), p) <=> p \in ToSet(Tail(q))
      BY <3>3, ContainsElements
    <3>5. ~Contains(q, p)
      BY <1>4, <2>4, <3>2, <3>3, <3>4, <3>4a DEF InSection
    <3>6. owner[s] = p
      BY <1>4, <1>6, <1>7, <2>4, <3>5 DEF InSection
    <3>. QED BY <1>2, <1>5, <2>4, <3>6
  <2>. QED BY <2>2, <2>3, <2>4
<1>. QED BY <1>8, <1>9

\* Only CreateProcess creates a process.
LEMMA CreatedStays ==
  ASSUME [Next]_vars, ~CreateProcess
  PROVE  UNCHANGED processes_id
<1>1. CASE CpuNext
  BY <1>1, UnlinkStep
     DEF CpuNext, Interrupt, IrqLock, IrqTest, IrqMark, IrqSchedule, IrqScheduled,
         IrqExit, MemoryNext, LoadStart, SwapChoose, SwapUnload, LoadSegment, Spin,
         ClearFlag, Loop, FetchAbsent, Fetch, Exec, PSuccess, PFailure, PCharge,
         VNoneWaiting, VHandOver, EnqueueDisk, EnqueuePrint, Exit, Finish, FinishWait,
         FinishUnload, FinishFree, FinishSchedule, FinishPost, createVars, Unlinking,
         UnlinkLabel
<1>2. CASE DiskNext \/ PrintNext
  BY <1>2 DEF DiskNext, PrintNext, Interrupt, IrqLock, IrqTest, IrqMark, IrqSchedule,
     IrqScheduled, IrqExit, SweepStart, SweepNext, SweepEnd, FulfillDiskRequest,
     DiskRequestFinished, DiskPost, FulfillPrint, PrintRequestFinished, createVars
<1>3. CASE UiNext
  BY <1>3
     DEF UiNext, Submission, CreateProcess, LinkPCB, MoveTail, Enqueue, Announce, Quit,
         createVars
<1>. QED BY <1>1, <1>2, <1>3
            DEF Next, Cpu, DiskThread, PrintThread, UiThread, Fault, Halted, vars,
                createVars

\* PC advances where an instruction ends.
LEMMA PCMoves ==
  ASSUME CpuStep \/ UiNext \/ OsOnly, ~Exec, ~PSuccess, ~PFailure, ~VNoneWaiting,
         ~VHandOver
  PROVE  UNCHANGED PC
<1>1. CASE UiNext \/ OsOnly
  BY <1>1
     DEF UiNext, Submission, CreateProcess, LinkPCB, MoveTail, Enqueue, Announce, Quit,
         OsOnly, procVars
<1>2. CASE Interrupt("cpu") \/ MemoryNext
  BY <1>2 DEF Interrupt, IrqLock, IrqTest, IrqMark, IrqSchedule, IrqScheduled, IrqExit,
     MemoryNext, LoadStart, SwapChoose, SwapUnload, LoadSegment, procVars
<1>3. CASE Spin \/ ClearFlag \/ Loop \/ FetchAbsent \/ Fetch \/ PCharge
  BY <1>3 DEF Spin, ClearFlag, Loop, FetchAbsent, Fetch, PCharge, procVars
<1>4. CASE Exit \/ Finish \/ FinishWait \/ FinishUnload
  BY <1>4 DEF Exit, Finish, FinishWait, FinishUnload, procVars
<1>5. CASE FinishFree \/ Unlinking \/ FinishSchedule \/ FinishPost
  BY <1>5, UnlinkStep DEF FinishFree, FinishSchedule, FinishPost, procVars, UnlinkLabel
<1>. QED BY <1>1, <1>2, <1>3, <1>4, <1>5 DEF CpuStep

\* What cur executes, if anything, is no call.
CallsNothing ==
  \/ UNCHANGED PC
  \/ NextPC /\ cur \in Created /\ ~Done(cur) /\ Instr.opcode \notin {"P", "V"}

\* The steps that call neither.
LEMMA InsideStays ==
  ASSUME IInv, FreshPC, OwnerInside, [Next]_vars, CallsNothing,
         UNCHANGED <<owner, processes_waiting>>
  PROVE  OwnerInside'
<1>1. \A p \in Created : \A s \in Sem :
        /\ Executed(p, "P", s)' = Executed(p, "P", s)
        /\ Executed(p, "V", s)' = Executed(p, "V", s)
  BY ExecutedKept, ExecutedBy DEF CallsNothing
<1>2. \A p \in Created : \A s \in Sem : InSection(p, s)' => owner'[s] = p
  BY <1>1 DEF InSection, OwnerInside
<1>3. CASE CreateProcess
  <2>1. /\ processes_id \in Proc \ Created /\ processes_id \in Nat
        /\ Created' = Created \cup {processes_id} /\ UNCHANGED PC
    BY <1>3, BoundAssumption DEF CreateProcess, Created, Proc, IInv, TypeOK,
       CreateTypeOK, procVars
  <2>2. PC'[processes_id] = 0
    BY <2>1 DEF FreshPC
  <2>3. ASSUME NEW s \in Sem, NEW n, n = processes_id
        PROVE  ~InSection(n, s)'
    <3>1. PC'[n] = 0
      BY <2>2, <2>3
    <3>2. PICK f : f = file'[n]
      OBVIOUS
    <3>3. \A opcode : Calls(f, opcode, s, 0) = {}
      BY DEF Calls
    <3>4. /\ Executed(n, "P", s)' = Cardinality(Calls(f, "P", s, 0))
          /\ Executed(n, "V", s)' = Cardinality(Calls(f, "V", s, 0))
      BY <3>1, <3>2, CallsExecuted
    <3>. QED BY <3>3, <3>4, FS_EmptySet DEF InSection
  <2>. QED BY <1>2, <2>1, <2>3 DEF OwnerInside
<1>4. CASE ~CreateProcess
  <2>1. Created' = Created
    BY <1>4, CreatedStays DEF Created
  <2>. QED BY <1>2, <2>1 DEF OwnerInside
<1>. QED BY <1>3, <1>4

\* Of the CPU thread and the user interface these are all but four.
LEMMA InsideOthers ==
  ASSUME IInv, CInv, SInv, [Next]_vars, CpuStep \/ UiNext \/ OsOnly,
         ~PSuccess, ~PFailure, ~VNoneWaiting, ~VHandOver
  PROVE  OwnerInside'
<1>1. UNCHANGED <<owner, processes_waiting>>
  BY UnlinkStep
     DEF CpuStep, Interrupt, IrqLock, IrqTest, IrqMark, IrqSchedule, IrqScheduled,
         IrqExit, MemoryNext, LoadStart, SwapChoose, SwapUnload, LoadSegment, Spin,
         ClearFlag, Loop, FetchAbsent, Fetch, Exec, PCharge, Exit, Finish, FinishWait,
         FinishUnload, FinishFree, FinishSchedule, FinishPost, UiNext, Submission,
         CreateProcess, LinkPCB, MoveTail, Enqueue, Announce, Quit, OsOnly, semVars,
         UnlinkLabel
<1>2. CallsNothing
  <2>1. CASE Exec
    <3>1. cur \in Created /\ ~Done(cur) /\ Instr.opcode = "EXEC"
      BY <2>1, CurLive
         DEF Exec, Before, HandLabel, UnlinkLabel, IInv, LocalsOK, CpuLocalsOK,
             Executing, SInv, Fetched
    <3>. QED BY <2>1, <3>1 DEF Exec, CallsNothing
  <2>2. CASE ~Exec
    BY <2>2, PCMoves DEF CallsNothing
  <2>. QED BY <2>1, <2>2
<1>. QED BY <1>1, <1>2, InsideStays DEF SInv

\* Only Fetch leads to an instruction.
LEMMA NotToExecute ==
  ASSUME IInv, CpuStep, ~Fetch
  PROVE  at'["cpu"] \notin {"exec", "p", "v"}
<1>1. CASE Interrupt("cpu")
  <2>1. Return("cpu") \notin {"exec", "p", "v"}
    BY DEF Return, Type, IInv, TypeOK, ControlTypeOK, CpuInterruption, INTERRUPTION_TYPE
  <2>. QED BY <1>1, <2>1, CpuGoes DEF Interrupt, IrqLock, IrqTest, IrqMark, IrqSchedule,
              IrqScheduled, IrqExit
<1>2. CASE MemoryNext
  BY <1>2, CpuGoes DEF MemoryNext, LoadStart, SwapChoose, SwapUnload, LoadSegment, Raise
<1>3. CASE Spin \/ ClearFlag \/ Loop \/ FetchAbsent \/ Exec
  BY <1>3, CpuGoes DEF Spin, ClearFlag, Loop, FetchAbsent, Exec, Raise
<1>4. CASE PSuccess \/ PFailure \/ PCharge \/ VNoneWaiting \/ VHandOver
  BY <1>4, CpuGoes DEF PSuccess, PFailure, PCharge, VNoneWaiting, VHandOver, Raise
<1>5. CASE Exit \/ Finish \/ FinishWait \/ FinishUnload
  BY <1>5, CpuGoes DEF Exit, Finish, FinishWait, FinishUnload, Raise
<1>6. CASE FinishFree \/ Unlinking \/ FinishSchedule \/ FinishPost
  BY <1>6, CpuGoes, UnlinkStep DEF FinishFree, FinishSchedule, FinishPost, UnlinkLabel
<1>. QED BY <1>1, <1>2, <1>3, <1>4, <1>5, <1>6 DEF CpuStep

\* Fetched is kept: only Fetch leads to one of these points.
LEMMA StepFetched ==
  ASSUME IInv, CInv, Fetched, CpuStep \/ UiNext \/ OsOnly, [Next]_vars
  PROVE  Fetched'
<1>1. CASE Fetch
  <2>1. PICK opcode : opcode = InstructionAt(running).opcode
    OBVIOUS
  <2>2. Instr'.opcode = opcode
    BY <1>1, <2>1 DEF Fetch, Instr, InstructionAt, CodeOf, procVars, createVars
  <2>3. at'["cpu"] \in {"exec", "p", "v"} =>
          \/ at'["cpu"] = "exec" /\ opcode = "EXEC"
          \/ at'["cpu"] = "p" /\ opcode = "P"
          \/ at'["cpu"] = "v" /\ opcode = "V"
    BY <1>1, <2>1, CpuGoes DEF Fetch, Raise
  <2>. QED BY <2>2, <2>3 DEF Fetched
<1>2. CASE UiNext \/ OsOnly
  <2>1. at'["cpu"] = at["cpu"] /\ UNCHANGED <<cur, PC>>
    BY <1>2, UiGoes
       DEF UiNext, Submission, CreateProcess, LinkPCB, MoveTail, Enqueue, Announce,
           Quit, OsOnly, procVars, localVars
  <2>2. at["cpu"] \in {"exec", "p", "v"} => Instr' = Instr
    <3>1. at["cpu"] \in {"exec", "p", "v"} => file'[cur] = file[cur]
      BY CurLive, FileKept DEF HandLabel, UnlinkLabel
    <3>. QED BY <2>1, <3>1 DEF Instr, InstructionAt, CodeOf
  <2>. QED BY <2>1, <2>2 DEF Fetched
<1>3. CASE CpuStep /\ ~Fetch
  BY <1>3, NotToExecute DEF Fetched
<1>. QED BY <1>1, <1>2, <1>3

\* FreshPC is kept: only an existing process executes anything.
LEMMA StepFreshPC ==
  ASSUME IInv, CInv, FreshPC, CpuStep \/ UiNext \/ OsOnly
  PROVE  FreshPC'
<1>1. Created \subseteq Created'
  <2>1. processes_id' = processes_id \/ processes_id' = processes_id + 1
    BY UnlinkStep
       DEF CpuStep, Interrupt, IrqLock, IrqTest, IrqMark, IrqSchedule, IrqScheduled,
           IrqExit, MemoryNext, LoadStart, SwapChoose, SwapUnload, LoadSegment, Spin,
           ClearFlag, Loop, FetchAbsent, Fetch, Exec, PSuccess, PFailure, PCharge,
           VNoneWaiting, VHandOver, Exit, Finish, FinishWait, FinishUnload, FinishFree,
           FinishSchedule, FinishPost, UiNext, Submission, CreateProcess, LinkPCB,
           MoveTail, Enqueue, Announce, Quit, OsOnly, createVars, UnlinkLabel
  <2>2. processes_id \in Nat
    BY BoundAssumption DEF IInv, TypeOK, CreateTypeOK
  <2>. QED BY <2>1, <2>2 DEF Created
<1>2. UNCHANGED PC \/ (NextPC /\ at["cpu"] \in {"exec", "p", "v"})
  <2>1. CASE UiNext \/ OsOnly
    BY <2>1
       DEF UiNext, Submission, CreateProcess, LinkPCB, MoveTail, Enqueue, Announce,
           Quit, OsOnly, procVars
  <2>2. CASE Interrupt("cpu")
    BY <2>2 DEF Interrupt, IrqLock, IrqTest, IrqMark, IrqSchedule, IrqScheduled,
       IrqExit,
       Before, procVars
  <2>3. CASE MemoryNext
    BY <2>3 DEF MemoryNext, LoadStart, SwapChoose, SwapUnload, LoadSegment, procVars
  <2>4. CASE Spin \/ ClearFlag \/ Loop \/ FetchAbsent \/ Fetch
    BY <2>4 DEF Spin, ClearFlag, Loop, FetchAbsent, Fetch, procVars
  <2>5. CASE Exec \/ PSuccess \/ PFailure
    BY <2>5 DEF Exec, PSuccess, PFailure, Before
  <2>6. CASE PCharge \/ VNoneWaiting \/ VHandOver
    BY <2>6 DEF PCharge, VNoneWaiting, VHandOver, Before
  <2>7. CASE Exit \/ Finish \/ FinishWait \/ FinishUnload
    BY <2>7 DEF Exit, Finish, FinishWait, FinishUnload, procVars
  <2>8. CASE FinishFree \/ Unlinking \/ FinishSchedule \/ FinishPost
    BY <2>8, UnlinkStep
       DEF FinishFree, FinishSchedule, FinishPost, Before, procVars, UnlinkLabel
  <2>. QED BY <2>1, <2>2, <2>3, <2>4, <2>5, <2>6, <2>7, <2>8 DEF CpuStep
<1>3. \A p \in Proc \ Created : PC'[p] = PC[p]
  BY <1>2, CurLive DEF NextPC, HandLabel, UnlinkLabel, IInv, TypeOK, ProcTypeOK
<1>. QED BY <1>1, <1>3 DEF FreshPC, Proc

\* cpu.h:65-67: a process between its P and its V owns the semaphore, so that no two
\* are in a section of the same semaphore at a time, whatever the mix of such
\* programs, their priorities and the moments at which they are interrupted.
THEOREM MutualExclusion ==
  ASSUME ComputesOnly, PairsPV
  PROVE  Spec => []OwnerInside
<1>1. ASSUME IInv, CInv, SInv, [Next]_vars, IInv' PROVE SInv'
  <2>1. CpuStep \/ UiNext \/ OsOnly
    BY <1>1, Steps DEF CInv
  <2>2. /\ PSuccess \/ PFailure => AtCall("P")
        /\ VNoneWaiting \/ VHandOver => AtCall("V")
    BY <1>1, CallsInHand DEF SInv, PSuccess, PFailure, VNoneWaiting, VHandOver, Before
  <2>3. OwnerInside /\ OwnerInside'
    BY <1>1, <2>1, <2>2, InsidePSuccess, InsidePFailure, InsideV, InsideOthers DEF SInv
  <2>. QED BY <1>1, <2>1, <2>3, StepFetched, StepFreshPC DEF SInv
<1>2. IInv /\ CInv /\ SInv /\ [Next]_vars /\ IInv' => SInv'
  BY <1>1
<1>3. Init => SInv
  <2>. SUFFICES ASSUME Init PROVE SInv
    OBVIOUS
  <2>1. Created = {}
    <3>1. processes_id = 0
      BY DEF Init
    <3>. QED BY <3>1 DEF Created
  <2>2. at["cpu"] = "spin"
    BY DEF Init, Thread
  <2>. QED BY <2>1, <2>2 DEF SInv, Fetched, FreshPC, OwnerInside, Init
<1>4. SInv => OwnerInside
  BY DEF SInv
<1>. QED BY ComputeInvariant, <1>2, <1>3, <1>4, PTL DEF Spec

-----------------------------------------------------------------------------
(* The list of segments, whatever the programs do. *)

\* No two processes were read from the same file.
OwnFiles == \A p, q \in Created : file[p] = file[q] => p = q

\* The list holds the loaded segments, each once.
Loaded ==
  /\ IsInjective(segments)
  /\ \A p \in Proc : p \in ToSet(segments) <=> present_bit[p]

\* A segment is loaded only while it is not.
LoadsAbsent == at["cpu"] \in MemoryLabel => ~present_bit[cur]

\* At least the pages of no loaded segment are free.
AtLeastFree ==
  /\ IsFiniteSet(LoadedPages)
  /\ num_free_pages >= NUM_PAGES - Cardinality(LoadedPages)

MInv == OwnFiles /\ Loaded /\ LoadsAbsent /\ AtLeastFree

\* delete_list finds the segment itself when its id is nobody else's.
LEMMA OwnId ==
  ASSUME OwnSegments, IInv, OwnFiles, NEW p \in Created
  PROVE  SameId(p) = {i \in DOMAIN segments : segments[i] = p}
<1>1. segments \in Seq(Created)
  BY DEF IInv, TypeOK, MemTypeOK
<1>2. ASSUME NEW i \in DOMAIN segments
      PROVE  SegmentOf(segments[i]) = SegmentOf(p) <=> segments[i] = p
  <2>1. PICK q : q = segments[i]
    OBVIOUS
  <2>2. q \in Created
    BY <1>1, <1>2, <2>1, ElementOfSeq, LenProperties
  <2>3. file[q] \in File /\ file[p] \in File
    BY <2>2 DEF IInv, TypeOK, CreateTypeOK
  <2>4. SegmentOf(q) = SegmentOf(p) => file[q] = file[p]
    BY <2>3 DEF OwnSegments, SegmentOf
  <2>5. SegmentOf(q) = SegmentOf(p) <=> q = p
    BY <2>2, <2>4 DEF OwnFiles
  <2>. QED BY <2>1, <2>5
<1>. QED BY <1>2 DEF SameId

\* So that segment leaves the list, and no other.
LEMMA UnlistedSet ==
  ASSUME OwnSegments, IInv, MInv, NEW p \in Created, Unlisted(p)
  PROVE  /\ IsInjective(segments') /\ ToSet(segments') = ToSet(segments) \ {p}
         /\ \A q \in Proc : present_bit'[q] <=> present_bit[q] /\ q # p
<1>1. segments \in Seq(Created) /\ present_bit \in [Proc -> BOOLEAN]
  BY DEF IInv, TypeOK, MemTypeOK
<1>2. DOMAIN segments = 1..Len(segments) /\ Len(segments) \in Nat
  BY <1>1, LenProperties
<1>3. IsInjective(segments)
  BY DEF MInv, Loaded
<1>4. CASE SameId(p) = {}
  <2>1. p \notin ToSet(segments)
    BY <1>4, OwnId DEF MInv, ToSet
  <2>. QED BY <1>1, <1>3, <1>4, <2>1 DEF Unlisted
<1>5. CASE SameId(p) # {}
  <2>1. SameId(p) \in SUBSET Nat
    BY <1>2 DEF SameId
  <2>2. PICK k : k = Min(SameId(p))
    OBVIOUS
  <2>3. k \in SameId(p)
    BY <1>5, <2>1, <2>2, MinIsLeast
  <2>4. k \in 1..Len(segments) /\ segments[k] = p
    BY <1>2, <2>3, OwnId DEF MInv
  <2>5. segments' = RemoveAt(segments, k)
    BY <1>5, <2>2 DEF Unlisted
  <2>6. ToSet(segments') = ToSet(segments) \ {p} /\ IsInjective(segments')
    BY <1>1, <1>3, <2>4, <2>5, RemoveAtSet
  <2>. QED BY <1>1, <2>6 DEF Unlisted
<1>. QED BY <1>4, <1>5

\* Only three steps change what is loaded.
LEMMA SegmentsStay ==
  ASSUME [Next]_vars, ~SwapUnload, ~LoadSegment, ~FinishUnload
  PROVE  UNCHANGED <<segments, present_bit, num_free_pages>>
<1>1. CASE CpuNext
  BY <1>1, UnlinkStep
     DEF CpuNext, Interrupt, IrqLock, IrqTest, IrqMark, IrqSchedule, IrqScheduled,
         IrqExit, MemoryNext, LoadStart, SwapChoose, Spin, ClearFlag, Loop, FetchAbsent,
         Fetch, Exec, PSuccess, PFailure, PCharge, VNoneWaiting, VHandOver, EnqueueDisk,
         EnqueuePrint, Exit, Finish, FinishWait, FinishFree, FinishSchedule, FinishPost,
         memVars, Unlinking, UnlinkLabel
<1>2. CASE DiskNext \/ PrintNext
  BY <1>2 DEF DiskNext, PrintNext, Interrupt, IrqLock, IrqTest, IrqMark, IrqSchedule,
     IrqScheduled, IrqExit, SweepStart, SweepNext, SweepEnd, FulfillDiskRequest,
     DiskRequestFinished, DiskPost, FulfillPrint, PrintRequestFinished, memVars
<1>3. CASE UiNext
  BY <1>3
     DEF UiNext, Submission, CreateProcess, LinkPCB, MoveTail, Enqueue, Announce, Quit,
         memVars
<1>. QED BY <1>1, <1>2, <1>3
            DEF Next, Cpu, DiskThread, PrintThread, UiThread, Fault, Halted, vars,
                memVars

\* The threads beside the CPU's leave its locals and the memory alone.
LEMMA OtherThreads ==
  ASSUME IInv, [Next]_vars, ~CpuNext
  PROVE  UNCHANGED <<present_bit, irq, cur>> /\ at'["cpu"] = at["cpu"]
<1>1. CASE DiskNext
  <2>1. \E label : Goto("disk", label)
    BY <1>1 DEF DiskNext, Interrupt, IrqLock, IrqTest, IrqMark, IrqSchedule,
       IrqScheduled, IrqExit, SweepStart, SweepNext, SweepEnd, FulfillDiskRequest,
       DiskRequestFinished, DiskPost
  <2>2. at'["cpu"] = at["cpu"]
    BY <2>1 DEF Goto, IInv, TypeOK, ControlTypeOK, Thread
  <2>. QED BY <1>1, <2>2 DEF DiskNext, Interrupt, IrqLock, IrqTest, IrqMark,
              IrqSchedule,
              IrqScheduled, IrqExit, SweepStart, SweepNext, SweepEnd,
              FulfillDiskRequest,
              DiskRequestFinished, DiskPost, memVars, localVars
<1>2. CASE PrintNext
  <2>1. \E label : Goto("print", label)
    BY <1>2 DEF PrintNext, Interrupt, IrqLock, IrqTest, IrqMark, IrqSchedule,
       IrqScheduled, IrqExit, FulfillPrint, PrintRequestFinished
  <2>2. at'["cpu"] = at["cpu"]
    BY <2>1 DEF Goto, IInv, TypeOK, ControlTypeOK, Thread
  <2>. QED BY <1>2, <2>2 DEF PrintNext, Interrupt, IrqLock, IrqTest, IrqMark,
              IrqSchedule, IrqScheduled, IrqExit, FulfillPrint, PrintRequestFinished,
              memVars, localVars
<1>3. CASE UiNext
  BY <1>3, UiGoes
     DEF UiNext, Submission, CreateProcess, LinkPCB, MoveTail, Enqueue, Announce, Quit,
         memVars, localVars
<1>4. CASE \/ Fault(CpuUndefined) \/ Fault(DiskUndefined)
           \/ Fault(PrintUndefined) \/ Fault(PushUndefined)
  BY <1>4 DEF Fault, memVars, localVars
<1>5. CASE UNCHANGED vars
  BY <1>5 DEF vars, memVars, localVars
<1>. QED BY <1>1, <1>2, <1>3, <1>4, <1>5
            DEF Next, Cpu, DiskThread, PrintThread, UiThread, Halted

\* OwnFiles is kept: a file that may not be submitted twice is not.
LEMMA StepOwnFiles ==
  ASSUME OwnSegments, IInv, OwnFiles, [Next]_vars
  PROVE  OwnFiles'
<1>1. CASE CreateProcess
  <2>1. /\ Created' = Created \cup {processes_id}
        /\ processes_id \in Proc /\ processes_id \notin Created
    BY <1>1, BoundAssumption DEF CreateProcess, Created, Proc, IInv, TypeOK,
       CreateTypeOK
  <2>2. PICK f \in File : /\ \A p \in Created : file[p] # f
                         /\ file' = [file EXCEPT ![processes_id] = f]
    BY <1>1 DEF CreateProcess, OwnSegments
  <2>3. file'[processes_id] = f /\ \A p \in Created : file'[p] = file[p]
    BY <2>1, <2>2, CreatedProc DEF IInv, TypeOK, CreateTypeOK
  <2>. QED BY <2>1, <2>2, <2>3 DEF OwnFiles
<1>2. CASE ~CreateProcess
  <2>1. Created' = Created
    BY <1>2, CreatedStays DEF Created
  <2>. QED BY <2>1, FileKept DEF OwnFiles
<1>. QED BY <1>1, <1>2

\* Loaded is kept.
LEMMA StepLoaded ==
  ASSUME OwnSegments, IInv, MInv, [Next]_vars
  PROVE  Loaded'
<1>1. CASE SwapUnload
  <2>1. victim \in Created /\ Unlisted(victim)
    BY <1>1, VictimInHand DEF SwapUnload, Before, memory_unload_segment
  <2>. QED BY <2>1, UnlistedSet DEF MInv, Loaded
<1>2. CASE FinishUnload
  <2>1. cur \in Created /\ Unlisted(cur)
    BY <1>2, CurCreated
       DEF FinishUnload, Before, memory_unload_segment, HasProcess, FinishLabel
  <2>. QED BY <2>1, UnlistedSet DEF MInv, Loaded
<1>3. CASE LoadSegment
  <2>1. cur \in Created /\ cur \in Proc /\ ~present_bit[cur]
    BY <1>3, CurCreated
       DEF LoadSegment, Before, HasProcess, MemoryLabel, MInv, LoadsAbsent
  <2>2. segments \in Seq(Created) /\ present_bit \in [Proc -> BOOLEAN]
    BY DEF IInv, TypeOK, MemTypeOK
  <2>3. cur \notin ToSet(segments) /\ IsInjective(segments)
    BY <2>1 DEF MInv, Loaded
  <2>4. /\ ToSet(segments') = ToSet(segments) \cup {cur}
        /\ IsInjective(segments')
    BY <1>3, <2>1, <2>2, <2>3, AppendSet DEF LoadSegment
  <2>5. \A p \in Proc : present_bit'[p] <=> present_bit[p] \/ p = cur
    BY <1>3, <2>2 DEF LoadSegment
  <2>. QED BY <2>4, <2>5 DEF MInv, Loaded
<1>4. CASE ~SwapUnload /\ ~LoadSegment /\ ~FinishUnload
  BY <1>4, SegmentsStay DEF MInv, Loaded
<1>. QED BY <1>1, <1>2, <1>3, <1>4

\* LoadsAbsent is kept: FetchAbsent tests the bit, and until the segment is loaded no
\* step sets one.
LEMMA StepLoadsAbsent ==
  ASSUME IInv, LoadsAbsent, [Next]_vars
  PROVE  LoadsAbsent'
<1>. USE DEF LoadsAbsent, MemoryLabel
<1>1. CASE FetchAbsent
  BY <1>1 DEF FetchAbsent, memVars
<1>2. CASE LoadStart \/ SwapChoose
  BY <1>2 DEF LoadStart, SwapChoose, Before, memVars, localVars
<1>3. CASE SwapUnload
  <2>1. cur \in Proc /\ ~present_bit[cur] /\ cur' = cur
    BY <1>3, CurCreated DEF SwapUnload, Before, HasProcess, localVars
  <2>2. present_bit' = [present_bit EXCEPT ![victim] = FALSE]
    BY <1>3 DEF SwapUnload, memory_unload_segment, Unlisted
  <2>. QED BY <2>1, <2>2 DEF IInv, TypeOK, MemTypeOK
<1>4. CASE CpuNext /\ ~FetchAbsent /\ ~LoadStart /\ ~SwapChoose /\ ~SwapUnload
  <2>1. at'["cpu"] \notin MemoryLabel
    <3>1. CASE Interrupt("cpu")
      <4>1. Return("cpu") \notin MemoryLabel
        BY DEF Return, Type, IInv, TypeOK, ControlTypeOK, CpuInterruption,
           INTERRUPTION_TYPE
      <4>. QED BY <3>1, <4>1, CpuGoes DEF Interrupt, IrqLock, IrqTest, IrqMark,
                  IrqSchedule, IrqScheduled, IrqExit
    <3>2. CASE LoadSegment \/ Spin \/ ClearFlag \/ Loop \/ Fetch \/ Exec
      BY <3>2, CpuGoes DEF LoadSegment, Spin, ClearFlag, Loop, Fetch, Exec, Raise
    <3>3. CASE PSuccess \/ PFailure \/ PCharge \/ VNoneWaiting \/ VHandOver
      BY <3>3, CpuGoes DEF PSuccess, PFailure, PCharge, VNoneWaiting, VHandOver, Raise
    <3>4. CASE EnqueueDisk \/ EnqueuePrint \/ Exit \/ Finish \/ FinishWait
      BY <3>4, CpuGoes DEF EnqueueDisk, EnqueuePrint, Exit, Finish, FinishWait, Raise
    <3>5. CASE \/ FinishUnload \/ FinishFree \/ Unlinking
               \/ FinishSchedule \/ FinishPost
      BY <3>5, CpuGoes, UnlinkStep
         DEF FinishUnload, FinishFree, FinishSchedule, FinishPost, UnlinkLabel
    <3>. QED BY <1>4, <3>1, <3>2, <3>3, <3>4, <3>5 DEF CpuNext, MemoryNext, Unlinking
  <2>. QED BY <2>1
<1>5. CASE ~CpuNext
  <2>1. UNCHANGED <<present_bit, cur>> /\ at'["cpu"] = at["cpu"]
    BY <1>5, OtherThreads
  <2>. QED BY <2>1
<1>. QED BY <1>1, <1>2, <1>3, <1>4, <1>5

\* The pages of one segment.
SegmentPages(p) == {p} \X (1..PagesOf(p))

\* It has as many as the file says.
LEMMA SegmentSize ==
  ASSUME CreateTypeOK, NEW p \in Created
  PROVE  IsFiniteSet(SegmentPages(p)) /\ Cardinality(SegmentPages(p)) = PagesOf(p)
<1>1. PagesOf(p) \in Nat
  BY CreatedProc
<1>2. IsFiniteSet(1..PagesOf(p)) /\ Cardinality(1..PagesOf(p)) = PagesOf(p)
  BY <1>1, FS_Interval
<1>3. IsFiniteSet({p}) /\ Cardinality({p}) = 1
  BY FS_Singleton
<1>4. /\ IsFiniteSet(SegmentPages(p))
      /\ Cardinality(SegmentPages(p)) = Cardinality({p}) * Cardinality(1..PagesOf(p))
  BY <1>2, <1>3, FS_Product DEF SegmentPages
<1>. QED BY <1>1, <1>2, <1>3, <1>4

\* Loading a segment adds its pages to those that are loaded.
LEMMA AddSegment ==
  ASSUME CreateTypeOK, IsFiniteSet(LoadedPages), NEW p \in Created,
         LoadedPages \cap SegmentPages(p) = {}
  PROVE  /\ IsFiniteSet(LoadedPages \cup SegmentPages(p))
         /\ Cardinality(LoadedPages \cup SegmentPages(p))
              = Cardinality(LoadedPages) + PagesOf(p)
<1>1. IsFiniteSet(SegmentPages(p)) /\ Cardinality(SegmentPages(p)) = PagesOf(p)
  BY SegmentSize
<1>2. PagesOf(p) \in Nat /\ Cardinality(LoadedPages) \in Nat
  BY CreatedProc, FS_CardinalityType
<1>3. /\ IsFiniteSet(LoadedPages \cup SegmentPages(p))
      /\ Cardinality(LoadedPages \cup SegmentPages(p))
           = Cardinality(LoadedPages) + Cardinality(SegmentPages(p)) - Cardinality({})
  BY <1>1, FS_Union
<1>. QED BY <1>1, <1>2, <1>3, FS_EmptySet

\* Unloading it takes them away.
LEMMA RemoveSegment ==
  ASSUME CreateTypeOK, IsFiniteSet(LoadedPages), NEW p \in Created,
         SegmentPages(p) \subseteq LoadedPages
  PROVE  /\ IsFiniteSet(LoadedPages \ SegmentPages(p))
         /\ Cardinality(LoadedPages \ SegmentPages(p))
              = Cardinality(LoadedPages) - PagesOf(p)
<1>1. LoadedPages \cap SegmentPages(p) = SegmentPages(p)
  OBVIOUS
<1>2. /\ IsFiniteSet(LoadedPages \ SegmentPages(p))
      /\ Cardinality(LoadedPages \ SegmentPages(p))
           = Cardinality(LoadedPages) - Cardinality(LoadedPages \cap SegmentPages(p))
  BY FS_Difference
<1>. QED BY <1>1, <1>2, SegmentSize

\* Setting the bit of a process loads the pages of its segment.
LEMMA PagesLoaded ==
  ASSUME IInv, NEW p \in Created, UNCHANGED <<processes_id, file>>,
         present_bit' = [present_bit EXCEPT ![p] = TRUE], ~present_bit[p]
  PROVE  /\ LoadedPages' = LoadedPages \cup SegmentPages(p)
         /\ LoadedPages \cap SegmentPages(p) = {}
<1>1. Created' = Created /\ \A q \in Created : PagesOf(q)' = PagesOf(q)
  BY DEF Created, PagesOf
<1>2. \A q \in Created : present_bit'[q] <=> present_bit[q] \/ q = p
  BY CreatedProc DEF IInv, TypeOK, MemTypeOK
<1>. QED BY <1>1, <1>2 DEF LoadedPages, SegmentPages

\* Clearing it unloads them, if they were loaded.
LEMMA PagesUnloaded ==
  ASSUME IInv, NEW p \in Created, UNCHANGED <<processes_id, file>>,
         present_bit' = [present_bit EXCEPT ![p] = FALSE]
  PROVE  /\ present_bit[p] => /\ LoadedPages' = LoadedPages \ SegmentPages(p)
                              /\ SegmentPages(p) \subseteq LoadedPages
         /\ ~present_bit[p] => LoadedPages' = LoadedPages
<1>1. Created' = Created /\ \A q \in Created : PagesOf(q)' = PagesOf(q)
  BY DEF Created, PagesOf
<1>2. \A q \in Created : present_bit'[q] <=> present_bit[q] /\ q # p
  BY CreatedProc DEF IInv, TypeOK, MemTypeOK
<1>. QED BY <1>1, <1>2 DEF LoadedPages, SegmentPages

\* What a step does to the count of free pages and to the pages that are loaded: the two
\* go together, but for the unloading of a segment that is not loaded.
Balanced ==
  /\ IsFiniteSet(LoadedPages')
  /\ num_free_pages' + Cardinality(LoadedPages')
       = num_free_pages + Cardinality(LoadedPages)
Overcounted(p) ==
  /\ LoadedPages' = LoadedPages
  /\ num_free_pages' = num_free_pages + PagesOf(p)

\* memory_unload_segment.
LEMMA UnloadCounts ==
  ASSUME IInv, IsFiniteSet(LoadedPages), NEW p \in Created, memory_unload_segment(p),
         UNCHANGED <<processes_id, file>>
  PROVE  IF present_bit[p] THEN Balanced ELSE Overcounted(p)
<1>1. /\ num_free_pages' = num_free_pages + PagesOf(p)
      /\ present_bit' = [present_bit EXCEPT ![p] = FALSE]
  BY DEF memory_unload_segment, Unlisted
<1>2. CASE present_bit[p]
  <2>1. /\ LoadedPages' = LoadedPages \ SegmentPages(p)
        /\ SegmentPages(p) \subseteq LoadedPages
    BY <1>1, <1>2, PagesUnloaded
  <2>2. /\ IsFiniteSet(LoadedPages')
        /\ Cardinality(LoadedPages') = Cardinality(LoadedPages) - PagesOf(p)
    BY <2>1, RemoveSegment DEF IInv, TypeOK
  <2>3. /\ PagesOf(p) \in Nat /\ num_free_pages \in Int
        /\ Cardinality(LoadedPages) \in Nat
    BY CreatedProc, FS_CardinalityType DEF IInv, TypeOK, MemTypeOK
  <2>. QED BY <1>1, <1>2, <2>2, <2>3 DEF Balanced
<1>3. CASE ~present_bit[p]
  BY <1>1, <1>3, PagesUnloaded DEF Overcounted
<1>. QED BY <1>2, <1>3

\* Every step is balanced but those two calls of it.
LEMMA StepCounts ==
  ASSUME IInv, MInv, [Next]_vars
  PROVE  \/ Balanced
         \/ SwapUnload /\ ~present_bit[victim] /\ Overcounted(victim)
         \/ FinishUnload /\ ~present_bit[cur] /\ Overcounted(cur)
<1>0. IsFiniteSet(LoadedPages)
  BY DEF MInv, AtLeastFree
<1>1. CASE SwapUnload
  <2>1. /\ victim \in Created /\ memory_unload_segment(victim)
        /\ UNCHANGED <<processes_id, file>>
    BY <1>1, VictimInHand DEF SwapUnload, Before, createVars
  <2>. QED BY <1>0, <1>1, <2>1, UnloadCounts
<1>2. CASE FinishUnload
  <2>1. /\ cur \in Created /\ memory_unload_segment(cur)
        /\ UNCHANGED <<processes_id, file>>
    BY <1>2, CurCreated DEF FinishUnload, Before, HasProcess, FinishLabel, createVars
  <2>. QED BY <1>0, <1>2, <2>1, UnloadCounts
<1>3. CASE LoadSegment
  <2>1. /\ cur \in Created /\ ~present_bit[cur]
        /\ UNCHANGED <<processes_id, file>>
    BY <1>3, CurCreated
       DEF LoadSegment, Before, HasProcess, MemoryLabel, MInv, LoadsAbsent, createVars
  <2>2. /\ LoadedPages' = LoadedPages \cup SegmentPages(cur)
        /\ LoadedPages \cap SegmentPages(cur) = {}
    BY <1>3, <2>1, PagesLoaded DEF LoadSegment
  <2>3. /\ IsFiniteSet(LoadedPages')
        /\ Cardinality(LoadedPages') = Cardinality(LoadedPages) + PagesOf(cur)
    BY <2>1, <2>2, <1>0, AddSegment DEF IInv, TypeOK
  <2>4. /\ PagesOf(cur) \in Nat /\ num_free_pages \in Int
        /\ Cardinality(LoadedPages) \in Nat
    BY <1>0, <2>1, CreatedProc, FS_CardinalityType DEF IInv, TypeOK, MemTypeOK
  <2>5. num_free_pages' = num_free_pages - PagesOf(cur)
    BY <1>3 DEF LoadSegment
  <2>. QED BY <2>3, <2>4, <2>5 DEF Balanced
<1>4. CASE CreateProcess
  <2>1. /\ Created' = Created \cup {processes_id}
        /\ processes_id \in Proc /\ processes_id \notin Created
    BY <1>4, BoundAssumption DEF CreateProcess, Created, Proc, IInv, TypeOK,
       CreateTypeOK
  <2>2. UNCHANGED <<present_bit, num_free_pages>>
    BY <1>4 DEF CreateProcess, memVars
  <2>3. ~present_bit[processes_id]
    <3>1. ToSet(segments) \subseteq Created
      BY ContainsElements DEF IInv, TypeOK, MemTypeOK
    <3>. QED BY <2>1, <3>1 DEF MInv, Loaded
  <2>4. \A p \in Created : PagesOf(p)' = PagesOf(p)
    BY FileKept DEF PagesOf
  <2>5. LoadedPages' = LoadedPages
    BY <2>1, <2>2, <2>3, <2>4 DEF LoadedPages
  <2>. QED BY <1>0, <2>2, <2>5 DEF Balanced
<1>5. CASE ~SwapUnload /\ ~LoadSegment /\ ~FinishUnload /\ ~CreateProcess
  <2>1. UNCHANGED <<present_bit, num_free_pages, processes_id>>
    BY <1>5, SegmentsStay, CreatedStays
  <2>2. Created' = Created /\ \A p \in Created : PagesOf(p)' = PagesOf(p)
    BY <2>1, FileKept DEF Created, PagesOf
  <2>3. LoadedPages' = LoadedPages
    BY <2>1, <2>2 DEF LoadedPages
  <2>. QED BY <1>0, <2>1, <2>3 DEF Balanced
<1>. QED BY <1>1, <1>2, <1>3, <1>4, <1>5

\* AtLeastFree is kept.
LEMMA StepAtLeastFree ==
  ASSUME IInv, MInv, [Next]_vars, IInv'
  PROVE  AtLeastFree'
<1>1. /\ IsFiniteSet(LoadedPages) /\ Cardinality(LoadedPages) \in Nat
      /\ num_free_pages >= NUM_PAGES - Cardinality(LoadedPages)
  BY FS_CardinalityType DEF MInv, AtLeastFree
<1>2. num_free_pages \in Int /\ num_free_pages' \in Int /\ NUM_PAGES \in Nat
  BY ClockAssumption DEF IInv, TypeOK, MemTypeOK
<1>3. CASE Balanced
  <2>1. IsFiniteSet(LoadedPages') /\ Cardinality(LoadedPages') \in Nat
    BY <1>3, FS_CardinalityType DEF Balanced
  <2>. QED BY <1>1, <1>2, <1>3, <2>1 DEF Balanced, AtLeastFree
<1>4. ASSUME NEW p \in Created, Overcounted(p)
      PROVE  AtLeastFree'
  <2>1. PagesOf(p) \in Nat
    BY CreatedProc DEF IInv, TypeOK
  <2>. QED BY <1>1, <1>2, <1>4, <2>1 DEF Overcounted, AtLeastFree
<1>5. SwapUnload => victim \in Created
  BY VictimInHand DEF SwapUnload, Before
<1>6. FinishUnload => cur \in Created
  BY CurCreated DEF FinishUnload, Before, HasProcess, FinishLabel
<1>. QED BY <1>3, <1>4, <1>5, <1>6, StepCounts

\* Whatever the programs do: the invariant of the list of segments.
THEOREM MemoryInvariant ==
  ASSUME OwnSegments
  PROVE  Spec => [](IInv /\ MInv)
<1>1. IInv /\ MInv /\ [Next]_vars /\ IInv' => MInv'
  BY StepOwnFiles, StepLoaded, StepLoadsAbsent, StepAtLeastFree DEF MInv
<1>2. Init => MInv
  <2>. SUFFICES ASSUME Init PROVE MInv
    OBVIOUS
  <2>. USE DEF Init
  <2>1. Created = {}
    <3>1. processes_id = 0
      OBVIOUS
    <3>. QED BY <3>1 DEF Created
  <2>2. ToSet(<<>>) = {} /\ IsInjective(<<>>)
    BY DEF ToSet, IsInjective
  <2>3. at["cpu"] = "spin"
    BY DEF Thread
  <2>4. AtLeastFree
    <3>1. LoadedPages = {}
      BY <2>1 DEF LoadedPages
    <3>. QED BY <3>1, FS_EmptySet, ClockAssumption DEF AtLeastFree
  <2>. QED BY <2>1, <2>2, <2>3, <2>4
           DEF MInv, OwnFiles, Loaded, LoadsAbsent, MemoryLabel
<1>. QED BY Invariant, <1>1, <1>2, PTL DEF Spec

\* How often an injective list holds something.
LEMMA PositionCount ==
  ASSUME NEW S, NEW q \in Seq(S), NEW x, IsInjective(q)
  PROVE  Cardinality(Positions(q, x)) = IF x \in ToSet(q) THEN 1 ELSE 0
<1>1. CASE x \notin ToSet(q)
  <2>1. Positions(q, x) = {}
    BY <1>1 DEF Positions, ToSet
  <2>. QED BY <1>1, <2>1, FS_EmptySet
<1>2. CASE x \in ToSet(q)
  <2>1. PICK i \in DOMAIN q : q[i] = x
    BY <1>2 DEF ToSet
  <2>2. Positions(q, x) = {i}
    BY <2>1 DEF Positions, IsInjective
  <2>. QED BY <1>2, <2>2, FS_Singleton
<1>. QED BY <1>1, <1>2

\* memory.c:190: a segment is in the list once when it is loaded, and not at all
\* otherwise, however the programs swap one another out and even when a segment is
\* unloaded that was not loaded.
THEOREM SegmentsListed ==
  ASSUME OwnSegments
  PROVE  Spec => []ListedIfLoaded
<1>1. IInv /\ MInv => ListedIfLoaded
  <2>. SUFFICES ASSUME IInv, MInv, NEW p \in Created
                PROVE  Cardinality(Positions(segments, p)) =
                         IF present_bit[p] THEN 1 ELSE 0
    BY DEF ListedIfLoaded
  <2>1. segments \in Seq(Created) /\ IsInjective(segments)
    BY DEF IInv, TypeOK, MemTypeOK, MInv, Loaded
  <2>2. p \in ToSet(segments) <=> present_bit[p]
    BY CreatedProc DEF IInv, TypeOK, MInv, Loaded
  <2>. QED BY <2>1, <2>2, PositionCount
<1>. QED BY MemoryInvariant, <1>1, PTL

-----------------------------------------------------------------------------
(* What can go wrong when the programs only compute. *)

\* A segment is loaded only for a process that is submitted and not finished.
LoadedLive == \A p \in Created : present_bit[p] => p \notin freed /\ ~Pending(p)

\* What the CPU thread knows between two steps about the segment in its hands.
InMemory ==
  /\ at["cpu"] = "fetch" => ~Done(running)
  /\ at["cpu"] = "swap_unload" => present_bit[victim]
  /\ at["cpu"] = "fin_free" => ~present_bit[cur]

FInv == LoadedLive /\ InMemory

\* The victim of a swap is one of the loaded segments.
LEMMA VictimListed ==
  ASSUME IInv, segments # <<>>
  PROVE  /\ segments[VictimIndex] \in ToSet(segments)
         /\ Scanned \subseteq ToSet(segments)
<1>1. segments \in Seq(Created) /\ DOMAIN segments = 1..Len(segments)
      /\ Len(segments) \in Nat /\ Len(segments) > 0
  BY LenProperties, EmptySeq DEF IInv, TypeOK, MemTypeOK
<1>2. Stops \in SUBSET Nat /\ Stops \subseteq 1..Len(segments)
  BY <1>1 DEF Stops
<1>3. VictimIndex \in 1..Len(segments)
  <2>1. CASE Stops = {}
    BY <1>1, <2>1 DEF VictimIndex
  <2>2. CASE Stops # {}
    <3>1. PICK k : k = Min(Stops)
      OBVIOUS
    <3>2. k \in Stops
      BY <1>2, <2>2, <3>1, MinIsLeast
    <3>. QED BY <1>2, <2>2, <3>1, <3>2 DEF VictimIndex
  <2>. QED BY <2>1, <2>2
<1>4. Passed \subseteq ToSet(segments)
  BY <1>1, <1>3 DEF Passed, ToSet
<1>. QED BY <1>1, <1>3, <1>4 DEF Scanned, ToSet

\* Every step of the CPU thread moves it, and nobody else.
LEMMA CpuJumps ==
  ASSUME CpuStep
  PROVE  \E label : Goto("cpu", label)
  BY UnlinkStep
     DEF CpuStep, Interrupt, IrqLock, IrqTest, IrqMark, IrqSchedule, IrqScheduled,
         IrqExit, MemoryNext, LoadStart, SwapChoose, SwapUnload, LoadSegment, Spin,
         ClearFlag, Loop, FetchAbsent, Fetch, Exec, PSuccess, PFailure, PCharge,
         VNoneWaiting, VHandOver, Exit, Finish, FinishWait, FinishUnload, FinishFree,
         FinishSchedule, FinishPost, Raise, UnlinkLabel

\* InMemory is kept.
LEMMA StepInMemory ==
  ASSUME IInv, CInv, MInv, FInv, [Next]_vars, CpuStep \/ UiNext \/ OsOnly
  PROVE  InMemory'
<1>0. present_bit \in [Proc -> BOOLEAN] /\ running \in Created \cup {NULL}
  BY DEF IInv, TypeOK, MemTypeOK, SchedTypeOK
<1>1. CASE Loop
  <2>1. CanExecute => at'["cpu"] = "fetch" /\ running \in Created /\ ~Done(running)
    BY <1>0, <1>1, CpuGoes DEF Loop, CanExecute
  <2>2. ~CanExecute => at'["cpu"] = "exit"
    BY <1>1, CpuGoes DEF Loop
  <2>3. UNCHANGED <<running, PC, file>>
    BY <1>1 DEF Loop, schedVars, procVars, createVars
  <2>4. Done(running)' <=> Done(running)
    BY <2>3 DEF Done, CodeOf
  <2>. QED BY <2>1, <2>2, <2>4 DEF InMemory
<1>2. CASE SwapChoose
  <2>1. present_bit[segments[VictimIndex]]
    <3>1. segments[VictimIndex] \in Proc
      BY <1>2, VictimCreated, CreatedProc DEF SwapChoose, IInv, TypeOK
    <3>. QED BY <1>2, <3>1, VictimListed DEF SwapChoose, MInv, Loaded
  <2>. QED BY <1>2, <2>1, CpuGoes DEF SwapChoose, InMemory
<1>3. CASE FinishUnload
  <2>1. cur \in Proc /\ cur' = cur
    BY <1>3, CurLive DEF FinishUnload, Before, HandLabel, UnlinkLabel, localVars
  <2>2. present_bit' = [present_bit EXCEPT ![cur] = FALSE]
    BY <1>3 DEF FinishUnload, memory_unload_segment, Unlisted
  <2>. QED BY <1>0, <1>3, <2>1, <2>2, CpuGoes DEF FinishUnload, InMemory
<1>4. CASE UiNext \/ OsOnly
  <2>1. at'["cpu"] = at["cpu"] /\ UNCHANGED <<running, present_bit, victim, cur, PC>>
    BY <1>4, UiGoes
       DEF UiNext, Submission, CreateProcess, LinkPCB, MoveTail, Enqueue, Announce,
           Quit, OsOnly, schedVars, procVars, memVars, localVars
  <2>2. at["cpu"] = "fetch" => (Done(running)' <=> Done(running))
    BY <2>1, FileKept, CurLive DEF Done, CodeOf
  <2>. QED BY <2>1, <2>2 DEF FInv, InMemory
<1>5. CASE CpuStep /\ ~Loop /\ ~SwapChoose /\ ~FinishUnload
  <2>1. at'["cpu"] \notin {"fetch", "swap_unload", "fin_free"}
    <3>1. CASE Interrupt("cpu")
      <4>1. Return("cpu") \notin {"fetch", "swap_unload", "fin_free"}
        BY DEF Return, Type, IInv, TypeOK, ControlTypeOK, CpuInterruption,
           INTERRUPTION_TYPE
      <4>. QED BY <3>1, <4>1, CpuGoes DEF Interrupt, IrqLock, IrqTest, IrqMark,
                  IrqSchedule, IrqScheduled, IrqExit
    <3>2. CASE LoadStart \/ SwapUnload \/ LoadSegment
      BY <3>2, CpuGoes DEF LoadStart, SwapUnload, LoadSegment, Raise
    <3>3. CASE Spin \/ ClearFlag \/ FetchAbsent \/ Fetch \/ Exec
      BY <3>3, CpuGoes DEF Spin, ClearFlag, FetchAbsent, Fetch, Exec, Raise
    <3>4. CASE PSuccess \/ PFailure \/ PCharge \/ VNoneWaiting \/ VHandOver
      BY <3>4, CpuGoes DEF PSuccess, PFailure, PCharge, VNoneWaiting, VHandOver, Raise
    <3>5. CASE Exit \/ Finish \/ FinishWait
      BY <3>5, CpuGoes DEF Exit, Finish, FinishWait, Raise
    <3>6. CASE FinishFree \/ Unlinking \/ FinishSchedule \/ FinishPost
      BY <3>6, CpuGoes, UnlinkStep
         DEF FinishFree, FinishSchedule, FinishPost, UnlinkLabel
    <3>. QED BY <1>5, <3>1, <3>2, <3>3, <3>4, <3>5, <3>6 DEF CpuStep, MemoryNext
  <2>. QED BY <2>1 DEF InMemory
<1>. QED BY <1>1, <1>2, <1>3, <1>4, <1>5

\* LoadedLive is kept: a segment is unloaded before it is freed, and only the running
\* process is loaded.
LEMMA StepLoadedLive ==
  ASSUME IInv, CInv, MInv, FInv, [Next]_vars, CpuStep \/ UiNext \/ OsOnly
  PROVE  LoadedLive'
<1>0. present_bit \in [Proc -> BOOLEAN] /\ Created \subseteq Proc
  BY CreatedProc DEF IInv, TypeOK, MemTypeOK
<1>1. CASE CreateProcess
  <2>1. /\ Created' = Created \cup {processes_id} /\ NewProcess' = processes_id
        /\ processes_id \in Proc /\ processes_id \notin Created
    BY <1>1, BoundAssumption
       DEF CreateProcess, Created, Proc, NewProcess, IInv, TypeOK, CreateTypeOK
  <2>2. UNCHANGED <<present_bit, freed>>
    BY <1>1 DEF CreateProcess, memVars, procVars
  <2>3. ToSet(segments) \subseteq Created
    BY ContainsElements DEF IInv, TypeOK, MemTypeOK
  <2>4. ~present_bit[processes_id]
    BY <2>1, <2>3 DEF MInv, Loaded
  <2>. QED BY <2>1, <2>2, <2>4 DEF FInv, LoadedLive, Pending
<1>2. CASE LoadSegment
  <2>1. cur \in Created /\ cur \notin freed /\ cur = running
    BY <1>2, CurLive
       DEF LoadSegment, Before, HandLabel, UnlinkLabel, MemoryLabel, CInv, InHand
  <2>2. ~Pending(cur)
    BY <2>1 DEF CInv, Places, OthersApart
  <2>3. \A p \in Created : present_bit'[p] => present_bit[p] \/ p = cur
    BY <1>0, <1>2, <2>1 DEF LoadSegment
  <2>4. UNCHANGED <<processes_id, freed>> /\ at'["ui"] = at["ui"]
    BY <1>2, CpuGoes DEF LoadSegment, Raise, createVars, procVars
  <2>5. \A p : Pending(p)' <=> Pending(p)
    BY <2>4 DEF Pending, NewProcess, Submitting
  <2>. QED BY <2>1, <2>2, <2>3, <2>4, <2>5 DEF FInv, LoadedLive, Created
<1>3. CASE FinishFree
  <2>1. freed' = freed \cup {cur} /\ ~present_bit[cur]
    BY <1>3 DEF FinishFree, Before, FInv, InMemory
  <2>2. UNCHANGED <<processes_id, present_bit>> /\ at'["ui"] = at["ui"]
    BY <1>3, CpuGoes DEF FinishFree, createVars, memVars
  <2>3. \A p : Pending(p)' <=> Pending(p)
    BY <2>2 DEF Pending, NewProcess, Submitting
  <2>. QED BY <2>1, <2>2, <2>3 DEF FInv, LoadedLive, Created
<1>4. CASE ~CreateProcess /\ ~LoadSegment /\ ~FinishFree
  <2>1. UNCHANGED <<processes_id, freed>>
    BY <1>4, CreatedStays, StepUnfinished DEF Unfinished
  <2>2. \A p \in Created : present_bit'[p] => present_bit[p]
    <3>1. CASE SwapUnload
      <4>1. victim \in Created /\ Unlisted(victim)
        BY <3>1, VictimInHand DEF SwapUnload, Before, memory_unload_segment
      <4>. QED BY <1>0, <4>1 DEF Unlisted
    <3>2. CASE FinishUnload
      <4>1. cur \in Created /\ Unlisted(cur)
        BY <3>2, CurLive
           DEF FinishUnload, Before, memory_unload_segment, HandLabel, UnlinkLabel
      <4>. QED BY <1>0, <4>1 DEF Unlisted
    <3>. QED BY <1>4, <3>1, <3>2, SegmentsStay
  <2>3. Submitting' => Submitting
    <3>1. CASE CpuStep
      <4>1. \E label : Goto("cpu", label)
        BY <3>1, CpuJumps
      <4>. QED BY <4>1, CpuGoes DEF Submitting
    <3>2. CASE UiNext
      BY <1>4, <3>2, UiGoes
         DEF UiNext, Submission, LinkPCB, MoveTail, Enqueue, Announce, Quit, Submitting,
             Before
    <3>3. CASE OsOnly
      BY <3>3 DEF OsOnly, Submitting
    <3>. QED BY <3>1, <3>2, <3>3
  <2>. QED BY <2>1, <2>2, <2>3 DEF FInv, LoadedLive, Created, Pending, NewProcess
<1>. QED BY <1>1, <1>2, <1>3, <1>4

\* The waiter V takes from a list is a process.
LEMMA WaiterThere ==
  ASSUME IInv, CInv, at["cpu"] = "v", processes_waiting[Instr.semaphore] # <<>>
  PROVE  Waiter # NULL
<1>1. Instr.semaphore \in Sem
  BY InstrSem
<1>2. /\ processes_waiting[Instr.semaphore] \in Seq(Created \cup {NULL})
      /\ IsInjective(processes_waiting[Instr.semaphore])
      /\ NULL \notin WaitingFor(Instr.semaphore)
  BY <1>1 DEF IInv, TypeOK, SemTypeOK, CInv, Places, Apart
<1>3. Waiter \in WaitingFor(Instr.semaphore)
  BY <1>2, TailSet DEF Waiter, WaitingFor
<1>. QED BY <1>2, <1>3

\* Whatever the CPU thread does that is undefined is so for want of memory, delete_list
\* on PCB apart.
LEMMA UndefinedSwaps ==
  ASSUME IInv, CInv, MInv, FInv, RunUndefined
  PROVE  at["cpu"] = "swap" /\ SwapUndefined
<1>. USE DEF UnlinkLabel
<1>1. running \in freed => at["cpu"] \in UnlinkLabel
  BY DEF CInv, Places, RunningApart
<1>2. ~(at["cpu"] \in {"loop", "exit"} /\ running \in freed)
  BY <1>1
<1>3. ~IrqUndefined("cpu") /\ ~(at["cpu"] = "finish" /\ running = NULL)
  BY <1>1 DEF IrqUndefined, CInv, InHand
<1>4. at["cpu"] = "fetch" =>
        running # NULL /\ running \notin freed /\ ~Done(running)
  BY <1>1 DEF CInv, InHand, FInv, InMemory
<1>5. at["cpu"] \in {"p", "p_charge"} => running # NULL
  BY CurLive, CreatedProc DEF CInv, InHand, HandLabel, IInv, TypeOK
<1>6. \A i \in DOMAIN segments : segments[i] \notin freed
  <2>1. ToSet(segments) \subseteq Created
    BY ContainsElements DEF IInv, TypeOK, MemTypeOK
  <2>2. \A p \in ToSet(segments) : p \notin freed
    BY <2>1, CreatedProc DEF IInv, TypeOK, MInv, Loaded, FInv, LoadedLive
  <2>. QED BY <2>2 DEF ToSet
<1>7. at["cpu"] = "fin_unload" => ~UnloadUndefined(cur)
  BY <1>6, CurLive DEF UnloadUndefined, HandLabel
<1>8. at["cpu"] = "swap_unload" => ~UnloadUndefined(victim)
  BY <1>6, VictimInHand DEF UnloadUndefined, FInv, InMemory, LoadedLive
<1>9. at["cpu"] = "fin_unlink" => ~Contains(ready, cur)
  <2>1. ready \in Seq(Created) /\ running \notin ToSet(ready)
    BY DEF IInv, TypeOK, SchedTypeOK, CInv, Places, RunningApart
  <2>2. ~Contains(ready, running)
    BY <2>1, ContainsElements
  <2>. QED BY <2>2 DEF CInv, InHand, HandLabel
<1>. QED BY <1>2, <1>3, <1>4, <1>5, <1>7, <1>8, <1>9, WaiterThere
         DEF RunUndefined, SwapUndefined

\* And then the PCB has lost the owner of a loaded segment.
LEMMA SwapLacksPCB ==
  ASSUME EachFits, IInv, CInv, MInv, FInv, at["cpu"] = "swap", SwapUndefined
  PROVE  /\ NotEnoughSpace
         /\ \E p \in Created : Live(p) /\ ~Contains(PCB, p)
<1>1. NotEnoughSpace
  BY DEF SwapUndefined
<1>2. segments # <<>>
  <2>. SUFFICES ASSUME segments = <<>> PROVE FALSE
    OBVIOUS
  <2>1. \A p \in Created : ~present_bit[p]
    BY CreatedProc DEF IInv, TypeOK, MInv, Loaded, ToSet
  <2>2. LoadedPages = {}
    BY <2>1 DEF LoadedPages
  <2>3. num_free_pages >= NUM_PAGES
    BY <2>2, FS_EmptySet, ClockAssumption DEF MInv, AtLeastFree
  <2>4. cur \in Created
    BY CurCreated DEF HasProcess, MemoryLabel
  <2>5. PagesOf(cur) \in Nat /\ PagesOf(cur) <= NUM_PAGES
    BY <2>4, CreatedProc DEF IInv, TypeOK, CreateTypeOK, EachFits, PagesOf
  <2>. QED BY <1>1, <2>3, <2>5, ClockAssumption
           DEF NotEnoughSpace, IInv, TypeOK, MemTypeOK
<1>3. PICK v : v = segments[VictimIndex]
  OBVIOUS
<1>4. v \in ToSet(segments) /\ Scanned \subseteq ToSet(segments)
  BY <1>2, <1>3, VictimListed
<1>5. ToSet(segments) \subseteq Created
  BY ContainsElements DEF IInv, TypeOK, MemTypeOK
<1>6. \A p \in ToSet(segments) : p \notin freed /\ ~Pending(p)
  BY <1>5, CreatedProc DEF IInv, TypeOK, MInv, Loaded, FInv, LoadedLive
<1>7. ~Contains(PCB, v)
  BY <1>2, <1>3, <1>4, <1>6 DEF SwapUndefined
<1>8. Live(v)
  BY <1>4, <1>5, <1>6, CreatedProc
     DEF IInv, TypeOK, Live, Pending, Submitting, CInv, Endings, UnlinkLabel
<1>. QED BY <1>1, <1>4, <1>5, <1>7, <1>8

\* A step that does nothing undefined does not end in a fault.
LEMMA OnlyFaults ==
  ASSUME [Next]_vars, os = "up",
         ~Fault(CpuUndefined), ~Fault(DiskUndefined), ~Fault(PrintUndefined),
         ~Fault(PushUndefined)
  PROVE  os' # "fault"
<1>1. CpuStep => os' = os
  BY UnlinkStep
     DEF CpuStep, Interrupt, IrqLock, IrqTest, IrqMark, IrqSchedule, IrqScheduled,
         IrqExit, MemoryNext, LoadStart, SwapChoose, SwapUnload, LoadSegment, Spin,
         ClearFlag, Loop, FetchAbsent, Fetch, Exec, PSuccess, PFailure, PCharge,
         VNoneWaiting, VHandOver, Exit, Finish, FinishWait, FinishUnload, FinishFree,
         FinishSchedule, FinishPost, UnlinkLabel
<1>2. EnqueueDisk \/ EnqueuePrint => os' = os
  BY DEF EnqueueDisk, EnqueuePrint
<1>3. UiNext => os' # "fault"
  BY DEF UiNext, Submission, CreateProcess, LinkPCB, MoveTail, Enqueue, Announce, Quit
<1>4. DiskNext \/ PrintNext => os' = os
  BY DEF DiskNext, PrintNext, Interrupt, IrqLock, IrqTest, IrqMark, IrqSchedule,
     IrqScheduled, IrqExit, SweepStart, SweepNext, SweepEnd, FulfillDiskRequest,
     DiskRequestFinished, DiskPost, FulfillPrint, PrintRequestFinished
<1>5. CpuNext => os' = os
  BY <1>1, <1>2 DEF CpuNext, CpuStep, Unlinking
<1>. QED BY <1>3, <1>4, <1>5
            DEF Next, Cpu, DiskThread, PrintThread, UiThread, Halted, vars

\* The devices, asleep, do nothing undefined, and the CPU thread swaps in vain.
LEMMA UndefinedForMemory ==
  ASSUME EachFits, IInv, CInv, MInv, FInv, KernelUndefined
  PROVE  /\ at["cpu"] = "swap" /\ NotEnoughSpace
         /\ \E p \in Created : Live(p) /\ ~Contains(PCB, p)
<1>1. ~DiskUndefined /\ ~PrintUndefined
  BY DEF DiskUndefined, PrintUndefined, IrqUndefined, CInv, DevicesIdle
<1>2. RunUndefined
  BY <1>1 DEF KernelUndefined
<1>. QED BY <1>2, UndefinedSwaps, SwapLacksPCB

\* Once the program has ended nothing changes.
LEMMA HaltedStays ==
  ASSUME [Next]_vars, os # "up"
  PROVE  UNCHANGED vars
<1>1. ~CpuNext
  BY UnlinkStep
     DEF CpuNext, Interrupt, IrqLock, IrqTest, IrqMark, IrqSchedule, IrqScheduled,
         IrqExit, MemoryNext, LoadStart, SwapChoose, SwapUnload, LoadSegment, Spin,
         ClearFlag, Loop, FetchAbsent, Fetch, Exec, PSuccess, PFailure, PCharge,
         VNoneWaiting, VHandOver, EnqueueDisk, EnqueuePrint, Exit, Finish, FinishWait,
         FinishUnload, FinishFree, FinishSchedule, FinishPost, Before, Unlinking,
         UnlinkLabel
<1>2. ~DiskNext /\ ~PrintNext /\ ~UiNext
  BY DEF DiskNext, PrintNext, Interrupt, IrqLock, IrqTest, IrqMark, IrqSchedule,
     IrqScheduled, IrqExit, SweepStart, SweepNext, SweepEnd, FulfillDiskRequest,
     DiskRequestFinished, DiskPost, FulfillPrint, PrintRequestFinished, UiNext,
     Submission, CreateProcess, LinkPCB, MoveTail, Enqueue, Announce, Quit, Before
<1>. QED BY <1>1, <1>2 DEF Next, Cpu, DiskThread, PrintThread, UiThread, Fault, Halted

\* The invariants together.
THEOREM SwapInvariant ==
  ASSUME ComputesOnly, OwnSegments
  PROVE  Spec => [](IInv /\ CInv /\ MInv /\ FInv)
<1>1. IInv /\ CInv /\ MInv /\ FInv /\ [Next]_vars => FInv'
  BY Steps, StepInMemory, StepLoadedLive DEF FInv, CInv
<1>2. Init => FInv
  <2>. SUFFICES ASSUME Init PROVE FInv
    OBVIOUS
  <2>1. Created = {}
    <3>1. processes_id = 0
      BY DEF Init
    <3>. QED BY <3>1 DEF Created
  <2>2. at["cpu"] = "spin"
    BY DEF Init, Thread
  <2>. QED BY <2>1, <2>2 DEF FInv, LoadedLive, InMemory
<1>. QED BY ComputeInvariant, MemoryInvariant, <1>1, <1>2, PTL DEF Spec

\* memory.c:75-105: in programs that only compute, each of which fits in an empty
\* memory, nothing is undefined but the push and the delete_list that meet on PCB, and
\* swapping when they have lost a process (finding pcb_race), for which it looks in vain.
THEOREM FaultsAreLostPCBs ==
  ASSUME ComputesOnly, OwnSegments, EachFits
  PROVE  Spec => []FaultNeedsLostPCB
<1>1. IInv /\ CInv /\ MInv /\ FInv => FaultNeedsLostPCB
  BY UndefinedForMemory DEF FaultNeedsLostPCB, PCBComplete, KernelUndefined
<1>. QED BY SwapInvariant, <1>1, PTL

-----------------------------------------------------------------------------
(* Who has executed his last instruction. *)

\* From the end of the inner loop to the freeing of the segment.
Ending == {"loop", "exit", "finish", "fin_wait", "fin_unload", "fin_free"}

\* A process that is through is finished at once: it is never put back into a list.
Ends ==
  \A p \in Created : Done(p) => p \in freed \/ (p = running /\ at["cpu"] \in Ending)

EInv == Fetched /\ FreshPC /\ Ends

\* Whoever does not advance is as far as he was.
LEMMA DoneStays ==
  ASSUME IInv, [Next]_vars, NEW p \in Created, PC'[p] = PC[p]
  PROVE  Done(p)' <=> Done(p)
  BY FileKept DEF Done, CodeOf

\* A P is not the last instruction, so that whoever executes one has more to do.
LEMMA GoesOnAfterP ==
  ASSUME EndsOutside, IInv, AtCall("P"), [Next]_vars, NextPC
  PROVE  \A p \in Created : Done(p)' <=> Done(p)
<1>1. cur \in Created /\ cur \in Proc /\ ~Done(cur) /\ Instr.opcode = "P"
  BY CreatedProc DEF AtCall, IInv, TypeOK
<1>2. PICK f : f = file[cur]
  OBVIOUS
<1>3. f \in File /\ Code[f] \in Seq(Instruction) /\ PC[cur] \in Nat
      /\ Len(Code[f]) \in Nat
  BY <1>1, <1>2, FileAssumption, LenProperties
     DEF IInv, TypeOK, CreateTypeOK, ProcTypeOK
<1>4. PC[cur] < Len(Code[f]) /\ Code[f][PC[cur] + 1].opcode = "P"
  BY <1>1, <1>2, <1>3 DEF Done, CodeOf, Instr, InstructionAt
<1>5. PC[cur] + 1 # Len(Code[f])
  BY <1>3, <1>4 DEF EndsOutside
<1>6. PC'[cur] = PC[cur] + 1 /\ \A p \in Created : p # cur => PC'[p] = PC[p]
  BY <1>1, CreatedProc DEF NextPC, IInv, TypeOK, ProcTypeOK
<1>7. PC'[cur] < Len(Code[f])
  BY <1>3, <1>4, <1>5, <1>6
<1>8. file'[cur] = f
  BY <1>1, <1>2, FileKept
<1>9. ASSUME NEW p \in Created, p = cur
      PROVE  ~Done(p)'
  BY <1>3, <1>6, <1>7, <1>8, <1>9 DEF Done, CodeOf
<1>. QED BY <1>1, <1>6, <1>9, DoneStays

\* Ends is kept.
LEMMA StepEnds ==
  ASSUME EndsOutside, IInv, CInv, EInv, [Next]_vars, CpuStep \/ UiNext \/ OsOnly
  PROVE  Ends'
<1>0. running \in Created \cup {NULL} /\ Created \subseteq Proc
  BY CreatedProc DEF IInv, TypeOK, SchedTypeOK
<1>1. CASE CreateProcess
  <2>1. /\ Created' = Created \cup {processes_id}
        /\ processes_id \in Proc /\ processes_id \notin Created
    BY <1>1, BoundAssumption DEF CreateProcess, Created, Proc, IInv, TypeOK,
       CreateTypeOK
  <2>2. PICK f \in File : file' = [file EXCEPT ![processes_id] = f]
    BY <1>1 DEF CreateProcess
  <2>3. UNCHANGED <<running, PC, freed>> /\ at'["cpu"] = at["cpu"]
    BY <1>1, UiGoes DEF CreateProcess, schedVars, procVars
  <2>4. ASSUME NEW n, n = processes_id
        PROVE  ~Done(n)'
    <3>1. PC'[n] = 0 /\ file'[n] = f
      BY <2>1, <2>2, <2>3, <2>4 DEF EInv, FreshPC, IInv, TypeOK, CreateTypeOK
    <3>2. Code[f] \in Seq(Instruction) /\ Code[f] # <<>>
      BY FileAssumption DEF EndsOutside
    <3>3. Len(Code[f]) \in Nat /\ Len(Code[f]) > 0
      BY <3>2, LenProperties, EmptySeq
    <3>. QED BY <3>1, <3>3 DEF Done, CodeOf
  <2>. QED BY <2>1, <2>3, <2>4, DoneStays DEF EInv, Ends
<1>2. CASE PSuccess \/ PFailure
  <2>1. /\ at["cpu"] = "p" /\ NextPC
        /\ UNCHANGED <<processes_id, freed>>
    BY <1>2 DEF PSuccess, PFailure, Before, createVars
  <2>2. \A p \in Created : Done(p)' <=> Done(p)
    BY <2>1, CallsInHand, GoesOnAfterP DEF EInv
  <2>. QED BY <2>1, <2>2 DEF EInv, Ends, Ending, Created
<1>3. CASE Exec \/ VNoneWaiting \/ VHandOver
  <2>1. /\ at["cpu"] \in {"exec", "v"} /\ at'["cpu"] = "loop"
        /\ UNCHANGED PC \/ NextPC
        /\ UNCHANGED <<processes_id, freed, running>>
    BY <1>3, CpuGoes DEF Exec, VNoneWaiting, VHandOver, Before, schedVars, createVars
  <2>2. cur \in Proc /\ running = cur
    BY <2>1, CurLive DEF HandLabel, UnlinkLabel, CInv, InHand
  <2>3. \A p \in Created : p # cur => PC'[p] = PC[p]
    BY <1>0, <2>1, <2>2 DEF NextPC, IInv, TypeOK, ProcTypeOK
  <2>4. \A p \in Created : p # cur => (Done(p)' <=> Done(p))
    BY <2>3, DoneStays
  <2>. QED BY <2>1, <2>2, <2>4 DEF EInv, Ends, Ending, Created
<1>4. CASE ~CreateProcess /\ ~PSuccess /\ ~PFailure /\ ~Exec /\ ~VNoneWaiting
           /\ ~VHandOver
  <2>1. UNCHANGED <<processes_id, PC>>
    BY <1>4, CreatedStays, PCMoves
  <2>2. \A p \in Created : Done(p)' <=> Done(p)
    BY <2>1, DoneStays
  <2>3. ASSUME NEW p \in Created, Done(p)
        PROVE  p \in freed' \/ (p = running' /\ at'["cpu"] \in Ending)
    <3>1. p \in freed => p \in freed'
      <4>1. CASE FinishFree
        BY <4>1 DEF FinishFree
      <4>2. CASE ~FinishFree
        BY <4>2, StepUnfinished DEF Unfinished
      <4>. QED BY <4>1, <4>2
    <3>2. CASE p = running /\ at["cpu"] \in Ending /\ CpuStep
      <4>. USE DEF Ending, Before
      <4>1. CASE Loop
        <5>1. ~CanExecute
          BY <2>3, <3>2 DEF CanExecute
        <5>. QED BY <3>2, <4>1, <5>1, CpuGoes DEF Loop, schedVars
      <4>2. CASE Exit
        <5>1. running # NULL /\ Done(running)
          BY <1>0, <2>3, <3>2, CreatedProc DEF IInv, TypeOK
        <5>. QED BY <3>2, <4>2, <5>1, CpuGoes DEF Exit, schedVars
      <4>3. CASE Finish \/ FinishWait \/ FinishUnload
        BY <3>2, <4>3, CpuGoes DEF Finish, FinishWait, FinishUnload, schedVars
      <4>4. CASE FinishFree
        BY <3>2, <4>4 DEF FinishFree, CInv, InHand, HandLabel, UnlinkLabel
      <4>5. CASE ~Loop /\ ~Exit /\ ~Finish /\ ~FinishWait /\ ~FinishUnload
                 /\ ~FinishFree
        BY <3>2, <4>5, UnlinkStep
           DEF CpuStep, Interrupt, IrqLock, IrqTest, IrqMark, IrqSchedule, IrqScheduled,
               IrqExit, MemoryNext, LoadStart, SwapChoose, SwapUnload, LoadSegment,
               Spin, ClearFlag, FetchAbsent, Fetch, Exec, PSuccess, PFailure, PCharge,
               VNoneWaiting, VHandOver, FinishSchedule, FinishPost, UnlinkLabel
      <4>. QED BY <4>1, <4>2, <4>3, <4>4, <4>5
    <3>3. CASE UiNext \/ OsOnly
      <4>1. at'["cpu"] = at["cpu"] /\ UNCHANGED running
        BY <3>3, UiGoes
           DEF UiNext, Submission, CreateProcess, LinkPCB, MoveTail, Enqueue, Announce,
               Quit, OsOnly, schedVars
      <4>. QED BY <2>3, <3>1, <4>1 DEF EInv, Ends
    <3>. QED BY <2>3, <3>1, <3>2, <3>3 DEF EInv, Ends
  <2>. QED BY <2>1, <2>2, <2>3 DEF Ends, Created
<1>. QED BY <1>1, <1>2, <1>3, <1>4

\* The invariants together.
THEOREM EndsInvariant ==
  ASSUME ComputesOnly, EndsOutside
  PROVE  Spec => [](IInv /\ CInv /\ EInv)
<1>1. IInv /\ CInv /\ EInv /\ [Next]_vars => EInv'
  BY Steps, StepFetched, StepFreshPC, StepEnds DEF EInv, CInv
<1>2. Init => EInv
  <2>. SUFFICES ASSUME Init PROVE EInv
    OBVIOUS
  <2>1. Created = {}
    <3>1. processes_id = 0
      BY DEF Init
    <3>. QED BY <3>1 DEF Created
  <2>2. at["cpu"] = "spin"
    BY DEF Init, Thread
  <2>. QED BY <2>1, <2>2 DEF EInv, Fetched, FreshPC, Ends, Init
<1>. QED BY ComputeInvariant, <1>1, <1>2, PTL DEF Spec

\* log.c:32-37: the log of an interruption reads an instruction the process still has,
\* also when the quantum and the last instruction end together.
THEOREM LogReadsAnInstruction ==
  ASSUME ComputesOnly, EndsOutside
  PROVE  Spec => []ReadsAnInstruction
<1>1. IInv /\ CInv /\ EInv => ReadsAnInstruction
  BY CurLive DEF EInv, Ends, Ending, ReadsAnInstruction
<1>. QED BY EndsInvariant, <1>1, PTL

-----------------------------------------------------------------------------
(* The count of free pages. *)

\* Whoever executes, and whoever is about to be finished, is loaded.
Present ==
  /\ at["cpu"] \in {"exec", "p", "v"} => present_bit[cur]
  /\ \A p \in Created :
       Done(p) /\ p \notin freed /\ at["cpu"] # "fin_free" => present_bit[p]

\* Every page is free or one of a loaded segment.
PagesCounted == num_free_pages = NUM_PAGES - Cardinality(LoadedPages)

PInv == Present /\ PagesCounted

\* Present is kept: only a swap and the end of a process unload a segment, and no
\* process that is through is ever swapped out.
LEMMA StepPresent ==
  ASSUME IInv, CInv, MInv, FInv, EInv, Present, [Next]_vars,
         CpuStep \/ UiNext \/ OsOnly, Ends'
  PROVE  Present'
<1>0. present_bit \in [Proc -> BOOLEAN] /\ Created \subseteq Proc
      /\ running \in Created \cup {NULL} /\ freed \subseteq Created
  BY CreatedProc DEF IInv, TypeOK, MemTypeOK, SchedTypeOK, ProcTypeOK
<1>1. CASE Fetch
  <2>1. /\ running \in Created /\ cur' = running /\ present_bit[running]
        /\ UNCHANGED <<present_bit, processes_id, freed, PC>>
    BY <1>0, <1>1 DEF Fetch, Fetchable, createVars, procVars
  <2>2. at["cpu"] # "fin_free"
    BY <1>1 DEF Fetch, Before
  <2>3. \A p \in Created : Done(p)' <=> Done(p)
    BY <2>1, DoneStays
  <2>. QED BY <2>1, <2>2, <2>3 DEF Present, Created
<1>2. CASE SwapUnload
  <2>1. at["cpu"] = "swap_unload" /\ at'["cpu"] = "swap"
        /\ UNCHANGED <<processes_id, freed, PC>>
    BY <1>2, CpuGoes DEF SwapUnload, Before, createVars, procVars
  <2>2. \A p \in Created : Done(p) => p \in freed
    BY <2>1 DEF EInv, Ends, Ending
  <2>3. \A p \in Created : Done(p)' <=> Done(p)
    BY <2>1, DoneStays
  <2>. QED BY <2>1, <2>2, <2>3 DEF Present, Created
<1>3. CASE FinishUnload
  <2>1. at["cpu"] = "fin_unload" /\ at'["cpu"] = "fin_free"
    BY <1>3, CpuGoes DEF FinishUnload, Before
  <2>. QED BY <2>1 DEF Present
<1>4. CASE FinishFree
  <2>1. /\ at["cpu"] = "fin_free" /\ at'["cpu"] = "fin_unlink"
        /\ freed' = freed \cup {cur} /\ cur = running
        /\ UNCHANGED <<processes_id, PC>>
    BY <1>4, CpuGoes
       DEF FinishFree, Before, createVars, CInv, InHand, HandLabel, UnlinkLabel
  <2>2. \A p \in Created : Done(p) => p \in freed'
    BY <2>1 DEF EInv, Ends
  <2>3. \A p \in Created : Done(p)' <=> Done(p)
    BY <2>1, DoneStays
  <2>. QED BY <2>1, <2>2, <2>3 DEF Present, Created
<1>5. CASE CreateProcess
  <2>1. at'["cpu"] = at["cpu"] /\ UNCHANGED <<present_bit, freed, PC, running, cur>>
    BY <1>5, UiGoes DEF CreateProcess, memVars, procVars, schedVars, localVars
  <2>2. /\ Created' = Created \cup {processes_id}
        /\ processes_id \in Proc /\ processes_id \notin Created
    BY <1>5, BoundAssumption DEF CreateProcess, Created, Proc, IInv, TypeOK,
       CreateTypeOK
  <2>3. \A p \in Created : Done(p)' <=> Done(p)
    BY <2>1, DoneStays
  <2>4. ASSUME NEW n, n = processes_id
        PROVE  ~Done(n)'
    <3>1. n \notin freed' /\ n # running'
      BY <1>0, <2>1, <2>2, <2>4, BoundAssumption
    <3>. QED BY <2>2, <2>4, <3>1 DEF Ends
  <2>. QED BY <2>1, <2>2, <2>3, <2>4 DEF Present
<1>6. CASE Exec \/ PSuccess \/ PFailure \/ VNoneWaiting \/ VHandOver
  <2>1. /\ at["cpu"] \in {"exec", "p", "v"}
        /\ UNCHANGED PC \/ NextPC
        /\ UNCHANGED <<processes_id, freed, present_bit>>
    BY <1>6 DEF Exec, PSuccess, PFailure, VNoneWaiting, VHandOver, Before, createVars,
       memVars
  <2>2. at'["cpu"] \notin {"exec", "p", "v"}
    BY <1>6, CpuGoes DEF Exec, PSuccess, PFailure, VNoneWaiting, VHandOver, Raise
  <2>3. \A p \in Created : p # cur => PC'[p] = PC[p]
    BY <1>0, <2>1 DEF NextPC, IInv, TypeOK, ProcTypeOK
  <2>4. \A p \in Created : p # cur => (Done(p)' <=> Done(p))
    BY <2>3, DoneStays
  <2>. QED BY <2>1, <2>2, <2>4 DEF Present, Created
<1>7. CASE ~Fetch /\ ~SwapUnload /\ ~FinishUnload /\ ~FinishFree /\ ~CreateProcess
           /\ ~Exec /\ ~PSuccess /\ ~PFailure /\ ~VNoneWaiting /\ ~VHandOver
  <2>1. UNCHANGED <<processes_id, PC, freed>>
    BY <1>7, CreatedStays, PCMoves, StepUnfinished DEF Unfinished
  <2>2. \A p \in Created : Done(p)' <=> Done(p)
    BY <2>1, DoneStays
  <2>3. \A p \in Created : present_bit[p] => present_bit'[p]
    <3>1. CASE LoadSegment
      BY <1>0, <3>1 DEF LoadSegment
    <3>. QED BY <1>7, <3>1, SegmentsStay
  <2>4. at'["cpu"] \in {"exec", "p", "v"} => UNCHANGED <<at["cpu"], cur>>
    <3>1. CASE UiNext \/ OsOnly
      BY <3>1, UiGoes
         DEF UiNext, Submission, CreateProcess, LinkPCB, MoveTail, Enqueue, Announce,
             Quit, OsOnly, localVars
    <3>2. CASE CpuStep
      BY <1>7, <3>2, NotToExecute
    <3>. QED BY <3>1, <3>2
  <2>5. at["cpu"] = "fin_free" => at'["cpu"] = "fin_free"
    <3>1. CASE UiNext \/ OsOnly
      BY <3>1, UiGoes
         DEF UiNext, Submission, CreateProcess, LinkPCB, MoveTail, Enqueue, Announce,
             Quit, OsOnly
    <3>2. CASE CpuStep
      BY <1>7, <3>2, UnlinkStep
         DEF CpuStep, Interrupt, IrqLock, IrqTest, IrqMark, IrqSchedule, IrqScheduled,
             IrqExit, MemoryNext, LoadStart, SwapChoose, LoadSegment, Spin, ClearFlag,
             Loop, FetchAbsent, PCharge, Exit, Finish, FinishWait, FinishSchedule,
             FinishPost, Before, UnlinkLabel
    <3>. QED BY <3>1, <3>2
  <2>6. at["cpu"] \in {"exec", "p", "v"} => cur \in Created
    BY CurLive DEF HandLabel, UnlinkLabel
  <2>. QED BY <2>1, <2>2, <2>3, <2>4, <2>5, <2>6 DEF Present, Created
<1>. QED BY <1>1, <1>2, <1>3, <1>4, <1>5, <1>6, <1>7

\* PagesCounted is kept: what is unloaded was loaded.
LEMMA StepPagesCounted ==
  ASSUME IInv, CInv, MInv, FInv, PInv, [Next]_vars, IInv'
  PROVE  PagesCounted'
<1>1. SwapUnload => present_bit[victim]
  BY DEF SwapUnload, Before, FInv, InMemory
<1>2. FinishUnload => present_bit[cur]
  <2>. SUFFICES ASSUME FinishUnload PROVE present_bit[cur]
    OBVIOUS
  <2>1. at["cpu"] = "fin_unload"
    BY DEF FinishUnload, Before
  <2>2. cur \in Created /\ cur \notin freed /\ Done(cur)
    BY <2>1, CurLive DEF HandLabel, CInv, Endings, UnlinkLabel
  <2>. QED BY <2>1, <2>2 DEF PInv, Present
<1>3. Balanced
  BY <1>1, <1>2, StepCounts
<1>4. /\ Cardinality(LoadedPages) \in Nat
      /\ num_free_pages \in Int /\ num_free_pages' \in Int /\ NUM_PAGES \in Nat
  BY FS_CardinalityType, ClockAssumption
     DEF MInv, AtLeastFree, IInv, TypeOK, MemTypeOK
<1>5. Cardinality(LoadedPages') \in Nat
  BY <1>3, FS_CardinalityType DEF Balanced
<1>. QED BY <1>5, <1>3, <1>4 DEF Balanced, PInv, PagesCounted

\* memory.h:51-52: of programs that only compute and end outside their critical
\* sections, no page is ever lost or counted free twice, whatever is swapped out.
THEOREM PagesAddUp ==
  ASSUME ComputesOnly, OwnSegments, EndsOutside
  PROVE  Spec => []FreePageCount
<1>1. ASSUME IInv, CInv, MInv, FInv, EInv, PInv, [Next]_vars, IInv', EInv'
      PROVE  PInv'
  <2>1. CpuStep \/ UiNext \/ OsOnly
    BY <1>1, Steps DEF CInv
  <2>2. Ends' /\ Present
    BY <1>1 DEF EInv, PInv
  <2>3. Present'
    BY <1>1, <2>1, <2>2, StepPresent
  <2>. QED BY <1>1, <2>3, StepPagesCounted DEF PInv
<1>2. Init => PInv
  <2>. SUFFICES ASSUME Init PROVE PInv
    OBVIOUS
  <2>1. Created = {}
    <3>1. processes_id = 0
      BY DEF Init
    <3>. QED BY <3>1 DEF Created
  <2>2. at["cpu"] = "spin" /\ num_free_pages = NUM_PAGES
    BY DEF Init, Thread
  <2>3. LoadedPages = {}
    BY <2>1 DEF LoadedPages
  <2>. QED BY <2>1, <2>2, <2>3, FS_EmptySet, ClockAssumption
           DEF PInv, Present, PagesCounted
<1>3. PInv => FreePageCount
  BY DEF PInv, PagesCounted, FreePageCount
<1>4. IInv /\ CInv /\ MInv /\ FInv /\ EInv /\ PInv /\ [Next]_vars /\ IInv' /\ EInv'
        => PInv'
  BY <1>1
<1>. QED BY SwapInvariant, EndsInvariant, <1>4, <1>2, <1>3, PTL DEF Spec

-----------------------------------------------------------------------------
(* When all the programs fit in the memory together. *)

\* Then each does.
LEMMA AllFitEach ==
  ASSUME AllFit
  PROVE  EachFits
<1>. SUFFICES ASSUME NEW f \in File PROVE Pages[f] <= NUM_PAGES
  BY DEF EachFits
<1>1. Pages[f] \in Nat
  BY FileAssumption
<1>2. IsFiniteSet(1..Pages[f]) /\ Cardinality(1..Pages[f]) = Pages[f]
  <2>1. PICK n : n = Pages[f]
    OBVIOUS
  <2>2. 1 \in Int /\ n \in Int /\ n >= 0
    BY <1>1, <2>1
  <2>3. /\ IsFiniteSet(1..n)
        /\ Cardinality(1..n) = IF 1 > n THEN 0 ELSE n - 1 + 1
    BY <2>2, FS_Interval
  <2>. QED BY <2>1, <2>2, <2>3
<1>3. IsFiniteSet({f}) /\ Cardinality({f}) = 1
  BY FS_Singleton
<1>4. Cardinality({f} \X (1..Pages[f])) = Cardinality({f}) * Cardinality(1..Pages[f])
  BY <1>2, <1>3, FS_Product
<1>5. {f} \X (1..Pages[f]) \in SUBSET AllPages
  BY DEF AllPages
<1>6. Cardinality({f} \X (1..Pages[f])) <= Cardinality(AllPages)
  BY <1>5, FS_Subset DEF AllFit
<1>7. Cardinality(AllPages) \in Nat
  BY FS_CardinalityType DEF AllFit
<1>. QED BY <1>1, <1>2, <1>3, <1>4, <1>6, <1>7, ClockAssumption DEF AllFit

\* And whoever has to be loaded finds room: the pages that are loaded and his own are
\* pages of different files.
LEMMA FitsTogether ==
  ASSUME AllFit, IInv, MInv, at["cpu"] = "swap"
  PROVE  ~NotEnoughSpace
<1>1. cur \in Created /\ ~present_bit[cur]
  BY CurCreated DEF HasProcess, MemoryLabel, MInv, LoadsAbsent
<1>2. LoadedPages \cap SegmentPages(cur) = {}
  BY <1>1 DEF LoadedPages, SegmentPages
<1>3. PICK U : U = LoadedPages \cup SegmentPages(cur)
  OBVIOUS
<1>4. IsFiniteSet(U) /\ Cardinality(U) = Cardinality(LoadedPages) + PagesOf(cur)
  BY <1>1, <1>2, <1>3, AddSegment DEF IInv, TypeOK, MInv, AtLeastFree
<1>5. \A x \in U : \E p \in Created, i \in Int : i \in 1..PagesOf(p) /\ x = <<p, i>>
  BY <1>1, <1>3 DEF LoadedPages, SegmentPages
<1>. DEFINE page(x) == <<file[x[1]], x[2]>>
            pages == [x \in U |-> page(x)]
<1>6. ASSUME NEW x \in U
      PROVE  page(x) \in AllPages
  <2>1. PICK p \in Created, i \in Int : i \in 1..PagesOf(p) /\ x = <<p, i>>
    BY <1>5
  <2>2. file[p] \in File
    BY DEF IInv, TypeOK, CreateTypeOK
  <2>. QED BY <2>1, <2>2 DEF AllPages, PagesOf
<1>7. ASSUME NEW x \in U, NEW y \in U, page(x) = page(y)
      PROVE  x = y
  <2>1. PICK p \in Created, i \in Int : i \in 1..PagesOf(p) /\ x = <<p, i>>
    BY <1>5
  <2>2. PICK q \in Created, j \in Int : j \in 1..PagesOf(q) /\ y = <<q, j>>
    BY <1>5
  <2>3. file[p] = file[q] /\ i = j
    BY <1>7, <2>1, <2>2
  <2>. QED BY <2>1, <2>2, <2>3 DEF MInv, OwnFiles
<1>8. pages \in [U -> AllPages] /\ \A x \in U : pages[x] = page(x)
  BY <1>6
<1>. HIDE DEF page, pages
<1>9. pages \in Injection(U, AllPages)
  BY <1>7, <1>8 DEF Injection, IsInjective
<1>10. Cardinality(U) <= Cardinality(AllPages)
  BY <1>9, FS_Injection DEF AllFit
<1>11. /\ Cardinality(LoadedPages) \in Nat /\ Cardinality(AllPages) \in Nat
       /\ PagesOf(cur) \in Nat /\ num_free_pages \in Int
  BY <1>1, CreatedProc, FS_CardinalityType
     DEF AllFit, MInv, AtLeastFree, IInv, TypeOK, MemTypeOK
<1>. QED BY <1>4, <1>10, <1>11, ClockAssumption
         DEF AllFit, NotEnoughSpace, MInv, AtLeastFree

\* main.c: programs that only compute and fit in the memory together never make the
\* kernel use a NULL or freed pointer but in list.c, where push and delete_list meet on
\* PCB, however the user's submissions fall between the steps of the CPU thread.
THEOREM OnlyPCBFaults ==
  ASSUME ComputesOnly, OwnSegments, AllFit
  PROVE  Spec => []FaultsOnlyInPCB
<1>1. IInv /\ CInv /\ MInv /\ FInv => FaultsOnlyInPCB
  BY AllFitEach, UndefinedForMemory, FitsTogether DEF FaultsOnlyInPCB
<1>. QED BY SwapInvariant, <1>1, PTL

-----------------------------------------------------------------------------
(* The status of the processes. *)

\* From a dispatch to the next interruption, or to the end of the process.
RunLabel ==
  {"spin", "clear_flag", "loop", "fetch", "exec", "p", "p_charge", "v", "exit",
   "irq_scheduled", "irq_exit", "fin_post"}

\* A status says in which list its process is, or that it runs; create_process gives the
\* first one.
Statuses ==
  /\ \A p \in ToSet(ready) : status[p] = "READY"
  /\ \A s \in Sem : \A p \in WaitingFor(s) : p # running => status[p] = "WAITING"
  /\ \A p \in Proc : p \notin Created \/ Pending(p) => status[p] = "READY"
  /\ running # NULL /\ at["cpu"] \in RunLabel => status[running] = "RUNNING"

\* A step that moves nobody, and swaps nobody out, gives a status to no process but the
\* running one.
LEMMA StatusStays ==
  ASSUME IInv, CInv, CpuStep \/ UiNext \/ OsOnly, ~Moves, ~SwapChoose, ~SwapUnload
  PROVE  /\ \A p \in Proc : p # running => status'[p] = status[p]
         /\ at'["cpu"] \in RunLabel => at["cpu"] \in RunLabel /\ status' = status
<1>. USE DEF RunLabel, Before, procVars
<1>0. /\ status \in [Proc -> Status]
      /\ at["cpu"] \in HandLabel => running = cur
  BY DEF IInv, TypeOK, ProcTypeOK, CInv, InHand
<1>1. CASE IrqLock("cpu") \/ IrqTest("cpu") \/ IrqMark("cpu")
  BY <1>0, <1>1, CpuGoes DEF IrqLock, IrqTest, IrqMark
<1>2. CASE IrqScheduled("cpu") \/ IrqExit("cpu")
  BY <1>2, CpuGoes DEF IrqScheduled, IrqExit
<1>3. CASE LoadStart
  BY <1>0, <1>3, CpuGoes DEF LoadStart, HandLabel, UnlinkLabel, MemoryLabel
<1>4. CASE LoadSegment \/ Spin \/ ClearFlag \/ Loop \/ FetchAbsent \/ Fetch
  BY <1>4, CpuGoes DEF LoadSegment, Spin, ClearFlag, Loop, FetchAbsent, Fetch, Raise
<1>5. CASE Exec \/ PSuccess \/ PCharge \/ VNoneWaiting
  BY <1>5, CpuGoes DEF Exec, PSuccess, PCharge, VNoneWaiting
<1>6. CASE Exit \/ Finish \/ Unlinking \/ FinishPost
  BY <1>6, CpuGoes, UnlinkStep DEF Exit, Finish, FinishPost, Raise, UnlinkLabel
<1>7. CASE FinishWait \/ FinishUnload
  BY <1>0, <1>7, CpuGoes DEF FinishWait, FinishUnload, HandLabel, UnlinkLabel
<1>8. CASE LinkPCB \/ MoveTail \/ Announce \/ Quit
  BY <1>8, UiGoes DEF LinkPCB, MoveTail, Announce, Quit
<1>9. CASE OsOnly
  BY <1>9 DEF OsOnly
<1>. QED BY <1>1, <1>2, <1>3, <1>4, <1>5, <1>6, <1>7, <1>8, <1>9
            DEF CpuStep, Interrupt, MemoryNext, UiNext, Submission, Moves

\* Statuses is kept by them.
LEMMA StatusesStay ==
  ASSUME IInv, CInv, Statuses, CpuStep \/ UiNext \/ OsOnly, ~Moves, ~SwapChoose,
         ~SwapUnload
  PROVE  Statuses'
<1>1. StayPut
  BY Stays
<1>2. /\ \A p \in Proc : p # running => status'[p] = status[p]
      /\ at'["cpu"] \in RunLabel => at["cpu"] \in RunLabel /\ status' = status
  BY StatusStays
<1>3. UNCHANGED <<running, ready, processes_waiting, processes_id>>
  BY <1>1 DEF StayPut
<1>4. \A s \in Sem : WaitingFor(s)' = WaitingFor(s)
  BY <1>3 DEF WaitingFor
<1>5. /\ Created' = Created
      /\ \A p : Pending(p)' <=> Pending(p)
  BY <1>1, <1>3 DEF StayPut, Created, Pending, NewProcess
<1>6. Created \subseteq Proc
  BY CreatedProc DEF IInv, TypeOK
<1>7. running \notin ToSet(ready)
  BY DEF CInv, Places, RunningApart, UnlinkLabel
<1>8. \A p \in Proc : p \notin Created \/ Pending(p) => p # running
  BY CreatedProc, BoundAssumption
     DEF CInv, Places, OthersApart, IInv, TypeOK, SchedTypeOK
<1>9. \A p \in ToSet(ready') : status'[p] = "READY"
  BY <1>2, <1>3, <1>6, <1>7, QueuedCreated DEF Statuses
<1>10. \A s \in Sem : \A p \in WaitingFor(s)' : p # running' => status'[p] = "WAITING"
  BY <1>2, <1>3, <1>4, <1>6, QueuedCreated DEF Statuses
<1>11. \A p \in Proc : p \notin Created' \/ Pending(p)' => status'[p] = "READY"
  BY <1>2, <1>5, <1>8 DEF Statuses
<1>12. running' # NULL /\ at'["cpu"] \in RunLabel => status'[running'] = "RUNNING"
  BY <1>2, <1>3 DEF Statuses
<1>. QED BY <1>9, <1>10, <1>11, <1>12 DEF Statuses

\* Statuses is kept by forward_scheduling: whoever leaves the processor goes back to the
\* ready list, or has been queued on a semaphore, or is finished.
LEMMA StatusesDispatch ==
  ASSUME IInv, CInv, Statuses, Dispatched, at'["ui"] = at["ui"],
         UNCHANGED <<processes_waiting, processes_id>>,
         running \in Able => status[running] = "READY",
         Blocks /\ running # NULL => status[running] = "WAITING"
  PROVE  Statuses'
<1>1. /\ \A s \in Sem : WaitingFor(s)' = WaitingFor(s)
      /\ Created' = Created
      /\ \A p : Pending(p)' <=> Pending(p)
  BY DEF WaitingFor, Created, Pending, NewProcess, Submitting
<1>2. /\ status \in [Proc -> Status] /\ Created \subseteq Proc /\ NULL \notin Proc
      /\ running \in Created \cup {NULL}
  BY CreatedProc, BoundAssumption DEF IInv, TypeOK, ProcTypeOK, SchedTypeOK
<1>3. /\ Able \subseteq ToSet(ready) \cup {running} /\ ToSet(ready) \subseteq Created
      /\ Able \subseteq Created
  BY <1>2, QueuedCreated DEF Able, StillReady
<1>4. \A p \in Able : status[p] = "READY"
  BY <1>3 DEF Statuses
<1>5. \A p \in Able : ~Pending(p)
  BY <1>3 DEF CInv, Places, OthersApart, Queued
<1>6. \A s \in Sem : \A p \in WaitingFor(s) : p \in Created /\ status[p] = "WAITING"
  <2>. SUFFICES ASSUME NEW s \in Sem, NEW p \in WaitingFor(s)
                PROVE  p \in Created /\ status[p] = "WAITING"
    OBVIOUS
  <2>1. p \in Created /\ p # NULL
    BY <1>2, QueuedCreated
  <2>2. CASE p = running
    BY <2>1, <2>2 DEF CInv, Places, RunningApart, UnlinkLabel
  <2>. QED BY <2>1, <2>2 DEF Statuses
<1>7. /\ running' \in Able \cup {NULL}
      /\ ToSet(ready') \subseteq Able \ {running'}
      /\ \A p \in Proc : p # running' => status'[p] = status[p]
      /\ running' # NULL => status'[running'] = "RUNNING"
  BY <1>2, <1>3 DEF Dispatched
<1>8. \A p \in ToSet(ready') : status'[p] = "READY"
  BY <1>2, <1>3, <1>4, <1>7
<1>9. \A s \in Sem : \A p \in WaitingFor(s)' : p # running' => status'[p] = "WAITING"
  BY <1>1, <1>2, <1>6, <1>7
<1>10. \A p \in Proc : p \notin Created' \/ Pending(p)' => status'[p] = "READY"
  <2>. SUFFICES ASSUME NEW p \in Proc, p \notin Created \/ Pending(p)
                PROVE  status'[p] = "READY"
    BY <1>1
  <2>1. p # running' /\ status[p] = "READY"
    BY <1>2, <1>3, <1>5, <1>7 DEF Statuses
  <2>. QED BY <1>7, <2>1
<1>. QED BY <1>7, <1>8, <1>9, <1>10 DEF Statuses

\* Statuses is kept by the other steps that move a process.
LEMMA StatusesMove ==
  ASSUME IInv, CInv, Statuses, CreateProcess \/ Enqueue \/ PFailure \/ FinishFree
  PROVE  Statuses'
<1>0. /\ status \in [Proc -> Status] /\ Created \subseteq Proc
      /\ running \in Created \cup {NULL} /\ NULL \notin Proc
      /\ running \notin ToSet(ready)
  BY CreatedProc, BoundAssumption
     DEF IInv, TypeOK, ProcTypeOK, SchedTypeOK, CInv, Places, RunningApart, UnlinkLabel
<1>1. CASE CreateProcess
  <2>1. /\ Created \subseteq Created' /\ NewProcess' = processes_id
        /\ processes_id \in Proc /\ processes_id \notin Created
    BY <1>1, BoundAssumption
       DEF CreateProcess, Created, Proc, NewProcess, IInv, TypeOK, CreateTypeOK
  <2>2. /\ UNCHANGED <<running, ready, status, processes_waiting>>
        /\ at'["cpu"] = at["cpu"]
    BY <1>1, UiGoes DEF CreateProcess, schedVars, procVars, semVars
  <2>3. \A p \in Proc : p \notin Created' \/ Pending(p)' => p \notin Created
    BY <2>1 DEF Pending
  <2>. QED BY <2>2, <2>3 DEF Statuses, WaitingFor
<1>2. CASE Enqueue
  <2>1. NewProcess \in Created /\ Pending(NewProcess)
    BY <1>2, NewProcessType DEF Enqueue, Before, Pending, Submitting
  <2>2. status[NewProcess] = "READY"
    BY <1>0, <2>1 DEF Statuses
  <2>3. ToSet(ready') = ToSet(ready) \cup {NewProcess}
    BY <1>2, <2>1, AddSet DEF Enqueue, IInv, TypeOK, SchedTypeOK
  <2>4. /\ UNCHANGED <<running, status, processes_waiting, processes_id>>
        /\ at'["cpu"] = at["cpu"] /\ ~Submitting'
    BY <1>2, UiGoes DEF Enqueue, createVars, procVars, semVars, Submitting
  <2>. QED BY <2>2, <2>3, <2>4 DEF Statuses, WaitingFor, Created, Pending
<1>3. CASE PFailure
  <2>1. Instr.semaphore \in Sem
    BY <1>3, InstrSem DEF PFailure, Before
  <2>2. /\ UNCHANGED <<running, ready, status, processes_id>>
        /\ at'["cpu"] = "irq_lock" /\ at'["ui"] = at["ui"]
    BY <1>3, CpuGoes DEF PFailure, Raise, schedVars, createVars
  <2>3. \A s \in Sem : WaitingFor(s)' \subseteq WaitingFor(s) \cup {running}
    <3>. SUFFICES ASSUME NEW s \in Sem
                  PROVE  WaitingFor(s)' \subseteq WaitingFor(s) \cup {running}
      OBVIOUS
    <3>1. processes_waiting[s] \in Seq(Created \cup {NULL})
      BY DEF IInv, TypeOK, SemTypeOK
    <3>2. processes_waiting'[s] = IF s = Instr.semaphore
                                 THEN Append(processes_waiting[s], running)
                                 ELSE processes_waiting[s]
      BY <1>3, <2>1 DEF PFailure, IInv, TypeOK, SemTypeOK
    <3>3. ToSet(Append(processes_waiting[s], running)) =
            ToSet(processes_waiting[s]) \cup {running}
      BY <1>0, <3>1, AppendSet
    <3>. QED BY <3>2, <3>3 DEF WaitingFor
  <2>4. \A p : Pending(p)' <=> Pending(p)
    BY <2>2 DEF Pending, NewProcess, Submitting
  <2>. QED BY <2>2, <2>3, <2>4 DEF Statuses, RunLabel, Created
<1>4. CASE FinishFree
  <2>1. cur = running /\ cur \in Created
    BY <1>4, CurLive DEF FinishFree, Before, HandLabel, UnlinkLabel, CInv, InHand
  <2>2. /\ UNCHANGED <<running, ready, processes_waiting, processes_id>>
        /\ status' = [status EXCEPT ![cur] = "FINISHED"]
        /\ at'["cpu"] = "fin_unlink" /\ at'["ui"] = at["ui"]
    BY <1>4, CpuGoes DEF FinishFree, schedVars, createVars, semVars
  <2>3. \A p \in Proc : p # running => status'[p] = status[p]
    BY <1>0, <2>1, <2>2
  <2>4. \A p : Pending(p)' <=> Pending(p)
    BY <2>2 DEF Pending, NewProcess, Submitting
  <2>5. ~Pending(running) /\ running \in Created
    BY <2>1 DEF CInv, Places, OthersApart
  <2>6. \A p \in ToSet(ready') : status'[p] = "READY"
    BY <1>0, <2>2, <2>3, QueuedCreated DEF Statuses
  <2>7. \A s \in Sem : \A p \in WaitingFor(s)' : p # running' => status'[p] = "WAITING"
    BY <1>0, <2>2, <2>3, QueuedCreated DEF Statuses, WaitingFor
  <2>8. \A p \in Proc : p \notin Created' \/ Pending(p)' => status'[p] = "READY"
    BY <2>2, <2>3, <2>4, <2>5 DEF Statuses, Created
  <2>. QED BY <2>2, <2>6, <2>7, <2>8 DEF Statuses, RunLabel
<1>. QED BY <1>1, <1>2, <1>3, <1>4

\* Statuses is kept by V, which makes the process it takes from the list ready.
LEMMA StatusesVHandOver ==
  ASSUME IInv, CInv, Statuses, VHandOver
  PROVE  Statuses'
<1>1. PICK w, s : w = Waiter /\ s = Instr.semaphore
  OBVIOUS
<1>2. /\ s \in Sem /\ w \in Created /\ w \in WaitingFor(s)
      /\ processes_waiting[s] \in Seq(Created \cup {NULL})
      /\ processes_waiting[s] # <<>>
      /\ w = Head(processes_waiting[s]) /\ IsInjective(processes_waiting[s])
  BY <1>1, WaiterQueued DEF Waiter, CInv, Places, Apart
<1>3. /\ UNCHANGED <<running, processes_id>> /\ at'["ui"] = at["ui"]
      /\ at["cpu"] = "v" /\ at'["cpu"] = "loop"
  BY CpuGoes DEF VHandOver, Before, createVars
<1>4. w # running /\ ~Pending(w)
  BY <1>2, <1>3 DEF CInv, Places, RunningApart, UnlinkLabel, OthersApart, Queued, Blocks
<1>5. ToSet(ready') = ToSet(ready) \cup {w}
  BY <1>1, <1>2, AddSet DEF VHandOver, IInv, TypeOK, SchedTypeOK
<1>6. /\ status \in [Proc -> Status] /\ Created \subseteq Proc
      /\ running \in Created \cup {NULL}
  BY CreatedProc DEF IInv, TypeOK, ProcTypeOK, SchedTypeOK
<1>7. status'[w] = "READY" /\ \A p \in Proc : p # w => status'[p] = status[p]
  BY <1>1, <1>2, <1>6 DEF VHandOver
<1>8. /\ processes_waiting'[s] = Tail(processes_waiting[s])
      /\ \A t \in Sem \ {s} : processes_waiting'[t] = processes_waiting[t]
  BY <1>1, <1>2 DEF VHandOver, IInv, TypeOK, SemTypeOK
<1>9. WaitingFor(s)' = WaitingFor(s) \ {w}
  BY <1>2, <1>8, TailSet DEF WaitingFor
<1>10. \A t \in Sem : WaitingFor(t)' \subseteq WaitingFor(t) \ {w}
  <2>. SUFFICES ASSUME NEW t \in Sem, t # s
                PROVE  WaitingFor(t)' \subseteq WaitingFor(t) \ {w}
    BY <1>9
  <2>1. w \notin WaitingFor(t)
    BY <1>2 DEF CInv, Places, Apart
  <2>. QED BY <1>8, <2>1 DEF WaitingFor
<1>11. \A p : Pending(p)' <=> Pending(p)
  BY <1>3 DEF Pending, NewProcess, Submitting
<1>12. \A p \in ToSet(ready') : status'[p] = "READY"
  BY <1>5, <1>6, <1>7, QueuedCreated DEF Statuses
<1>13. \A t \in Sem : \A p \in WaitingFor(t)' : p # running' => status'[p] = "WAITING"
  BY <1>3, <1>6, <1>7, <1>10, QueuedCreated DEF Statuses
<1>14. \A p \in Proc : p \notin Created' \/ Pending(p)' => status'[p] = "READY"
  BY <1>3, <1>7, <1>11 DEF Statuses, Created
<1>15. running' # NULL => status'[running'] = "RUNNING"
  BY <1>3, <1>4, <1>6, <1>7 DEF Statuses, RunLabel
<1>. QED BY <1>12, <1>13, <1>14, <1>15 DEF Statuses

\* Statuses is kept as long as nobody is swapped out.
LEMMA StepStatuses ==
  ASSUME IInv, CInv, Statuses, CpuStep \/ UiNext \/ OsOnly, ~SwapChoose, ~SwapUnload
  PROVE  Statuses'
<1>1. CASE IrqSchedule("cpu")
  <2>1. /\ forward_scheduling /\ at["cpu"] = "irq_sched" /\ at'["ui"] = at["ui"]
        /\ UNCHANGED <<processes_waiting, processes_id>>
    BY <1>1, CpuGoes DEF IrqSchedule, Before, semVars, createVars
  <2>2. Blocks <=> irq = "SEMAPHORE"
    BY <2>1 DEF Blocks
  <2>3. /\ running \in Able => running # NULL /\ ~Blocks
        /\ running # NULL => status[running] = IF Blocks THEN "WAITING" ELSE "READY"
    BY <1>1, <2>1, <2>2, AbleInterrupted DEF CInv, InHand
  <2>4. Dispatched
    BY <2>1, SchedulingSets DEF CInv
  <2>. QED BY <2>1, <2>3, <2>4, StatusesDispatch
<1>2. CASE FinishSchedule
  <2>1. /\ forward_scheduling /\ at["cpu"] = "fin_sched" /\ at'["ui"] = at["ui"]
        /\ UNCHANGED <<processes_waiting, processes_id>>
    BY <1>2, CpuGoes DEF FinishSchedule, Before, semVars, createVars
  <2>2. running \notin Able /\ ~Blocks
    BY <1>2, <2>1, UnableFinished
       DEF CInv, InHand, HandLabel, Endings, UnlinkLabel, Blocks
  <2>3. Dispatched
    BY <2>1, SchedulingSets DEF CInv
  <2>. QED BY <2>1, <2>2, <2>3, StatusesDispatch
<1>. QED BY <1>1, <1>2, StatusesStay, StatusesMove, StatusesVHandOver DEF Moves

\* Whoever is blocked is in the list of a semaphore, and does not run.
LEMMA BlockedWaits ==
  ASSUME IInv, CInv, ~Blocks, NEW p, Blocked(p)
  PROVE  p # running /\ \E s \in Sem : p \in WaitingFor(s)
<1>1. RequestsOf(disk_requests, p) = {} /\ RequestsOf(print_requests, p) = {}
  BY DEF RequestsOf, CInv, DevicesIdle
<1>2. PICK s \in Sem : Contains(processes_waiting[s], p)
  BY <1>1 DEF Blocked
<1>3. p \in WaitingFor(s)
  BY <1>2, ContainsElements DEF IInv, TypeOK, SemTypeOK, WaitingFor
<1>. QED BY <1>3 DEF CInv, Places, RunningApart, UnlinkLabel

\* Nobody is being swapped out.
SwapsNobody == at["cpu"] # "swap_unload"

\* Only the choice of a victim leads there.
LEMMA StepSwapsNobody ==
  ASSUME IInv, CInv, SwapsNobody, CpuStep \/ UiNext \/ OsOnly, ~SwapChoose
  PROVE  SwapsNobody'
<1>. USE DEF SwapsNobody
<1>1. CASE Interrupt("cpu")
  <2>1. Return("cpu") # "swap_unload"
    BY DEF Return, Type, IInv, TypeOK, ControlTypeOK, CpuInterruption, INTERRUPTION_TYPE
  <2>. QED BY <1>1, <2>1, CpuGoes DEF Interrupt, IrqLock, IrqTest, IrqMark, IrqSchedule,
              IrqScheduled, IrqExit
<1>2. CASE LoadStart \/ SwapUnload \/ LoadSegment
  BY <1>2, CpuGoes DEF LoadStart, SwapUnload, LoadSegment, Raise
<1>3. CASE Spin \/ ClearFlag \/ Loop \/ FetchAbsent \/ Fetch \/ Exec
  BY <1>3, CpuGoes DEF Spin, ClearFlag, Loop, FetchAbsent, Fetch, Exec, Raise
<1>4. CASE PSuccess \/ PFailure \/ PCharge \/ VNoneWaiting \/ VHandOver
  BY <1>4, CpuGoes DEF PSuccess, PFailure, PCharge, VNoneWaiting, VHandOver, Raise
<1>5. CASE Exit \/ Finish \/ FinishWait \/ FinishUnload
  BY <1>5, CpuGoes DEF Exit, Finish, FinishWait, FinishUnload, Raise
<1>6. CASE FinishFree \/ Unlinking \/ FinishSchedule \/ FinishPost
  BY <1>6, CpuGoes, UnlinkStep DEF FinishFree, FinishSchedule, FinishPost, UnlinkLabel
<1>7. CASE UiNext \/ OsOnly
  BY <1>7, UiGoes
     DEF UiNext, Submission, CreateProcess, LinkPCB, MoveTail, Enqueue, Announce, Quit,
         OsOnly
<1>. QED BY <1>1, <1>2, <1>3, <1>4, <1>5, <1>6, <1>7 DEF CpuStep, MemoryNext

\* cpu.h:65-67, process.h:12-13: of programs that only compute and fit in the memory
\* together, the status says where the process is whenever no thread is moving one.
THEOREM StatusesAgree ==
  ASSUME ComputesOnly, OwnSegments, AllFit
  PROVE  Spec => []StatusAgrees
<1>1. ASSUME IInv, CInv, MInv, SwapsNobody, Statuses, [Next]_vars
      PROVE  SwapsNobody' /\ Statuses'
  <2>1. ~SwapChoose /\ ~SwapUnload
    BY <1>1, FitsTogether DEF SwapChoose, SwapUnload, SwapsNobody, Before
  <2>2. CpuStep \/ UiNext \/ OsOnly
    BY <1>1, Steps DEF CInv
  <2>. QED BY <1>1, <2>1, <2>2, StepSwapsNobody, StepStatuses
<1>2. IInv /\ CInv /\ MInv /\ SwapsNobody /\ Statuses /\ [Next]_vars
        => SwapsNobody' /\ Statuses'
  BY <1>1
<1>3. Init => SwapsNobody /\ Statuses
  <2>. SUFFICES ASSUME Init PROVE SwapsNobody /\ Statuses
    OBVIOUS
  <2>1. ToSet(<<>>) = {} /\ at["cpu"] = "spin"
    BY DEF Init, Thread, ToSet
  <2>. QED BY <2>1 DEF Init, SwapsNobody, Statuses, WaitingFor
<1>4. ASSUME IInv, CInv, Statuses
      PROVE  StatusAgrees
  <2>. SUFFICES ASSUME Quiet, NEW p \in Created
                PROVE  /\ running = p => status[p] = "RUNNING"
                       /\ Contains(ready, p) => status[p] = "READY"
                       /\ Blocked(p) => status[p] = "WAITING"
    BY DEF StatusAgrees
  <2>1. at["cpu"] \in RunLabel /\ ~Blocks
    BY DEF Quiet, RunLabel, Blocks
  <2>2. running = p => status[p] = "RUNNING"
    BY <1>4, <2>1, QueuedCreated DEF Statuses
  <2>3. Contains(ready, p) => status[p] = "READY"
    BY <1>4, ContainsElements DEF Statuses, IInv, TypeOK, SchedTypeOK
  <2>4. Blocked(p) => status[p] = "WAITING"
    BY <1>4, <2>1, BlockedWaits DEF Statuses
  <2>. QED BY <2>2, <2>3, <2>4
<1>5. IInv /\ CInv /\ Statuses => StatusAgrees
  BY <1>4
<1>. QED BY SwapInvariant, <1>2, <1>3, <1>5, PTL DEF Spec

=============================================================================
