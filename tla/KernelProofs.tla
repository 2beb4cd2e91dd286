---------------------------- MODULE KernelProofs ----------------------------
(***************************************************************************)
(* What holds of the kernel whatever the programs do, for every set of     *)
(* program files, number of processes and value of the other constants.    *)
(*                                                                         *)
(* The types.  TypeOK is not inductive alone: that a list of requests      *)
(* holds only requests of existing instructions, say, needs what the CPU   *)
(* thread knows between its steps about the process it has in hand.  That  *)
(* is LocalsOK.                                                            *)
(*                                                                         *)
(* The host semaphores: each is 0 exactly while one thread is in a section *)
(* it guards, and the threads are never all held up by one another.        *)
(* HostLocks is inductive on top of the types: a thread enters a section   *)
(* only where it takes the semaphore, leaves it only where it posts it,    *)
(* and every other step keeps the thread on the side where it was.         *)
(*                                                                         *)
(* The ready list is in the order of priority.  Four threads insert into   *)
(* it and one deletes from it, but it only ever changes in the three ways  *)
(* of ReadyChange, and each of them keeps a sorted list sorted; the        *)
(* priority of a process never changes.                                    *)
(*                                                                         *)
(* The disk's requests are in the order of their tracks.  disk_sweep reads *)
(* the next request with no semaphore, while the CPU thread may be         *)
(* inserting one.  What saves it is that the list is always in that order, *)
(* so that the request read then lies ahead of the arm, and that nothing   *)
(* changes the track of a request.                                         *)
(***************************************************************************)
EXTENDS AlienOS, ListsProofs

\* The inductive invariant.
IInv == TypeOK /\ LocalsOK

-----------------------------------------------------------------------------
(* Created processes and their files. *)

\* A process that exists has an id, and a file with code, priority and pages.
LEMMA CreatedProc ==
  ASSUME CreateTypeOK
  PROVE  /\ Created \subseteq Proc
         /\ NULL \notin Created
         /\ \A p \in Created : /\ CodeOf(p) \in Seq(Instruction)
                               /\ Prio(p) \in Nat \ {0}
                               /\ PagesOf(p) \in Nat
  BY BoundAssumption, FileAssumption DEF CreateTypeOK, Created, Proc, CodeOf, Prio,
      PagesOf

\* add_process_scheduler adds a process that exists to a list of such processes.
LEMMA AddProcessType ==
  ASSUME CreateTypeOK, NEW q \in Seq(Created), NEW p \in Created
  PROVE  add_process_scheduler(q, p) \in Seq(Created)
<1>. DEFINE later == {i \in DOMAIN q : Prio(q[i]) > Prio(p)}
<1>1. later \in SUBSET (1..Len(q))
  BY LenProperties
<1>2. add_process_scheduler(q, p) = InsertBeforeFirst(q, p, later)
  BY DEF add_process_scheduler
<1>. HIDE DEF later
<1>. QED BY <1>1, <1>2, InsertBeforeFirstType

\* forward_scheduling keeps the types of all it writes.
LEMMA SchedulingType ==
  ASSUME SchedTypeOK, CreateTypeOK, ProcTypeOK, forward_scheduling
  PROVE  /\ running' \in Created \cup {NULL}
         /\ ready' \in Seq(Created)
         /\ status' \in [Proc -> Status]
         /\ remaining_time' \in [Proc -> Int]
<1>1. Candidates \in Seq(Created)
  BY AddProcessType DEF Candidates, StillReady, SchedTypeOK
<1>2. CASE NoneToSchedule
  BY <1>2, EmptySeq DEF NoneToSchedule, ProcTypeOK
<1>3. CASE ScheduleFirst
  <2>1. PICK h : h = Head(Candidates)
    OBVIOUS
  <2>2. h \in Created /\ Tail(Candidates) \in Seq(Created)
    BY <1>1, <1>3, <2>1, HeadTailProperties DEF ScheduleFirst
  <2>3. Prio(h) \in Nat /\ Prio(h) > 0
    BY <2>2, CreatedProc
  <2>4. QUANTUM_TIME_TOTAL \div Prio(h) \in Int
    BY <2>3, ClockAssumption
  <2>. QED BY <1>3, <2>1, <2>2, <2>4 DEF ScheduleFirst, ProcTypeOK, Status
<1>. QED BY <1>2, <1>3 DEF forward_scheduling

\* What a step leaves alone keeps its type.
LEMMA Frames ==
  ASSUME TypeOK, UNCHANGED <<processes_id, file>>
  PROVE  /\ UNCHANGED schedVars => SchedTypeOK'
         /\ UNCHANGED <<PCB, PCB_tail, behind>> => CreateTypeOK'
         /\ UNCHANGED procVars => ProcTypeOK'
         /\ UNCHANGED semVars => SemTypeOK'
         /\ UNCHANGED memVars => MemTypeOK'
         /\ UNCHANGED ioVars => IOTypeOK'
         /\ UNCHANGED lockVars => LockTypeOK'
<1>. USE DEF TypeOK, Created, schedVars, procVars, semVars, memVars, ioVars, diskVars,
     printVars, lockVars
<1>1. UNCHANGED schedVars => SchedTypeOK'
  BY DEF SchedTypeOK
<1>2. UNCHANGED <<PCB, PCB_tail, behind>> => CreateTypeOK'
  BY DEF CreateTypeOK
<1>3. UNCHANGED procVars => ProcTypeOK'
  BY DEF ProcTypeOK
<1>4. UNCHANGED semVars => SemTypeOK'
  BY DEF SemTypeOK
<1>5. UNCHANGED memVars => MemTypeOK'
  BY DEF MemTypeOK
<1>6. UNCHANGED ioVars => IOTypeOK'
  BY DEF IOTypeOK, IORequest, CodeOf
<1>7. UNCHANGED lockVars => LockTypeOK'
  BY DEF LockTypeOK
<1>. QED BY <1>1, <1>2, <1>3, <1>4, <1>5, <1>6, <1>7

-----------------------------------------------------------------------------
(* Operators. *)

\* Head and Tail of a list that is not empty.
LEMMA HeadTailType ==
  ASSUME NEW S, NEW q \in Seq(S), q # <<>>
  PROVE  Head(q) \in S /\ Tail(q) \in Seq(S)
  BY HeadTailProperties

\* push.
LEMMA AppendType ==
  ASSUME NEW S, NEW q \in Seq(S), NEW x \in S
  PROVE  Append(q, x) \in Seq(S)
  BY AppendProperties

\* process->PC++.
LEMMA NextPCType ==
  ASSUME ProcTypeOK, NextPC, cur \in Proc
  PROVE  PC' \in [Proc -> Nat]
  BY DEF ProcTypeOK, NextPC

\* add_disk_request adds a request to a list of requests.
LEMMA AddDiskType ==
  ASSUME NEW q \in Seq(IORequest), NEW r \in IORequest
  PROVE  add_disk_request(q, r) \in Seq(IORequest)
<1>. DEFINE later == {i \in DOMAIN q : Track(q[i]) > Track(r)}
<1>1. later \in SUBSET (1..Len(q))
  BY LenProperties
<1>2. add_disk_request(q, r) = InsertBeforeFirst(q, r, later)
  BY DEF add_disk_request
<1>. HIDE DEF later
<1>. QED BY <1>1, <1>2, InsertBeforeFirstType

\* The next request of a sweep.
LEMMA SuccessorType ==
  ASSUME IOTypeOK, NEW r
  PROVE  Successor(r) \in IORequest \cup {NULL}
<1>. DEFINE later == {i \in 2..Len(disk_requests) : disk_requests[i - 1] = r}
<1>1. CASE later = {}
  BY <1>1 DEF Successor
<1>2. CASE later # {}
  <2>0. later \in SUBSET Nat
    OBVIOUS
  <2>1. PICK k : k = Min(later)
    OBVIOUS
  <2>2. k \in later
    BY <1>2, <2>0, <2>1, MinIsLeast
  <2>3. k \in 1..Len(disk_requests)
    BY <2>2
  <2>4. disk_requests[k] \in IORequest
    BY <2>3, ElementOfSeq DEF IOTypeOK
  <2>. QED BY <1>2, <2>1, <2>4 DEF Successor
<1>. QED BY <1>1, <1>2

\* The track of a request is the operand of the instruction that made it.
LEMMA TrackType ==
  ASSUME CreateTypeOK, NEW r \in IORequest
  PROVE  Track(r) \in Nat
<1>1. r.process \in Created /\ r.instr \in Nat /\ r.instr < Len(CodeOf(r.process))
  BY DEF IORequest, Request
<1>2. CodeOf(r.process) \in Seq(Instruction)
  BY <1>1, CreatedProc
<1>3. r.instr + 1 \in 1..Len(CodeOf(r.process))
  BY <1>1, <1>2, LenProperties
<1>4. CodeOf(r.process)[r.instr + 1] \in Instruction
  BY <1>2, <1>3, ElementOfSeq
<1>. QED BY <1>4 DEF Track, Instruction

-----------------------------------------------------------------------------
(* What a thread has in hand. *)

\* The process the CPU thread has in hand exists.
LEMMA CurCreated ==
  ASSUME IInv, at["cpu"] \in HasProcess
  PROVE  cur \in Created /\ cur \in Proc
  BY CreatedProc DEF IInv, TypeOK, ControlTypeOK, LocalsOK, CpuLocalsOK

\* P and V name a semaphore.
LEMMA InstrSem ==
  ASSUME IInv, at["cpu"] \in {"p", "v"}
  PROVE  Instr.semaphore \in Sem
<1>1. cur \in Created
  BY CurCreated DEF HasProcess
<1>2. file[cur] \in File
  BY <1>1 DEF IInv, TypeOK, CreateTypeOK
<1>3. PC[cur] \in Nat
  BY <1>1, CurCreated DEF IInv, TypeOK, ProcTypeOK, HasProcess
<1>4. ~(PC[cur] >= Len(Code[file[cur]]))
  BY DEF IInv, LocalsOK, CpuLocalsOK, Executing, Done, CodeOf
<1>5. Code[file[cur]] \in Seq(Instruction)
  BY <1>2, FileAssumption
<1>6. PC[cur] + 1 \in DOMAIN Code[file[cur]]
  BY <1>3, <1>4, <1>5, LenProperties
<1>7. Code[file[cur]][PC[cur] + 1].opcode \in {"P", "V"}
  BY DEF IInv, LocalsOK, CpuLocalsOK, Instr, InstructionAt, CodeOf
<1>. QED BY <1>2, <1>6, <1>7, FileAssumption DEF Instr, InstructionAt, CodeOf

\* The first process waiting for it.
LEMMA WaiterType ==
  ASSUME IInv, Instr.semaphore \in Sem, processes_waiting[Instr.semaphore] # <<>>
  PROVE  /\ Waiter \in Created \cup {NULL}
         /\ Tail(processes_waiting[Instr.semaphore]) \in Seq(Created \cup {NULL})
<1>1. processes_waiting[Instr.semaphore] \in Seq(Created \cup {NULL})
  BY DEF IInv, TypeOK, SemTypeOK
<1>. QED BY <1>1, HeadTailType DEF Waiter

\* The request the CPU thread queues is for an instruction that exists.
LEMMA RequestType ==
  ASSUME IInv, at["cpu"] = "enqueue"
  PROVE  request \in IORequest
<1>1. cur \in Created /\ cur \in Proc
  BY CurCreated DEF HasProcess
<1>2. PC[cur] \in Nat
  BY <1>1 DEF IInv, TypeOK, ProcTypeOK
<1>3. ~(PC[cur] >= Len(CodeOf(cur)))
  BY DEF IInv, LocalsOK, CpuLocalsOK, Executing, Done
<1>4. Len(CodeOf(cur)) \in Nat
  BY <1>1, CreatedProc, LenProperties
<1>. QED BY <1>1, <1>2, <1>3, <1>4 DEF request, IORequest, Request

\* The process memory.c finds for a segment exists.
LEMMA VictimCreated ==
  ASSUME IInv, Contains(PCB, segments[VictimIndex])
  PROVE  segments[VictimIndex] \in Created
<1>1. PICK i \in 1..Len(PCB) : PCB[i] = segments[VictimIndex]
  BY DEF Contains
<1>. QED BY <1>1, ElementOfSeq DEF IInv, TypeOK, CreateTypeOK

\* The victim being swapped out exists.
LEMMA VictimInHand ==
  ASSUME IInv, at["cpu"] = "swap_unload"
  PROVE  victim \in Created
  BY DEF IInv, TypeOK, ControlTypeOK, LocalsOK, CpuLocalsOK

\* The request the disk serves.
LEMMA DiskRequestType ==
  ASSUME IInv, at["disk"] \in {"disk_lock", "disk_add"}
  PROVE  disk_request \in IORequest /\ disk_request.process \in Created
  BY DEF IInv, TypeOK, IOTypeOK, LocalsOK, DiskLocalsOK, IORequest, Request

\* The request the printer serves.
LEMMA PrintHead ==
  ASSUME IInv, at["print"] = "print_add"
  PROVE  /\ Head(print_requests).process \in Created
         /\ Tail(print_requests) \in Seq(IORequest)
<1>1. print_requests \in Seq(IORequest) /\ print_requests # <<>>
  BY DEF IInv, TypeOK, IOTypeOK, LocalsOK, PrintLocalsOK
<1>2. Head(print_requests) \in IORequest
  BY <1>1, HeadTailType
<1>. QED BY <1>1, <1>2, HeadTailType DEF IORequest, Request

\* The process the user interface is submitting.
LEMMA NewProcessType ==
  ASSUME IInv, at["ui"] # "prompt"
  PROVE  NewProcess \in Created
  BY BoundAssumption DEF IInv, TypeOK, CreateTypeOK, LocalsOK, UiLocalsOK, NewProcess,
      Created

\* memory_unload_segment.
LEMMA Mem_Unload ==
  ASSUME IInv, NEW p \in Created, memory_unload_segment(p), UNCHANGED processes_id
  PROVE  MemTypeOK'
<1>. USE DEF memory_unload_segment, Unlisted, IInv, TypeOK, MemTypeOK
<1>1. num_free_pages' \in Int
  BY CreatedProc
<1>2. segments' \in Seq(Created)
  <2>1. SameId(p) \in SUBSET Nat /\ SameId(p) \subseteq 1..Len(segments)
    BY LenProperties DEF SameId
  <2>2. CASE SameId(p) # {}
    <3>1. Min(SameId(p)) \in 1..Len(segments)
      BY <2>1, <2>2, MinIsLeast
    <3>2. RemoveAt(segments, Min(SameId(p))) \in Seq(Created)
      BY <3>1, RemoveAtElements
    <3>. QED BY <2>2, <3>2
  <2>. QED BY <2>2
<1>3. present_bit' \in [Proc -> BOOLEAN] /\ used_bit' \in [Proc -> BOOLEAN]
  OBVIOUS
<1>4. Created' = Created
  BY DEF Created
<1>. HIDE DEF memory_unload_segment, Unlisted
<1>. QED BY <1>1, <1>2, <1>3, <1>4

-----------------------------------------------------------------------------
(* The actions that need more than their own definition.  A lemma is named for the part
   of the invariant it is about (L for LocalsOK, C for ControlTypeOK) and the action. *)

\* Exec counts units, time and instructions.
LEMMA Proc_Exec ==
  ASSUME IInv, Exec
  PROVE  ProcTypeOK'
<1>. USE DEF Exec, IInv, TypeOK, ProcTypeOK
<1>0. cur \in Proc
  BY CurCreated DEF Before, HasProcess
<1>1. exec' \in [Proc -> Nat] /\ remaining_time' \in [Proc -> Int]
  BY <1>0
<1>2. PC' \in [Proc -> Nat]
  BY <1>0, NextPCType
<1>. QED BY <1>1, <1>2 DEF Created, createVars

\* delete_list on the ready list.
LEMMA Sched_FinishUnlink ==
  ASSUME IInv, FinishUnlink
  PROVE  SchedTypeOK'
<1>. USE DEF IInv, TypeOK, SchedTypeOK
<1>1. ready' \in Seq(Created)
  <2>1. CASE Contains(ready, cur)
    <3>. DEFINE hits == {i \in DOMAIN ready : ready[i] = cur}
    <3>1. hits \in SUBSET Nat /\ hits \subseteq 1..Len(ready) /\ hits # {}
      BY <2>1, LenProperties DEF Contains
    <3>2. ReadyPosition = Min(hits)
      BY DEF ReadyPosition
    <3>. HIDE DEF hits
    <3>3. ReadyPosition \in 1..Len(ready)
      BY <3>1, <3>2, MinIsLeast
    <3>. QED BY <2>1, <3>3, DeleteSortedElements DEF FinishUnlink
  <2>2. CASE ~Contains(ready, cur)
    BY <2>2 DEF FinishUnlink
  <2>. QED BY <2>1, <2>2
<1>. QED BY <1>1 DEF FinishUnlink, createVars, Created

\* delete_list on PCB finds the first node of the process.
LEMMA PCBPositionIs ==
  ASSUME PCB \in Seq(Created), Contains(PCB, cur)
  PROVE  /\ PCBPosition \in 1..Len(PCB) /\ PCB[PCBPosition] = cur
         /\ \A i \in 1..Len(PCB) : PCB[i] = cur => PCBPosition <= i
<1>. DEFINE hits == {i \in DOMAIN PCB : PCB[i] = cur}
<1>1. hits \in SUBSET Nat /\ hits \subseteq 1..Len(PCB) /\ hits # {}
  BY LenProperties DEF Contains
<1>2. \A i \in 1..Len(PCB) : PCB[i] = cur => i \in hits
  BY LenProperties
<1>3. PCBPosition = Min(hits)
  BY DEF PCBPosition
<1>4. PCBPosition \in hits /\ \A i \in hits : PCBPosition <= i
  <2>. HIDE DEF hits
  <2>. QED BY <1>1, <1>3, MinIsLeast
<1>. QED BY <1>1, <1>2, <1>4

\* It cuts off the end of the list from there, when it takes the process for the tail.
LEMMA DeletedTail ==
  ASSUME PCB \in Seq(Created), DeleteTail
  PROVE  PCB' \in Seq(Created) /\ PCB' # <<>>
<1>1. PCBPosition \in 1..Len(PCB) /\ PCB[PCBPosition] = cur
  BY PCBPositionIs DEF DeleteTail
<1>2. PCBPosition # 1
  <2>1. PCB # <<>>
    BY DEF DeleteTail, Contains
  <2>2. Head(PCB) = PCB[1]
    BY <2>1, HeadTailProperties
  <2>. QED BY <1>1, <2>2 DEF DeleteTail
<1>3. /\ SubSeq(PCB, 1, PCBPosition - 1) \in Seq(Created)
      /\ Len(SubSeq(PCB, 1, PCBPosition - 1)) = PCBPosition - 1
  BY <1>1, <1>2, SubSeqProperties
<1>. QED BY <1>1, <1>2, <1>3 DEF DeleteTail

\* Where the CPU thread goes on.
LEMMA UnlinkGoes ==
  ASSUME FinishUnlink
  PROVE  \E label \in {"fin_node", "fin_header", "fin_tail", "fin_sched"} :
           Goto("cpu", label)
  BY DEF FinishUnlink, DeleteAbsent, DeleteHeader, DeleteTail, DeleteMiddle

\* delete_list on PCB.
LEMMA Create_FinishUnlink ==
  ASSUME IInv, FinishUnlink
  PROVE  CreateTypeOK'
<1>0. PCB \in Seq(Created)
  BY DEF IInv, TypeOK, CreateTypeOK
<1>1. PCB' \in Seq(Created)
  <2>1. CASE DeleteAbsent
    BY <1>0, <2>1 DEF DeleteAbsent
  <2>2. CASE DeleteHeader
    <3>1. PCB # <<>>
      BY <2>2 DEF DeleteHeader, Contains
    <3>. QED BY <1>0, <2>2, <3>1, HeadTailType DEF DeleteHeader
  <2>3. CASE DeleteTail
    BY <1>0, <2>3, DeletedTail
  <2>4. CASE DeleteMiddle
    BY <1>0, <2>4, PCBPositionIs, RemoveAtElements DEF DeleteMiddle
  <2>. QED BY <2>1, <2>2, <2>3, <2>4 DEF FinishUnlink
<1>. QED BY <1>1 DEF IInv, TypeOK, CreateTypeOK, FinishUnlink, Created

\* A tail to be freed has others before it.
LEMMA L_FinishUnlink ==
  ASSUME IInv, FinishUnlink
  PROVE  LocalsOK'
<1>1. PICK label \in {"fin_node", "fin_header", "fin_tail", "fin_sched"} :
        Goto("cpu", label)
  BY UnlinkGoes
<1>2. label = "fin_tail" => DeleteTail
  BY <1>1 DEF FinishUnlink, DeleteAbsent, DeleteHeader, DeleteMiddle, Goto, Before,
      IInv, TypeOK, ControlTypeOK, Thread
<1>3. label = "fin_tail" => PCB' # <<>>
  BY <1>2, DeletedTail DEF IInv, TypeOK, CreateTypeOK
<1>4. /\ at["cpu"] = "fin_unlink" /\ at'["cpu"] = label
      /\ \A t \in Thread \ {"cpu"} : at'[t] = at[t]
  BY <1>1 DEF FinishUnlink, Goto, Before, IInv, TypeOK, ControlTypeOK, Thread
<1>. USE DEF IInv, LocalsOK
<1>5. CpuLocalsOK'
  BY <1>3, <1>4 DEF CpuLocalsOK, HasProcess, Executing, IrqLabel, MemoryLabel,
      FinishLabel, FinishUnlink, localVars
<1>6. DiskLocalsOK' /\ PrintLocalsOK' /\ UiLocalsOK'
  BY <1>4 DEF DiskLocalsOK, PrintLocalsOK, UiLocalsOK, FinishUnlink, ioVars, diskVars,
      printVars, Thread
<1>. QED BY <1>5, <1>6

\* list->tail = place->prev
LEMMA Create_FinishTail ==
  ASSUME IInv, FinishTail
  PROVE  CreateTypeOK'
<1>1. PCB \in Seq(Created) /\ PCB # <<>>
  BY DEF IInv, TypeOK, CreateTypeOK, LocalsOK, CpuLocalsOK, FinishTail, Before
<1>2. Last(PCB) \in Created
  BY <1>1, LenProperties, ElementOfSeq, EmptySeq DEF Last
<1>. QED BY <1>2 DEF IInv, TypeOK, CreateTypeOK, FinishTail, Unless, Created

\* V hands the semaphore to the first process waiting, which becomes ready.
LEMMA Proc_VHandOver ==
  ASSUME IInv, VHandOver
  PROVE  ProcTypeOK' /\ SchedTypeOK' /\ SemTypeOK'
<1>. USE DEF IInv, TypeOK
<1>1. cur \in Created /\ cur \in Proc /\ Instr.semaphore \in Sem
  BY CurCreated, InstrSem DEF VHandOver, Before, HasProcess
<1>2. /\ Waiter \in Created
      /\ Tail(processes_waiting[Instr.semaphore]) \in Seq(Created \cup {NULL})
  BY <1>1, WaiterType DEF VHandOver
<1>3. Created' = Created
  BY DEF VHandOver, createVars, Created
<1>4. ProcTypeOK'
  <2>1. PC' \in [Proc -> Nat]
    BY <1>1, NextPCType DEF VHandOver
  <2>2. status' \in [Proc -> Status]
    BY DEF VHandOver, ProcTypeOK, Status
  <2>. QED BY <1>3, <2>1, <2>2 DEF VHandOver, ProcTypeOK
<1>5. SchedTypeOK'
  BY <1>2, <1>3, AddProcessType DEF VHandOver, SchedTypeOK
<1>6. SemTypeOK'
  BY <1>1, <1>2, <1>3 DEF VHandOver, SemTypeOK
<1>. QED BY <1>4, <1>5, <1>6

\* P costs time.
LEMMA Proc_PCharge ==
  ASSUME IInv, PCharge
  PROVE  ProcTypeOK'
<1>. USE DEF PCharge, IInv, TypeOK, ProcTypeOK
<1>1. running \in Proc
  BY CreatedProc DEF SchedTypeOK
<1>2. remaining_time[running] - P_TIME \in Int
  BY <1>1, ClockAssumption
<1>3. remaining_time' \in [Proc -> Int]
  BY <1>2
<1>. QED BY <1>3 DEF Created, createVars

\* P takes the semaphore.
LEMMA Sem_PSuccess ==
  ASSUME IInv, PSuccess
  PROVE  SemTypeOK'
<1>. USE DEF PSuccess, IInv, TypeOK, SchedTypeOK, SemTypeOK
<1>1. owner' \in [Sem -> Created \cup {-1}]
  OBVIOUS
<1>. QED BY <1>1 DEF Created, createVars

\* P queues the running process.
LEMMA Sem_PFailure ==
  ASSUME IInv, PFailure
  PROVE  SemTypeOK'
<1>. USE DEF PFailure, IInv, TypeOK, SchedTypeOK, SemTypeOK
<1>1. ASSUME NEW s \in Sem PROVE processes_waiting'[s] \in Seq(Created \cup {NULL})
  <2>1. Append(processes_waiting[s], running) \in Seq(Created \cup {NULL})
    BY AppendType
  <2>. QED BY <2>1
<1>. QED BY <1>1 DEF Created, createVars

\* A sweep starts at the first request.
LEMMA IO_SweepStart ==
  ASSUME IInv, SweepStart
  PROVE  IOTypeOK'
<1>1. sweep_next' \in IORequest
  BY HeadTailType DEF IInv, TypeOK, IOTypeOK, SweepStart
<1>2. IORequest' = IORequest
  BY DEF SweepStart, createVars, IORequest, CodeOf, Created
<1>. QED BY <1>1, <1>2 DEF IInv, TypeOK, IOTypeOK, SweepStart, printVars

\* A sweep goes on.
LEMMA IO_SweepNext ==
  ASSUME IInv, SweepNext
  PROVE  IOTypeOK'
<1>1. sweep_next \in IORequest
  BY DEF IInv, TypeOK, IOTypeOK, SweepNext, Sweeping
<1>2. IORequest' = IORequest
  BY DEF SweepNext, createVars, IORequest, CodeOf, Created
<1>3. sweep_next' \in IORequest \cup {NULL} /\ curr_track' \in Nat
  BY <1>1, SuccessorType, TrackType DEF IInv, TypeOK, SweepNext
<1>. QED BY <1>1, <1>2, <1>3 DEF IInv, TypeOK, IOTypeOK, SweepNext, printVars

\* The disk makes a process ready.
LEMMA Sched_DiskRequestFinished ==
  ASSUME IInv, DiskRequestFinished
  PROVE  SchedTypeOK'
<1>1. ready' \in Seq(Created)
  BY DiskRequestType, AddProcessType DEF IInv, TypeOK, SchedTypeOK, DiskRequestFinished,
      Before
<1>. QED BY <1>1 DEF IInv, TypeOK, SchedTypeOK, DiskRequestFinished, createVars, Created

\* The disk deletes a request.
LEMMA IO_DiskRequestFinished ==
  ASSUME IInv, DiskRequestFinished
  PROVE  IOTypeOK'
<1>. USE DEF IInv, TypeOK, IOTypeOK
<1>1. disk_requests' \in Seq(IORequest)
  <2>1. CASE SameTrack = {}
    BY <2>1 DEF DiskRequestFinished
  <2>2. CASE SameTrack # {}
    <3>1. SameTrack \in SUBSET Nat /\ SameTrack \subseteq 1..Len(disk_requests)
      BY LenProperties DEF SameTrack
    <3>2. Min(SameTrack) \in 1..Len(disk_requests)
      BY <2>2, <3>1, MinIsLeast
    <3>3. disk_requests' \in DeleteSorted(disk_requests, Min(SameTrack))
      BY <2>2 DEF DiskRequestFinished
    <3>. QED BY <3>2, <3>3, DeleteSortedElements
  <2>. QED BY <2>1, <2>2
<1>2. IORequest' = IORequest
  BY DEF DiskRequestFinished, createVars, IORequest, CodeOf, Created
<1>. QED BY <1>1, <1>2 DEF DiskRequestFinished, printVars

\* The printer deletes a request.
LEMMA IO_PrintRequestFinished ==
  ASSUME IInv, PrintRequestFinished
  PROVE  IOTypeOK'
<1>1. print_requests' \in Seq(IORequest)
  BY PrintHead DEF PrintRequestFinished, Before
<1>2. IORequest' = IORequest
  BY DEF PrintRequestFinished, createVars, IORequest, CodeOf, Created
<1>. QED BY <1>1, <1>2 DEF IInv, TypeOK, IOTypeOK, PrintRequestFinished, diskVars

\* The printer makes a process ready.
LEMMA Sched_PrintRequestFinished ==
  ASSUME IInv, PrintRequestFinished
  PROVE  SchedTypeOK'
<1>1. ready' \in Seq(Created)
  BY PrintHead, AddProcessType DEF IInv, TypeOK, SchedTypeOK, PrintRequestFinished,
      Before
<1>. QED BY <1>1 DEF IInv, TypeOK, SchedTypeOK, PrintRequestFinished, createVars,
     Created

\* The user interface makes a process ready.
LEMMA Sched_Enqueue ==
  ASSUME IInv, Enqueue
  PROVE  SchedTypeOK'
<1>1. ready' \in Seq(Created)
  BY NewProcessType, AddProcessType DEF IInv, TypeOK, SchedTypeOK, Enqueue, Before
<1>. QED BY <1>1 DEF IInv, TypeOK, SchedTypeOK, Enqueue, createVars, Created

\* push on PCB.
LEMMA Create_LinkPCB ==
  ASSUME IInv, LinkPCB
  PROVE  CreateTypeOK' /\ (PCB # <<>> => PCB' # <<>>)
<1>1. PCB' \in Seq(Created) /\ (PCB # <<>> => PCB' # <<>>)
  BY NewProcessType, AppendProperties, EmptySeq
     DEF IInv, TypeOK, CreateTypeOK, LinkPCB, Before
<1>. QED BY <1>1 DEF IInv, TypeOK, CreateTypeOK, LinkPCB, Created

\* A new process: everything that existed still does, and keeps its file.
LEMMA All_CreateProcess ==
  ASSUME IInv, CreateProcess
  PROVE  IInv'
<1>. USE DEF IInv, TypeOK
<1>0. PICK f \in File : file' = [file EXCEPT ![processes_id] = f]
  BY DEF CreateProcess
<1>1. /\ Created' = Created \cup {processes_id}
      /\ processes_id \in Proc /\ processes_id \notin Created
  BY BoundAssumption DEF CreateProcess, CreateTypeOK, Created, Proc
<1>2. \A p \in Created : file'[p] = file[p] /\ CodeOf(p)' = CodeOf(p)
  BY <1>0, <1>1, CreatedProc DEF CreateTypeOK, CodeOf
<1>3. SchedTypeOK'
  BY <1>1, SeqMonotonic DEF SchedTypeOK, CreateProcess, schedVars
<1>4. CreateTypeOK'
  <2>1. processes_id' \in 0..MaxProcs
    BY BoundAssumption DEF CreateProcess, CreateTypeOK
  <2>2. file' \in [Proc -> File \cup {NULL}]
    BY <1>0 DEF CreateTypeOK
  <2>3. \A p \in Created' : file'[p] \in File
    <3>1. file'[processes_id] = f
      BY <1>0, <1>1 DEF CreateTypeOK
    <3>2. \A p \in Created : file'[p] \in File
      BY <1>2 DEF CreateTypeOK
    <3>. QED BY <1>1, <3>1, <3>2
  <2>4. PCB' \in Seq(Created')
    <3>1. PCB \in Seq(Created') /\ processes_id \in Created'
      BY <1>1, SeqMonotonic DEF CreateTypeOK
    <3>2. <<processes_id>> \in Seq(Created')
      BY <3>1
    <3>. QED BY <3>1, <3>2 DEF CreateProcess
  <2>5. PCB_tail' \in Created' \cup {NULL} /\ behind' \in Created' \cup {NULL}
    BY <1>1 DEF CreateProcess, CreateTypeOK
  <2>. QED BY <2>1, <2>2, <2>3, <2>4, <2>5 DEF CreateTypeOK
<1>5. ProcTypeOK'
  BY <1>1 DEF ProcTypeOK, CreateProcess, procVars
<1>6. SemTypeOK'
  <2>1. \A s \in Sem : processes_waiting[s] \in Seq(Created' \cup {NULL})
    BY <1>1, SeqMonotonic DEF SemTypeOK
  <2>. QED BY <1>1, <2>1 DEF SemTypeOK, CreateProcess, semVars
<1>7. MemTypeOK'
  BY <1>1, SeqMonotonic DEF MemTypeOK, CreateProcess, memVars
<1>8. IOTypeOK'
  <2>1. IORequest \subseteq IORequest'
    BY <1>1, <1>2 DEF IORequest
  <2>2. disk_requests \in Seq(IORequest') /\ print_requests \in Seq(IORequest')
    BY <2>1, SeqMonotonic DEF IOTypeOK
  <2>. QED BY <2>1, <2>2 DEF IOTypeOK, CreateProcess, ioVars, diskVars, printVars
<1>9. LockTypeOK'
  BY DEF LockTypeOK, CreateProcess, lockVars
<1>10. ControlTypeOK'
  BY <1>1 DEF ControlTypeOK, CreateProcess, localVars, Goto, Thread, UiLabel
<1>11. LocalsOK'
  <2>1. CpuLocalsOK'
    <3>1. /\ UNCHANGED <<irq, cur, victim, PC>> /\ at'["cpu"] = at["cpu"]
      BY DEF CreateProcess, localVars, procVars, Goto, ControlTypeOK, Thread
    <3>2. cur \in Created => CodeOf(cur)' = CodeOf(cur)
      BY <1>2, <3>1 DEF CodeOf
    <3>3. cur # NULL => cur \in Created
      BY DEF ControlTypeOK
    <3>4. PCB # <<>> => PCB' # <<>>
      BY DEF CreateProcess
    <3>. QED BY <3>1, <3>2, <3>3, <3>4 DEF LocalsOK, CpuLocalsOK, Executing, Done,
                 Instr, InstructionAt
  <2>2. DiskLocalsOK' /\ PrintLocalsOK'
    BY DEF LocalsOK, DiskLocalsOK, PrintLocalsOK, CreateProcess, Goto, ControlTypeOK,
        Thread, ioVars, diskVars, printVars
  <2>3. UiLocalsOK'
    BY DEF UiLocalsOK, CreateProcess, CreateTypeOK
  <2>. QED BY <2>1, <2>2, <2>3 DEF LocalsOK
<1>. QED BY <1>3, <1>4, <1>5, <1>6, <1>7, <1>8, <1>9, <1>10, <1>11

\* The victim exists.
LEMMA C_SwapChoose ==
  ASSUME IInv, SwapChoose
  PROVE  ControlTypeOK'
<1>1. victim' \in Created
  BY VictimCreated DEF SwapChoose
<1>. QED BY <1>1 DEF IInv, TypeOK, ControlTypeOK, SwapChoose, createVars, Created, Goto,
     Thread, CpuLabel, MemoryLabel

\* The victim is not NULL.
LEMMA L_SwapChoose ==
  ASSUME IInv, SwapChoose
  PROVE  LocalsOK'
<1>1. victim' \in Created
  BY VictimCreated DEF SwapChoose
<1>. QED BY <1>1, CreatedProc DEF IInv, TypeOK, ControlTypeOK, LocalsOK, CpuLocalsOK,
     DiskLocalsOK, PrintLocalsOK, UiLocalsOK, HasProcess, Executing, Goto, Thread,
     Before, IrqLabel, MemoryLabel, FinishLabel, SwapChoose, createVars, ioVars,
     diskVars, printVars

\* The instruction fetched is the one to execute.
LEMMA L_Fetch ==
  ASSUME IInv, Fetch
  PROVE  LocalsOK'
<1>1. cur' # NULL /\ ~Done(cur)' /\ Instr' = InstructionAt(running)
  BY DEF Fetch, Fetchable, Done, Instr, InstructionAt, CodeOf, createVars, procVars
<1>2. UNCHANGED <<disk_request, print_requests, processes_id>>
  BY DEF Fetch, createVars, ioVars, diskVars, printVars
<1>. QED BY <1>1, <1>2 DEF Fetch, Raise, IInv, TypeOK, ControlTypeOK, LocalsOK,
     CpuLocalsOK, DiskLocalsOK, PrintLocalsOK, UiLocalsOK, HasProcess, Executing, Goto,
     Thread, Before, IrqLabel, MemoryLabel, FinishLabel

\* The request taken off the sweep is not NULL.
LEMMA L_SweepNext ==
  ASSUME IInv, SweepNext
  PROVE  LocalsOK'
  BY DEF SweepNext, Sweeping, IInv, TypeOK, ControlTypeOK, LocalsOK, CpuLocalsOK,
      DiskLocalsOK, PrintLocalsOK, UiLocalsOK, HasProcess, Executing, Done, CodeOf,
      Instr, InstructionAt, Goto, Thread, Before, IrqLabel, MemoryLabel, FinishLabel,
      createVars, procVars, diskVars, ioVars, localVars, printVars

\* The process whose segment is absent is in hand.
LEMMA L_FetchAbsent ==
  ASSUME IInv, FetchAbsent
  PROVE  LocalsOK'
  BY CreatedProc DEF Fetchable, IInv, TypeOK, ControlTypeOK, LocalsOK, CpuLocalsOK,
      DiskLocalsOK, PrintLocalsOK, UiLocalsOK, HasProcess, Executing, Goto, Thread,
      Before, IrqLabel, MemoryLabel, FinishLabel, FetchAbsent, createVars, ioVars,
      diskVars, printVars

\* A queue that has been pushed to is not empty.
LEMMA L_EnqueuePrint ==
  ASSUME IInv, EnqueuePrint
  PROVE  LocalsOK'
<1>1. print_requests' # <<>>
  BY AppendProperties, RequestType DEF IInv, TypeOK, IOTypeOK, EnqueuePrint, Before
<1>. QED BY <1>1 DEF IInv, TypeOK, ControlTypeOK, LocalsOK, CpuLocalsOK, DiskLocalsOK,
     PrintLocalsOK, UiLocalsOK, HasProcess, Executing, Goto, Thread, Before, IrqLabel,
     MemoryLabel, FinishLabel, EnqueuePrint, createVars, localVars, diskVars

-----------------------------------------------------------------------------
(* The steps of each thread. *)

\* process_interrupt, whichever thread calls it.
LEMMA InterruptType ==
  ASSUME IInv, NEW t \in Interrupter, Interrupt(t)
  PROVE  IInv'
<1>. USE DEF IInv, schedVars, createVars, procVars, semVars, memVars, ioVars, diskVars,
     printVars, lockVars, localVars, Before, Goto, Raise, ControlTypeOK, Created,
     Thread, CpuLabel, DiskLabel, PrintLabel, UiLabel, IrqLabel, MemoryLabel,
     FinishLabel, CpuInterruption, INTERRUPTION_TYPE, LocalsOK, CpuLocalsOK,
     DiskLocalsOK, PrintLocalsOK, UiLocalsOK, HasProcess, Executing, Done, CodeOf,
     Instr, InstructionAt, NextPC, Interrupter, Type, Return
<1>1. CASE IrqLock(t)
  <2>1. /\ SchedTypeOK' /\ CreateTypeOK' /\ ProcTypeOK' /\ SemTypeOK'
        /\ MemTypeOK' /\ IOTypeOK'
    BY <1>1, Frames DEF IrqLock
  <2>2. LockTypeOK'
    BY <1>1 DEF IrqLock, TypeOK, LockTypeOK
  <2>3. ControlTypeOK'
    BY <1>1 DEF IrqLock, TypeOK, SchedTypeOK
  <2>4. LocalsOK'
    BY <1>1 DEF IrqLock, TypeOK, SchedTypeOK, ProcTypeOK
  <2>. QED BY <2>1, <2>2, <2>3, <2>4 DEF TypeOK
<1>2. CASE IrqTest(t)
  <2>1. /\ SchedTypeOK' /\ CreateTypeOK' /\ ProcTypeOK' /\ SemTypeOK'
        /\ MemTypeOK' /\ IOTypeOK' /\ LockTypeOK'
    BY <1>2, Frames DEF IrqTest
  <2>2. ControlTypeOK'
    BY <1>2 DEF IrqTest, TypeOK, SchedTypeOK
  <2>3. LocalsOK'
    BY <1>2 DEF IrqTest, TypeOK, SchedTypeOK, ProcTypeOK
  <2>. QED BY <2>1, <2>2, <2>3 DEF TypeOK
<1>3. CASE IrqMark(t)
  <2>1. /\ SchedTypeOK' /\ CreateTypeOK' /\ SemTypeOK' /\ MemTypeOK'
        /\ IOTypeOK' /\ LockTypeOK'
    BY <1>3, Frames DEF IrqMark
  <2>2. ProcTypeOK'
    BY <1>3 DEF IrqMark, TypeOK, ProcTypeOK, Status
  <2>3. ControlTypeOK'
    BY <1>3 DEF IrqMark, TypeOK, SchedTypeOK
  <2>4. LocalsOK'
    BY <1>3 DEF IrqMark, TypeOK, SchedTypeOK, ProcTypeOK
  <2>. QED BY <2>1, <2>2, <2>3, <2>4 DEF TypeOK
<1>4. CASE IrqSchedule(t)
  <2>1. CreateTypeOK' /\ SemTypeOK' /\ MemTypeOK' /\ IOTypeOK'
    BY <1>4, Frames DEF IrqSchedule
  <2>2. SchedTypeOK'
    BY <1>4, SchedulingType DEF IrqSchedule, TypeOK, SchedTypeOK
  <2>3. ProcTypeOK'
    BY <1>4, SchedulingType DEF IrqSchedule, TypeOK, ProcTypeOK, Status
  <2>4. LockTypeOK'
    BY <1>4 DEF IrqSchedule, TypeOK, LockTypeOK
  <2>5. ControlTypeOK'
    BY <1>4 DEF IrqSchedule, TypeOK, SchedTypeOK
  <2>6. LocalsOK'
    BY <1>4 DEF IrqSchedule, TypeOK, SchedTypeOK, ProcTypeOK
  <2>. QED BY <2>1, <2>2, <2>3, <2>4, <2>5, <2>6 DEF TypeOK
<1>5. CASE IrqScheduled(t)
  <2>1. /\ SchedTypeOK' /\ CreateTypeOK' /\ ProcTypeOK' /\ SemTypeOK'
        /\ MemTypeOK' /\ IOTypeOK'
    BY <1>5, Frames DEF IrqScheduled
  <2>2. LockTypeOK'
    BY <1>5 DEF IrqScheduled, TypeOK, LockTypeOK
  <2>3. ControlTypeOK'
    BY <1>5 DEF IrqScheduled, TypeOK, SchedTypeOK
  <2>4. LocalsOK'
    BY <1>5 DEF IrqScheduled, TypeOK, SchedTypeOK, ProcTypeOK
  <2>. QED BY <2>1, <2>2, <2>3, <2>4 DEF TypeOK
<1>6. CASE IrqExit(t)
  <2>1. CreateTypeOK' /\ ProcTypeOK' /\ SemTypeOK' /\ MemTypeOK' /\ IOTypeOK'
    BY <1>6, Frames DEF IrqExit
  <2>2. SchedTypeOK'
    BY <1>6 DEF IrqExit, TypeOK, SchedTypeOK
  <2>3. LockTypeOK'
    BY <1>6 DEF IrqExit, TypeOK, LockTypeOK
  <2>4. ControlTypeOK'
    BY <1>6 DEF IrqExit, TypeOK, SchedTypeOK
  <2>5. LocalsOK'
    BY <1>6 DEF IrqExit, TypeOK, SchedTypeOK, ProcTypeOK
  <2>. QED BY <2>1, <2>2, <2>3, <2>4, <2>5 DEF TypeOK
<1>. QED BY <1>1, <1>2, <1>3, <1>4, <1>5, <1>6 DEF Interrupt

\* Loading and swapping.
LEMMA MemoryType ==
  ASSUME IInv, MemoryNext
  PROVE  IInv'
<1>. USE DEF IInv, schedVars, createVars, procVars, semVars, memVars, ioVars, diskVars,
     printVars, lockVars, localVars, Before, Goto, Raise, ControlTypeOK, Created,
     Thread, CpuLabel, DiskLabel, PrintLabel, UiLabel, IrqLabel, MemoryLabel,
     FinishLabel, CpuInterruption, INTERRUPTION_TYPE, LocalsOK, CpuLocalsOK,
     DiskLocalsOK, PrintLocalsOK, UiLocalsOK, HasProcess, Executing, Done, CodeOf,
     Instr, InstructionAt, NextPC
<1>1. CASE LoadStart
  <2>1. /\ SchedTypeOK' /\ CreateTypeOK' /\ SemTypeOK' /\ MemTypeOK'
        /\ IOTypeOK' /\ LockTypeOK'
    BY <1>1, Frames DEF LoadStart
  <2>2. ProcTypeOK'
    BY <1>1 DEF LoadStart, TypeOK, ProcTypeOK, Status
  <2>3. ControlTypeOK'
    BY <1>1 DEF LoadStart, TypeOK, SchedTypeOK
  <2>4. LocalsOK'
    BY <1>1 DEF LoadStart, TypeOK, SchedTypeOK, ProcTypeOK
  <2>. QED BY <2>1, <2>2, <2>3, <2>4 DEF TypeOK
<1>2. CASE SwapChoose
  <2>1. SchedTypeOK' /\ CreateTypeOK' /\ SemTypeOK' /\ IOTypeOK' /\ LockTypeOK'
    BY <1>2, Frames DEF SwapChoose
  <2>2. ProcTypeOK'
    BY <1>2 DEF SwapChoose, TypeOK, ProcTypeOK, Status
  <2>3. MemTypeOK'
    BY <1>2 DEF SwapChoose, TypeOK, SchedTypeOK, MemTypeOK
  <2>4. ControlTypeOK' /\ LocalsOK'
    BY <1>2, C_SwapChoose, L_SwapChoose
  <2>. QED BY <2>1, <2>2, <2>3, <2>4 DEF TypeOK
<1>3. CASE SwapUnload
  <2>1. SchedTypeOK' /\ CreateTypeOK' /\ SemTypeOK' /\ IOTypeOK' /\ LockTypeOK'
    BY <1>3, Frames DEF SwapUnload
  <2>2. ProcTypeOK'
    BY <1>3 DEF SwapUnload, TypeOK, ProcTypeOK, Status
  <2>3. MemTypeOK'
    BY <1>3, VictimInHand, Mem_Unload DEF SwapUnload
  <2>4. ControlTypeOK'
    BY <1>3 DEF SwapUnload, TypeOK, SchedTypeOK
  <2>5. LocalsOK'
    BY <1>3 DEF SwapUnload, TypeOK, SchedTypeOK, ProcTypeOK
  <2>. QED BY <2>1, <2>2, <2>3, <2>4, <2>5 DEF TypeOK
<1>4. CASE LoadSegment
  <2>1. /\ SchedTypeOK' /\ CreateTypeOK' /\ ProcTypeOK' /\ SemTypeOK'
        /\ IOTypeOK' /\ LockTypeOK'
    BY <1>4, Frames DEF LoadSegment
  <2>2. MemTypeOK'
    BY <1>4, CreatedProc, AppendType, CurCreated DEF LoadSegment, TypeOK, SchedTypeOK,
        MemTypeOK
  <2>3. ControlTypeOK'
    BY <1>4 DEF LoadSegment, TypeOK, SchedTypeOK
  <2>4. LocalsOK'
    BY <1>4 DEF LoadSegment, TypeOK, SchedTypeOK, ProcTypeOK
  <2>. QED BY <2>1, <2>2, <2>3, <2>4 DEF TypeOK
<1>. QED BY <1>1, <1>2, <1>3, <1>4 DEF MemoryNext

\* The loop of cpu().
LEMMA CpuLoopType ==
  ASSUME IInv, Spin \/ ClearFlag \/ Loop \/ FetchAbsent \/ Fetch \/ Exec \/ Exit
  PROVE  IInv'
<1>. USE DEF IInv, schedVars, createVars, procVars, semVars, memVars, ioVars, diskVars,
     printVars, lockVars, localVars, Before, Goto, Raise, ControlTypeOK, Created,
     Thread, CpuLabel, DiskLabel, PrintLabel, UiLabel, IrqLabel, MemoryLabel,
     FinishLabel, CpuInterruption, INTERRUPTION_TYPE, LocalsOK, CpuLocalsOK,
     DiskLocalsOK, PrintLocalsOK, UiLocalsOK, HasProcess, Executing, Done, CodeOf,
     Instr, InstructionAt, NextPC
<1>1. CASE Spin
  <2>1. /\ SchedTypeOK' /\ CreateTypeOK' /\ ProcTypeOK' /\ SemTypeOK'
        /\ MemTypeOK' /\ IOTypeOK' /\ LockTypeOK'
    BY <1>1, Frames DEF Spin
  <2>2. ControlTypeOK'
    BY <1>1 DEF Spin, TypeOK, SchedTypeOK
  <2>3. LocalsOK'
    BY <1>1 DEF Spin, TypeOK
  <2>. QED BY <2>1, <2>2, <2>3 DEF TypeOK
<1>2. CASE ClearFlag
  <2>1. /\ CreateTypeOK' /\ ProcTypeOK' /\ SemTypeOK' /\ MemTypeOK'
        /\ IOTypeOK' /\ LockTypeOK'
    BY <1>2, Frames DEF ClearFlag
  <2>2. SchedTypeOK'
    BY <1>2 DEF ClearFlag, TypeOK, SchedTypeOK
  <2>3. ControlTypeOK'
    BY <1>2 DEF ClearFlag, TypeOK, SchedTypeOK
  <2>4. LocalsOK'
    BY <1>2 DEF ClearFlag, TypeOK, SchedTypeOK, ProcTypeOK
  <2>. QED BY <2>1, <2>2, <2>3, <2>4 DEF TypeOK
<1>3. CASE Loop
  <2>1. /\ SchedTypeOK' /\ CreateTypeOK' /\ ProcTypeOK' /\ SemTypeOK'
        /\ MemTypeOK' /\ IOTypeOK' /\ LockTypeOK'
    BY <1>3, Frames DEF Loop
  <2>2. ControlTypeOK'
    BY <1>3 DEF Loop, TypeOK, SchedTypeOK
  <2>3. LocalsOK'
    BY <1>3 DEF Loop, TypeOK, SchedTypeOK, ProcTypeOK
  <2>. QED BY <2>1, <2>2, <2>3 DEF TypeOK
<1>4. CASE FetchAbsent
  <2>1. /\ SchedTypeOK' /\ CreateTypeOK' /\ ProcTypeOK' /\ SemTypeOK'
        /\ MemTypeOK' /\ IOTypeOK' /\ LockTypeOK'
    BY <1>4, Frames DEF FetchAbsent
  <2>2. ControlTypeOK'
    BY <1>4 DEF FetchAbsent, TypeOK, SchedTypeOK
  <2>3. LocalsOK'
    BY <1>4, L_FetchAbsent
  <2>. QED BY <2>1, <2>2, <2>3 DEF TypeOK
<1>5. CASE Fetch
  <2>1. /\ SchedTypeOK' /\ CreateTypeOK' /\ ProcTypeOK' /\ SemTypeOK'
        /\ IOTypeOK' /\ LockTypeOK'
    BY <1>5, Frames DEF Fetch
  <2>2. MemTypeOK'
    BY <1>5 DEF Fetch, TypeOK, SchedTypeOK, MemTypeOK
  <2>3. ControlTypeOK'
    BY <1>5 DEF Fetch, TypeOK, SchedTypeOK
  <2>4. LocalsOK'
    BY <1>5, L_Fetch
  <2>. QED BY <2>1, <2>2, <2>3, <2>4 DEF TypeOK
<1>6. CASE Exec
  <2>1. /\ SchedTypeOK' /\ CreateTypeOK' /\ SemTypeOK' /\ MemTypeOK'
        /\ IOTypeOK' /\ LockTypeOK'
    BY <1>6, Frames DEF Exec
  <2>2. ProcTypeOK'
    BY <1>6, Proc_Exec
  <2>3. ControlTypeOK'
    BY <1>6 DEF Exec, TypeOK, SchedTypeOK
  <2>4. LocalsOK'
    BY <1>6 DEF Exec, TypeOK, SchedTypeOK, ProcTypeOK
  <2>. QED BY <2>1, <2>2, <2>3, <2>4 DEF TypeOK
<1>7. CASE Exit
  <2>1. /\ SchedTypeOK' /\ CreateTypeOK' /\ ProcTypeOK' /\ SemTypeOK'
        /\ MemTypeOK' /\ IOTypeOK' /\ LockTypeOK'
    BY <1>7, Frames DEF Exit
  <2>2. ControlTypeOK'
    BY <1>7 DEF Exit, TypeOK, SchedTypeOK
  <2>3. LocalsOK'
    BY <1>7 DEF Exit, TypeOK, SchedTypeOK, ProcTypeOK
  <2>. QED BY <2>1, <2>2, <2>3 DEF TypeOK
<1>. QED BY <1>1, <1>2, <1>3, <1>4, <1>5, <1>6, <1>7

\* The system calls for semaphores and devices.
LEMMA CpuCallsType ==
  ASSUME IInv, PSuccess \/ PFailure \/ PCharge \/ VNoneWaiting \/ VHandOver
         \/ EnqueueDisk \/ EnqueuePrint
  PROVE  IInv'
<1>. USE DEF IInv, schedVars, createVars, procVars, semVars, memVars, ioVars, diskVars,
     printVars, lockVars, localVars, Before, Goto, Raise, ControlTypeOK, Created,
     Thread, CpuLabel, DiskLabel, PrintLabel, UiLabel, IrqLabel, MemoryLabel,
     FinishLabel, CpuInterruption, INTERRUPTION_TYPE, LocalsOK, CpuLocalsOK,
     DiskLocalsOK, PrintLocalsOK, UiLocalsOK, HasProcess, Executing, Done, CodeOf,
     Instr, InstructionAt, NextPC
<1>1. CASE PSuccess
  <2>1. SchedTypeOK' /\ CreateTypeOK' /\ MemTypeOK' /\ IOTypeOK' /\ LockTypeOK'
    BY <1>1, Frames DEF PSuccess
  <2>2. ProcTypeOK'
    BY <1>1, CurCreated, NextPCType DEF PSuccess, TypeOK, ProcTypeOK, Status
  <2>3. SemTypeOK'
    BY <1>1, Sem_PSuccess
  <2>4. ControlTypeOK'
    BY <1>1 DEF PSuccess, TypeOK, SchedTypeOK
  <2>5. LocalsOK'
    BY <1>1 DEF PSuccess, TypeOK, SchedTypeOK, ProcTypeOK
  <2>. QED BY <2>1, <2>2, <2>3, <2>4, <2>5 DEF TypeOK
<1>2. CASE PFailure
  <2>1. SchedTypeOK' /\ CreateTypeOK' /\ MemTypeOK' /\ IOTypeOK' /\ LockTypeOK'
    BY <1>2, Frames DEF PFailure
  <2>2. ProcTypeOK'
    BY <1>2, CurCreated, NextPCType DEF PFailure, TypeOK, ProcTypeOK, Status
  <2>3. SemTypeOK'
    BY <1>2, Sem_PFailure
  <2>4. ControlTypeOK'
    BY <1>2 DEF PFailure, TypeOK, SchedTypeOK
  <2>5. LocalsOK'
    BY <1>2 DEF PFailure, TypeOK, SchedTypeOK, ProcTypeOK
  <2>. QED BY <2>1, <2>2, <2>3, <2>4, <2>5 DEF TypeOK
<1>3. CASE PCharge
  <2>1. /\ SchedTypeOK' /\ CreateTypeOK' /\ SemTypeOK' /\ MemTypeOK'
        /\ IOTypeOK' /\ LockTypeOK'
    BY <1>3, Frames DEF PCharge
  <2>2. ProcTypeOK'
    BY <1>3, Proc_PCharge
  <2>3. ControlTypeOK'
    BY <1>3 DEF PCharge, TypeOK, SchedTypeOK
  <2>4. LocalsOK'
    BY <1>3 DEF PCharge, TypeOK, SchedTypeOK, ProcTypeOK
  <2>. QED BY <2>1, <2>2, <2>3, <2>4 DEF TypeOK
<1>4. CASE VNoneWaiting
  <2>1. SchedTypeOK' /\ CreateTypeOK' /\ MemTypeOK' /\ IOTypeOK' /\ LockTypeOK'
    BY <1>4, Frames DEF VNoneWaiting
  <2>2. ProcTypeOK'
    BY <1>4, CurCreated, NextPCType DEF VNoneWaiting, TypeOK, ProcTypeOK, Status
  <2>3. SemTypeOK'
    BY <1>4 DEF VNoneWaiting, TypeOK, SemTypeOK
  <2>4. ControlTypeOK'
    BY <1>4 DEF VNoneWaiting, TypeOK, SchedTypeOK
  <2>5. LocalsOK'
    BY <1>4 DEF VNoneWaiting, TypeOK, SchedTypeOK, ProcTypeOK
  <2>. QED BY <2>1, <2>2, <2>3, <2>4, <2>5 DEF TypeOK
<1>5. CASE VHandOver
  <2>1. CreateTypeOK' /\ MemTypeOK' /\ IOTypeOK' /\ LockTypeOK'
    BY <1>5, Frames DEF VHandOver
  <2>2. SchedTypeOK'
    BY <1>5, Proc_VHandOver
  <2>3. ProcTypeOK'
    BY <1>5, Proc_VHandOver
  <2>4. SemTypeOK'
    BY <1>5, Proc_VHandOver
  <2>5. ControlTypeOK'
    BY <1>5 DEF VHandOver, TypeOK, SchedTypeOK
  <2>6. LocalsOK'
    BY <1>5 DEF VHandOver, TypeOK, SchedTypeOK, ProcTypeOK
  <2>. QED BY <2>1, <2>2, <2>3, <2>4, <2>5, <2>6 DEF TypeOK
<1>6. CASE EnqueueDisk
  <2>1. SchedTypeOK' /\ CreateTypeOK' /\ SemTypeOK' /\ MemTypeOK' /\ LockTypeOK'
    BY <1>6, Frames DEF EnqueueDisk
  <2>2. ProcTypeOK'
    BY <1>6, CurCreated, NextPCType DEF EnqueueDisk, TypeOK, ProcTypeOK, Status
  <2>3. IOTypeOK'
    BY <1>6, RequestType, AddDiskType DEF EnqueueDisk, TypeOK, IOTypeOK, IORequest
  <2>4. ControlTypeOK'
    BY <1>6 DEF EnqueueDisk, TypeOK, SchedTypeOK
  <2>5. LocalsOK'
    BY <1>6 DEF EnqueueDisk, TypeOK, SchedTypeOK, ProcTypeOK
  <2>. QED BY <2>1, <2>2, <2>3, <2>4, <2>5 DEF TypeOK
<1>7. CASE EnqueuePrint
  <2>1. SchedTypeOK' /\ CreateTypeOK' /\ SemTypeOK' /\ MemTypeOK' /\ LockTypeOK'
    BY <1>7, Frames DEF EnqueuePrint
  <2>2. ProcTypeOK'
    BY <1>7, CurCreated, NextPCType DEF EnqueuePrint, TypeOK, ProcTypeOK, Status
  <2>3. IOTypeOK'
    BY <1>7, RequestType, AppendType DEF EnqueuePrint, TypeOK, IOTypeOK, IORequest
  <2>4. ControlTypeOK'
    BY <1>7 DEF EnqueuePrint, TypeOK, SchedTypeOK
  <2>5. LocalsOK'
    BY <1>7, L_EnqueuePrint
  <2>. QED BY <2>1, <2>2, <2>3, <2>4, <2>5 DEF TypeOK
<1>. QED BY <1>1, <1>2, <1>3, <1>4, <1>5, <1>6, <1>7

\* process_finish_syscall.
LEMMA CpuFinishType ==
  ASSUME IInv, Finish \/ FinishWait \/ FinishUnload \/ FinishFree \/ FinishUnlink
         \/ FinishHeader \/ FinishNode \/ FinishTail \/ FinishSchedule \/ FinishPost
  PROVE  IInv'
<1>. USE DEF IInv, schedVars, createVars, procVars, semVars, memVars, ioVars, diskVars,
     printVars, lockVars, localVars, Before, Goto, Raise, ControlTypeOK, Created,
     Thread, CpuLabel, DiskLabel, PrintLabel, UiLabel, IrqLabel, MemoryLabel,
     FinishLabel, CpuInterruption, INTERRUPTION_TYPE, LocalsOK, CpuLocalsOK,
     DiskLocalsOK, PrintLocalsOK, UiLocalsOK, HasProcess, Executing, Done, CodeOf,
     Instr, InstructionAt, NextPC
<1>1. CASE Finish
  <2>1. /\ SchedTypeOK' /\ CreateTypeOK' /\ ProcTypeOK' /\ SemTypeOK'
        /\ MemTypeOK' /\ IOTypeOK' /\ LockTypeOK'
    BY <1>1, Frames DEF Finish
  <2>2. ControlTypeOK'
    BY <1>1 DEF Finish, TypeOK, SchedTypeOK
  <2>3. LocalsOK'
    BY <1>1 DEF Finish, TypeOK, SchedTypeOK, ProcTypeOK
  <2>. QED BY <2>1, <2>2, <2>3 DEF TypeOK
<1>2. CASE FinishWait
  <2>1. /\ SchedTypeOK' /\ CreateTypeOK' /\ SemTypeOK' /\ MemTypeOK'
        /\ IOTypeOK' /\ LockTypeOK'
    BY <1>2, Frames DEF FinishWait
  <2>2. ProcTypeOK'
    BY <1>2 DEF FinishWait, TypeOK, ProcTypeOK, Status
  <2>3. ControlTypeOK'
    BY <1>2 DEF FinishWait, TypeOK, SchedTypeOK
  <2>4. LocalsOK'
    BY <1>2 DEF FinishWait, TypeOK, SchedTypeOK, ProcTypeOK
  <2>. QED BY <2>1, <2>2, <2>3, <2>4 DEF TypeOK
<1>3. CASE FinishUnload
  <2>1. SchedTypeOK' /\ CreateTypeOK' /\ SemTypeOK' /\ IOTypeOK' /\ LockTypeOK'
    BY <1>3, Frames DEF FinishUnload
  <2>2. ProcTypeOK'
    BY <1>3 DEF FinishUnload, TypeOK, ProcTypeOK, Status
  <2>3. MemTypeOK'
    BY <1>3, CurCreated, Mem_Unload DEF FinishUnload
  <2>4. ControlTypeOK'
    BY <1>3 DEF FinishUnload, TypeOK, SchedTypeOK
  <2>5. LocalsOK'
    BY <1>3 DEF FinishUnload, TypeOK, SchedTypeOK, ProcTypeOK
  <2>. QED BY <2>1, <2>2, <2>3, <2>4, <2>5 DEF TypeOK
<1>4. CASE FinishFree
  <2>1. /\ SchedTypeOK' /\ CreateTypeOK' /\ SemTypeOK' /\ MemTypeOK'
        /\ IOTypeOK' /\ LockTypeOK'
    BY <1>4, Frames DEF FinishFree
  <2>2. ProcTypeOK'
    BY <1>4, CurCreated DEF FinishFree, TypeOK, ProcTypeOK, Status
  <2>3. ControlTypeOK'
    BY <1>4 DEF FinishFree, TypeOK, SchedTypeOK
  <2>4. LocalsOK'
    BY <1>4 DEF FinishFree, TypeOK, SchedTypeOK, ProcTypeOK
  <2>. QED BY <2>1, <2>2, <2>3, <2>4 DEF TypeOK
<1>5. CASE FinishUnlink
  <2>1. ProcTypeOK' /\ SemTypeOK' /\ MemTypeOK' /\ IOTypeOK' /\ LockTypeOK'
    BY <1>5, Frames DEF FinishUnlink
  <2>2. SchedTypeOK'
    BY <1>5, Sched_FinishUnlink
  <2>3. CreateTypeOK'
    BY <1>5, Create_FinishUnlink
  <2>4. ControlTypeOK'
    BY <1>5, UnlinkGoes DEF FinishUnlink, TypeOK
  <2>5. LocalsOK'
    BY <1>5, L_FinishUnlink
  <2>. QED BY <2>1, <2>2, <2>3, <2>4, <2>5 DEF TypeOK
<1>6. CASE FinishSchedule
  <2>1. CreateTypeOK' /\ SemTypeOK' /\ MemTypeOK' /\ IOTypeOK'
    BY <1>6, Frames DEF FinishSchedule
  <2>2. SchedTypeOK'
    BY <1>6, SchedulingType DEF FinishSchedule, TypeOK, SchedTypeOK
  <2>3. ProcTypeOK'
    BY <1>6, SchedulingType DEF FinishSchedule, TypeOK, ProcTypeOK, Status
  <2>4. LockTypeOK'
    BY <1>6 DEF FinishSchedule, TypeOK, LockTypeOK
  <2>5. ControlTypeOK'
    BY <1>6 DEF FinishSchedule, TypeOK, SchedTypeOK
  <2>6. LocalsOK'
    BY <1>6 DEF FinishSchedule, TypeOK, SchedTypeOK, ProcTypeOK
  <2>. QED BY <2>1, <2>2, <2>3, <2>4, <2>5, <2>6 DEF TypeOK
<1>7. CASE FinishPost
  <2>1. /\ SchedTypeOK' /\ CreateTypeOK' /\ ProcTypeOK' /\ SemTypeOK'
        /\ MemTypeOK' /\ IOTypeOK'
    BY <1>7, Frames DEF FinishPost
  <2>2. LockTypeOK'
    BY <1>7 DEF FinishPost, TypeOK, LockTypeOK
  <2>3. ControlTypeOK'
    BY <1>7 DEF FinishPost, TypeOK, SchedTypeOK
  <2>4. LocalsOK'
    BY <1>7 DEF FinishPost, TypeOK, SchedTypeOK, ProcTypeOK
  <2>. QED BY <2>1, <2>2, <2>3, <2>4 DEF TypeOK
<1>8. CASE FinishHeader
  <2>1. /\ SchedTypeOK' /\ ProcTypeOK' /\ SemTypeOK' /\ MemTypeOK'
        /\ IOTypeOK' /\ LockTypeOK'
    BY <1>8, Frames DEF FinishHeader
  <2>2. CreateTypeOK'
    BY <1>8, EmptySeq DEF FinishHeader, TypeOK, CreateTypeOK
  <2>3. ControlTypeOK'
    BY <1>8 DEF FinishHeader, TypeOK
  <2>4. LocalsOK'
    BY <1>8 DEF FinishHeader, TypeOK
  <2>. QED BY <2>1, <2>2, <2>3, <2>4 DEF TypeOK
<1>9. CASE FinishNode
  <2>1. /\ SchedTypeOK' /\ ProcTypeOK' /\ SemTypeOK' /\ MemTypeOK'
        /\ IOTypeOK' /\ LockTypeOK'
    BY <1>9, Frames DEF FinishNode
  <2>2. CreateTypeOK'
    BY <1>9 DEF FinishNode, Unless, TypeOK, CreateTypeOK
  <2>3. ControlTypeOK'
    BY <1>9 DEF FinishNode, TypeOK
  <2>4. LocalsOK'
    BY <1>9 DEF FinishNode, TypeOK
  <2>. QED BY <2>1, <2>2, <2>3, <2>4 DEF TypeOK
<1>10. CASE FinishTail
  <2>1. /\ SchedTypeOK' /\ ProcTypeOK' /\ SemTypeOK' /\ MemTypeOK'
        /\ IOTypeOK' /\ LockTypeOK'
    BY <1>10, Frames DEF FinishTail
  <2>2. CreateTypeOK'
    BY <1>10, Create_FinishTail
  <2>3. ControlTypeOK'
    BY <1>10 DEF FinishTail, TypeOK
  <2>4. LocalsOK'
    BY <1>10 DEF FinishTail, TypeOK
  <2>. QED BY <2>1, <2>2, <2>3, <2>4 DEF TypeOK
<1>. QED BY <1>1, <1>2, <1>3, <1>4, <1>5, <1>6, <1>7, <1>8, <1>9, <1>10

\* The disk thread.
LEMMA DiskType ==
  ASSUME IInv, DiskNext
  PROVE  IInv'
<1>. USE DEF IInv, schedVars, createVars, procVars, semVars, memVars, ioVars, diskVars,
     printVars, lockVars, localVars, Before, Goto, Raise, ControlTypeOK, Created,
     Thread, CpuLabel, DiskLabel, PrintLabel, UiLabel, IrqLabel, MemoryLabel,
     FinishLabel, CpuInterruption, INTERRUPTION_TYPE, LocalsOK, CpuLocalsOK,
     DiskLocalsOK, PrintLocalsOK, UiLocalsOK, HasProcess, Executing, Done, CodeOf,
     Instr, InstructionAt, NextPC, Interrupter, Type, Return
<1>1. CASE Interrupt("disk")
  BY <1>1, InterruptType DEF Interrupter
<1>2. CASE SweepStart
  <2>1. /\ SchedTypeOK' /\ CreateTypeOK' /\ ProcTypeOK' /\ SemTypeOK'
        /\ MemTypeOK' /\ LockTypeOK'
    BY <1>2, Frames DEF SweepStart
  <2>2. IOTypeOK'
    BY <1>2, IO_SweepStart
  <2>3. ControlTypeOK'
    BY <1>2 DEF SweepStart, TypeOK, SchedTypeOK
  <2>4. LocalsOK'
    BY <1>2 DEF SweepStart, TypeOK, SchedTypeOK, ProcTypeOK
  <2>. QED BY <2>1, <2>2, <2>3, <2>4 DEF TypeOK
<1>3. CASE SweepNext
  <2>1. /\ SchedTypeOK' /\ CreateTypeOK' /\ ProcTypeOK' /\ SemTypeOK'
        /\ MemTypeOK' /\ LockTypeOK'
    BY <1>3, Frames DEF SweepNext
  <2>2. IOTypeOK'
    BY <1>3, IO_SweepNext
  <2>3. ControlTypeOK'
    BY <1>3 DEF SweepNext, TypeOK, SchedTypeOK
  <2>4. LocalsOK'
    BY <1>3, L_SweepNext
  <2>. QED BY <2>1, <2>2, <2>3, <2>4 DEF TypeOK
<1>4. CASE SweepEnd
  <2>1. /\ SchedTypeOK' /\ CreateTypeOK' /\ ProcTypeOK' /\ SemTypeOK'
        /\ MemTypeOK' /\ IOTypeOK' /\ LockTypeOK'
    BY <1>4, Frames DEF SweepEnd
  <2>2. ControlTypeOK'
    BY <1>4 DEF SweepEnd, TypeOK, SchedTypeOK
  <2>3. LocalsOK'
    BY <1>4 DEF SweepEnd, TypeOK, SchedTypeOK, ProcTypeOK
  <2>. QED BY <2>1, <2>2, <2>3 DEF TypeOK
<1>5. CASE FulfillDiskRequest
  <2>1. SchedTypeOK' /\ CreateTypeOK' /\ SemTypeOK' /\ MemTypeOK' /\ IOTypeOK'
    BY <1>5, Frames DEF FulfillDiskRequest
  <2>2. ProcTypeOK'
    BY <1>5 DEF FulfillDiskRequest, TypeOK, ProcTypeOK, Status
  <2>3. LockTypeOK'
    BY <1>5 DEF FulfillDiskRequest, TypeOK, LockTypeOK
  <2>4. ControlTypeOK'
    BY <1>5 DEF FulfillDiskRequest, TypeOK, SchedTypeOK
  <2>5. LocalsOK'
    BY <1>5 DEF FulfillDiskRequest, TypeOK, SchedTypeOK, ProcTypeOK
  <2>. QED BY <2>1, <2>2, <2>3, <2>4, <2>5 DEF TypeOK
<1>6. CASE DiskRequestFinished
  <2>1. CreateTypeOK' /\ ProcTypeOK' /\ SemTypeOK' /\ MemTypeOK' /\ LockTypeOK'
    BY <1>6, Frames DEF DiskRequestFinished
  <2>2. SchedTypeOK'
    BY <1>6, Sched_DiskRequestFinished
  <2>3. IOTypeOK'
    BY <1>6, IO_DiskRequestFinished
  <2>4. ControlTypeOK'
    BY <1>6 DEF DiskRequestFinished, TypeOK, SchedTypeOK
  <2>5. LocalsOK'
    BY <1>6 DEF DiskRequestFinished, TypeOK, SchedTypeOK, ProcTypeOK
  <2>. QED BY <2>1, <2>2, <2>3, <2>4, <2>5 DEF TypeOK
<1>7. CASE DiskPost
  <2>1. /\ SchedTypeOK' /\ CreateTypeOK' /\ ProcTypeOK' /\ SemTypeOK'
        /\ MemTypeOK' /\ IOTypeOK'
    BY <1>7, Frames DEF DiskPost
  <2>2. LockTypeOK'
    BY <1>7 DEF DiskPost, TypeOK, LockTypeOK
  <2>3. ControlTypeOK'
    BY <1>7 DEF DiskPost, TypeOK, SchedTypeOK
  <2>4. LocalsOK'
    BY <1>7 DEF DiskPost, TypeOK, SchedTypeOK, ProcTypeOK
  <2>. QED BY <2>1, <2>2, <2>3, <2>4 DEF TypeOK
<1>. QED BY <1>1, <1>2, <1>3, <1>4, <1>5, <1>6, <1>7 DEF DiskNext

\* The printer thread.
LEMMA PrintType ==
  ASSUME IInv, PrintNext
  PROVE  IInv'
<1>. USE DEF IInv, schedVars, createVars, procVars, semVars, memVars, ioVars, diskVars,
     printVars, lockVars, localVars, Before, Goto, Raise, ControlTypeOK, Created,
     Thread, CpuLabel, DiskLabel, PrintLabel, UiLabel, IrqLabel, MemoryLabel,
     FinishLabel, CpuInterruption, INTERRUPTION_TYPE, LocalsOK, CpuLocalsOK,
     DiskLocalsOK, PrintLocalsOK, UiLocalsOK, HasProcess, Executing, Done, CodeOf,
     Instr, InstructionAt, NextPC, Interrupter, Type, Return
<1>1. CASE Interrupt("print")
  BY <1>1, InterruptType DEF Interrupter
<1>2. CASE FulfillPrint
  <2>1. /\ SchedTypeOK' /\ CreateTypeOK' /\ SemTypeOK' /\ MemTypeOK'
        /\ IOTypeOK' /\ LockTypeOK'
    BY <1>2, Frames DEF FulfillPrint
  <2>2. ProcTypeOK'
    BY <1>2 DEF FulfillPrint, TypeOK, ProcTypeOK, Status
  <2>3. ControlTypeOK'
    BY <1>2 DEF FulfillPrint, TypeOK, SchedTypeOK
  <2>4. LocalsOK'
    BY <1>2 DEF FulfillPrint, TypeOK, SchedTypeOK, ProcTypeOK
  <2>. QED BY <2>1, <2>2, <2>3, <2>4 DEF TypeOK
<1>3. CASE PrintRequestFinished
  <2>1. CreateTypeOK' /\ ProcTypeOK' /\ SemTypeOK' /\ MemTypeOK' /\ LockTypeOK'
    BY <1>3, Frames DEF PrintRequestFinished
  <2>2. SchedTypeOK'
    BY <1>3, Sched_PrintRequestFinished
  <2>3. IOTypeOK'
    BY <1>3, IO_PrintRequestFinished
  <2>4. ControlTypeOK'
    BY <1>3 DEF PrintRequestFinished, TypeOK, SchedTypeOK
  <2>5. LocalsOK'
    BY <1>3 DEF PrintRequestFinished, TypeOK, SchedTypeOK, ProcTypeOK
  <2>. QED BY <2>1, <2>2, <2>3, <2>4, <2>5 DEF TypeOK
<1>. QED BY <1>1, <1>2, <1>3 DEF PrintNext

\* The user interface thread.
LEMMA UiType ==
  ASSUME IInv, UiNext
  PROVE  IInv'
<1>. USE DEF IInv, schedVars, createVars, procVars, semVars, memVars, ioVars, diskVars,
     printVars, lockVars, localVars, Before, Goto, Raise, ControlTypeOK, Created,
     Thread, CpuLabel, DiskLabel, PrintLabel, UiLabel, IrqLabel, MemoryLabel,
     FinishLabel, CpuInterruption, INTERRUPTION_TYPE, LocalsOK, CpuLocalsOK,
     DiskLocalsOK, PrintLocalsOK, UiLocalsOK, HasProcess, Executing, Done, CodeOf,
     Instr, InstructionAt, NextPC
<1>1. CASE CreateProcess
  BY <1>1, All_CreateProcess
<1>2. CASE LinkPCB
  <2>1. /\ SchedTypeOK' /\ ProcTypeOK' /\ SemTypeOK' /\ MemTypeOK'
        /\ IOTypeOK' /\ LockTypeOK'
    BY <1>2, Frames DEF LinkPCB
  <2>2. CreateTypeOK'
    BY <1>2, Create_LinkPCB
  <2>3. ControlTypeOK'
    BY <1>2 DEF LinkPCB, TypeOK, SchedTypeOK
  <2>4. LocalsOK'
    BY <1>2, Create_LinkPCB DEF LinkPCB, TypeOK, SchedTypeOK, ProcTypeOK
  <2>. QED BY <2>1, <2>2, <2>3, <2>4 DEF TypeOK
<1>3. CASE Enqueue
  <2>1. /\ CreateTypeOK' /\ ProcTypeOK' /\ SemTypeOK' /\ MemTypeOK'
        /\ IOTypeOK' /\ LockTypeOK'
    BY <1>3, Frames DEF Enqueue
  <2>2. SchedTypeOK'
    BY <1>3, Sched_Enqueue
  <2>3. ControlTypeOK'
    BY <1>3 DEF Enqueue, TypeOK, SchedTypeOK
  <2>4. LocalsOK'
    BY <1>3 DEF Enqueue, TypeOK, SchedTypeOK, ProcTypeOK
  <2>. QED BY <2>1, <2>2, <2>3, <2>4 DEF TypeOK
<1>4. CASE Announce
  <2>1. /\ CreateTypeOK' /\ ProcTypeOK' /\ SemTypeOK' /\ MemTypeOK'
        /\ IOTypeOK' /\ LockTypeOK'
    BY <1>4, Frames DEF Announce
  <2>2. SchedTypeOK'
    BY <1>4 DEF Announce, TypeOK, SchedTypeOK
  <2>3. ControlTypeOK'
    BY <1>4 DEF Announce, TypeOK, SchedTypeOK
  <2>4. LocalsOK'
    BY <1>4 DEF Announce, TypeOK, SchedTypeOK, ProcTypeOK
  <2>. QED BY <2>1, <2>2, <2>3, <2>4 DEF TypeOK
<1>5. CASE Quit
  <2>1. /\ SchedTypeOK' /\ CreateTypeOK' /\ ProcTypeOK' /\ SemTypeOK'
        /\ MemTypeOK' /\ IOTypeOK' /\ LockTypeOK'
    BY <1>5, Frames DEF Quit
  <2>2. ControlTypeOK'
    BY <1>5 DEF Quit, TypeOK, SchedTypeOK
  <2>3. LocalsOK'
    BY <1>5 DEF Quit, TypeOK, SchedTypeOK, ProcTypeOK
  <2>. QED BY <2>1, <2>2, <2>3 DEF TypeOK
<1>6. CASE MoveTail
  <2>1. /\ SchedTypeOK' /\ ProcTypeOK' /\ SemTypeOK' /\ MemTypeOK'
        /\ IOTypeOK' /\ LockTypeOK'
    BY <1>6, Frames DEF MoveTail
  <2>2. CreateTypeOK'
    BY <1>6, NewProcessType DEF MoveTail, TypeOK, CreateTypeOK
  <2>3. ControlTypeOK'
    BY <1>6 DEF MoveTail, TypeOK
  <2>4. LocalsOK'
    BY <1>6 DEF MoveTail, TypeOK
  <2>. QED BY <2>1, <2>2, <2>3, <2>4 DEF TypeOK
<1>. QED BY <1>1, <1>2, <1>3, <1>4, <1>5, <1>6 DEF UiNext, Submission

-----------------------------------------------------------------------------
(* Undefined behaviour and the end of the program change nothing but os. *)

\* A step that changes nothing but os keeps the invariant.
LEMMA StopType ==
  ASSUME IInv, UNCHANGED <<schedVars, createVars, procVars, semVars, memVars, ioVars,
         localVars, lockVars, at>>, os' \in {"up", "exited", "fault"}
  PROVE  IInv'
<1>. USE DEF IInv, schedVars, createVars, procVars, semVars, memVars, ioVars, diskVars,
     printVars, lockVars, localVars
<1>1. /\ SchedTypeOK' /\ CreateTypeOK' /\ ProcTypeOK' /\ SemTypeOK'
      /\ MemTypeOK' /\ IOTypeOK' /\ LockTypeOK'
  BY Frames
<1>2. ControlTypeOK'
  BY DEF TypeOK, ControlTypeOK, Created
<1>3. LocalsOK'
  BY DEF LocalsOK, CpuLocalsOK, DiskLocalsOK, PrintLocalsOK, UiLocalsOK, Executing,
      Done, Instr, InstructionAt, CodeOf
<1>. QED BY <1>1, <1>2, <1>3 DEF TypeOK

\* Every step of the program, and every stutter, keeps the invariant.
LEMMA StepType ==
  ASSUME IInv, [Next]_vars
  PROVE  IInv'
<1>1. CASE CpuNext
  BY <1>1, InterruptType, MemoryType, CpuLoopType, CpuCallsType, CpuFinishType DEF
      CpuNext, Interrupter
<1>2. CASE DiskNext
  BY <1>2, DiskType
<1>3. CASE PrintNext
  BY <1>3, PrintType
<1>4. CASE UiNext
  BY <1>4, UiType
<1>5. CASE \/ Fault(CpuUndefined) \/ Fault(DiskUndefined)
           \/ Fault(PrintUndefined) \/ Fault(PushUndefined)
  BY <1>5, StopType DEF Fault
<1>6. CASE UNCHANGED vars
  <2>1. os \in {"up", "exited", "fault"}
    BY DEF IInv, TypeOK, ControlTypeOK
  <2>. QED BY <1>6, <2>1, StopType DEF vars
<1>. QED
  BY <1>1, <1>2, <1>3, <1>4, <1>5, <1>6
     DEF Next, Cpu, DiskThread, PrintThread, UiThread, Halted

\* The state main() leaves satisfies it.
LEMMA InitType == Init => IInv
<1>. SUFFICES ASSUME Init PROVE IInv
  OBVIOUS
<1>. USE DEF Init
<1>0. Created = {}
  <2>1. processes_id = 0
    OBVIOUS
  <2>. QED BY <2>1 DEF Created
<1>1. SchedTypeOK /\ CreateTypeOK
  <2>1. SchedTypeOK
    BY <1>0, EmptySeq DEF SchedTypeOK
  <2>2. processes_id \in 0..MaxProcs
    BY BoundAssumption
  <2>3. file \in [Proc -> File \cup {NULL}]
    OBVIOUS
  <2>. QED BY <1>0, <2>1, <2>2, <2>3, EmptySeq DEF CreateTypeOK
<1>2. ProcTypeOK /\ SemTypeOK
  BY <1>0, EmptySeq DEF ProcTypeOK, SemTypeOK, Status
<1>3. MemTypeOK /\ IOTypeOK /\ LockTypeOK
  BY <1>0, EmptySeq, ClockAssumption DEF MemTypeOK, IOTypeOK, LockTypeOK
<1>4. /\ at["cpu"] = "spin" /\ at["disk"] = "poll"
      /\ at["print"] = "poll" /\ at["ui"] = "prompt"
  BY DEF Thread
<1>5. ControlTypeOK
  BY <1>4 DEF ControlTypeOK, Thread, CpuLabel, DiskLabel, PrintLabel, UiLabel,
      CpuInterruption, INTERRUPTION_TYPE
<1>6. LocalsOK
  BY <1>4 DEF LocalsOK, CpuLocalsOK, DiskLocalsOK, PrintLocalsOK, UiLocalsOK,
      HasProcess, Executing, IrqLabel, MemoryLabel, FinishLabel
<1>. QED BY <1>1, <1>2, <1>3, <1>5, <1>6 DEF IInv, TypeOK

-----------------------------------------------------------------------------
\* The invariant the other proofs start from.
THEOREM Invariant == Spec => []IInv
<1>1. IInv /\ [Next]_vars => IInv'
  BY StepType
<1>. QED BY InitType, <1>1, PTL DEF Spec

\* Every variable always has its type, whatever the programs and however the four
\* threads interleave: no list ever holds a process that was not created, or a
\* request for an instruction its program does not have.
THEOREM TypeCorrect == Spec => []TypeOK
<1>1. IInv => TypeOK
  BY DEF IInv
<1>. QED BY Invariant, <1>1, PTL

\* What a thread holds between two of its steps stays what it needs: no other thread
\* makes the CPU execute past the end of a program that was not finished when it
\* was fetched, and neither device ever serves a request it does not have.
THEOREM LocalsCorrect == Spec => []LocalsOK
<1>1. IInv => LocalsOK
  BY DEF IInv
<1>. QED BY Invariant, <1>1, PTL

-----------------------------------------------------------------------------
(* The semaphores of the host. *)

InterruptSection == IrqLabel \ {"irq_lock"}
SchedulerSection == {"irq_scheduled", "fin_post"}
DiskSection == IrqLabel \cup {"disk_add", "disk_post"}

-----------------------------------------------------------------------------
(* Who is in a section after a thread has moved. *)

\* A thread that moves to `label` is in the section iff the label is.
LEMMA Moved ==
  ASSUME ControlTypeOK, NEW t \in Thread, NEW label, Goto(t, label)
  PROVE  /\ InterruptHolders' = IF label \in InterruptSection
                                THEN InterruptHolders \cup {t}
                                ELSE InterruptHolders \ {t}
         /\ SchedulerHolders' = IF label \in SchedulerSection
                                THEN SchedulerHolders \cup {t}
                                ELSE SchedulerHolders \ {t}
         /\ DiskHolders' = IF t # "disk" THEN DiskHolders
                           ELSE IF label \in DiskSection THEN {"disk"} ELSE {}
<1>1. \A u \in Thread : at'[u] = IF u = t THEN label ELSE at[u]
  BY DEF Goto, ControlTypeOK
<1>2. InterruptHolders' = {u \in Thread : at'[u] \in InterruptSection}
  BY DEF InterruptHolders, InterruptSection
<1>3. SchedulerHolders' = {u \in Thread : at'[u] \in SchedulerSection}
  BY DEF SchedulerHolders, SchedulerSection
<1>4. DiskHolders' = {u \in {"disk"} : at'[u] \in DiskSection}
  BY DEF DiskHolders, DiskSection
<1>5. InterruptHolders = {u \in Thread : at[u] \in InterruptSection}
  BY DEF InterruptHolders, InterruptSection
<1>6. SchedulerHolders = {u \in Thread : at[u] \in SchedulerSection}
  BY DEF SchedulerHolders, SchedulerSection
<1>7. DiskHolders = {u \in {"disk"} : at[u] \in DiskSection}
  BY DEF DiskHolders, DiskSection
<1>8. "disk" \in Thread
  BY DEF Thread
<1>9. DiskHolders' = IF t # "disk" THEN DiskHolders
                     ELSE IF label \in DiskSection THEN {"disk"} ELSE {}
  BY <1>1, <1>4, <1>7, <1>8
<1>10. InterruptHolders' = IF label \in InterruptSection
                           THEN InterruptHolders \cup {t}
                           ELSE InterruptHolders \ {t}
  BY <1>1, <1>2, <1>5
<1>11. SchedulerHolders' = IF label \in SchedulerSection
                           THEN SchedulerHolders \cup {t}
                           ELSE SchedulerHolders \ {t}
  BY <1>1, <1>3, <1>6
<1>. QED BY <1>9, <1>10, <1>11

\* A step that stays on the same side of every section and posts nothing.
LEMMA Neutral ==
  ASSUME ControlTypeOK, HostLocks, NEW t \in Thread, NEW label, Goto(t, label),
         UNCHANGED lockVars,
         label \in InterruptSection <=> at[t] \in InterruptSection,
         label \in SchedulerSection <=> at[t] \in SchedulerSection,
         t = "disk" => (label \in DiskSection <=> at[t] \in DiskSection)
  PROVE  HostLocks'
<1>1. InterruptHolders' = InterruptHolders
  BY Moved DEF InterruptHolders, InterruptSection
<1>2. SchedulerHolders' = SchedulerHolders
  BY Moved DEF SchedulerHolders, SchedulerSection
<1>3. DiskHolders' = DiskHolders
  BY Moved DEF DiskHolders, DiskSection
<1>. QED BY <1>1, <1>2, <1>3 DEF HostLocks, Guards, lockVars

\* Taking a semaphore that is free.
LEMMA Taken ==
  ASSUME NEW holders, Guards(1, holders), NEW t
  PROVE  Guards(0, holders \cup {t})
  BY DEF Guards

\* Posting a semaphore that one holds.
LEMMA Posted ==
  ASSUME NEW holders, NEW semaphore, NEW t \in holders, Guards(semaphore, holders)
  PROVE  Guards(1, holders \ {t})
  BY DEF Guards

-----------------------------------------------------------------------------
(* The steps of each thread. *)

\* process_interrupt, whichever thread calls it.
LEMMA InterruptLocks ==
  ASSUME IInv, HostLocks, NEW t \in Interrupter, Interrupt(t)
  PROVE  HostLocks'
<1>. USE DEF InterruptSection, SchedulerSection, DiskSection, IrqLabel
<1>0. ControlTypeOK /\ t \in Thread
  BY DEF IInv, TypeOK, Interrupter, Thread
<1>1. CASE IrqLock(t)
  <2>1. /\ InterruptHolders' = InterruptHolders \cup {t}
        /\ SchedulerHolders' = SchedulerHolders /\ DiskHolders' = DiskHolders
    BY <1>0, <1>1, Moved DEF IrqLock, Before, SchedulerHolders, DiskHolders
  <2>2. /\ interrupt_semaphore = 1 /\ interrupt_semaphore' = 0
        /\ UNCHANGED <<scheduler_semaphore, disk_semaphore>>
    BY <1>1 DEF IrqLock
  <2>. QED BY <2>1, <2>2, Taken DEF HostLocks, Guards
<1>2. CASE IrqTest(t)
  BY <1>0, <1>2, Neutral DEF IrqTest, Before
<1>3. CASE IrqMark(t)
  BY <1>0, <1>3, Neutral DEF IrqMark, Before
<1>4. CASE IrqSchedule(t)
  <2>1. /\ SchedulerHolders' = SchedulerHolders \cup {t}
        /\ InterruptHolders' = InterruptHolders /\ DiskHolders' = DiskHolders
    BY <1>0, <1>4, Moved DEF IrqSchedule, Before, InterruptHolders, DiskHolders
  <2>2. /\ scheduler_semaphore = 1 /\ scheduler_semaphore' = 0
        /\ UNCHANGED <<interrupt_semaphore, disk_semaphore>>
    BY <1>4 DEF IrqSchedule
  <2>. QED BY <2>1, <2>2, Taken DEF HostLocks, Guards
<1>5. CASE IrqScheduled(t)
  <2>1. /\ SchedulerHolders' = SchedulerHolders \ {t} /\ t \in SchedulerHolders
        /\ InterruptHolders' = InterruptHolders /\ DiskHolders' = DiskHolders
    BY <1>0, <1>5, Moved
       DEF IrqScheduled, Before, InterruptHolders, SchedulerHolders, DiskHolders
  <2>2. /\ scheduler_semaphore' = 1
        /\ UNCHANGED <<interrupt_semaphore, disk_semaphore>>
    BY <1>5 DEF IrqScheduled
  <2>. QED BY <2>1, <2>2, Posted DEF HostLocks, Guards
<1>6. CASE IrqExit(t)
  <2>1. /\ t = "cpu" => Return(t) \in {"clear_flag", "spin", "loop", "enqueue"}
        /\ t = "disk" => Return(t) = "disk_post"
        /\ t = "print" => Return(t) = "poll"
    BY DEF IInv, TypeOK, ControlTypeOK, CpuInterruption, INTERRUPTION_TYPE, Interrupter,
           Return, Type
  <2>2. /\ InterruptHolders' = InterruptHolders \ {t} /\ t \in InterruptHolders
        /\ SchedulerHolders' = SchedulerHolders /\ DiskHolders' = DiskHolders
    BY <1>0, <1>6, <2>1, Moved
       DEF IrqExit, Before, InterruptHolders, SchedulerHolders, DiskHolders, Interrupter
  <2>3. /\ interrupt_semaphore' = 1
        /\ UNCHANGED <<scheduler_semaphore, disk_semaphore>>
    BY <1>6 DEF IrqExit
  <2>. QED BY <2>2, <2>3, Posted DEF HostLocks, Guards
<1>. QED BY <1>1, <1>2, <1>3, <1>4, <1>5, <1>6 DEF Interrupt

\* The CPU thread.
LEMMA CpuLocks ==
  ASSUME IInv, HostLocks, CpuNext
  PROVE  HostLocks'
<1>. USE DEF InterruptSection, SchedulerSection, DiskSection, IrqLabel
<1>0. ControlTypeOK /\ Thread = {"cpu", "disk", "print", "ui"}
  BY DEF IInv, TypeOK, Thread
<1>1. CASE Interrupt("cpu")
  BY <1>1, InterruptLocks DEF Interrupter
<1>2. CASE LoadStart
  BY <1>0, <1>2, Neutral DEF LoadStart, Before
<1>3. CASE SwapChoose
  BY <1>0, <1>3, Neutral DEF SwapChoose, Before
<1>4. CASE SwapUnload
  BY <1>0, <1>4, Neutral DEF SwapUnload, Before
<1>5. CASE LoadSegment
  BY <1>0, <1>5, Neutral DEF LoadSegment, Before, Raise
<1>6. CASE Spin
  BY <1>0, <1>6, Neutral DEF Spin, Before, Raise
<1>7. CASE ClearFlag
  BY <1>0, <1>7, Neutral DEF ClearFlag, Before
<1>8. CASE Loop
  BY <1>0, <1>8, Neutral DEF Loop, Before
<1>9. CASE FetchAbsent
  BY <1>0, <1>9, Neutral DEF FetchAbsent, Before
<1>10. CASE Fetch
  BY <1>0, <1>10, Neutral DEF Fetch, Before, Raise
<1>11. CASE Exec
  BY <1>0, <1>11, Neutral DEF Exec, Before
<1>12. CASE PSuccess
  BY <1>0, <1>12, Neutral DEF PSuccess, Before
<1>13. CASE PFailure
  BY <1>0, <1>13, Neutral DEF PFailure, Before, Raise
<1>14. CASE PCharge
  BY <1>0, <1>14, Neutral DEF PCharge, Before
<1>15. CASE VNoneWaiting
  BY <1>0, <1>15, Neutral DEF VNoneWaiting, Before
<1>16. CASE VHandOver
  BY <1>0, <1>16, Neutral DEF VHandOver, Before
<1>17. CASE EnqueueDisk
  BY <1>0, <1>17, Neutral DEF EnqueueDisk, Before
<1>18. CASE EnqueuePrint
  BY <1>0, <1>18, Neutral DEF EnqueuePrint, Before
<1>19. CASE Exit
  BY <1>0, <1>19, Neutral DEF Exit, Before, Raise
<1>20. CASE Finish
  BY <1>0, <1>20, Neutral DEF Finish, Before
<1>21. CASE FinishWait
  BY <1>0, <1>21, Neutral DEF FinishWait, Before
<1>22. CASE FinishUnload
  BY <1>0, <1>22, Neutral DEF FinishUnload, Before
<1>23. CASE FinishFree
  BY <1>0, <1>23, Neutral DEF FinishFree, Before
<1>24. CASE FinishUnlink
  BY <1>0, <1>24, UnlinkGoes, Neutral DEF FinishUnlink, Before
<1>25. CASE FinishSchedule
  <2>1. /\ SchedulerHolders' = SchedulerHolders \cup {"cpu"}
        /\ InterruptHolders' = InterruptHolders /\ DiskHolders' = DiskHolders
    BY <1>0, <1>25, Moved DEF FinishSchedule, Before, InterruptHolders, DiskHolders
  <2>2. /\ scheduler_semaphore = 1 /\ scheduler_semaphore' = 0
        /\ UNCHANGED <<interrupt_semaphore, disk_semaphore>>
    BY <1>25 DEF FinishSchedule
  <2>. QED BY <2>1, <2>2, Taken DEF HostLocks, Guards
<1>26. CASE FinishPost
  <2>1. /\ SchedulerHolders' = SchedulerHolders \ {"cpu"} /\ "cpu" \in SchedulerHolders
        /\ InterruptHolders' = InterruptHolders /\ DiskHolders' = DiskHolders
    BY <1>0, <1>26, Moved
       DEF FinishPost, Before, InterruptHolders, SchedulerHolders, DiskHolders
  <2>2. /\ scheduler_semaphore' = 1
        /\ UNCHANGED <<interrupt_semaphore, disk_semaphore>>
    BY <1>26 DEF FinishPost
  <2>. QED BY <2>1, <2>2, Posted DEF HostLocks, Guards
<1>27. CASE FinishHeader
  BY <1>0, <1>27, Neutral DEF FinishHeader, Before
<1>28. CASE FinishNode
  BY <1>0, <1>28, Neutral DEF FinishNode, Before
<1>29. CASE FinishTail
  BY <1>0, <1>29, Neutral DEF FinishTail, Before
<1>. QED BY <1>1, <1>2, <1>3, <1>4, <1>5, <1>6, <1>7, <1>8, <1>9, <1>10, <1>11, <1>12,
     <1>13, <1>14, <1>15, <1>16, <1>17, <1>18, <1>19, <1>20, <1>21, <1>22, <1>23, <1>24,
     <1>25, <1>26, <1>27, <1>28, <1>29 DEF CpuNext, MemoryNext

\* The disk thread.
LEMMA DiskLocks ==
  ASSUME IInv, HostLocks, DiskNext
  PROVE  HostLocks'
<1>. USE DEF InterruptSection, SchedulerSection, DiskSection, IrqLabel
<1>0. ControlTypeOK /\ Thread = {"cpu", "disk", "print", "ui"}
  BY DEF IInv, TypeOK, Thread
<1>1. CASE Interrupt("disk")
  BY <1>1, InterruptLocks DEF Interrupter
<1>2. CASE SweepStart
  BY <1>0, <1>2, Neutral DEF SweepStart, Before
<1>3. CASE SweepNext
  BY <1>0, <1>3, Neutral DEF SweepNext, Before
<1>4. CASE SweepEnd
  BY <1>0, <1>4, Neutral DEF SweepEnd, Before
<1>5. CASE FulfillDiskRequest
  <2>1. /\ DiskHolders' = {"disk"}
        /\ InterruptHolders' = InterruptHolders /\ SchedulerHolders' = SchedulerHolders
    BY <1>0, <1>5, Moved
       DEF FulfillDiskRequest, Before, InterruptHolders, SchedulerHolders
  <2>2. /\ disk_semaphore = 1 /\ disk_semaphore' = 0
        /\ UNCHANGED <<interrupt_semaphore, scheduler_semaphore>>
    BY <1>5 DEF FulfillDiskRequest
  <2>. QED BY <2>1, <2>2 DEF HostLocks, Guards
<1>6. CASE DiskRequestFinished
  BY <1>0, <1>6, Neutral DEF DiskRequestFinished, Before
<1>7. CASE DiskPost
  <2>1. /\ DiskHolders' = {}
        /\ InterruptHolders' = InterruptHolders /\ SchedulerHolders' = SchedulerHolders
    BY <1>0, <1>7, Moved DEF DiskPost, Before, InterruptHolders, SchedulerHolders
  <2>2. /\ disk_semaphore' = 1
        /\ UNCHANGED <<interrupt_semaphore, scheduler_semaphore>>
    BY <1>7 DEF DiskPost
  <2>. QED BY <2>1, <2>2 DEF HostLocks, Guards
<1>. QED BY <1>1, <1>2, <1>3, <1>4, <1>5, <1>6, <1>7 DEF DiskNext

\* The printer thread.
LEMMA PrintLocks ==
  ASSUME IInv, HostLocks, PrintNext
  PROVE  HostLocks'
<1>. USE DEF InterruptSection, SchedulerSection, DiskSection, IrqLabel
<1>0. ControlTypeOK /\ Thread = {"cpu", "disk", "print", "ui"}
  BY DEF IInv, TypeOK, Thread
<1>1. CASE Interrupt("print")
  BY <1>1, InterruptLocks DEF Interrupter
<1>2. CASE FulfillPrint
  BY <1>0, <1>2, Neutral DEF FulfillPrint, Before
<1>3. CASE PrintRequestFinished
  BY <1>0, <1>3, Neutral DEF PrintRequestFinished, Before
<1>. QED BY <1>1, <1>2, <1>3 DEF PrintNext

\* The user interface thread.
LEMMA UiLocks ==
  ASSUME IInv, HostLocks, UiNext
  PROVE  HostLocks'
<1>. USE DEF InterruptSection, SchedulerSection, DiskSection, IrqLabel
<1>0. ControlTypeOK /\ Thread = {"cpu", "disk", "print", "ui"}
  BY DEF IInv, TypeOK, Thread
<1>1. CASE CreateProcess
  BY <1>0, <1>1, Neutral DEF CreateProcess, Before
<1>2. CASE LinkPCB
  BY <1>0, <1>2, Neutral DEF LinkPCB, Before
<1>3. CASE Enqueue
  BY <1>0, <1>3, Neutral DEF Enqueue, Before
<1>4. CASE Announce
  BY <1>0, <1>4, Neutral DEF Announce, Before
<1>5. CASE Quit
  <2>1. UNCHANGED <<lockVars, at>>
    BY <1>5 DEF Quit
  <2>. QED BY <2>1
       DEF HostLocks, Guards, InterruptHolders, SchedulerHolders, DiskHolders, lockVars
<1>6. CASE MoveTail
  BY <1>0, <1>6, Neutral DEF MoveTail, Before
<1>. QED BY <1>1, <1>2, <1>3, <1>4, <1>5, <1>6 DEF UiNext, Submission

\* Every step of the program, and every stutter.
LEMMA StepLocks ==
  ASSUME IInv, HostLocks, [Next]_vars
  PROVE  HostLocks'
<1>1. CASE CpuNext \/ DiskNext \/ PrintNext \/ UiNext
  BY <1>1, CpuLocks, DiskLocks, PrintLocks, UiLocks
<1>2. CASE UNCHANGED <<lockVars, at>>
  BY <1>2
     DEF HostLocks, Guards, InterruptHolders, SchedulerHolders, DiskHolders, lockVars
<1>. QED
  BY <1>1, <1>2 DEF Next, Cpu, DiskThread, PrintThread, UiThread, Fault, Halted, vars

\* No thread starts in a section, and every semaphore starts at 1.
LEMMA InitLocks == Init => HostLocks
<1>. SUFFICES ASSUME Init PROVE HostLocks
  OBVIOUS
<1>1. \A t \in Thread : at[t] \in {"spin", "poll", "prompt"}
  BY DEF Init, Thread
<1>2. InterruptHolders = {} /\ SchedulerHolders = {} /\ DiskHolders = {}
  BY <1>1
     DEF InterruptHolders, SchedulerHolders, DiskHolders, IrqLabel, Thread
<1>. QED BY <1>2 DEF Init, HostLocks, Guards

-----------------------------------------------------------------------------
\* A host semaphore is 0 exactly while one thread is in a section it guards: nothing is
\* posted twice, and no path through process_interrupt, the disk thread or
\* process_finish_syscall leaves without its sem_post.
THEOREM LocksCorrect == Spec => []HostLocks
<1>1. IInv /\ HostLocks /\ [Next]_vars => HostLocks'
  BY StepLocks
<1>. QED BY Invariant, InitLocks, <1>1, PTL DEF Spec

\* Whoever is innermost in the order disk, interrupt, scheduler waits for nothing.
LEMMA InnermostGoesOn ==
  ASSUME LockTypeOK, HostLocks
  PROVE  NoHostDeadlock
<1>. USE DEF Waits, WaitsInterrupt, WaitsScheduler, WaitsDisk, IrqLabel
<1>. SUFFICES ASSUME NEW t \in Thread, Waits(t)
              PROVE  \E u \in InterruptHolders \cup SchedulerHolders \cup DiskHolders :
                       ~Waits(u)
  BY DEF NoHostDeadlock
<1>1. CASE scheduler_semaphore = 0
  <2>1. PICK u \in SchedulerHolders : TRUE
    BY <1>1 DEF HostLocks, Guards
  <2>2. ~Waits(u)
    BY <2>1 DEF SchedulerHolders
  <2>. QED BY <2>1, <2>2
<1>2. CASE scheduler_semaphore = 1 /\ interrupt_semaphore = 0
  <2>1. PICK u \in InterruptHolders : TRUE
    BY <1>2 DEF HostLocks, Guards
  <2>2. ~Waits(u)
    BY <1>2, <2>1 DEF InterruptHolders
  <2>. QED BY <2>1, <2>2
<1>3. CASE scheduler_semaphore = 1 /\ interrupt_semaphore = 1
  <2>1. disk_semaphore = 0
    BY <1>3
  <2>2. PICK u \in DiskHolders : TRUE
    BY <2>1 DEF HostLocks, Guards
  <2>3. ~Waits(u)
    BY <1>3, <2>2 DEF DiskHolders
  <2>. QED BY <2>2, <2>3
<1>. QED BY <1>1, <1>2, <1>3 DEF LockTypeOK

\* The four threads never hold one another up for ever: while any of them waits for a
\* host semaphore, one that holds a semaphore does not wait.
THEOREM NoDeadlock == Spec => []NoHostDeadlock
<1>1. IInv /\ HostLocks => NoHostDeadlock
  BY InnermostGoesOn DEF IInv, TypeOK
<1>. QED BY Invariant, LocksCorrect, <1>1, PTL

-----------------------------------------------------------------------------
(* The ready list. *)

Sorted(q) == \A i, j \in DOMAIN q : i < j => Prio(q[i]) <= Prio(q[j])

-----------------------------------------------------------------------------
(* What becomes of a sorted list. *)

Urgency == [p \in Created |-> Prio(p)]

\* Sorted is the order of a key of the processes that exist.
LEMMA SortedInOrder ==
  ASSUME CreateTypeOK, NEW q \in Seq(Created)
  PROVE  Urgency \in [Created -> Nat] /\ (Sorted(q) <=> InOrder(q, Urgency))
<1>1. Urgency \in [Created -> Nat] /\ \A p \in Created : Urgency[p] = Prio(p)
  BY CreatedProc DEF Urgency
<1>2. \A i \in DOMAIN q : q[i] \in Created
  BY ElementOfSeq, LenProperties
<1>. QED BY <1>1, <1>2 DEF Sorted, InOrder

\* add_process_scheduler keeps it sorted.
LEMMA SortedAdd ==
  ASSUME CreateTypeOK, NEW q \in Seq(Created), Sorted(q), NEW p \in Created
  PROVE  Sorted(add_process_scheduler(q, p))
<1>1. PICK later : later = {i \in DOMAIN q : Prio(q[i]) > Prio(p)}
  OBVIOUS
<1>2. add_process_scheduler(q, p) = InsertBeforeFirst(q, p, later)
  BY <1>1 DEF add_process_scheduler
<1>3. later \in SUBSET (1..Len(q)) /\ \A i \in 1..Len(q) : q[i] \in Created
  BY <1>1, ElementOfSeq, LenProperties
<1>4. \A i \in 1..Len(q) : i \in later <=> Urgency[q[i]] > Urgency[p]
  BY <1>1, <1>3, LenProperties DEF Urgency
<1>. QED BY <1>2, <1>3, <1>4, SortedInOrder, AddProcessType, InsertKeepsOrder

\* So does pop.
LEMMA SortedTail ==
  ASSUME CreateTypeOK, NEW q \in Seq(Created), q # <<>>, Sorted(q)
  PROVE  Sorted(Tail(q))
  BY SortedInOrder, HeadTailType, TailKeepsOrder

\* So does delete_list.
LEMMA SortedDelete ==
  ASSUME CreateTypeOK, NEW q \in Seq(Created), Sorted(q), NEW i \in 1..Len(q),
         NEW r \in DeleteSorted(q, i)
  PROVE  Sorted(r)
  BY SortedInOrder, DeleteSortedElements, DeleteKeepsOrder

-----------------------------------------------------------------------------
(* How the list changes. *)

\* A process that exists keeps the file it was read from.
LEMMA FileKept ==
  ASSUME IInv, [Next]_vars
  PROVE  \A p \in Created : file'[p] = file[p] /\ Prio(p)' = Prio(p)
<1>1. CASE CreateProcess
  <2>1. PICK f \in File : file' = [file EXCEPT ![processes_id] = f]
    BY <1>1 DEF CreateProcess
  <2>2. processes_id \notin Created
    BY DEF IInv, TypeOK, CreateTypeOK, Created
  <2>3. \A p \in Created : file'[p] = file[p]
    BY <2>1, <2>2, CreatedProc DEF IInv, TypeOK, CreateTypeOK
  <2>. QED BY <2>3 DEF Prio
<1>2. CASE UNCHANGED file
  BY <1>2 DEF Prio
<1>3. CreateProcess \/ UNCHANGED file
  BY DEF Next, Cpu, DiskThread, PrintThread, UiThread,
     UiNext, Submission, Fault, Halted, vars, createVars,
     CpuNext, DiskNext, PrintNext, Interrupt, IrqLock, IrqTest, IrqMark, IrqSchedule,
     IrqScheduled, IrqExit, MemoryNext, LoadStart, SwapChoose, SwapUnload, LoadSegment,
     Spin, ClearFlag, Loop, FetchAbsent, Fetch, Exec, PSuccess, PFailure, PCharge,
     VNoneWaiting, VHandOver, EnqueueDisk, EnqueuePrint, Exit, Finish, FinishWait,
     FinishUnload, FinishFree, FinishUnlink, FinishHeader, FinishNode, FinishTail,
     FinishSchedule, FinishPost, SweepStart, SweepNext, SweepEnd, FulfillDiskRequest,
     DiskRequestFinished, DiskPost, FulfillPrint, PrintRequestFinished, LinkPCB,
     MoveTail, Enqueue, Announce, Quit
<1>. QED BY <1>1, <1>2, <1>3

\* The ways a step can change the list: one process is added, one is scheduled after
\* the interrupted one was perhaps put back, or one is deleted.
ReadyChange ==
  \/ UNCHANGED ready
  \/ \E p \in Created : ready' = add_process_scheduler(ready, p)
  \/ forward_scheduling
  \/ \E i \in 1..Len(ready) : ready' \in DeleteSorted(ready, i)

\* process_interrupt changes the list by scheduling only.
LEMMA InterruptReady ==
  ASSUME NEW t, Interrupt(t)
  PROVE  ReadyChange
  BY DEF ReadyChange, Interrupt, IrqLock, IrqTest, IrqMark, IrqSchedule, IrqScheduled,
     IrqExit, schedVars

\* The CPU thread also adds the process V hands over to, and deletes a finished one.
LEMMA CpuReady ==
  ASSUME IInv, CpuNext
  PROVE  ReadyChange
<1>. USE DEF schedVars
<1>1. CASE Interrupt("cpu")
  BY <1>1, InterruptReady
<1>2. CASE VHandOver
  <2>1. Instr.semaphore \in Sem
    BY <1>2, InstrSem DEF VHandOver, Before
  <2>2. Waiter \in Created
    BY <1>2, <2>1, WaiterType DEF VHandOver
  <2>. QED BY <1>2, <2>2 DEF VHandOver, ReadyChange
<1>3. CASE FinishUnlink
  <2>1. CASE Contains(ready, cur)
    <3>. DEFINE hits == {i \in DOMAIN ready : ready[i] = cur}
    <3>1. DOMAIN ready = 1..Len(ready) /\ Len(ready) \in Nat
      BY LenProperties DEF IInv, TypeOK, SchedTypeOK
    <3>2. hits \in SUBSET Nat /\ hits \subseteq 1..Len(ready) /\ hits # {}
      BY <2>1, <3>1 DEF Contains
    <3>3. ReadyPosition = Min(hits)
      BY DEF ReadyPosition
    <3>. HIDE DEF hits
    <3>4. ReadyPosition \in 1..Len(ready)
      BY <3>2, <3>3, MinIsLeast
    <3>. QED BY <1>3, <2>1, <3>4 DEF FinishUnlink, ReadyChange
  <2>2. CASE ~Contains(ready, cur)
    BY <1>3, <2>2 DEF FinishUnlink, ReadyChange
  <2>. QED BY <2>1, <2>2
<1>4. CASE FinishSchedule
  BY <1>4 DEF FinishSchedule, ReadyChange
<1>5. CASE UNCHANGED ready
  BY <1>5 DEF ReadyChange
<1>6. \/ Interrupt("cpu") \/ VHandOver \/ FinishUnlink \/ FinishSchedule
      \/ UNCHANGED ready
  BY DEF CpuNext, MemoryNext, LoadStart, SwapChoose, SwapUnload, LoadSegment,
     Spin, ClearFlag, Loop, FetchAbsent, Fetch, Exec, PSuccess, PFailure, PCharge,
     VNoneWaiting, EnqueueDisk, EnqueuePrint, Exit, Finish, FinishWait, FinishUnload,
     FinishFree, FinishHeader, FinishNode, FinishTail, FinishPost
<1>. QED BY <1>1, <1>2, <1>3, <1>4, <1>5, <1>6

\* The disk thread adds the process whose request it served.
LEMMA DiskReady ==
  ASSUME IInv, DiskNext
  PROVE  ReadyChange
<1>1. CASE Interrupt("disk")
  BY <1>1, InterruptReady
<1>2. CASE DiskRequestFinished
  BY <1>2, DiskRequestType DEF DiskRequestFinished, Before, ReadyChange
<1>3. CASE UNCHANGED ready
  BY <1>3 DEF ReadyChange
<1>4. Interrupt("disk") \/ DiskRequestFinished \/ UNCHANGED ready
  BY DEF DiskNext, SweepStart, SweepNext, SweepEnd, FulfillDiskRequest, DiskPost,
     schedVars
<1>. QED BY <1>1, <1>2, <1>3, <1>4

\* So does the printer thread.
LEMMA PrintReady ==
  ASSUME IInv, PrintNext
  PROVE  ReadyChange
<1>1. CASE Interrupt("print")
  BY <1>1, InterruptReady
<1>2. CASE PrintRequestFinished
  BY <1>2, PrintHead DEF PrintRequestFinished, Before, ReadyChange
<1>3. CASE FulfillPrint
  BY <1>3 DEF FulfillPrint, schedVars, ReadyChange
<1>. QED BY <1>1, <1>2, <1>3 DEF PrintNext

\* The user interface thread adds the new process.
LEMMA UiReady ==
  ASSUME IInv, UiNext
  PROVE  ReadyChange
<1>1. CASE Enqueue
  BY <1>1, NewProcessType DEF Enqueue, Before, ReadyChange
<1>2. CASE UNCHANGED ready
  BY <1>2 DEF ReadyChange
<1>3. Enqueue \/ UNCHANGED ready
  BY DEF UiNext, Submission, CreateProcess, LinkPCB, MoveTail, Announce, Quit, schedVars
<1>. QED BY <1>1, <1>2, <1>3

\* Every step changes the list in one of these ways.
LEMMA StepReady ==
  ASSUME IInv, [Next]_vars
  PROVE  ReadyChange
<1>1. CASE UNCHANGED ready
  BY <1>1 DEF ReadyChange
<1>. QED BY <1>1, CpuReady, DiskReady, PrintReady, UiReady
         DEF Next, Cpu, DiskThread, PrintThread, UiThread, Fault, Halted, vars, schedVars

-----------------------------------------------------------------------------

\* Each of these changes keeps the list in order.
LEMMA ChangeSorted ==
  ASSUME SchedTypeOK, CreateTypeOK, Sorted(ready), ReadyChange
  PROVE  Sorted(ready')
<1>0. ready \in Seq(Created)
  BY DEF SchedTypeOK
<1>1. CASE UNCHANGED ready
  BY <1>1
<1>2. CASE \E p \in Created : ready' = add_process_scheduler(ready, p)
  BY <1>0, <1>2, SortedAdd
<1>3. CASE forward_scheduling
  <2>1. Candidates \in Seq(Created) /\ Sorted(Candidates)
    BY <1>0, AddProcessType, SortedAdd DEF Candidates, StillReady, SchedTypeOK
  <2>2. CASE NoneToSchedule
    BY <2>2 DEF NoneToSchedule, Sorted
  <2>3. CASE ScheduleFirst
    BY <2>1, <2>3, SortedTail DEF ScheduleFirst
  <2>. QED BY <1>3, <2>2, <2>3 DEF forward_scheduling
<1>4. CASE \E i \in 1..Len(ready) : ready' \in DeleteSorted(ready, i)
  BY <1>0, <1>4, SortedDelete
<1>. QED BY <1>1, <1>2, <1>3, <1>4 DEF ReadyChange

\* Every step keeps ReadySorted: the list stays in the order of the priorities before
\* the step, and those are the priorities after it.
LEMMA StepSorted ==
  ASSUME IInv, ReadySorted, [Next]_vars
  PROVE  ReadySorted'
<1>1. Sorted(ready')
  BY StepReady, ChangeSorted DEF IInv, TypeOK, ReadySorted, Sorted
<1>2. ready' \in Seq(Created)
  <2>1. CASE forward_scheduling
    BY <2>1, SchedulingType DEF IInv, TypeOK
  <2>2. CASE \E p \in Created : ready' = add_process_scheduler(ready, p)
    BY <2>2, AddProcessType DEF IInv, TypeOK, SchedTypeOK
  <2>3. CASE \E i \in 1..Len(ready) : ready' \in DeleteSorted(ready, i)
    BY <2>3, DeleteSortedElements DEF IInv, TypeOK, SchedTypeOK
  <2>4. CASE UNCHANGED ready
    BY <2>4 DEF IInv, TypeOK, SchedTypeOK
  <2>. QED BY StepReady, <2>1, <2>2, <2>3, <2>4 DEF ReadyChange
<1>. QED BY <1>1, <1>2, FileKept DEF ReadySorted, Sorted

\* Whatever the four threads do, the ready list is in the order of the priorities
\* in the program files: the scheduler always takes a most urgent process.
THEOREM ReadyOrder == Spec => []ReadySorted
<1>1. Init => ReadySorted
  BY DEF Init, ReadySorted
<1>2. IInv /\ ReadySorted /\ [Next]_vars => ReadySorted'
  BY StepSorted
<1>. QED BY Invariant, <1>1, <1>2, PTL DEF Spec

-----------------------------------------------------------------------------
(* The disk. *)

\* The list of requests is in the order of their tracks.
DiskSorted ==
  \A i, j \in DOMAIN disk_requests :
    i < j => Track(disk_requests[i]) <= Track(disk_requests[j])

\* The request the sweep goes on with is not behind the arm.
SweepAhead == sweep_next # NULL => curr_track <= Track(sweep_next)

DInv == DiskSorted /\ SweepAhead

-----------------------------------------------------------------------------

Place == [r \in IORequest |-> Track(r)]

\* The tracks are a key of the requests there can be.
LEMMA PlaceType ==
  ASSUME CreateTypeOK
  PROVE  Place \in [IORequest -> Nat] /\ \A r \in IORequest : Place[r] = Track(r)
  BY TrackType DEF Place

\* DiskSorted is the order of that key.
LEMMA DiskInOrder ==
  ASSUME CreateTypeOK, NEW q \in Seq(IORequest)
  PROVE  (\A i, j \in DOMAIN q : i < j => Track(q[i]) <= Track(q[j]))
           <=> InOrder(q, Place)
<1>1. \A i \in DOMAIN q : q[i] \in IORequest
  BY ElementOfSeq, LenProperties
<1>. QED BY <1>1, PlaceType DEF InOrder

\* A request that can be made before a step can be made after it, for the same track.
LEMMA TrackKept ==
  ASSUME IInv, [Next]_vars
  PROVE  \A r \in IORequest : Track(r)' = Track(r)
<1>1. \A r \in IORequest : r.process \in Created
  BY DEF IORequest, Request
<1>. QED BY <1>1, FileKept DEF Track, CodeOf

\* The ways a step can change the list of requests.
DiskChange ==
  \/ UNCHANGED disk_requests
  \/ \E r \in IORequest : disk_requests' = add_disk_request(disk_requests, r)
  \/ \E i \in 1..Len(disk_requests) : disk_requests' \in DeleteSorted(disk_requests, i)

\* delete_list deletes a request that is in the list.
LEMMA FinishedChange ==
  ASSUME IInv, DiskRequestFinished
  PROVE  DiskChange
<1>1. CASE SameTrack = {}
  BY <1>1 DEF DiskRequestFinished, DiskChange
<1>2. CASE SameTrack # {}
  <2>1. SameTrack \in SUBSET Nat /\ SameTrack \subseteq 1..Len(disk_requests)
    BY LenProperties DEF SameTrack, IInv, TypeOK, IOTypeOK
  <2>2. Min(SameTrack) \in 1..Len(disk_requests)
    BY <1>2, <2>1, MinIsLeast
  <2>. QED BY <1>2, <2>2 DEF DiskRequestFinished, DiskChange
<1>. QED BY <1>1, <1>2

\* Every step changes the list in one of these ways.
LEMMA StepDisk ==
  ASSUME IInv, [Next]_vars
  PROVE  DiskChange
<1>1. CASE EnqueueDisk
  BY <1>1, RequestType DEF EnqueueDisk, Before, DiskChange
<1>2. CASE DiskRequestFinished
  BY <1>2, FinishedChange
<1>3. CASE UNCHANGED disk_requests
  BY <1>3 DEF DiskChange
<1>4. EnqueueDisk \/ DiskRequestFinished \/ UNCHANGED disk_requests
  BY DEF Next, Cpu, DiskThread, PrintThread, UiThread,
     UiNext, Submission, Fault, Halted, vars, ioVars,
     diskVars, CpuNext, DiskNext, PrintNext, Interrupt, IrqLock, IrqTest, IrqMark,
     IrqSchedule, IrqScheduled, IrqExit, MemoryNext, LoadStart, SwapChoose, SwapUnload,
     LoadSegment, Spin, ClearFlag, Loop, FetchAbsent, Fetch, Exec, PSuccess, PFailure,
     PCharge, VNoneWaiting, VHandOver, EnqueuePrint, Exit, Finish, FinishWait,
     FinishUnload, FinishFree, FinishUnlink, FinishHeader, FinishNode, FinishTail,
     FinishSchedule, FinishPost, SweepStart, SweepNext, SweepEnd, FulfillDiskRequest,
     DiskPost, FulfillPrint, PrintRequestFinished, CreateProcess, LinkPCB, MoveTail,
     Enqueue, Announce, Quit
<1>. QED BY <1>1, <1>2, <1>3, <1>4

\* Each of these changes keeps the list in order.
LEMMA DiskChangeSorted ==
  ASSUME IInv, DiskSorted, DiskChange
  PROVE  /\ disk_requests' \in Seq(IORequest)
         /\ InOrder(disk_requests', Place)
<1>0. /\ disk_requests \in Seq(IORequest) /\ CreateTypeOK
      /\ InOrder(disk_requests, Place)
  BY DiskInOrder DEF IInv, TypeOK, IOTypeOK, DiskSorted
<1>1. CASE UNCHANGED disk_requests
  BY <1>0, <1>1
<1>2. ASSUME NEW r \in IORequest, disk_requests' = add_disk_request(disk_requests, r)
      PROVE  /\ disk_requests' \in Seq(IORequest)
             /\ InOrder(disk_requests', Place)
  <2>1. PICK later : later = {i \in DOMAIN disk_requests :
                                Track(disk_requests[i]) > Track(r)}
    OBVIOUS
  <2>2. disk_requests' = InsertBeforeFirst(disk_requests, r, later)
    BY <1>2, <2>1 DEF add_disk_request
  <2>3. /\ later \in SUBSET (1..Len(disk_requests))
        /\ \A i \in 1..Len(disk_requests) : disk_requests[i] \in IORequest
    BY <1>0, <2>1, ElementOfSeq, LenProperties
  <2>4. \A i \in 1..Len(disk_requests) :
          i \in later <=> Place[disk_requests[i]] > Place[r]
    BY <1>0, <2>1, <2>3, PlaceType, LenProperties
  <2>. QED BY <1>0, <2>2, <2>3, <2>4, PlaceType, InsertBeforeFirstType, InsertKeepsOrder
<1>3. ASSUME NEW i \in 1..Len(disk_requests),
             disk_requests' \in DeleteSorted(disk_requests, i)
      PROVE  /\ disk_requests' \in Seq(IORequest)
             /\ InOrder(disk_requests', Place)
  BY <1>0, <1>3, PlaceType, DeleteSortedElements, DeleteKeepsOrder
<1>. QED BY <1>1, <1>2, <1>3 DEF DiskChange

\* Every step keeps the list in order.
LEMMA StepDiskSorted ==
  ASSUME IInv, DiskSorted, [Next]_vars
  PROVE  DiskSorted'
<1>1. disk_requests' \in Seq(IORequest) /\ InOrder(disk_requests', Place)
  BY StepDisk, DiskChangeSorted
<1>2. \A i, j \in DOMAIN disk_requests' :
        i < j => Track(disk_requests'[i]) <= Track(disk_requests'[j])
  BY <1>1, DiskInOrder DEF IInv, TypeOK
<1>3. \A i \in DOMAIN disk_requests' : disk_requests'[i] \in IORequest
  BY <1>1, ElementOfSeq, LenProperties
<1>. QED BY <1>2, <1>3, TrackKept DEF DiskSorted

-----------------------------------------------------------------------------

\* The request after one of the list lies at the same track or ahead.
LEMMA SuccessorAhead ==
  ASSUME IInv, DiskSorted, NEW r, Successor(r) # NULL
  PROVE  Track(r) <= Track(Successor(r))
<1>1. PICK later : later = {i \in 2..Len(disk_requests) : disk_requests[i - 1] = r}
  OBVIOUS
<1>2. later # {} /\ Successor(r) = disk_requests[Min(later)]
  BY <1>1 DEF Successor
<1>3. later \in SUBSET Nat /\ DOMAIN disk_requests = 1..Len(disk_requests)
      /\ Len(disk_requests) \in Nat
  BY <1>1, LenProperties DEF IInv, TypeOK, IOTypeOK
<1>4. PICK k : k = Min(later)
  OBVIOUS
<1>5. k \in later
  BY <1>2, <1>3, <1>4, MinIsLeast
<1>6. /\ k \in 2..Len(disk_requests) /\ disk_requests[k - 1] = r
      /\ Successor(r) = disk_requests[k]
  BY <1>1, <1>2, <1>4, <1>5
<1>7. k \in DOMAIN disk_requests /\ k - 1 \in DOMAIN disk_requests /\ k - 1 < k
  BY <1>3, <1>6
<1>. QED BY <1>6, <1>7 DEF DiskSorted

\* A sweep starts at track 0, and goes on with a request that is not behind.
LEMMA StepAhead ==
  ASSUME IInv, DInv, [Next]_vars
  PROVE  SweepAhead'
<1>0. CreateTypeOK /\ IOTypeOK
  BY DEF IInv, TypeOK
<1>1. CASE SweepStart
  <2>1. sweep_next' \in IORequest /\ curr_track' = 0
    BY <1>0, <1>1, HeadTailType DEF SweepStart, IOTypeOK
  <2>2. PICK r : r = sweep_next'
    OBVIOUS
  <2>3. Track(r)' = Track(r) /\ Track(r) \in Nat
    BY <1>0, <2>1, <2>2, TrackKept, TrackType
  <2>. QED BY <2>1, <2>2, <2>3 DEF SweepAhead, Track, CodeOf
<1>2. CASE SweepNext
  <2>1. curr_track' = Track(sweep_next) /\ sweep_next' = Successor(sweep_next)
    BY <1>2 DEF SweepNext
  <2>2. PICK r : r = sweep_next'
    OBVIOUS
  <2>3. CASE r = NULL
    BY <2>2, <2>3 DEF SweepAhead
  <2>4. CASE r # NULL
    <3>1. r \in IORequest
      BY <1>0, <2>1, <2>2, <2>4, SuccessorType
    <3>2. Track(sweep_next) <= Track(r)
      BY <2>1, <2>2, <2>4, SuccessorAhead DEF DInv
    <3>3. Track(r)' = Track(r)
      BY <3>1, TrackKept
    <3>. QED BY <2>1, <2>2, <3>2, <3>3 DEF SweepAhead, Track, CodeOf
  <2>. QED BY <2>3, <2>4
<1>3. CASE UNCHANGED <<sweep_next, curr_track>>
  <2>1. CASE sweep_next = NULL
    BY <1>3, <2>1 DEF SweepAhead
  <2>2. CASE sweep_next # NULL
    <3>1. Track(sweep_next)' = Track(sweep_next)
      <4>1. PICK r \in IORequest : r = sweep_next /\ r = sweep_next'
        BY <1>0, <1>3, <2>2 DEF IOTypeOK
      <4>2. Track(r)' = Track(r)
        BY TrackKept
      <4>. QED BY <4>1, <4>2 DEF Track, CodeOf
    <3>. QED BY <1>3, <2>2, <3>1 DEF DInv, SweepAhead
  <2>. QED BY <2>1, <2>2
<1>4. SweepStart \/ SweepNext \/ UNCHANGED <<sweep_next, curr_track>>
  BY DEF Next, Cpu, DiskThread, PrintThread, UiThread,
     UiNext, Submission, Fault, Halted, vars, ioVars,
     diskVars, CpuNext, DiskNext, PrintNext, Interrupt, IrqLock, IrqTest, IrqMark,
     IrqSchedule, IrqScheduled, IrqExit, MemoryNext, LoadStart, SwapChoose, SwapUnload,
     LoadSegment, Spin, ClearFlag, Loop, FetchAbsent, Fetch, Exec, PSuccess, PFailure,
     PCharge, VNoneWaiting, VHandOver, EnqueueDisk, EnqueuePrint, Exit, Finish,
     FinishWait, FinishUnload, FinishFree, FinishUnlink, FinishHeader, FinishNode,
     FinishTail, FinishSchedule, FinishPost, SweepEnd, FulfillDiskRequest,
     DiskRequestFinished, DiskPost, FulfillPrint, PrintRequestFinished, CreateProcess,
     LinkPCB, MoveTail, Enqueue, Announce, Quit
<1>. QED BY <1>1, <1>2, <1>3, <1>4

\* Only disk_sweep brings the disk thread from the loop of the sweep to disk_lock, and
\* it moves the arm to the request it has read.
LEMMA StepAscends ==
  ASSUME IInv, DInv, [Next]_vars, at["disk"] = "sweep", at'["disk"] = "disk_lock"
  PROVE  curr_track' >= curr_track
<1>1. CASE SweepNext
  <2>1. curr_track' = Track(sweep_next) /\ sweep_next # NULL
    BY <1>1 DEF SweepNext, Sweeping
  <2>2. curr_track <= Track(sweep_next)
    BY <2>1 DEF DInv, SweepAhead
  <2>3. curr_track \in Nat /\ Track(sweep_next) \in Nat
    BY <2>1, TrackType DEF IInv, TypeOK, IOTypeOK
  <2>. QED BY <2>1, <2>2, <2>3
<1>2. SweepNext
  BY DEF Next, Cpu, DiskThread, PrintThread, UiThread,
     UiNext, Submission, Fault, Halted, vars, Goto, Before,
     IInv, TypeOK, ControlTypeOK, Thread, Raise,
     CpuNext, DiskNext, PrintNext, Interrupt, IrqLock, IrqTest, IrqMark,
     IrqSchedule, IrqScheduled, IrqExit, MemoryNext, LoadStart, SwapChoose, SwapUnload,
     LoadSegment, Spin, ClearFlag, Loop, FetchAbsent, Fetch, Exec, PSuccess, PFailure,
     PCharge, VNoneWaiting, VHandOver, EnqueueDisk, EnqueuePrint, Exit, Finish,
     FinishWait, FinishUnload, FinishFree, FinishUnlink, FinishHeader, FinishNode,
     FinishTail, FinishSchedule, FinishPost, SweepStart, SweepEnd, FulfillDiskRequest,
     DiskRequestFinished, DiskPost, FulfillPrint, PrintRequestFinished, CreateProcess,
     LinkPCB, MoveTail, Enqueue, Announce, Quit,
     DeleteAbsent, DeleteHeader, DeleteTail, DeleteMiddle
<1>. QED BY <1>1, <1>2

\* Whatever the CPU thread inserts while the disk thread sweeps, and although the next
\* request is read before disk_semaphore is taken, the arm only ever moves up.
THEOREM Ascending == Spec => SweepAscends
<1>1. Init => DInv
  BY DEF Init, DInv, DiskSorted, SweepAhead
<1>2. IInv /\ DInv /\ [Next]_vars => DInv'
  BY StepDiskSorted, StepAhead DEF DInv
<1>3. IInv /\ DInv /\ [Next]_vars =>
        [at["disk"] = "sweep" /\ at'["disk"] = "disk_lock"
           => curr_track' >= curr_track]_vars
  BY StepAscends
<1>. QED BY Invariant, <1>1, <1>2, <1>3, PTL DEF Spec, SweepAscends

=============================================================================
