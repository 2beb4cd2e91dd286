---------------------------- MODULE BatchProofs ----------------------------
(***************************************************************************)
(* What the kernel guarantees to a user who runs one program at a time,    *)
(* for every set of program files, devices and instructions included.      *)
(*                                                                         *)
(* The four threads still interleave as they like.  But there is one       *)
(* process to move, the job, and it is always the business of one thread:  *)
(* the invariant says of which, by the stage the job is at, and what the   *)
(* other threads may be doing meanwhile.                                   *)
(***************************************************************************)
EXTENDS ComputeProofs, Batch

\* The program submitted last; all before it have finished.
Job == NewProcess

-----------------------------------------------------------------------------
(* The stages of the job. *)

\* The devices have nothing to do, though one may not have returned yet from the
\* interruption with which it brought the job back.
DevicesRest ==
  /\ disk_requests = <<>> /\ print_requests = <<>> /\ sweep_next = NULL
  /\ at["disk"] \in {"poll", "sweep", "disk_post", "irq_scheduled", "irq_exit"}
  /\ at["print"] \in {"poll", "irq_scheduled", "irq_exit"}

NoDeviceInterrupts == at["disk"] \notin IrqLabel /\ at["print"] \notin IrqLabel

NobodyWaits == \A s \in Sem : processes_waiting[s] = <<>>
JobWaits ==
  \E s \in Sem : /\ processes_waiting[s] = <<Job>>
                 /\ \A t \in Sem \ {s} : processes_waiting[t] = <<>>

\* Between two jobs.
Vacant ==
  /\ running = NULL /\ ready = <<>> /\ ~new_process
  /\ PCB = <<>> /\ freed = Created
  /\ at["ui"] = "prompt" /\ at["cpu"] \in {"spin", "fin_post"}
  /\ DevicesRest /\ NobodyWaits

\* There is a job.
AtWork == processes_id > 0 /\ PCB = <<Job>> /\ freed = Created \ {Job}

\* The user interface submits it, and the CPU thread has not yet dispatched it.
Submitted ==
  /\ AtWork /\ running = NULL /\ status[Job] = "READY"
  /\ DevicesRest /\ NoDeviceInterrupts /\ NobodyWaits
  /\ \/ /\ at["ui"] \in {"ui_tail", "ui_enqueue"} /\ at["cpu"] = "spin"
        /\ ready = <<>> /\ ~new_process
     \/ /\ at["ui"] = "ui_announce" /\ at["cpu"] = "spin"
        /\ ready = <<Job>> /\ ~new_process
     \/ /\ at["ui"] = "prompt" /\ ready = <<Job>> /\ new_process
        /\ \/ at["cpu"] = "spin"
           \/ /\ at["cpu"] \in {"irq_lock", "irq_test", "irq_sched"}
              /\ irq = "NEW_PROCESS"

\* The CPU thread executes it, ...
Works ==
  /\ at["cpu"] \in {"spin", "clear_flag", "loop", "fetch", "load", "exec", "p",
                    "p_charge", "v", "exit", "finish", "fin_wait"}
  /\ status[Job] = "RUNNING" /\ NobodyWaits

\* ... moves its segment, ...
Loads ==
  /\ at["cpu"] \in {"swap", "fin_unload", "fin_free"}
  /\ status[Job] = IF at["cpu"] = "fin_free" THEN "READY" ELSE "WAITING"
  /\ NobodyWaits

\* ... interrupts it, ...
Interrupts ==
  /\ at["cpu"] \in {"irq_lock", "irq_test", "irq_mark", "irq_sched"}
  /\ irq \in CpuInterruption \ {"NEW_PROCESS"}
  /\ irq \in {"DISK_REQUEST", "PRINT_REQUEST"} => cur = Job
  /\ IF irq = "SEMAPHORE" THEN JobWaits ELSE NobodyWaits
  /\ status[Job] \in
       IF at["cpu"] # "irq_sched" THEN {"RUNNING", "WAITING"}
       ELSE IF irq \in Blocking THEN {"WAITING"} ELSE {"READY"}

\* ... or has dispatched it, anew or for the first time.
Dispatches ==
  /\ at["cpu"] \in {"irq_scheduled", "irq_exit"}
  /\ irq \in CpuInterruption \ Blocking
  /\ status[Job] = "RUNNING" /\ NobodyWaits

OnCpu ==
  /\ AtWork /\ running = Job /\ ready = <<>>
  /\ at["ui"] = "prompt" /\ DevicesRest
  /\ new_process => at["cpu"] \in {"irq_scheduled", "irq_exit"}
  /\ at["cpu"] \in HasProcess => cur = Job
  /\ at["cpu"] = "fetch" => ~Done(Job)
  /\ at["cpu"] \in {"finish", "fin_wait", "fin_unload", "fin_free"} => Done(Job)
  /\ at["cpu"] \in {"load", "swap"} => ~present_bit[Job]
  /\ Works \/ Loads \/ Interrupts \/ Dispatches

\* It has finished, and the CPU thread removes what is left of it.
Departing ==
  /\ running = Job /\ cur = Job /\ ready = <<>> /\ ~new_process
  /\ processes_id > 0 /\ freed = Created
  /\ \/ at["cpu"] \in {"fin_unlink", "fin_header"} /\ PCB = <<Job>>
     \/ at["cpu"] \in {"fin_node", "fin_sched"} /\ PCB = <<>>
  /\ at["ui"] = "prompt" /\ DevicesRest /\ NobodyWaits

\* It has lost the CPU.
Away ==
  /\ AtWork /\ running = NULL /\ ~new_process /\ at["ui"] = "prompt"

\* The CPU thread has interrupted it to queue its request for a device.
Asks ==
  /\ Away /\ ready = <<>> /\ status[Job] = "WAITING" /\ cur = Job
  /\ at["cpu"] \in {"irq_scheduled", "irq_exit", "enqueue"}
  /\ irq \in {"DISK_REQUEST", "PRINT_REQUEST"}
  /\ DevicesRest /\ NoDeviceInterrupts /\ NobodyWaits

\* It waits for a semaphore that a program before it did not give back.
Awaits ==
  /\ Away /\ ready = <<>> /\ status[Job] = "WAITING"
  /\ \/ at["cpu"] \in {"irq_scheduled", "irq_exit"} /\ irq = "SEMAPHORE"
     \/ at["cpu"] \in {"loop", "exit", "spin"}
  /\ DevicesRest /\ JobWaits

\* The CPU thread finds nothing to do.
Idles == at["cpu"] \in {"loop", "exit", "spin"}

\* The disk serves its request.
AtDisk ==
  /\ Away /\ Idles /\ NobodyWaits /\ ready = <<>>
  /\ print_requests = <<>> /\ at["print"] = "poll"
  /\ \E r \in IORequest :
       /\ disk_requests = <<r>> /\ r.process = Job
       /\ \/ /\ at["disk"] \in {"poll", "sweep"} /\ sweep_next \in {r, NULL}
             /\ status[Job] = "WAITING"
          \/ /\ at["disk"] = "disk_lock" /\ disk_request = r /\ sweep_next = NULL
             /\ status[Job] = "WAITING"
          \/ /\ at["disk"] = "disk_add" /\ disk_request = r /\ sweep_next = NULL
             /\ status[Job] = "READY"

\* The printer does.
AtPrinter ==
  /\ Away /\ Idles /\ NobodyWaits /\ ready = <<>>
  /\ disk_requests = <<>> /\ sweep_next = NULL
  /\ at["disk"] \in {"poll", "sweep", "disk_post"}
  /\ \E r \in IORequest :
       /\ print_requests = <<r>> /\ r.process = Job
       /\ \/ at["print"] = "poll" /\ status[Job] = "WAITING"
          \/ at["print"] = "print_add" /\ status[Job] = "READY"

\* A device interrupts the idle CPU on its behalf.
Returns ==
  /\ Away /\ Idles /\ NobodyWaits /\ ready = <<Job>> /\ status[Job] = "READY"
  /\ disk_requests = <<>> /\ print_requests = <<>> /\ sweep_next = NULL
  /\ \/ /\ at["disk"] \in {"irq_lock", "irq_test", "irq_sched"}
        /\ at["print"] = "poll"
     \/ /\ at["print"] \in {"irq_lock", "irq_test", "irq_sched"}
        /\ at["disk"] \in {"poll", "sweep", "disk_post"}

\* The devices are at rest in all but three of them.
Rests == Vacant \/ Submitted \/ OnCpu \/ Departing \/ Asks \/ Awaits
Stage == Rests \/ AtDisk \/ AtPrinter \/ Returns

\* The programs before it have been executed to their end, those after it not at all.
Others ==
  /\ \A p \in freed : status[p] = "FINISHED" /\ Done(p)
  /\ \A p \in Proc \ Created : status[p] = "READY" /\ PC[p] = 0

\* No segment is in memory but that of the job, and that until it is unloaded.
JobAlone ==
  \/ /\ segments = <<>>
     /\ \A p \in Proc : ~present_bit[p]
     /\ num_free_pages >= NUM_PAGES
  \/ /\ segments = <<Job>>
     /\ \A p \in Proc : present_bit[p] <=> p = Job
     /\ num_free_pages >= NUM_PAGES - PagesOf(Job)
     /\ Job \in Created \ freed /\ at["cpu"] # "fin_free"

BInv == Stage /\ Others /\ JobAlone

-----------------------------------------------------------------------------
(* Lists of one. *)

\* The job is a process.
LEMMA JobType ==
  ASSUME IInv, processes_id > 0
  PROVE  Job \in Created /\ Job \in Proc /\ Job # NULL
<1>1. Job \in Created
  BY BoundAssumption DEF IInv, TypeOK, CreateTypeOK, Job, NewProcess, Created
<1>. QED BY <1>1, CreatedProc DEF IInv, TypeOK

\* The sorted insertions into an empty list.
LEMMA FirstInserted ==
  ASSUME NEW x
  PROVE  add_process_scheduler(<<>>, x) = <<x>> /\ add_disk_request(<<>>, x) = <<x>>
<1>1. {i \in DOMAIN <<>> : Prio(<<>>[i]) > Prio(x)} = {}
  OBVIOUS
<1>2. {i \in DOMAIN <<>> : Track(<<>>[i]) > Track(x)} = {}
  OBVIOUS
<1>3. Append(<<>>, x) = <<x>>
  OBVIOUS
<1>. QED BY <1>1, <1>2, <1>3
         DEF add_process_scheduler, add_disk_request, InsertBeforeFirst

\* forward_scheduling when nobody is ready.
LEMMA ScheduleNobody ==
  ASSUME forward_scheduling, ready = <<>>, ~StillReady
  PROVE  running' = NULL /\ ready' = <<>> /\ status' = status
  BY DEF forward_scheduling, NoneToSchedule, ScheduleFirst, Candidates

\* forward_scheduling when there is only p to choose.
LEMMA ScheduleOnly ==
  ASSUME forward_scheduling, NEW p,
         \/ ready = <<p>> /\ ~StillReady
         \/ ready = <<>> /\ running = p /\ StillReady
  PROVE  /\ running' = p /\ ready' = <<>>
         /\ status' = [status EXCEPT ![p] = "RUNNING"]
<1>1. Candidates = <<p>>
  BY FirstInserted DEF Candidates
<1>2. <<p>> # <<>> /\ Head(<<p>>) = p /\ Tail(<<p>>) = <<>>
  OBVIOUS
<1>. QED BY <1>1, <1>2 DEF forward_scheduling, NoneToSchedule, ScheduleFirst

-----------------------------------------------------------------------------
(* Devices at rest. *)

\* What a jump of the disk, or of the printer, does to the four control points.
LEMMA DeviceGoes ==
  ASSUME IInv, NEW label
  PROVE  /\ Goto("disk", label) =>
              /\ at'["disk"] = label /\ at'["print"] = at["print"]
              /\ at'["cpu"] = at["cpu"] /\ at'["ui"] = at["ui"]
         /\ Goto("print", label) =>
              /\ at'["print"] = label /\ at'["disk"] = at["disk"]
              /\ at'["cpu"] = at["cpu"] /\ at'["ui"] = at["ui"]
  BY DEF Goto, IInv, TypeOK, ControlTypeOK, Thread

\* A step that does nothing but bring a device nearer to its poll.
Passes ==
  /\ UNCHANGED <<running, ready, createVars, procVars, semVars, memVars, localVars>>
  /\ at'["cpu"] = at["cpu"] /\ at'["ui"] = at["ui"]
  /\ DevicesRest'
  /\ new_process' => new_process
  /\ NoDeviceInterrupts => NoDeviceInterrupts' /\ new_process' = new_process

\* A device at rest takes no others.
LEMMA RestingDevices ==
  ASSUME IInv, DevicesRest, DiskNext \/ PrintNext
  PROVE  Passes
<1>. USE DEF DevicesRest, NoDeviceInterrupts, IrqLabel, Passes, Before, schedVars,
             ioVars, diskVars, printVars
<1>0. Type("disk") = "DISK_FINISHED" /\ Type("print") = "PRINT_FINISHED"
  BY DEF Type
<1>1. CASE DiskNext
  <2>1. CASE IrqScheduled("disk")
    BY <2>1, DeviceGoes DEF IrqScheduled
  <2>2. CASE IrqExit("disk")
    <3>1. Return("disk") = "disk_post"
      BY <1>0 DEF Return
    <3>. QED BY <2>2, <3>1, DeviceGoes DEF IrqExit
  <2>3. CASE SweepEnd \/ DiskPost
    BY <2>3, DeviceGoes DEF SweepEnd, DiskPost
  <2>4. ~IrqLock("disk") /\ ~IrqTest("disk") /\ ~IrqMark("disk") /\ ~IrqSchedule("disk")
    BY DEF IrqLock, IrqTest, IrqMark, IrqSchedule
  <2>5. ~SweepStart /\ ~SweepNext /\ ~FulfillDiskRequest /\ ~DiskRequestFinished
    BY DEF SweepStart, SweepNext, Sweeping, FulfillDiskRequest, DiskRequestFinished
  <2>. QED BY <1>1, <2>1, <2>2, <2>3, <2>4, <2>5 DEF DiskNext, Interrupt
<1>2. CASE PrintNext
  <2>1. CASE IrqScheduled("print")
    BY <2>1, DeviceGoes DEF IrqScheduled
  <2>2. CASE IrqExit("print")
    <3>1. Return("print") = "poll"
      BY <1>0 DEF Return
    <3>. QED BY <2>2, <3>1, DeviceGoes DEF IrqExit
  <2>3. ~IrqLock("print") /\ ~IrqTest("print") /\ ~IrqMark("print")
        /\ ~IrqSchedule("print")
    BY DEF IrqLock, IrqTest, IrqMark, IrqSchedule
  <2>4. ~FulfillPrint /\ ~PrintRequestFinished
    BY DEF FulfillPrint, PrintRequestFinished
  <2>. QED BY <1>2, <2>1, <2>2, <2>3, <2>4 DEF PrintNext, Interrupt
<1>. QED BY <1>1, <1>2

\* It is no business of the job's.
LEMMA StagePasses ==
  ASSUME IInv, Rests, Passes
  PROVE  Rests'
<1>. USE DEF Passes, createVars, procVars, semVars, localVars, memVars, Job, NewProcess,
             Created, NobodyWaits
<1>0. /\ NobodyWaits => NobodyWaits'
      /\ JobWaits => JobWaits'
      /\ Done(Job) <=> Done(Job)'
      /\ AtWork => AtWork'
  BY DEF JobWaits, Done, CodeOf, AtWork
<1>. HIDE DEF NobodyWaits
<1>1. CASE Vacant
  BY <1>0, <1>1 DEF Vacant, Rests
<1>2. CASE Submitted
  BY <1>0, <1>2 DEF Submitted, Rests
<1>3. CASE OnCpu
  <2>1. Works \/ Loads \/ Interrupts \/ Dispatches =>
          (Works \/ Loads \/ Interrupts \/ Dispatches)'
    BY <1>0 DEF Works, Loads, Interrupts, Dispatches
  <2>. QED BY <1>0, <1>3, <2>1 DEF OnCpu, Rests
<1>4. CASE Departing
  BY <1>0, <1>4 DEF Departing, Rests
<1>5. CASE Asks
  BY <1>0, <1>5 DEF Asks, Away, Rests
<1>6. CASE Awaits
  BY <1>0, <1>6 DEF Awaits, Away, Rests
<1>. QED BY <1>1, <1>2, <1>3, <1>4, <1>5, <1>6 DEF Rests

-----------------------------------------------------------------------------
(* The user. *)

\* A step that does nothing to the processes that have finished, or do not exist yet.
OthersKept ==
  /\ UNCHANGED <<processes_id, file, freed>>
  /\ \A p \in Proc : p \in freed \/ p \notin Created =>
       status'[p] = status[p] /\ PC'[p] = PC[p]

\* It keeps Others.
LEMMA OthersStay ==
  ASSUME IInv, Others, OthersKept
  PROVE  Others'
<1>1. Created' = Created /\ freed' = freed
  BY DEF OthersKept, Created
<1>2. freed \subseteq Proc
  BY CreatedProc DEF IInv, TypeOK, ProcTypeOK
<1>3. ASSUME NEW p \in freed
      PROVE  (status[p] = "FINISHED" /\ Done(p))'
  BY <1>2, <1>3 DEF Others, OthersKept, Done, CodeOf
<1>4. ASSUME NEW p \in Proc \ Created
      PROVE  (status[p] = "READY" /\ PC[p] = 0)'
  BY <1>4 DEF Others, OthersKept
<1>. QED BY <1>1, <1>3, <1>4 DEF Others

\* The memory is left alone, but for the used bits.
MemoryKept ==
  /\ UNCHANGED <<num_free_pages, segments, present_bit, processes_id, file, freed>>
  /\ at'["cpu"] = at["cpu"] \/ at'["cpu"] # "fin_free"

\* JobAlone is kept then.
LEMMA MemoryStays ==
  ASSUME JobAlone, MemoryKept
  PROVE  JobAlone'
  BY DEF JobAlone, MemoryKept, Created, Job, NewProcess, PagesOf

\* A new program is submitted: it is the job now.
LEMMA StageCreate ==
  ASSUME IInv, HostLocks, BInv, CreateProcess, Idle
  PROVE  BInv'
<1>1. Vacant
  BY DEF BInv, Stage, Rests, Submitted, OnCpu, Departing, Asks, Awaits, Away, AtDisk,
     AtPrinter, Returns, AtWork, Idle
<1>2. /\ processes_id \in Nat /\ processes_id < MaxProcs /\ MaxProcs \in Nat
      /\ processes_id' = processes_id + 1
  BY BoundAssumption DEF CreateProcess, IInv, TypeOK, CreateTypeOK
<1>3. /\ Job' = processes_id /\ processes_id' > 0 /\ processes_id \in Proc
      /\ processes_id \notin Created
      /\ Created' \ {Job'} = Created /\ Job' \in Created'
  BY <1>2 DEF Job, NewProcess, Created, Proc
<1>4. NoDeviceInterrupts
  BY <1>1 DEF HostLocks, Guards, InterruptHolders, Idle, NoDeviceInterrupts, Vacant,
     DevicesRest, IrqLabel, Thread
<1>5. /\ at'["ui"] = "ui_tail" /\ at'["cpu"] = at["cpu"] /\ at'["disk"] = at["disk"]
      /\ at'["print"] = at["print"] /\ PCB' = <<processes_id>>
  BY UiGoes DEF CreateProcess, Idle
<1>6. /\ UNCHANGED <<running, ready, new_process, status, PC, freed, processes_waiting,
                     disk_requests, print_requests, sweep_next, num_free_pages,
                     segments, present_bit>>
      /\ \E f \in File : file' = [file EXCEPT ![processes_id] = f]
  BY DEF CreateProcess, schedVars, procVars, semVars, ioVars, diskVars, printVars,
     memVars
<1>7. status[processes_id] = "READY"
  BY <1>3 DEF BInv, Others
<1>8. Submitted'
  <2>1. AtWork'
    BY <1>1, <1>3, <1>5, <1>6 DEF AtWork, Vacant
  <2>2. DevicesRest' /\ NoDeviceInterrupts' /\ NobodyWaits'
    BY <1>1, <1>4, <1>5, <1>6 DEF DevicesRest, NoDeviceInterrupts, NobodyWaits, Vacant
  <2>. QED BY <1>1, <1>3, <1>5, <1>6, <1>7, <2>1, <2>2 DEF Submitted, Vacant, Idle
<1>9. Others'
  <2>1. file \in [Proc -> File \cup {NULL}]
    BY DEF IInv, TypeOK, CreateTypeOK
  <2>2. freed \subseteq Created
    BY DEF IInv, TypeOK, ProcTypeOK
  <2>3. ASSUME NEW p \in freed
        PROVE  (status[p] = "FINISHED" /\ Done(p))'
    BY <1>3, <1>6, <2>1, <2>2 DEF BInv, Others, Done, CodeOf
  <2>4. Proc \ Created' \subseteq Proc \ Created
    BY <1>3
  <2>. QED BY <1>6, <2>3, <2>4 DEF BInv, Others
<1>10. JobAlone'
  <2>1. segments = <<>> /\ \A p \in Proc : ~present_bit[p]
    BY <1>1 DEF BInv, JobAlone, Vacant
  <2>2. num_free_pages >= NUM_PAGES
    BY <1>1 DEF BInv, JobAlone, Vacant
  <2>. QED BY <1>6, <2>1, <2>2 DEF JobAlone
<1>. QED BY <1>8, <1>9, <1>10 DEF BInv, Stage, Rests

\* The user interface submits it, and announces it.
LEMMA StageSubmit ==
  ASSUME IInv, BInv, Submission
  PROVE  BInv'
<1>1. Submitted /\ ~LinkPCB
  BY DEF BInv, Stage, Rests, Vacant, OnCpu, Departing, Asks, Awaits, Away, AtDisk,
     AtPrinter, Returns, Submitted, Submission, LinkPCB, MoveTail, Enqueue, Announce,
     Before
<1>2. CASE MoveTail
  <2>1. /\ at'["cpu"] = at["cpu"] /\ at["ui"] = "ui_tail" /\ at'["ui"] = "ui_enqueue"
        /\ at'["disk"] = at["disk"] /\ at'["print"] = at["print"]
    BY <1>2, UiGoes DEF MoveTail, Before
  <2>2. UNCHANGED <<schedVars, processes_id, file, PCB, procVars, semVars, memVars,
                    ioVars, localVars>>
    BY <1>2 DEF MoveTail
  <2>. USE DEF schedVars, procVars, semVars, memVars, ioVars, diskVars, printVars,
               localVars
  <2>3. AtWork' /\ Job' = Job
    BY <1>1, <2>2 DEF Submitted, AtWork, Job, NewProcess, Created
  <2>4. DevicesRest' /\ NoDeviceInterrupts' /\ NobodyWaits'
    BY <1>1, <2>1, <2>2 DEF Submitted, DevicesRest, NoDeviceInterrupts, NobodyWaits
  <2>5. Submitted'
    BY <1>1, <2>1, <2>2, <2>3, <2>4 DEF Submitted
  <2>6. OthersKept /\ MemoryKept
    BY <2>1, <2>2 DEF OthersKept, MemoryKept
  <2>. QED BY <2>5, <2>6, OthersStay, MemoryStays DEF BInv, Stage, Rests
<1>3. CASE Enqueue \/ Announce
  <2>1. /\ at'["cpu"] = at["cpu"]
        /\ at'["disk"] = at["disk"] /\ at'["print"] = at["print"]
        /\ at["ui"] \in {"ui_enqueue", "ui_announce"}
        /\ at'["ui"] = IF at["ui"] = "ui_enqueue" THEN "ui_announce" ELSE "prompt"
    BY <1>3, UiGoes DEF Enqueue, Announce, Before
  <2>2. /\ UNCHANGED <<running, createVars, procVars, semVars>>
        /\ UNCHANGED <<memVars, ioVars, localVars>>
        /\ IF at["ui"] = "ui_enqueue"
           THEN ready' = add_process_scheduler(ready, Job) /\ UNCHANGED new_process
           ELSE new_process' = TRUE /\ UNCHANGED ready
    BY <1>3 DEF Enqueue, Announce, Before, Job
  <2>. USE DEF createVars, procVars, semVars, memVars, ioVars, diskVars, printVars,
               localVars
  <2>3. AtWork' /\ Job' = Job
    BY <1>1, <2>2 DEF Submitted, AtWork, Job, NewProcess, Created
  <2>4. DevicesRest' /\ NoDeviceInterrupts' /\ NobodyWaits'
    BY <1>1, <2>1, <2>2 DEF Submitted, DevicesRest, NoDeviceInterrupts, NobodyWaits
  <2>5. Submitted'
    BY <1>1, <2>1, <2>2, <2>3, <2>4, FirstInserted DEF Submitted
  <2>6. OthersKept /\ MemoryKept
    BY <2>1, <2>2 DEF OthersKept, MemoryKept
  <2>. QED BY <2>5, <2>6, OthersStay, MemoryStays DEF BInv, Stage, Rests
<1>. QED BY <1>1, <1>2, <1>3 DEF Submission

-----------------------------------------------------------------------------
(* The CPU thread executes the job. *)

\* A step of the CPU thread that leaves the job running, and the ready list, the PCB and
\* the devices as they are.
OnCpuFrame ==
  /\ UNCHANGED <<running, ready, createVars, freed, ioVars>>
  /\ at'["ui"] = at["ui"] /\ at'["disk"] = at["disk"] /\ at'["print"] = at["print"]
  /\ new_process' => at'["cpu"] \in {"irq_scheduled", "irq_exit"}

\* What OnCpu says of the process in hand.
Hand ==
  /\ at["cpu"] \in HasProcess => cur = Job
  /\ at["cpu"] = "fetch" => ~Done(Job)
  /\ at["cpu"] \in {"finish", "fin_wait", "fin_unload", "fin_free"} => Done(Job)
  /\ at["cpu"] \in {"load", "swap"} => ~present_bit[Job]

\* Such a step keeps OnCpu if it leaves the CPU thread at one of its labels.
LEMMA OnCpuMoves ==
  ASSUME OnCpu, OnCpuFrame, Hand', (Works \/ Loads \/ Interrupts \/ Dispatches)'
  PROVE  OnCpu'
<1>1. AtWork' /\ Job' = Job /\ DevicesRest'
  BY DEF OnCpu, OnCpuFrame, AtWork, DevicesRest, Job, NewProcess, Created, createVars,
     ioVars, diskVars, printVars
<1>2. Job' = running' /\ ready' = <<>> /\ at'["ui"] = "prompt"
  BY <1>1 DEF OnCpu, OnCpuFrame
<1>3. new_process' => at'["cpu"] \in {"irq_scheduled", "irq_exit"}
  BY DEF OnCpuFrame
<1>. HIDE DEF Works, Loads, Interrupts, Dispatches, AtWork, DevicesRest, OnCpuFrame
<1>. QED BY <1>1, <1>2, <1>3 DEF OnCpu, Hand

\* A step that changes the status and the program counter of no process but the job.
JobOnly ==
  /\ UNCHANGED <<processes_id, file, freed>>
  /\ \A p \in Proc \ {Job} : status'[p] = status[p] /\ PC'[p] = PC[p]

\* It does nothing to the others.
LEMMA JobOnlyKeeps ==
  ASSUME IInv, AtWork, JobOnly
  PROVE  OthersKept
  BY JobType DEF AtWork, JobOnly, OthersKept

\* The job that runs.
LEMMA Running ==
  ASSUME IInv, OnCpu
  PROVE  /\ running = Job /\ Job \in Created /\ Job \in Proc /\ Job # NULL
         /\ Job \notin freed /\ processes_id > 0
         /\ status \in [Proc -> Status] /\ PC \in [Proc -> Nat]
  BY JobType DEF OnCpu, AtWork, IInv, TypeOK, ProcTypeOK

\* While the CPU thread is in process_interrupt, no device is.
LEMMA InterruptsAlone ==
  ASSUME HostLocks, DevicesRest, at["cpu"] \in IrqLabel \ {"irq_lock"}
  PROVE  NoDeviceInterrupts
<1>1. "cpu" \in InterruptHolders
  BY DEF InterruptHolders, Thread
<1>2. "disk" \notin InterruptHolders /\ "print" \notin InterruptHolders
  BY <1>1 DEF HostLocks, Guards
<1>. QED BY <1>2 DEF InterruptHolders, Thread, NoDeviceInterrupts, DevicesRest, IrqLabel

\* The loop of cpu(), up to an instruction.
LEMMA StageLoop ==
  ASSUME IInv, OnCpu, Spin \/ ClearFlag \/ Loop \/ FetchAbsent \/ Fetch
  PROVE  OnCpu' /\ OthersKept /\ MemoryKept
<1>. USE DEF Before, schedVars, createVars, procVars, semVars, memVars, ioVars,
     diskVars, printVars, localVars
<1>0. Works /\ ~new_process /\ Hand
  BY DEF OnCpu, Hand, Works, Loads, Interrupts, Dispatches, Spin, ClearFlag, Loop,
     FetchAbsent, Fetch
<1>1. /\ UNCHANGED <<running, ready, createVars, procVars, semVars, ioVars, segments,
                     present_bit, num_free_pages>>
      /\ ~new_process'
  BY <1>0 DEF Spin, ClearFlag, Loop, FetchAbsent, Fetch
<1>2. /\ Job' = Job /\ (Done(Job) <=> Done(Job)') /\ (NobodyWaits => NobodyWaits')
      /\ (CanExecute => ~Done(Job))
  BY <1>1 DEF Job, NewProcess, Done, CodeOf, NobodyWaits, CanExecute, OnCpu
<1>3. OnCpuFrame /\ Hand' /\ (Works \/ Interrupts)'
  <2>. HIDE DEF NobodyWaits
  <2>. USE <1>0, <1>1, <1>2, CpuGoes, Running
       DEF OnCpuFrame, Hand, Works, Interrupts, HasProcess, MemoryLabel, FinishLabel
  <2>1. CASE Spin
    BY <2>1 DEF Spin, Raise
  <2>2. CASE ClearFlag
    BY <2>2 DEF ClearFlag
  <2>3. CASE Loop
    BY <2>3 DEF Loop
  <2>4. CASE FetchAbsent
    BY <2>4 DEF FetchAbsent
  <2>5. CASE Fetch
    BY <2>5 DEF Fetch, Raise, CpuInterruption, INTERRUPTION_TYPE
  <2>. QED BY <2>1, <2>2, <2>3, <2>4, <2>5
<1>4. OthersKept
  BY <1>1 DEF OthersKept
<1>5. MemoryKept
  BY <1>1, <1>3 DEF MemoryKept, Works, Interrupts
<1>6. OnCpu'
  BY <1>3, OnCpuMoves
<1>. QED BY <1>4, <1>5, <1>6

\* The instructions that need no device.
LEMMA StageInstruction ==
  ASSUME IInv, OnCpu, Exec \/ PSuccess \/ PFailure \/ PCharge \/ VNoneWaiting
  PROVE  OnCpu' /\ OthersKept /\ MemoryKept
<1>. USE DEF Before, schedVars, createVars, procVars, semVars, memVars, ioVars,
     diskVars, printVars, localVars
<1>0. /\ Works /\ ~new_process
      /\ at["cpu"] # "p_charge" => cur = Job /\ at["cpu"] \in HasProcess
  BY DEF OnCpu, Works, Loads, Interrupts, Dispatches, Exec, PSuccess, PFailure,
     PCharge, VNoneWaiting, HasProcess
<1>1. /\ UNCHANGED <<running, ready, createVars, status, freed, ioVars, segments,
                     present_bit, num_free_pages>>
      /\ ~new_process' /\ UNCHANGED cur
  BY <1>0 DEF Exec, PSuccess, PFailure, PCharge, VNoneWaiting
<1>2. Job' = Job
  BY <1>1 DEF Job, NewProcess
<1>3. JobOnly
  BY <1>0, <1>1, Running DEF JobOnly, Exec, PSuccess, PFailure, PCharge, VNoneWaiting,
     NextPC
<1>4. /\ IF PFailure THEN JobWaits' ELSE NobodyWaits'
      /\ at'["ui"] = at["ui"] /\ at'["disk"] = at["disk"] /\ at'["print"] = at["print"]
      /\ IF PFailure THEN at'["cpu"] = "irq_lock" /\ irq' = "SEMAPHORE"
         ELSE at'["cpu"] \in {"loop", "p_charge"}
      /\ at'["cpu"] = "p_charge" => at["cpu"] = "p"
  <2>1. CASE PFailure
    <3>1. PICK s \in Sem : s = Instr.semaphore
      BY <2>1, InstrSem DEF PFailure
    <3>2. processes_waiting \in [Sem -> Seq(Created \cup {NULL})]
      BY DEF IInv, TypeOK, SemTypeOK
    <3>3. Append(<<>>, Job) = <<Job>>
      OBVIOUS
    <3>4. /\ processes_waiting'[s] = <<Job>>
          /\ \A t \in Sem \ {s} : processes_waiting'[t] = <<>>
      BY <1>0, <2>1, <3>1, <3>2, <3>3, Running DEF PFailure, Works, NobodyWaits
    <3>5. JobWaits'
      BY <1>2, <3>4 DEF JobWaits
    <3>. QED BY <2>1, <3>5, CpuGoes DEF PFailure, Raise
  <2>2. CASE ~PFailure
    <3>1. UNCHANGED processes_waiting
      BY <2>2 DEF Exec, PSuccess, PCharge, VNoneWaiting
    <3>2. NobodyWaits'
      BY <1>0, <3>1 DEF NobodyWaits, Works
    <3>. QED BY <2>2, <3>2, CpuGoes DEF Exec, PSuccess, PCharge, VNoneWaiting
  <2>. QED BY <2>1, <2>2
<1>5. OnCpuFrame /\ Hand' /\ (Works \/ Interrupts)'
  <2>. HIDE DEF NobodyWaits, JobWaits, PFailure
  <2>. QED BY <1>0, <1>1, <1>2, <1>4, Running DEF OnCpuFrame, Hand, Works, Interrupts,
           HasProcess, MemoryLabel, FinishLabel, CpuInterruption, INTERRUPTION_TYPE
<1>6. OnCpu'
  BY <1>5, OnCpuMoves
<1>7. OthersKept
  BY <1>3, JobOnlyKeeps DEF OnCpu
<1>8. MemoryKept
  BY <1>1, <1>5 DEF MemoryKept, Works, Interrupts
<1>. QED BY <1>6, <1>7, <1>8

\* What follows the loop, up to the unloading.
LEMMA StageEnd ==
  ASSUME IInv, OnCpu, Exit \/ Finish \/ FinishWait
  PROVE  OnCpu' /\ OthersKept /\ MemoryKept
<1>. USE DEF Before, schedVars, createVars, procVars, semVars, memVars, ioVars,
     diskVars, printVars, localVars
<1>0. Works /\ ~new_process /\ Hand
  BY DEF OnCpu, Hand, Works, Loads, Interrupts, Dispatches, Exit, Finish, FinishWait
<1>1. /\ UNCHANGED <<running, ready, createVars, PC, freed, semVars, ioVars, segments,
                     present_bit, num_free_pages>>
      /\ ~new_process'
  BY <1>0 DEF Exit, Finish, FinishWait
<1>2. /\ Job' = Job /\ (Done(Job) <=> Done(Job)') /\ (NobodyWaits => NobodyWaits')
  BY <1>1 DEF Job, NewProcess, Done, CodeOf, NobodyWaits
<1>3. JobOnly
  BY <1>0, <1>1, Running DEF JobOnly, Exit, Finish, FinishWait, Hand, HasProcess,
     FinishLabel
<1>4. OnCpuFrame /\ Hand' /\ (Works \/ Loads \/ Interrupts)'
  <2>. HIDE DEF NobodyWaits
  <2>. USE <1>0, <1>1, <1>2, CpuGoes, Running
       DEF OnCpuFrame, Hand, Works, Loads, Interrupts, HasProcess, MemoryLabel,
           FinishLabel
  <2>1. CASE Exit
    BY <2>1 DEF Exit, Raise, CpuInterruption, INTERRUPTION_TYPE
  <2>2. CASE Finish
    BY <2>2 DEF Finish
  <2>3. CASE FinishWait
    BY <2>3 DEF FinishWait
  <2>. QED BY <2>1, <2>2, <2>3
<1>5. OnCpu'
  BY <1>4, OnCpuMoves
<1>6. OthersKept
  BY <1>3, JobOnlyKeeps DEF OnCpu
<1>7. MemoryKept
  <2>1. at'["cpu"] # "fin_free"
    BY CpuGoes DEF Exit, Finish, FinishWait, Raise
  <2>. QED BY <1>1, <2>1 DEF MemoryKept
<1>. QED BY <1>5, <1>6, <1>7

\* Its segment is loaded into an empty memory.
LEMMA StageLoad ==
  ASSUME IInv, OnCpu, JobAlone, MemoryNext
  PROVE  OnCpu' /\ OthersKept /\ JobAlone'
<1>. USE DEF Before, schedVars, createVars, procVars, semVars, memVars, ioVars,
     diskVars, printVars, localVars
<1>0. /\ Works \/ Loads
      /\ ~new_process /\ Hand
  BY DEF OnCpu, Hand, Works, Loads, Interrupts, Dispatches, MemoryNext, LoadStart,
     SwapChoose, SwapUnload, LoadSegment
<1>1. /\ at["cpu"] \in {"load", "swap"}
      /\ cur = Job /\ ~present_bit[Job]
  BY <1>0 DEF MemoryNext, LoadStart, SwapChoose, SwapUnload, LoadSegment, Works, Loads,
     Hand, HasProcess, MemoryLabel
<1>2. /\ segments = <<>>
      /\ \A p \in Proc : ~present_bit[p]
      /\ num_free_pages >= NUM_PAGES
  BY <1>1, Running DEF JobAlone
<1>3. LoadStart \/ LoadSegment
  BY <1>1, <1>2 DEF MemoryNext, SwapChoose, SwapUnload
<1>4. /\ UNCHANGED <<running, ready, createVars, PC, freed, semVars, ioVars, cur>>
      /\ ~new_process'
  BY <1>0, <1>3 DEF LoadStart, LoadSegment
<1>5. Job' = Job /\ (NobodyWaits => NobodyWaits')
  BY <1>4 DEF Job, NewProcess, NobodyWaits
<1>6. JobOnly
  BY <1>1, <1>3, <1>4, Running DEF JobOnly, LoadStart, LoadSegment
<1>7. OnCpuFrame /\ Hand' /\ (Loads \/ Interrupts)'
  <2>. HIDE DEF NobodyWaits
  <2>. USE <1>0, <1>1, <1>4, <1>5, CpuGoes, Running
       DEF OnCpuFrame, Hand, Works, Loads, Interrupts, HasProcess, MemoryLabel,
           FinishLabel
  <2>1. CASE LoadStart
    BY <2>1 DEF LoadStart
  <2>2. CASE LoadSegment
    BY <2>2 DEF LoadSegment, Raise, CpuInterruption, INTERRUPTION_TYPE
  <2>. QED BY <1>3, <2>1, <2>2
<1>8. JobAlone'
  <2>1. CASE LoadStart
    BY <1>2, <2>1 DEF LoadStart, JobAlone
  <2>2. CASE LoadSegment
    <3>1. PagesOf(Job) \in Nat /\ PagesOf(Job)' = PagesOf(Job)
      BY <1>4, <1>5, Running, CreatedProc DEF IInv, TypeOK, PagesOf
    <3>2. num_free_pages' = num_free_pages - PagesOf(Job)
      BY <1>1, <2>2 DEF LoadSegment
    <3>3. num_free_pages' >= NUM_PAGES - PagesOf(Job)
      BY <1>2, <3>1, <3>2, ClockAssumption DEF IInv, TypeOK, MemTypeOK
    <3>4. segments' = <<Job>>
      BY <1>1, <1>2, <2>2 DEF LoadSegment
    <3>5. \A p \in Proc : present_bit'[p] <=> p = Job
      BY <1>1, <1>2, <2>2, Running DEF LoadSegment, IInv, TypeOK, MemTypeOK
    <3>6. at'["cpu"] # "fin_free" /\ Job \in Created' \ freed'
      BY <1>4, <2>2, CpuGoes, Running DEF LoadSegment, Raise, Created
    <3>. QED BY <1>5, <3>1, <3>3, <3>4, <3>5, <3>6 DEF JobAlone
  <2>. QED BY <1>3, <2>1, <2>2
<1>9. OnCpu'
  BY <1>7, OnCpuMoves
<1>10. OthersKept
  BY <1>6, JobOnlyKeeps DEF OnCpu
<1>. QED BY <1>8, <1>9, <1>10

\* The job is finished, and what it had in memory is not.
LEMMA StageFinish ==
  ASSUME IInv, OnCpu, JobAlone, Others, FinishUnload \/ FinishFree
  PROVE  (OnCpu \/ Departing)' /\ Others' /\ JobAlone'
<1>. USE DEF Before, schedVars, createVars, procVars, semVars, memVars, ioVars,
     diskVars, printVars, localVars
<1>0. /\ Loads /\ ~new_process /\ Hand
      /\ cur = Job /\ Done(Job)
  BY DEF OnCpu, Hand, Works, Loads, Interrupts, Dispatches, FinishUnload, FinishFree,
     HasProcess, FinishLabel
<1>1. /\ UNCHANGED <<running, ready, new_process, createVars, PC, semVars, ioVars, cur>>
      /\ Job' = Job /\ Created' = Created /\ (Done(Job) <=> Done(Job)')
      /\ (NobodyWaits => NobodyWaits')
  BY DEF FinishUnload, FinishFree, Job, NewProcess, Created, Done, CodeOf, NobodyWaits
<1>2. CASE FinishUnload
  <2>1. JobOnly
    BY <1>0, <1>1, <1>2, Running DEF JobOnly, FinishUnload
  <2>2. OnCpuFrame /\ Hand' /\ Loads'
    <3>. HIDE DEF NobodyWaits
    <3>. QED BY <1>0, <1>1, <1>2, CpuGoes, Running DEF OnCpuFrame, Hand, Loads,
             FinishUnload, HasProcess, MemoryLabel, FinishLabel
  <2>3. OnCpu'
    BY <2>2, OnCpuMoves
  <2>4. Others'
    BY <2>1, JobOnlyKeeps, OthersStay DEF OnCpu
  <2>5. /\ num_free_pages' = num_free_pages + PagesOf(Job)
        /\ Unlisted(Job)
    BY <1>0, <1>2 DEF FinishUnload, memory_unload_segment
  <2>6. PagesOf(Job) \in Nat /\ num_free_pages \in Int
    BY Running, CreatedProc DEF IInv, TypeOK, MemTypeOK
  <2>7. num_free_pages' >= NUM_PAGES
    BY <2>5, <2>6, ClockAssumption DEF JobAlone
  <2>8. \A p \in Proc : ~present_bit'[p]
    BY <2>5, Running DEF Unlisted, JobAlone, IInv, TypeOK, MemTypeOK
  <2>9. segments' = <<>>
    <3>1. CASE segments = <<>>
      <4>1. SameId(Job) = {}
        BY <3>1 DEF SameId
      <4>. QED BY <2>5, <3>1, <4>1 DEF Unlisted
    <3>2. CASE segments = <<Job>>
      <4>1. SameId(Job) = {1}
        BY <3>2 DEF SameId
      <4>2. PICK k : k = Min(SameId(Job))
        OBVIOUS
      <4>3. k = 1
        BY <4>1, <4>2, MinIsLeast
      <4>4. RemoveAt(segments, 1) = <<>>
        BY <3>2 DEF RemoveAt
      <4>. QED BY <2>5, <4>1, <4>2, <4>3, <4>4 DEF Unlisted
    <3>. QED BY <3>1, <3>2 DEF JobAlone
  <2>. QED BY <2>3, <2>4, <2>7, <2>8, <2>9 DEF JobAlone
<1>3. CASE FinishFree
  <2>1. /\ at'["cpu"] = "fin_unlink" /\ at'["ui"] = at["ui"] /\ at["cpu"] = "fin_free"
        /\ at'["disk"] = at["disk"] /\ at'["print"] = at["print"]
    BY <1>3, CpuGoes DEF FinishFree
  <2>2. freed' = Created /\ status' = [status EXCEPT ![Job] = "FINISHED"]
    BY <1>0, <1>3, Running DEF FinishFree, OnCpu, AtWork
  <2>3. DevicesRest'
    BY <1>1, <2>1 DEF OnCpu, DevicesRest
  <2>4. Departing'
    <3>. HIDE DEF NobodyWaits
    <3>. QED BY <1>0, <1>1, <2>1, <2>2, <2>3 DEF OnCpu, AtWork, Departing, Loads
  <2>5. Others'
    <3>1. freed' = freed \cup {Job} /\ freed \subseteq Proc
      BY <2>2, Running, CreatedProc DEF OnCpu, AtWork, IInv, TypeOK
    <3>2. ASSUME NEW p \in freed'
          PROVE  status'[p] = "FINISHED" /\ Done(p)'
      <4>1. Done(p)
        BY <1>0, <3>1, <3>2 DEF Others
      <4>. QED BY <1>1, <2>2, <3>1, <3>2, <4>1, Running DEF Others, Done, CodeOf
    <3>3. ASSUME NEW p \in Proc \ Created'
          PROVE  status'[p] = "READY" /\ PC'[p] = 0
      BY <1>1, <2>2, <3>3, Running DEF Others
    <3>. QED BY <3>2, <3>3 DEF Others
  <2>6. JobAlone'
    BY <1>3, <2>1 DEF FinishFree, JobAlone
  <2>. QED BY <2>4, <2>5, <2>6
<1>. QED BY <1>2, <1>3

\* The CPU thread interrupts the job: it goes on, or it has lost the CPU.
LEMMA StageInterrupt ==
  ASSUME IInv, HostLocks, OnCpu, Interrupt("cpu")
  PROVE  (OnCpu \/ Asks \/ Awaits)' /\ OthersKept /\ MemoryKept
<1>. USE DEF Before, schedVars, createVars, procVars, semVars, memVars, ioVars,
     diskVars, printVars, localVars
<1>0. /\ Interrupts \/ Dispatches
      /\ at["cpu"] \in {"irq_lock", "irq_test", "irq_mark", "irq_sched"} =>
           Interrupts /\ ~new_process
      /\ at["cpu"] \in {"irq_scheduled", "irq_exit"} => Dispatches
  BY DEF OnCpu, Works, Loads, Interrupts, Dispatches, Interrupt, IrqLock, IrqTest,
     IrqMark, IrqSchedule, IrqScheduled, IrqExit
<1>1. /\ UNCHANGED <<createVars, PC, freed, semVars, memVars, ioVars, localVars>>
      /\ Job' = Job /\ Created' = Created
      /\ (NobodyWaits => NobodyWaits') /\ (JobWaits => JobWaits')
      /\ new_process' => new_process
  BY DEF Interrupt, IrqLock, IrqTest, IrqMark, IrqSchedule, IrqScheduled, IrqExit,
     Job, NewProcess, Created, NobodyWaits, JobWaits
<1>. HIDE DEF NobodyWaits, JobWaits
<1>2. Type("cpu") = irq
  BY DEF Type
<1>3. MemoryKept
  <2>1. Return("cpu") # "fin_free"
    BY <1>2 DEF Return, IInv, TypeOK, ControlTypeOK, CpuInterruption, INTERRUPTION_TYPE
  <2>2. at'["cpu"] # "fin_free"
    BY <2>1, CpuGoes DEF Interrupt, IrqLock, IrqTest, IrqMark, IrqSchedule,
       IrqScheduled, IrqExit
  <2>. QED BY <1>1, <2>2 DEF MemoryKept
<1>4. CASE IrqLock("cpu") \/ IrqTest("cpu") \/ IrqMark("cpu")
  <2>1. Interrupts /\ ~new_process /\ Hand
    BY <1>0, <1>4 DEF IrqLock, IrqTest, IrqMark, OnCpu, Hand
  <2>2. JobOnly
    BY <1>1, <1>4, Running DEF JobOnly, IrqLock, IrqTest, IrqMark
  <2>3. OnCpuFrame /\ Hand' /\ Interrupts'
    <3>. USE <1>1, <2>1, CpuGoes, Running
         DEF OnCpuFrame, Hand, Interrupts, HasProcess, MemoryLabel, FinishLabel
    <3>1. CASE IrqLock("cpu")
      BY <3>1 DEF IrqLock
    <3>2. CASE IrqTest("cpu")
      BY <3>2 DEF IrqTest
    <3>3. CASE IrqMark("cpu")
      BY <1>2, <3>3 DEF IrqMark
    <3>. QED BY <1>4, <3>1, <3>2, <3>3
  <2>4. OnCpu'
    BY <2>3, OnCpuMoves
  <2>. QED BY <1>3, <2>2, <2>4, JobOnlyKeeps DEF OnCpu
<1>5. CASE IrqSchedule("cpu")
  <2>1. /\ at["cpu"] = "irq_sched" /\ Interrupts /\ ~new_process /\ ~new_process'
        /\ at'["cpu"] = "irq_scheduled" /\ at'["ui"] = at["ui"]
        /\ at'["disk"] = at["disk"] /\ at'["print"] = at["print"]
    BY <1>0, <1>1, <1>5, CpuGoes DEF IrqSchedule
  <2>2. forward_scheduling /\ ready = <<>>
    BY <1>5 DEF IrqSchedule, OnCpu
  <2>3. AtWork' /\ DevicesRest'
    BY <1>1, <2>1 DEF OnCpu, AtWork, DevicesRest
  <2>4. CASE irq \in Blocking
    <3>1. running' = NULL /\ ready' = <<>> /\ status' = status
      BY <2>1, <2>2, <2>4, ScheduleNobody, Running DEF StillReady, Interrupts
    <3>2. Away' /\ status'[Job] = "WAITING"
      BY <2>1, <2>3, <2>4, <3>1 DEF Away, OnCpu, Interrupts
    <3>3. CASE irq = "SEMAPHORE"
      <4>1. Awaits'
        BY <1>1, <2>1, <2>3, <3>1, <3>2, <3>3 DEF Awaits, Interrupts
      <4>. QED BY <1>1, <1>3, <3>1, <4>1 DEF OthersKept
    <3>4. CASE irq # "SEMAPHORE"
      <4>1. NoDeviceInterrupts'
        BY <2>1, InterruptsAlone DEF OnCpu, IrqLabel, NoDeviceInterrupts
      <4>2. cur' = Job' /\ irq' \in {"DISK_REQUEST", "PRINT_REQUEST"} /\ NobodyWaits'
        BY <1>1, <2>1, <2>4, <3>4 DEF Interrupts, Blocking
      <4>3. Asks'
        BY <1>1, <2>1, <2>3, <3>1, <3>2, <4>1, <4>2 DEF Asks
      <4>. QED BY <1>1, <1>3, <3>1, <4>3 DEF OthersKept
    <3>. QED BY <3>3, <3>4
  <2>5. CASE irq \notin Blocking
    <3>1. StillReady /\ NobodyWaits
      BY <2>1, <2>5, Running DEF StillReady, Interrupts, Blocking
    <3>2. /\ running' = Job /\ ready' = <<>>
          /\ status' = [status EXCEPT ![Job] = "RUNNING"]
      BY <2>2, <3>1, ScheduleOnly, Running
    <3>3. Dispatches'
      BY <1>1, <2>1, <2>5, <3>1, <3>2, Running DEF Dispatches, Interrupts
    <3>4. OnCpu'
      <4>. HIDE DEF Dispatches
      <4>. QED BY <1>1, <2>1, <2>3, <3>2, <3>3
               DEF OnCpu, HasProcess, MemoryLabel, FinishLabel
    <3>5. JobOnly
      BY <1>1, <3>2, Running DEF JobOnly
    <3>. QED BY <1>3, <3>4, <3>5, JobOnlyKeeps DEF OnCpu
  <2>. QED BY <2>4, <2>5
<1>6. CASE IrqScheduled("cpu") \/ IrqExit("cpu")
  <2>0. Dispatches
    BY <1>0, <1>6 DEF IrqScheduled, IrqExit
  <2>1. UNCHANGED <<running, ready, status>>
    BY <1>6 DEF IrqScheduled, IrqExit
  <2>2. OnCpuFrame /\ Hand' /\ (Works \/ Dispatches)'
    <3>. USE <1>1, <2>0, <2>1, CpuGoes, Running
         DEF OnCpuFrame, Hand, Works, Dispatches, HasProcess, MemoryLabel, FinishLabel
    <3>1. CASE IrqScheduled("cpu")
      BY <3>1 DEF IrqScheduled
    <3>2. CASE IrqExit("cpu")
      <4>1. Return("cpu") \in {"clear_flag", "spin", "loop"}
        BY <1>2 DEF Return, CpuInterruption, INTERRUPTION_TYPE, Blocking
      <4>. QED BY <3>2, <4>1 DEF IrqExit
    <3>. QED BY <1>6, <3>1, <3>2
  <2>3. OnCpu'
    BY <2>2, OnCpuMoves
  <2>. QED BY <1>1, <1>3, <2>1, <2>3 DEF OthersKept
<1>. QED BY <1>4, <1>5, <1>6 DEF Interrupt

-----------------------------------------------------------------------------
(* The CPU thread without a job to execute. *)

\* A step of the CPU thread that finds nothing to do.
IdleStep ==
  /\ UNCHANGED <<schedVars, createVars, procVars, semVars, memVars, ioVars, localVars>>
  /\ at'["cpu"] \in {"loop", "exit", "spin"}
  /\ at'["ui"] = at["ui"] /\ at'["disk"] = at["disk"] /\ at'["print"] = at["print"]

\* While nobody runs and nothing is announced it finds nothing.
LEMMA IdleCpu ==
  ASSUME IInv, running = NULL, ~new_process, Idles, CpuNext
  PROVE  IdleStep
<1>1. CASE at["cpu"] = "loop"
  <2>1. Loop
    BY <1>1, UnlinkStep
       DEF CpuNext, Interrupt, IrqLock, IrqTest, IrqMark, IrqSchedule, IrqScheduled,
           IrqExit, MemoryNext, LoadStart, SwapChoose, SwapUnload, LoadSegment, Spin,
           ClearFlag, FetchAbsent, Fetch, Exec, PSuccess, PFailure, PCharge,
           VNoneWaiting, VHandOver, EnqueueDisk, EnqueuePrint, Exit, Finish, FinishWait,
           FinishUnload, FinishFree, FinishSchedule, FinishPost, Before, Unlinking,
           UnlinkLabel
  <2>. QED BY <2>1, CpuGoes DEF Loop, CanExecute, IdleStep
<1>2. CASE at["cpu"] = "exit"
  <2>1. Exit
    BY <1>2, UnlinkStep
       DEF CpuNext, Interrupt, IrqLock, IrqTest, IrqMark, IrqSchedule, IrqScheduled,
           IrqExit, MemoryNext, LoadStart, SwapChoose, SwapUnload, LoadSegment, Spin,
           ClearFlag, FetchAbsent, Fetch, Exec, PSuccess, PFailure, PCharge,
           VNoneWaiting, VHandOver, EnqueueDisk, EnqueuePrint, Loop, Finish, FinishWait,
           FinishUnload, FinishFree, FinishSchedule, FinishPost, Before, Unlinking,
           UnlinkLabel
  <2>. QED BY <2>1, CpuGoes DEF Exit, IdleStep, localVars
<1>3. CASE at["cpu"] = "spin"
  BY <1>3, UnlinkStep
     DEF CpuNext, Interrupt, IrqLock, IrqTest, IrqMark, IrqSchedule, IrqScheduled,
         IrqExit, MemoryNext, LoadStart, SwapChoose, SwapUnload, LoadSegment, Spin,
         ClearFlag, FetchAbsent, Fetch, Exec, PSuccess, PFailure, PCharge, VNoneWaiting,
         VHandOver, EnqueueDisk, EnqueuePrint, Loop, Exit, Finish, FinishWait,
         FinishUnload, FinishFree, FinishSchedule, FinishPost, Before, Unlinking,
         UnlinkLabel
<1>. QED BY <1>1, <1>2, <1>3 DEF Idles

\* Which leaves everything at the stage it was at.
LEMMA StageIdles ==
  ASSUME IdleStep, Idles
  PROVE  /\ Awaits => Awaits'
         /\ AtDisk => AtDisk'
         /\ AtPrinter => AtPrinter'
         /\ Returns => Returns'
         /\ OthersKept /\ MemoryKept
<1>. USE DEF IdleStep, schedVars, createVars, procVars, semVars, memVars, ioVars,
     diskVars, printVars, localVars
<1>1. /\ Job' = Job /\ Idles' /\ IORequest' = IORequest
      /\ (NobodyWaits => NobodyWaits') /\ (JobWaits => JobWaits')
      /\ (Away => Away')
  BY DEF Job, NewProcess, Created, NobodyWaits, JobWaits, Away, AtWork, Idles,
     IORequest, CodeOf
<1>2. Awaits => Awaits'
  BY <1>1 DEF Awaits, Idles, DevicesRest
<1>3. AtDisk => AtDisk'
  BY <1>1 DEF AtDisk
<1>4. AtPrinter => AtPrinter'
  BY <1>1 DEF AtPrinter
<1>5. Returns => Returns'
  BY <1>1 DEF Returns
<1>6. OthersKept /\ MemoryKept
  BY DEF OthersKept, MemoryKept
<1>. QED BY <1>2, <1>3, <1>4, <1>5, <1>6

\* Between two jobs it only posts the semaphore.
LEMMA StageVacant ==
  ASSUME IInv, Vacant, CpuNext
  PROVE  Vacant' /\ OthersKept /\ MemoryKept
<1>1. FinishPost \/ Spin
  BY UnlinkStep
     DEF Vacant, CpuNext, Interrupt, IrqLock, IrqTest, IrqMark, IrqSchedule,
         IrqScheduled, IrqExit, MemoryNext, LoadStart, SwapChoose, SwapUnload,
         LoadSegment, ClearFlag, FetchAbsent, Fetch, Exec, PSuccess, PFailure, PCharge,
         VNoneWaiting, VHandOver, EnqueueDisk, EnqueuePrint, Loop, Exit, Finish,
         FinishWait, FinishUnload, FinishFree, FinishSchedule, Before, Unlinking,
         UnlinkLabel
<1>2. FinishPost
  BY <1>1 DEF Spin, Vacant
<1>3. /\ at'["cpu"] = "spin" /\ at'["ui"] = at["ui"]
      /\ at'["disk"] = at["disk"] /\ at'["print"] = at["print"]
  BY <1>2, CpuGoes DEF FinishPost
<1>4. UNCHANGED <<schedVars, createVars, procVars, semVars, memVars, ioVars>>
  BY <1>2 DEF FinishPost
<1>. USE DEF schedVars, createVars, procVars, semVars, memVars, ioVars, diskVars,
             printVars
<1>5. Vacant'
  BY <1>3, <1>4 DEF Vacant, DevicesRest, NobodyWaits, Created
<1>. QED BY <1>3, <1>4, <1>5 DEF OthersKept, MemoryKept

\* The new process interrupts it, and is dispatched.
LEMMA StageSubmitted ==
  ASSUME IInv, Submitted, CpuNext
  PROVE  (Submitted \/ OnCpu)' /\ OthersKept /\ MemoryKept
<1>1. \/ Spin /\ new_process
      \/ IrqLock("cpu") \/ IrqTest("cpu") \/ IrqSchedule("cpu")
  <2>1. at["cpu"] \in {"spin", "irq_lock", "irq_test", "irq_sched"}
    BY DEF Submitted
  <2>2. Spin \/ IrqLock("cpu") \/ IrqTest("cpu") \/ IrqSchedule("cpu")
    BY <2>1, UnlinkStep
       DEF CpuNext, Interrupt, IrqMark, IrqScheduled, IrqExit, MemoryNext, LoadStart,
           SwapChoose, SwapUnload, LoadSegment, ClearFlag, FetchAbsent, Fetch, Exec,
           PSuccess, PFailure, PCharge, VNoneWaiting, VHandOver, EnqueueDisk,
           EnqueuePrint, Loop, Exit, Finish, FinishWait, FinishUnload, FinishFree,
           FinishSchedule, FinishPost, Before, Unlinking, UnlinkLabel
  <2>. QED BY <2>2 DEF Spin, Submitted
<1>2. /\ at["ui"] = "prompt" /\ ready = <<Job>> /\ new_process
      /\ Spin \/ irq = "NEW_PROCESS"
  BY <1>1 DEF Submitted, IrqLock, IrqTest, IrqSchedule, Before
<1>. USE DEF Before, schedVars, createVars, procVars, semVars, memVars, ioVars,
     diskVars, printVars, localVars
<1>3. /\ UNCHANGED <<new_process, createVars, PC, freed, semVars, memVars, ioVars>>
      /\ Job' = Job
  BY <1>1 DEF Spin, IrqLock, IrqTest, IrqSchedule, Job, NewProcess
<1>4. /\ at'["ui"] = at["ui"] /\ at'["disk"] = at["disk"] /\ at'["print"] = at["print"]
      /\ at'["cpu"] \in {"irq_lock", "irq_test", "irq_sched", "irq_scheduled"}
      /\ at'["cpu"] = "irq_scheduled" <=> IrqSchedule("cpu")
      /\ irq' = "NEW_PROCESS"
  <2>1. CASE Spin /\ new_process
    BY <2>1, CpuGoes DEF Spin, Raise, IrqSchedule
  <2>2. CASE IrqLock("cpu") \/ IrqTest("cpu")
    <3>1. ~Spin /\ ~IrqSchedule("cpu") /\ running = NULL
      BY <2>2 DEF IrqLock, IrqTest, IrqSchedule, Spin, Submitted
    <3>2. irq' = irq /\ irq = "NEW_PROCESS"
      BY <1>2, <2>2, <3>1 DEF IrqLock, IrqTest
    <3>. QED BY <2>2, <3>1, <3>2, CpuGoes DEF IrqLock, IrqTest
  <2>3. CASE IrqSchedule("cpu")
    BY <1>2, <2>3, CpuGoes DEF IrqSchedule, Spin
  <2>. QED BY <1>1, <2>1, <2>2, <2>3
<1>5. AtWork' /\ DevicesRest' /\ NoDeviceInterrupts' /\ NobodyWaits'
  BY <1>3, <1>4 DEF Submitted, AtWork, DevicesRest, NoDeviceInterrupts, NobodyWaits,
     Created, Job, NewProcess
<1>6. MemoryKept
  BY <1>3, <1>4 DEF MemoryKept
<1>7. CASE IrqSchedule("cpu")
  <2>1. /\ running' = Job /\ ready' = <<>>
        /\ status' = [status EXCEPT ![Job] = "RUNNING"]
    BY <1>2, <1>7, ScheduleOnly DEF IrqSchedule, Submitted, StillReady
  <2>2. Job \in Proc /\ status \in [Proc -> Status]
    BY JobType DEF Submitted, AtWork, IInv, TypeOK, ProcTypeOK
  <2>3. Dispatches'
    BY <1>3, <1>4, <1>5, <1>7, <2>1, <2>2
       DEF Dispatches, CpuInterruption, INTERRUPTION_TYPE, Blocking
  <2>4. OnCpu'
    <3>. HIDE DEF Dispatches
    <3>. QED BY <1>2, <1>3, <1>4, <1>5, <1>7, <2>1, <2>3
             DEF OnCpu, HasProcess, MemoryLabel, FinishLabel
  <2>5. JobOnly
    BY <1>3, <2>1, <2>2 DEF JobOnly
  <2>. QED BY <1>6, <2>4, <2>5, JobOnlyKeeps DEF Submitted
<1>8. CASE ~IrqSchedule("cpu")
  <2>1. UNCHANGED <<running, ready, status>>
    BY <1>1, <1>8 DEF Spin, IrqLock, IrqTest
  <2>2. Submitted'
    BY <1>2, <1>3, <1>4, <1>5, <1>8, <2>1 DEF Submitted
  <2>. QED BY <1>3, <1>6, <2>1, <2>2 DEF OthersKept
<1>. QED BY <1>7, <1>8

\* delete_list on the PCB of a job: it is the header, and the only node.
LEMMA JobUnlinked ==
  ASSUME Departing, FinishUnlink
  PROVE  UNCHANGED <<ready, PCB>> /\ Goto("cpu", "fin_header")
<1>1. PCB = <<Job>> /\ cur = Job /\ ready = <<>>
  BY DEF Departing, FinishUnlink, Before
<1>2. Contains(PCB, cur) /\ Head(PCB) = cur /\ Len(PCB) = 1 /\ ~Contains(ready, cur)
  BY <1>1 DEF Contains
<1>. QED BY <1>2
         DEF FinishUnlink, DeleteAbsent, DeleteHeader, DeleteTail, DeleteMiddle

\* A finished job leaves the PCB, and nobody runs after it.
LEMMA StageDeparting ==
  ASSUME IInv, Others, Departing, CpuNext
  PROVE  (Departing \/ Vacant)' /\ OthersKept /\ MemoryKept
<1>0. Job \in Created /\ Job \in Proc /\ Job # NULL
  BY JobType DEF Departing
<1>1. FinishUnlink \/ FinishHeader \/ FinishNode \/ FinishSchedule
  BY DEF Departing, CpuNext, Interrupt, IrqLock, IrqTest, IrqMark, IrqSchedule,
     IrqScheduled, IrqExit, MemoryNext, LoadStart, SwapChoose, SwapUnload, LoadSegment,
     Spin, ClearFlag, FetchAbsent, Fetch, Exec, PSuccess, PFailure, PCharge,
     VNoneWaiting, VHandOver, EnqueueDisk, EnqueuePrint, Loop, Exit, Finish, FinishWait,
     FinishUnload, FinishFree, FinishTail, FinishPost, Before
<1>. USE DEF Before, schedVars, createVars, procVars, semVars, memVars, ioVars,
     diskVars, printVars, localVars
<1>2. /\ UNCHANGED <<new_process, processes_id, file, PC, freed, semVars, memVars,
                     ioVars, localVars>>
      /\ Job' = Job /\ Created' = Created
  BY <1>1, UnlinkStep DEF FinishSchedule, Job, NewProcess, Created, Unlinking
<1>3. /\ at'["ui"] = at["ui"] /\ at'["disk"] = at["disk"] /\ at'["print"] = at["print"]
      /\ FinishUnlink => at'["cpu"] = "fin_header"
      /\ FinishHeader => at'["cpu"] = "fin_node"
      /\ FinishNode => at'["cpu"] = "fin_sched"
      /\ FinishSchedule => at'["cpu"] = "fin_post"
  BY <1>1, CpuGoes, JobUnlinked DEF FinishHeader, FinishNode, FinishSchedule
<1>4. DevicesRest' /\ NobodyWaits'
  BY <1>2, <1>3 DEF Departing, DevicesRest, NobodyWaits
<1>5. MemoryKept
  BY <1>1, <1>2, <1>3 DEF MemoryKept
<1>6. CASE FinishUnlink \/ FinishHeader \/ FinishNode
  <2>1. UNCHANGED <<running, ready, status>>
    BY <1>6, JobUnlinked, UnlinkStep DEF FinishHeader, FinishNode, Unlinking
  <2>2. PCB' = IF FinishUnlink THEN PCB ELSE <<>>
    BY <1>6, JobUnlinked DEF FinishHeader, FinishNode, Departing
  <2>3. Departing'
    <3>1. CASE FinishUnlink
      BY <1>2, <1>3, <1>4, <2>1, <2>2, <3>1 DEF Departing, FinishUnlink
    <3>2. CASE ~FinishUnlink
      BY <1>2, <1>3, <1>4, <1>6, <2>1, <2>2, <3>2 DEF Departing
    <3>. QED BY <3>1, <3>2
  <2>. QED BY <1>2, <1>5, <2>1, <2>3 DEF OthersKept
<1>7. CASE FinishSchedule
  <2>1. PCB = <<>> /\ PCB' = <<>>
    BY <1>7 DEF FinishSchedule, Departing
  <2>2. ~StillReady
    BY <1>0 DEF StillReady, Departing, Others
  <2>3. running' = NULL /\ ready' = <<>> /\ status' = status
    BY <1>7, <2>2, ScheduleNobody DEF FinishSchedule, Departing
  <2>4. Vacant'
    BY <1>2, <1>3, <1>4, <1>7, <2>1, <2>3 DEF Departing, Vacant
  <2>. QED BY <1>2, <1>5, <2>3, <2>4 DEF OthersKept
<1>. QED BY <1>1, <1>6, <1>7

\* The job has lost the CPU: the CPU thread queues its request, or finds nothing to do.
LEMMA StageAway ==
  ASSUME IInv, HostLocks, Asks \/ Awaits, CpuNext
  PROVE  (Asks \/ Awaits \/ AtDisk \/ AtPrinter)' /\ OthersKept /\ MemoryKept
<1>0. /\ running = NULL /\ ~new_process /\ AtWork
      /\ Job \in Created /\ Job \in Proc
  BY JobType DEF Asks, Awaits, Away, AtWork
<1>. USE DEF Before, schedVars, createVars, procVars, semVars, memVars, ioVars,
     diskVars, printVars, localVars
<1>1. CASE Idles
  <2>1. Awaits
    BY <1>1 DEF Asks, Idles
  <2>2. IdleStep
    BY <1>0, <1>1, IdleCpu
  <2>. QED BY <1>1, <2>1, <2>2, StageIdles
<1>2. CASE at["cpu"] \in {"irq_scheduled", "irq_exit"}
  <2>1. IrqScheduled("cpu") \/ IrqExit("cpu")
    BY <1>2, UnlinkStep
       DEF CpuNext, Interrupt, IrqLock, IrqTest, IrqMark, IrqSchedule, MemoryNext,
           LoadStart, SwapChoose, SwapUnload, LoadSegment, Spin, ClearFlag, Loop,
           FetchAbsent, Fetch, Exec, PSuccess, PFailure, PCharge, VNoneWaiting,
           VHandOver, EnqueueDisk, EnqueuePrint, Exit, Finish, FinishWait, FinishUnload,
           FinishFree, FinishSchedule, FinishPost, Unlinking, UnlinkLabel
  <2>2. /\ UNCHANGED <<running, ready, createVars, procVars, semVars, memVars, ioVars,
                       localVars>>
        /\ ~new_process' /\ Job' = Job
        /\ (NobodyWaits => NobodyWaits') /\ (JobWaits => JobWaits')
        /\ (AtWork => AtWork')
    BY <1>0, <2>1 DEF IrqScheduled, IrqExit, Job, NewProcess, NobodyWaits, JobWaits,
       AtWork, Created
  <2>. HIDE DEF NobodyWaits, JobWaits, AtWork
  <2>3. Return("cpu") = IF irq = "SEMAPHORE" THEN "loop" ELSE "enqueue"
    <3>1. Type("cpu") = irq
      BY DEF Type
    <3>2. irq \in {"SEMAPHORE", "DISK_REQUEST", "PRINT_REQUEST"}
      BY <1>2 DEF Asks, Awaits
    <3>. QED BY <3>1, <3>2 DEF Return
  <2>4. /\ at'["ui"] = at["ui"] /\ at'["disk"] = at["disk"]
        /\ at'["print"] = at["print"]
        /\ at'["cpu"] \in {"irq_exit", IF irq = "SEMAPHORE" THEN "loop" ELSE "enqueue"}
    BY <2>1, <2>3, CpuGoes DEF IrqScheduled, IrqExit
  <2>5. (Asks \/ Awaits)'
    <3>1. CASE Asks
      BY <2>2, <2>4, <3>1 DEF Asks, Away, DevicesRest, NoDeviceInterrupts
    <3>2. CASE Awaits
      BY <1>2, <2>2, <2>4, <3>2 DEF Awaits, Away, DevicesRest
    <3>. QED BY <3>1, <3>2
  <2>6. at'["cpu"] # "fin_free"
    BY <2>4
  <2>. QED BY <2>2, <2>5, <2>6 DEF OthersKept, MemoryKept
<1>3. CASE at["cpu"] = "enqueue"
  <2>1. EnqueueDisk \/ EnqueuePrint
    BY <1>3, UnlinkStep
       DEF CpuNext, Interrupt, IrqLock, IrqTest, IrqMark, IrqSchedule, IrqScheduled,
           IrqExit, MemoryNext, LoadStart, SwapChoose, SwapUnload, LoadSegment, Spin,
           ClearFlag, Loop, FetchAbsent, Fetch, Exec, PSuccess, PFailure, PCharge,
           VNoneWaiting, VHandOver, Exit, Finish, FinishWait, FinishUnload, FinishFree,
           FinishSchedule, FinishPost, Unlinking, UnlinkLabel
  <2>2. /\ Asks /\ cur = Job
        /\ disk_requests = <<>> /\ print_requests = <<>> /\ sweep_next = NULL
        /\ at["print"] = "poll" /\ at["disk"] \in {"poll", "sweep", "disk_post"}
        /\ NobodyWaits /\ status[Job] = "WAITING"
    BY <1>3 DEF Asks, Awaits, DevicesRest, NoDeviceInterrupts, IrqLabel
  <2>3. /\ UNCHANGED <<schedVars, createVars, status, freed, semVars, memVars,
                       sweep_next, disk_request, localVars>>
        /\ \A p \in Proc \ {Job} : PC'[p] = PC[p]
        /\ Job' = Job /\ Created' = Created /\ IORequest' = IORequest
    BY <1>0, <2>1, <2>2 DEF EnqueueDisk, EnqueuePrint, NextPC, Job, NewProcess, Created,
       IORequest, CodeOf, IInv, TypeOK, ProcTypeOK
  <2>4. /\ at'["ui"] = at["ui"] /\ at'["disk"] = at["disk"]
        /\ at'["print"] = at["print"] /\ at'["cpu"] = "loop"
    BY <2>1, CpuGoes DEF EnqueueDisk, EnqueuePrint
  <2>5. Away' /\ Idles' /\ NobodyWaits' /\ ready' = <<>> /\ status'[Job'] = "WAITING"
    BY <2>2, <2>3, <2>4 DEF Asks, Away, AtWork, Idles, NobodyWaits
  <2>6. OthersKept /\ MemoryKept
    BY <1>0, <2>3, <2>4, JobOnlyKeeps DEF JobOnly, MemoryKept
  <2>7. request \in IORequest /\ request.process = Job
    BY <1>3, <2>2, RequestType DEF request
  <2>8. CASE EnqueueDisk
    <3>1. at["disk"] # "disk_post"
      BY <2>8 DEF EnqueueDisk, HostLocks, Guards, DiskHolders
    <3>2. disk_requests' = <<request>> /\ print_requests' = <<>>
      BY <2>2, <2>8, FirstInserted DEF EnqueueDisk
    <3>3. AtDisk'
      BY <2>2, <2>3, <2>4, <2>5, <2>7, <3>1, <3>2 DEF AtDisk
    <3>. QED BY <2>6, <3>3
  <2>9. CASE EnqueuePrint
    <3>1. Append(<<>>, request) = <<request>>
      OBVIOUS
    <3>2. print_requests' = <<request>> /\ disk_requests' = <<>>
      BY <2>2, <2>9, <3>1 DEF EnqueuePrint
    <3>3. AtPrinter'
      BY <2>2, <2>3, <2>4, <2>5, <2>7, <3>2 DEF AtPrinter
    <3>. QED BY <2>6, <3>3
  <2>. QED BY <2>1, <2>8, <2>9
<1>. QED BY <1>1, <1>2, <1>3 DEF Asks, Awaits, Idles

-----------------------------------------------------------------------------
(* The devices. *)

\* At rest, they leave the stage as it is.
LEMMA StageRests ==
  ASSUME IInv, Rests, DiskNext \/ PrintNext
  PROVE  Rests' /\ OthersKept /\ MemoryKept
<1>1. DevicesRest
  BY DEF Rests, Vacant, Submitted, OnCpu, Departing, Asks, Awaits
<1>2. Passes
  BY <1>1, RestingDevices
<1>3. Rests'
  BY <1>2, StagePasses
<1>4. OthersKept /\ MemoryKept
  BY <1>2 DEF Passes, OthersKept, MemoryKept, createVars, procVars, memVars
<1>. QED BY <1>3, <1>4

\* What the steps below leave alone.
DeviceFrame ==
  /\ UNCHANGED <<running, createVars, PC, freed, semVars, memVars, localVars>>
  /\ ~new_process'
  /\ at'["cpu"] = at["cpu"] /\ at'["ui"] = at["ui"]

\* It is enough for all that is not about the device itself.
LEMMA DeviceKeeps ==
  ASSUME IInv, Away, DeviceFrame, \A p \in Proc \ {Job} : status'[p] = status[p]
  PROVE  /\ Job' = Job /\ Created' = Created /\ IORequest' = IORequest
         /\ OthersKept /\ MemoryKept /\ AtWork' /\ Away'
         /\ NobodyWaits => NobodyWaits'
         /\ Idles => Idles'
<1>. USE DEF DeviceFrame, createVars, semVars, memVars, localVars
<1>1. Job' = Job /\ Created' = Created /\ IORequest' = IORequest
  BY DEF Job, NewProcess, Created, IORequest, CodeOf
<1>2. AtWork' /\ Away'
  BY <1>1 DEF Away, AtWork
<1>3. OthersKept
  BY JobOnlyKeeps DEF JobOnly, Away
<1>4. (NobodyWaits => NobodyWaits') /\ (Idles => Idles')
  BY DEF NobodyWaits, Idles
<1>. QED BY <1>1, <1>2, <1>3, <1>4 DEF MemoryKept

\* The disk serves the job's request.
LEMMA StageAtDisk ==
  ASSUME IInv, AtDisk, DiskNext \/ PrintNext
  PROVE  (AtDisk \/ Returns)' /\ OthersKept /\ MemoryKept
<1>. USE DEF Before, schedVars, procVars, semVars, ioVars, diskVars, printVars
<1>1. PICK r \in IORequest :
        /\ disk_requests = <<r>> /\ r.process = Job
        /\ \/ /\ at["disk"] \in {"poll", "sweep"} /\ sweep_next \in {r, NULL}
              /\ status[Job] = "WAITING"
           \/ /\ at["disk"] = "disk_lock" /\ disk_request = r /\ sweep_next = NULL
              /\ status[Job] = "WAITING"
           \/ /\ at["disk"] = "disk_add" /\ disk_request = r /\ sweep_next = NULL
              /\ status[Job] = "READY"
  BY DEF AtDisk
<1>2. /\ Away /\ Idles /\ NobodyWaits /\ ready = <<>>
      /\ print_requests = <<>> /\ at["print"] = "poll"
      /\ Job \in Proc /\ status \in [Proc -> Status]
  BY JobType DEF AtDisk, Away, AtWork, IInv, TypeOK, ProcTypeOK
<1>3. DiskNext
  BY <1>2 DEF PrintNext, Interrupt, IrqLock, IrqTest, IrqMark, IrqSchedule,
     IrqScheduled, IrqExit, FulfillPrint, PrintRequestFinished
<1>4. SweepStart \/ SweepNext \/ SweepEnd \/ FulfillDiskRequest \/ DiskRequestFinished
  BY <1>1, <1>3 DEF DiskNext, Interrupt, IrqLock, IrqTest, IrqMark, IrqSchedule,
     IrqScheduled, IrqExit, DiskPost
<1>5. /\ DeviceFrame
      /\ UNCHANGED print_requests
      /\ at'["print"] = at["print"]
  BY <1>2, <1>4, DeviceGoes DEF Away, DeviceFrame, SweepStart, SweepNext, SweepEnd,
     FulfillDiskRequest, DiskRequestFinished
<1>6. \A p \in Proc \ {Job} : status'[p] = status[p]
  BY <1>1, <1>2, <1>4 DEF SweepStart, SweepNext, SweepEnd, FulfillDiskRequest,
     DiskRequestFinished
<1>7. /\ Job' = Job /\ IORequest' = IORequest /\ OthersKept /\ MemoryKept
      /\ Away' /\ NobodyWaits' /\ Idles'
  BY <1>2, <1>5, <1>6, DeviceKeeps
<1>8. CASE SweepStart \/ SweepNext \/ SweepEnd
  <2>1. UNCHANGED <<ready, disk_requests, status>>
    BY <1>8 DEF SweepStart, SweepNext, SweepEnd
  <2>2. \/ /\ at'["disk"] \in {"poll", "sweep"} /\ sweep_next' \in {r, NULL}
           /\ status'[Job] = "WAITING"
        \/ /\ at'["disk"] = "disk_lock" /\ disk_request' = r /\ sweep_next' = NULL
           /\ status'[Job] = "WAITING"
    <3>1. CASE SweepStart
      <4>1. Head(<<r>>) = r
        OBVIOUS
      <4>. QED BY <1>1, <2>1, <3>1, <4>1, DeviceGoes DEF SweepStart
    <3>2. CASE SweepNext
      <4>1. Successor(sweep_next) = NULL
        <5>1. 2..Len(<<r>>) = {}
          OBVIOUS
        <5>. QED BY <1>1, <5>1 DEF Successor
      <4>. QED BY <1>1, <2>1, <3>2, <4>1, DeviceGoes DEF SweepNext, Sweeping
    <3>3. CASE SweepEnd
      BY <1>1, <2>1, <3>3, DeviceGoes DEF SweepEnd
    <3>. QED BY <1>8, <3>1, <3>2, <3>3
  <2>3. AtDisk'
    BY <1>1, <1>2, <1>5, <1>7, <2>1, <2>2 DEF AtDisk
  <2>. QED BY <1>7, <2>3
<1>9. CASE FulfillDiskRequest
  <2>1. /\ UNCHANGED <<ready, disk_requests, disk_request, sweep_next>>
        /\ at["disk"] = "disk_lock" /\ at'["disk"] = "disk_add"
    BY <1>9, DeviceGoes DEF FulfillDiskRequest
  <2>2. status'[Job] = "READY"
    BY <1>1, <1>2, <1>9, <2>1 DEF FulfillDiskRequest
  <2>3. AtDisk'
    BY <1>1, <1>2, <1>5, <1>7, <2>1, <2>2 DEF AtDisk
  <2>. QED BY <1>7, <2>3
<1>10. CASE DiskRequestFinished
  <2>1. /\ at["disk"] = "disk_add" /\ at'["disk"] = "irq_lock"
        /\ UNCHANGED <<sweep_next, status>>
    BY <1>10, DeviceGoes DEF DiskRequestFinished
  <2>2. ready' = <<Job>>
    BY <1>1, <1>2, <1>10, <2>1, FirstInserted DEF DiskRequestFinished
  <2>3. disk_requests' = <<>>
    <3>1. SameTrack = {1}
      BY <1>1, <2>1 DEF SameTrack
    <3>2. PICK k : k = Min(SameTrack)
      OBVIOUS
    <3>3. k = 1
      BY <3>1, <3>2, MinIsLeast
    <3>4. disk_requests' \in DeleteSorted(disk_requests, k)
      BY <1>10, <3>1, <3>2 DEF DiskRequestFinished
    <3>5. Tail(<<r>>) = <<>>
      OBVIOUS
    <3>. QED BY <1>1, <3>3, <3>4, <3>5 DEF DeleteSorted
  <2>4. Returns'
    BY <1>1, <1>2, <1>5, <1>7, <2>1, <2>2, <2>3 DEF Returns
  <2>. QED BY <1>7, <2>4
<1>. QED BY <1>4, <1>8, <1>9, <1>10

\* The printer does.
LEMMA StageAtPrinter ==
  ASSUME IInv, AtPrinter, DiskNext \/ PrintNext
  PROVE  (AtPrinter \/ Returns)' /\ OthersKept /\ MemoryKept
<1>. USE DEF Before, schedVars, procVars, semVars, ioVars, diskVars, printVars
<1>1. PICK r \in IORequest :
        /\ print_requests = <<r>> /\ r.process = Job
        /\ \/ at["print"] = "poll" /\ status[Job] = "WAITING"
           \/ at["print"] = "print_add" /\ status[Job] = "READY"
  BY DEF AtPrinter
<1>2. /\ Away /\ Idles /\ NobodyWaits /\ ready = <<>>
      /\ disk_requests = <<>> /\ sweep_next = NULL
      /\ at["disk"] \in {"poll", "sweep", "disk_post"}
      /\ Job \in Proc /\ status \in [Proc -> Status]
  BY JobType DEF AtPrinter, Away, AtWork, IInv, TypeOK, ProcTypeOK
<1>3. Head(<<r>>) = r /\ Tail(<<r>>) = <<>>
  OBVIOUS
<1>4. SweepEnd \/ DiskPost \/ FulfillPrint \/ PrintRequestFinished
  <2>1. CASE DiskNext
    BY <1>2, <2>1 DEF DiskNext, Interrupt, IrqLock, IrqTest, IrqMark, IrqSchedule,
       IrqScheduled, IrqExit, SweepStart, SweepNext, Sweeping, FulfillDiskRequest,
       DiskRequestFinished
  <2>2. CASE PrintNext
    BY <1>1, <2>2 DEF PrintNext, Interrupt, IrqLock, IrqTest, IrqMark, IrqSchedule,
       IrqScheduled, IrqExit
  <2>. QED BY <2>1, <2>2
<1>5. /\ DeviceFrame
      /\ UNCHANGED <<disk_requests, sweep_next>>
      /\ at'["disk"] \in {"poll", "sweep", "disk_post"}
  BY <1>2, <1>4, DeviceGoes DEF Away, DeviceFrame, SweepEnd, DiskPost, FulfillPrint,
     PrintRequestFinished
<1>6. \A p \in Proc \ {Job} : status'[p] = status[p]
  BY <1>1, <1>2, <1>3, <1>4 DEF SweepEnd, DiskPost, FulfillPrint, PrintRequestFinished
<1>7. /\ Job' = Job /\ IORequest' = IORequest /\ OthersKept /\ MemoryKept
      /\ Away' /\ NobodyWaits' /\ Idles'
  BY <1>2, <1>5, <1>6, DeviceKeeps
<1>8. CASE SweepEnd \/ DiskPost
  <2>1. UNCHANGED <<ready, print_requests, status>> /\ at'["print"] = at["print"]
    BY <1>8, DeviceGoes DEF SweepEnd, DiskPost
  <2>2. AtPrinter'
    BY <1>1, <1>2, <1>5, <1>7, <2>1 DEF AtPrinter
  <2>. QED BY <1>7, <2>2
<1>9. CASE FulfillPrint
  <2>1. /\ UNCHANGED <<ready, print_requests>>
        /\ at'["print"] = "print_add" /\ status'[Job] = "READY"
    BY <1>1, <1>2, <1>3, <1>9, DeviceGoes DEF FulfillPrint
  <2>2. AtPrinter'
    BY <1>1, <1>2, <1>5, <1>7, <2>1 DEF AtPrinter
  <2>. QED BY <1>7, <2>2
<1>10. CASE PrintRequestFinished
  <2>1. /\ at["print"] = "print_add" /\ at'["print"] = "irq_lock"
        /\ UNCHANGED status /\ print_requests' = <<>>
    BY <1>1, <1>3, <1>10, DeviceGoes DEF PrintRequestFinished
  <2>2. ready' = <<Job>>
    BY <1>1, <1>2, <1>3, <1>10, FirstInserted DEF PrintRequestFinished
  <2>3. Returns'
    BY <1>1, <1>2, <1>5, <1>7, <2>1, <2>2 DEF Returns
  <2>. QED BY <1>7, <2>3
<1>. QED BY <1>4, <1>8, <1>9, <1>10

\* The device that has brought the job back has it dispatched.
LEMMA StageReturns ==
  ASSUME IInv, Returns, DiskNext \/ PrintNext
  PROVE  (Returns \/ OnCpu)' /\ OthersKept /\ MemoryKept
<1>. USE DEF Before, schedVars, procVars, ioVars, diskVars, printVars
<1>1. /\ Away /\ Idles /\ NobodyWaits /\ ready = <<Job>> /\ status[Job] = "READY"
      /\ disk_requests = <<>> /\ print_requests = <<>> /\ sweep_next = NULL
      /\ running = NULL /\ ~new_process
      /\ Job \in Proc /\ status \in [Proc -> Status]
  BY JobType DEF Returns, Away, AtWork, IInv, TypeOK, ProcTypeOK
<1>2. \/ SweepEnd \/ DiskPost
      \/ \E t \in {"disk", "print"} : IrqLock(t) \/ IrqTest(t) \/ IrqSchedule(t)
  <2>1. CASE DiskNext
    BY <1>1, <2>1 DEF Returns, DiskNext, Interrupt, IrqMark,
       IrqScheduled, IrqExit, SweepStart, SweepNext, Sweeping, FulfillDiskRequest,
       DiskRequestFinished
  <2>2. CASE PrintNext
    BY <1>1, <2>2 DEF Returns, PrintNext, Interrupt, IrqMark,
       IrqScheduled, IrqExit, FulfillPrint, PrintRequestFinished
  <2>. QED BY <2>1, <2>2
<1>3. /\ UNCHANGED <<createVars, PC, freed, semVars, memVars, localVars, ioVars>>
      /\ ~new_process' /\ at'["cpu"] = at["cpu"] /\ at'["ui"] = at["ui"]
  BY <1>1, <1>2, DeviceGoes DEF SweepEnd, DiskPost, IrqLock, IrqTest, IrqSchedule
<1>4. CASE \/ SweepEnd \/ DiskPost
           \/ \E t \in {"disk", "print"} : IrqLock(t) \/ IrqTest(t)
  <2>1. UNCHANGED <<running, ready, status>>
    BY <1>4 DEF SweepEnd, DiskPost, IrqLock, IrqTest
  <2>2. DeviceFrame
    BY <1>3, <2>1 DEF DeviceFrame
  <2>3. /\ Job' = Job /\ OthersKept /\ MemoryKept
        /\ Away' /\ NobodyWaits' /\ Idles'
    BY <1>1, <2>1, <2>2, DeviceKeeps
  <2>4. \/ /\ at'["disk"] \in {"irq_lock", "irq_test", "irq_sched"}
           /\ at'["print"] = "poll"
        \/ /\ at'["print"] \in {"irq_lock", "irq_test", "irq_sched"}
           /\ at'["disk"] \in {"poll", "sweep", "disk_post"}
    BY <1>1, <1>4, DeviceGoes DEF Returns, SweepEnd, DiskPost, IrqLock, IrqTest
  <2>5. Returns'
    BY <1>1, <1>3, <2>1, <2>3, <2>4 DEF Returns
  <2>. QED BY <2>3, <2>5
<1>5. CASE IrqSchedule("disk") \/ IrqSchedule("print")
  <2>1. /\ running' = Job /\ ready' = <<>>
        /\ status' = [status EXCEPT ![Job] = "RUNNING"]
    BY <1>1, <1>5, ScheduleOnly DEF IrqSchedule, StillReady
  <2>2. /\ at'["disk"] \in {"irq_scheduled", "poll", "sweep", "disk_post"}
        /\ at'["print"] \in {"irq_scheduled", "poll"}
    BY <1>5, DeviceGoes DEF IrqSchedule, Returns
  <2>3. Job' = Job /\ AtWork' /\ NobodyWaits' /\ Idles' /\ DevicesRest'
    BY <1>1, <1>3, <2>2 DEF Job, NewProcess, Away, AtWork, Created, NobodyWaits, Idles,
       DevicesRest, createVars, semVars
  <2>4. Works'
    BY <1>1, <2>1, <2>3 DEF Works, Idles
  <2>5. OnCpu'
    <3>. HIDE DEF Works
    <3>. QED BY <1>1, <1>3, <2>1, <2>3, <2>4
             DEF OnCpu, Away, Idles, HasProcess, MemoryLabel, FinishLabel
  <2>6. JobOnly
    BY <1>3, <2>1, <1>1 DEF JobOnly, createVars
  <2>7. OthersKept /\ MemoryKept
    BY <1>1, <1>3, <2>6, JobOnlyKeeps DEF Away, MemoryKept, createVars, memVars
  <2>. QED BY <2>5, <2>7
<1>. QED BY <1>2, <1>4, <1>5

-----------------------------------------------------------------------------
(* The invariant. *)

\* A step of the CPU thread takes the job from one stage to another.
LEMMA StageCpu ==
  ASSUME IInv, HostLocks, BInv, CpuNext
  PROVE  BInv'
<1>0. Stage /\ Others /\ JobAlone
  BY DEF BInv
<1>1. ASSUME Stage', OthersKept, MemoryKept
      PROVE  BInv'
  BY <1>0, <1>1, OthersStay, MemoryStays DEF BInv
<1>2. CASE Vacant
  BY <1>1, <1>2, StageVacant DEF Stage, Rests
<1>3. CASE Submitted
  BY <1>1, <1>3, StageSubmitted DEF Stage, Rests
<1>4. CASE Departing
  BY <1>0, <1>1, <1>4, StageDeparting DEF Stage, Rests
<1>5. CASE Asks \/ Awaits
  BY <1>1, <1>5, StageAway DEF Stage, Rests
<1>6. CASE AtDisk \/ AtPrinter \/ Returns
  <2>1. running = NULL /\ ~new_process /\ Idles
    BY <1>6 DEF AtDisk, AtPrinter, Returns, Away
  <2>2. IdleStep
    BY <2>1, IdleCpu
  <2>. QED BY <1>1, <1>6, <2>1, <2>2, StageIdles DEF Stage
<1>7. CASE OnCpu
  <2>1. CASE MemoryNext
    <3>1. OnCpu' /\ OthersKept /\ JobAlone'
      BY <1>0, <1>7, <2>1, StageLoad
    <3>. QED BY <1>0, <3>1, OthersStay DEF BInv, Stage, Rests
  <2>2. CASE FinishUnload \/ FinishFree
    <3>1. (OnCpu \/ Departing)' /\ Others' /\ JobAlone'
      BY <1>0, <1>7, <2>2, StageFinish
    <3>. QED BY <3>1 DEF BInv, Stage, Rests
  <2>3. CASE Interrupt("cpu")
    BY <1>1, <1>7, <2>3, StageInterrupt DEF Stage, Rests
  <2>4. CASE Spin \/ ClearFlag \/ Loop \/ FetchAbsent \/ Fetch
    BY <1>1, <1>7, <2>4, StageLoop DEF Stage, Rests
  <2>5. CASE Exec \/ PSuccess \/ PFailure \/ PCharge \/ VNoneWaiting
    BY <1>1, <1>7, <2>5, StageInstruction DEF Stage, Rests
  <2>6. CASE Exit \/ Finish \/ FinishWait
    BY <1>1, <1>7, <2>6, StageEnd DEF Stage, Rests
  <2>7. ~VHandOver
    <3>1. SUFFICES ASSUME VHandOver PROVE FALSE
      OBVIOUS
    <3>2. at["cpu"] = "v" /\ processes_waiting[Instr.semaphore] # <<>>
      BY <3>1 DEF VHandOver, Before
    <3>3. NobodyWaits
      BY <1>7, <3>2 DEF OnCpu, Works, Loads, Interrupts, Dispatches
    <3>. QED BY <3>2, <3>3, InstrSem DEF NobodyWaits
  <2>8. ~EnqueueDisk /\ ~EnqueuePrint /\ ~Unlinking /\ ~FinishSchedule /\ ~FinishPost
    BY <1>7, UnlinkStep
       DEF OnCpu, Works, Loads, Interrupts, Dispatches, EnqueueDisk, EnqueuePrint,
           FinishSchedule, FinishPost, Before, UnlinkLabel
  <2>. QED BY <2>1, <2>2, <2>3, <2>4, <2>5, <2>6, <2>7, <2>8 DEF CpuNext, Unlinking
<1>. QED BY <1>0, <1>2, <1>3, <1>4, <1>5, <1>6, <1>7 DEF Stage, Rests

\* So does a step of a device.
LEMMA StageDevices ==
  ASSUME IInv, BInv, DiskNext \/ PrintNext
  PROVE  BInv'
<1>0. Stage /\ Others /\ JobAlone
  BY DEF BInv
<1>1. Stage' /\ OthersKept /\ MemoryKept
  <2>1. CASE Rests
    BY <2>1, StageRests DEF Stage
  <2>2. CASE AtDisk
    BY <2>2, StageAtDisk DEF Stage
  <2>3. CASE AtPrinter
    BY <2>3, StageAtPrinter DEF Stage
  <2>4. CASE Returns
    BY <2>4, StageReturns DEF Stage, Rests
  <2>. QED BY <1>0, <2>1, <2>2, <2>3, <2>4 DEF Stage
<1>. QED BY <1>0, <1>1, OthersStay, MemoryStays DEF BInv

\* BInv does not mention os.
LEMMA StageStays ==
  ASSUME BInv, OsOnly
  PROVE  BInv'
<1>. USE DEF OsOnly, schedVars, createVars, procVars, semVars, memVars, ioVars,
             diskVars, printVars, localVars, Job, NewProcess, Created, DevicesRest,
             NoDeviceInterrupts, NobodyWaits, JobWaits, AtWork
<1>1. Rests => Rests'
  BY DEF Rests, Vacant, Submitted, OnCpu, Works, Loads, Interrupts, Dispatches,
     Departing, Away, Asks, Awaits, Done, CodeOf
<1>2. AtDisk \/ AtPrinter \/ Returns => (AtDisk \/ AtPrinter \/ Returns)'
  BY DEF AtDisk, AtPrinter, Returns, Away, Idles, IORequest, CodeOf
<1>3. Others => Others'
  BY DEF Others, Done, CodeOf
<1>4. JobAlone => JobAlone'
  BY DEF JobAlone, PagesOf
<1>. QED BY <1>1, <1>2, <1>3, <1>4 DEF BInv, Stage

\* And every step of the batch user's system.
LEMMA StepBatch ==
  ASSUME IInv, HostLocks, BInv, [BatchNext]_vars
  PROVE  BInv'
<1>1. CASE CpuNext
  BY <1>1, StageCpu
<1>2. CASE DiskNext \/ PrintNext
  BY <1>2, StageDevices
<1>3. CASE CreateProcess /\ BatchNext
  <2>1. processes_id' # processes_id
    BY <1>3 DEF CreateProcess, IInv, TypeOK, CreateTypeOK
  <2>. QED BY <1>3, <2>1, StageCreate DEF BatchNext
<1>4. CASE Submission
  BY <1>4, StageSubmit
<1>5. CASE \/ Quit \/ Fault(CpuUndefined) \/ Fault(DiskUndefined)
           \/ Fault(PrintUndefined) \/ Fault(PushUndefined)
  <2>1. OsOnly
    BY <1>5 DEF Quit, Fault, OsOnly
  <2>. QED BY <2>1, StageStays
<1>6. CASE UNCHANGED vars
  <2>1. OsOnly
    BY <1>6 DEF vars, OsOnly
  <2>. QED BY <2>1, StageStays
<1>. QED BY <1>1, <1>2, <1>3, <1>4, <1>5, <1>6
            DEF BatchNext, Next, Cpu, DiskThread, PrintThread, UiThread, UiNext, Halted

\* It holds when the program starts.
LEMMA InitBatch ==
  ASSUME Init
  PROVE  BInv
<1>1. Created = {}
  BY DEF Init, Created
<1>2. /\ at["cpu"] = "spin" /\ at["ui"] = "prompt"
      /\ at["disk"] = "poll" /\ at["print"] = "poll"
  BY DEF Init, Thread
<1>3. Vacant
  BY <1>1, <1>2 DEF Init, Vacant, DevicesRest, NobodyWaits
<1>4. Others /\ JobAlone
  BY <1>1, ClockAssumption DEF Init, Others, JobAlone
<1>. QED BY <1>3, <1>4 DEF BInv, Stage, Rests

\* cpu.c, disk.c, print.c and main-window.c together: as long as programs are submitted
\* one at a time, the one process there is to move is the business of one thread at a
\* time.
THEOREM BatchInvariant == BatchSpec => [](IInv /\ HostLocks /\ BInv)
<1>1. Init => BInv
  BY InitBatch
<1>2. IInv /\ HostLocks /\ BInv /\ [BatchNext]_vars => BInv'
  BY StepBatch
<1>3. [BatchNext]_vars => [Next]_vars
  BY DEF BatchNext
<1>. QED BY <1>1, <1>2, <1>3, Invariant, LocksCorrect, PTL DEF BatchSpec, Spec

-----------------------------------------------------------------------------
(* What follows for the job, and for the programs before it. *)

\* A live process is the job.
LEMMA LiveJob ==
  ASSUME IInv, BInv, NEW p \in Created, Live(p)
  PROVE  /\ p = Job /\ AtWork /\ ~Vacant /\ ~Departing
         /\ at["ui"] \notin {"ui_tail", "ui_enqueue"}
<1>1. p \notin freed
  BY DEF BInv, Others, Live
<1>2. AtWork /\ ~Vacant /\ ~Departing
  BY <1>1 DEF BInv, Stage, Rests, Vacant, Submitted, OnCpu, Departing, Asks, Awaits,
     Away, AtDisk, AtPrinter, Returns
<1>3. p = Job
  BY <1>1, <1>2 DEF AtWork
<1>. QED BY <1>2, <1>3 DEF Live, Job

\* Where the job is in lists of at most one entry.
LEMMA PlacesInLists ==
  /\ Positions(<<>>, Job) = {} /\ Positions(<<Job>>, Job) = {1}
  /\ RequestsOf(<<>>, Job) = {}
  /\ \A r : r.process = Job => RequestsOf(<<r>>, Job) = {1}
<1>1. DOMAIN <<>> = {} /\ \A x : DOMAIN <<x>> = {1} /\ <<x>>[1] = x
  OBVIOUS
<1>. QED BY <1>1 DEF Positions, RequestsOf

\* The places of the job, list by list.
RunPlaces == Held(running = Job /\ ~Leaving(Job), "running")
AskPlaces == Held(Requesting(Job), "requesting")
ReadyPlaces == {<<"ready", "", i>> : i \in Positions(ready, Job)}
DiskPlaces == {<<"disk", "", i>> : i \in RequestsOf(disk_requests, Job)}
PrintPlaces == {<<"print", "", i>> : i \in RequestsOf(print_requests, Job)}
WaitPlaces ==
  UNION {{<<"waiting", s, i>> : i \in Positions(processes_waiting[s], Job)} : s \in Sem}

\* PlacesOf counts all of them.
LEMMA PlacesOfJob ==
  PlacesOf(Job) =
    RunPlaces \cup AskPlaces \cup ReadyPlaces \cup DiskPlaces \cup PrintPlaces
    \cup WaitPlaces
BY DEF PlacesOf, RunPlaces, AskPlaces, ReadyPlaces, DiskPlaces, PrintPlaces, WaitPlaces

\* In no waiting list, or in one.
LEMMA PlacesWaiting ==
  /\ NobodyWaits => WaitPlaces = {}
  /\ JobWaits => \E s \in Sem : WaitPlaces = {<<"waiting", s, 1>>}
<1>. DEFINE W(s) == {<<"waiting", s, i>> : i \in Positions(processes_waiting[s], Job)}
<1>1. WaitPlaces = UNION {W(s) : s \in Sem}
  BY DEF WaitPlaces
<1>2. \A s \in Sem : processes_waiting[s] = <<>> => W(s) = {}
  BY PlacesInLists
<1>3. \A s \in Sem : processes_waiting[s] = <<Job>> => W(s) = {<<"waiting", s, 1>>}
  BY PlacesInLists
<1>. HIDE DEF W
<1>4. ASSUME NobodyWaits PROVE WaitPlaces = {}
  BY <1>1, <1>2, <1>4 DEF NobodyWaits
<1>5. ASSUME JobWaits PROVE \E s \in Sem : WaitPlaces = {<<"waiting", s, 1>>}
  <2>1. PICK s \in Sem : /\ processes_waiting[s] = <<Job>>
                         /\ \A t \in Sem \ {s} : processes_waiting[t] = <<>>
    BY <1>5 DEF JobWaits
  <2>2. W(s) = {<<"waiting", s, 1>>} /\ \A t \in Sem \ {s} : W(t) = {}
    BY <1>2, <1>3, <2>1
  <2>. QED BY <1>1, <2>2
<1>. QED BY <1>4, <1>5

\* On the CPU, or on the way to a device.
LEMMA PlacesRunning ==
  /\ running = Job /\ ~Leaving(Job) => RunPlaces = {<<"running", "cpu", 0>>}
  /\ ~(running = Job /\ ~Leaving(Job)) => RunPlaces = {}
  /\ Requesting(Job) => AskPlaces = {<<"requesting", "cpu", 0>>}
  /\ ~Requesting(Job) => AskPlaces = {}
BY DEF RunPlaces, AskPlaces, Held

\* In the ready list.
LEMMA PlacesReady ==
  /\ ready = <<>> => ReadyPlaces = {}
  /\ ready = <<Job>> => ReadyPlaces = {<<"ready", "", 1>>}
<1>1. ASSUME ready = <<>> PROVE ReadyPlaces = {}
  <2>1. Positions(ready, Job) = {}
    BY <1>1, PlacesInLists
  <2>. QED BY <2>1 DEF ReadyPlaces
<1>2. ASSUME ready = <<Job>> PROVE ReadyPlaces = {<<"ready", "", 1>>}
  <2>1. Positions(ready, Job) = {1}
    BY <1>2, PlacesInLists
  <2>. QED BY <2>1 DEF ReadyPlaces
<1>. QED BY <1>1, <1>2

\* In the list of a device.
LEMMA PlacesAtDevices ==
  /\ disk_requests = <<>> => DiskPlaces = {}
  /\ print_requests = <<>> => PrintPlaces = {}
  /\ \A r : r.process = Job /\ disk_requests = <<r>> => DiskPlaces = {<<"disk", "", 1>>}
  /\ \A r : r.process = Job /\ print_requests = <<r>> =>
           PrintPlaces = {<<"print", "", 1>>}
<1>1. ASSUME disk_requests = <<>> PROVE DiskPlaces = {}
  <2>1. RequestsOf(disk_requests, Job) = {}
    BY <1>1, PlacesInLists
  <2>. QED BY <2>1 DEF DiskPlaces
<1>2. ASSUME print_requests = <<>> PROVE PrintPlaces = {}
  <2>1. RequestsOf(print_requests, Job) = {}
    BY <1>2, PlacesInLists
  <2>. QED BY <2>1 DEF PrintPlaces
<1>3. ASSUME NEW r, r.process = Job, disk_requests = <<r>>
      PROVE  DiskPlaces = {<<"disk", "", 1>>}
  <2>1. RequestsOf(disk_requests, Job) = {1}
    BY <1>3, PlacesInLists
  <2>. QED BY <2>1 DEF DiskPlaces
<1>4. ASSUME NEW r, r.process = Job, print_requests = <<r>>
      PROVE  PrintPlaces = {<<"print", "", 1>>}
  <2>1. RequestsOf(print_requests, Job) = {1}
    BY <1>4, PlacesInLists
  <2>. QED BY <2>1 DEF PrintPlaces
<1>. QED BY <1>1, <1>2, <1>3, <1>4

\* The job has a place, and only one.
LEMMA JobPlace ==
  ASSUME IInv, BInv, AtWork, ~Vacant, ~Departing,
         at["ui"] \notin {"ui_tail", "ui_enqueue"}
  PROVE  \E x : PlacesOf(Job) = {x}
<1>0. Job # NULL
  BY JobType DEF AtWork
<1>1. CASE Submitted
  <2>1. ~Requesting(Job) /\ running # Job /\ ready = <<Job>>
    BY <1>0, <1>1 DEF Submitted, Requesting
  <2>2. RunPlaces = {} /\ AskPlaces = {} /\ ReadyPlaces = {<<"ready", "", 1>>}
    BY <2>1, PlacesRunning, PlacesReady
  <2>3. DiskPlaces = {} /\ PrintPlaces = {} /\ WaitPlaces = {}
    BY <1>1, PlacesAtDevices, PlacesWaiting DEF Submitted, DevicesRest
  <2>4. PlacesOf(Job) = {<<"ready", "", 1>>}
    BY <2>2, <2>3, PlacesOfJob
  <2>. QED BY <2>4
<1>2. CASE OnCpu
  <2>1. ~(JobWaits /\ NobodyWaits)
    BY DEF JobWaits, NobodyWaits
  <2>2. /\ Leaving(Job) => JobWaits
        /\ ~Leaving(Job) => NobodyWaits
    BY <1>2, <2>1 DEF OnCpu, Works, Loads, Interrupts, Dispatches, Leaving, Blocking
  <2>3. ~Requesting(Job) /\ running = Job /\ ready = <<>>
    BY <1>2 DEF OnCpu, Works, Loads, Interrupts, Dispatches, Requesting, Blocking
  <2>4. AskPlaces = {} /\ ReadyPlaces = {}
    BY <2>3, PlacesRunning, PlacesReady
  <2>5. DiskPlaces = {} /\ PrintPlaces = {}
    BY <1>2, PlacesAtDevices DEF OnCpu, DevicesRest
  <2>6. CASE Leaving(Job)
    <3>1. RunPlaces = {} /\ \E s \in Sem : WaitPlaces = {<<"waiting", s, 1>>}
      BY <2>2, <2>6, PlacesRunning, PlacesWaiting
    <3>2. PlacesOf(Job) = WaitPlaces
      BY <2>4, <2>5, <3>1, PlacesOfJob
    <3>. QED BY <3>1, <3>2
  <2>7. CASE ~Leaving(Job)
    <3>1. RunPlaces = {<<"running", "cpu", 0>>} /\ WaitPlaces = {}
      BY <2>2, <2>3, <2>7, PlacesRunning, PlacesWaiting
    <3>2. PlacesOf(Job) = {<<"running", "cpu", 0>>}
      BY <2>4, <2>5, <3>1, PlacesOfJob
    <3>. QED BY <3>2
  <2>. QED BY <2>6, <2>7
<1>3. CASE Asks
  <2>1. Requesting(Job) /\ running # Job /\ ready = <<>>
    BY <1>0, <1>3 DEF Asks, Away, Requesting
  <2>2. RunPlaces = {} /\ AskPlaces = {<<"requesting", "cpu", 0>>} /\ ReadyPlaces = {}
    BY <2>1, PlacesRunning, PlacesReady
  <2>3. DiskPlaces = {} /\ PrintPlaces = {} /\ WaitPlaces = {}
    BY <1>3, PlacesAtDevices, PlacesWaiting DEF Asks, DevicesRest
  <2>4. PlacesOf(Job) = {<<"requesting", "cpu", 0>>}
    BY <2>2, <2>3, PlacesOfJob
  <2>. QED BY <2>4
<1>4. CASE Awaits
  <2>1. ~Requesting(Job) /\ running # Job /\ ready = <<>>
    BY <1>0, <1>4 DEF Awaits, Away, Requesting
  <2>2. RunPlaces = {} /\ AskPlaces = {} /\ ReadyPlaces = {}
    BY <2>1, PlacesRunning, PlacesReady
  <2>3. DiskPlaces = {} /\ PrintPlaces = {}
    BY <1>4, PlacesAtDevices DEF Awaits, DevicesRest
  <2>4. \E s \in Sem : WaitPlaces = {<<"waiting", s, 1>>}
    BY <1>4, PlacesWaiting DEF Awaits
  <2>5. PlacesOf(Job) = WaitPlaces
    BY <2>2, <2>3, PlacesOfJob
  <2>. QED BY <2>4, <2>5
<1>5. CASE AtDisk \/ AtPrinter \/ Returns
  <2>1. ~Requesting(Job) /\ running # Job /\ NobodyWaits
    BY <1>0, <1>5 DEF AtDisk, AtPrinter, Returns, Away, Idles, Requesting
  <2>2. RunPlaces = {} /\ AskPlaces = {} /\ WaitPlaces = {}
    BY <2>1, PlacesRunning, PlacesWaiting
  <2>3. CASE AtDisk
    <3>1. ReadyPlaces = {} /\ DiskPlaces = {<<"disk", "", 1>>} /\ PrintPlaces = {}
      BY <2>3, PlacesReady, PlacesAtDevices DEF AtDisk
    <3>2. PlacesOf(Job) = {<<"disk", "", 1>>}
      BY <2>2, <3>1, PlacesOfJob
    <3>. QED BY <3>2
  <2>4. CASE AtPrinter
    <3>1. ReadyPlaces = {} /\ DiskPlaces = {} /\ PrintPlaces = {<<"print", "", 1>>}
      BY <2>4, PlacesReady, PlacesAtDevices DEF AtPrinter
    <3>2. PlacesOf(Job) = {<<"print", "", 1>>}
      BY <2>2, <3>1, PlacesOfJob
    <3>. QED BY <3>2
  <2>5. CASE Returns
    <3>1. ReadyPlaces = {<<"ready", "", 1>>} /\ DiskPlaces = {} /\ PrintPlaces = {}
      BY <2>5, PlacesReady, PlacesAtDevices DEF Returns
    <3>2. PlacesOf(Job) = {<<"ready", "", 1>>}
      BY <2>2, <3>1, PlacesOfJob
    <3>. QED BY <3>2
  <2>. QED BY <1>5, <2>3, <2>4, <2>5
<1>. QED BY <1>1, <1>2, <1>3, <1>4, <1>5 DEF BInv, Stage, Rests

\* Submitted one at a time, no program is ever dropped from the lists or held by two of
\* them, whatever the devices do meanwhile.
THEOREM BatchNeverLost == BatchSpec => []OnePlace
<1>1. ASSUME IInv, BInv, NEW p \in Created, Live(p)
      PROVE  Cardinality(PlacesOf(p)) = 1
  <2>1. \E x : PlacesOf(p) = {x}
    BY <1>1, LiveJob, JobPlace
  <2>. QED BY <2>1, FS_Singleton
<1>2. IInv /\ HostLocks /\ BInv => OnePlace
  BY <1>1 DEF OnePlace
<1>. QED BY BatchInvariant, <1>2, PTL

\* scheduler.h:21-22: whoever is ready gets the idle processor.
THEOREM BatchNeverStranded == BatchSpec => []NeverStranded
<1>1. IInv /\ HostLocks /\ BInv => NeverStranded
  BY DEF BInv, Stage, Rests, Vacant, Submitted, OnCpu, Departing, Asks, Awaits, Away,
     AtDisk, AtPrinter, Returns, NeverStranded, Stranded
<1>. QED BY BatchInvariant, <1>1, PTL

\* cpu.h:58-59: the PCB holds it as long as it lives.
THEOREM BatchPCB == BatchSpec => []PCBComplete
<1>1. ASSUME IInv, BInv, NEW p \in Created, Live(p)
      PROVE  Contains(PCB, p)
  <2>1. PCB = <<p>>
    BY <1>1, LiveJob DEF AtWork
  <2>. QED BY <2>1 DEF Contains
<1>2. IInv /\ HostLocks /\ BInv => PCBComplete
  BY <1>1 DEF PCBComplete
<1>. QED BY BatchInvariant, <1>2, PTL

\* cpu.c:173: it is not ended before its last instruction.
THEOREM BatchNeverCutShort == BatchSpec => []FinishesOnlyDone
<1>1. ASSUME IInv, BInv, NEW p \in Created, status[p] = "FINISHED"
      PROVE  p \in freed
  <2>1. SUFFICES ASSUME p \notin freed PROVE FALSE
    OBVIOUS
  <2>2. Stage
    BY <1>1 DEF BInv
  <2>3. p = Job /\ ~Vacant /\ ~Departing
    BY <1>1, <2>1, <2>2 DEF Stage, Rests, Vacant, Submitted, OnCpu, Departing, Asks,
       Awaits, Away, AtDisk, AtPrinter, Returns, AtWork
  <2>. QED BY <1>1, <2>2, <2>3 DEF Stage, Rests, Submitted, OnCpu, Works, Loads,
           Interrupts, Dispatches, Asks, Awaits, AtDisk, AtPrinter, Returns
<1>2. IInv /\ HostLocks /\ BInv => FinishesOnlyDone
  BY <1>1 DEF BInv, Others, FinishesOnlyDone
<1>. QED BY BatchInvariant, <1>2, PTL

\* cpu.c:274: once it has ended, no list and no pointer leads to it, not even that of a
\* device that is late.
THEOREM BatchNeverRevived == BatchSpec => []FinishedIsGone
<1>1. ASSUME IInv, BInv, at["cpu"] = "spin", NEW p \in freed
      PROVE  running # p /\ ~Contains(ready, p) /\ ~Contains(PCB, p)
  <2>1. p \in Created /\ p # NULL
    BY <1>1, CreatedProc DEF IInv, TypeOK, ProcTypeOK
  <2>2. Stage /\ ~Departing
    BY <1>1 DEF BInv, Departing
  <2>3. /\ running \in {NULL, Job} /\ ready \in {<<>>, <<Job>>}
        /\ PCB \in {<<>>, <<Job>>}
        /\ Vacant \/ AtWork
    BY <2>2 DEF Stage, Rests, Vacant, Submitted, OnCpu, Asks, Awaits, Away, AtDisk,
       AtPrinter, Returns, AtWork
  <2>4. CASE Vacant
    BY <2>1, <2>4 DEF Vacant, Contains
  <2>5. CASE AtWork
    <3>1. p # Job
      BY <1>1, <2>5 DEF AtWork
    <3>. QED BY <2>1, <2>3, <3>1 DEF Contains
  <2>. QED BY <2>3, <2>4, <2>5
<1>2. IInv /\ HostLocks /\ BInv => FinishedIsGone
  BY <1>1 DEF FinishedIsGone
<1>. QED BY BatchInvariant, <1>2, PTL
\* cpu.c:192: a device that brings the job back finds no running process to mark.
LEMMA NoDeviceMarks ==
  ASSUME BInv
  PROVE  at["disk"] # "irq_mark" /\ at["print"] # "irq_mark"
BY DEF BInv, Stage, Rests, Vacant, Submitted, OnCpu, Departing, Asks, Awaits, AtDisk,
   AtPrinter, Returns, DevicesRest

\* With at most one request there is only one to delete.
LEMMA DevicesDefined ==
  ASSUME BInv
  PROVE  ~DiskUndefined /\ ~PrintUndefined
<1>1. ASSUME at["disk"] = "disk_add", SameTrack # {} PROVE Min(SameTrack) = 1
  <2>1. PICK r : disk_requests = <<r>>
    BY <1>1 DEF BInv, Stage, Rests, Vacant, Submitted, OnCpu, Departing, Asks, Awaits,
       AtDisk, AtPrinter, Returns, DevicesRest
  <2>2. DOMAIN disk_requests = {1}
    BY <2>1
  <2>3. SameTrack = {1}
    BY <1>1, <2>2 DEF SameTrack
  <2>. QED BY <2>3 DEF Min
<1>. QED BY <1>1, NoDeviceMarks DEF DiskUndefined, PrintUndefined, IrqUndefined

\* The CPU thread follows no pointer but to the job, and finds room for its segment.
LEMMA CpuDefined ==
  ASSUME EachFits, IInv, BInv
  PROVE  ~CpuUndefined
<1>1. running \notin freed \/ at["cpu"] \in UnlinkLabel
  <2>1. NULL \notin freed
    BY CreatedProc DEF IInv, TypeOK, ProcTypeOK
  <2>. QED BY <2>1 DEF BInv, Stage, Rests, Vacant, Submitted, OnCpu, AtWork, Departing,
           Asks, Awaits, Away, AtDisk, AtPrinter, Returns, UnlinkLabel
<1>2. ASSUME at["cpu"] \in {"fetch", "p", "p_charge", "v", "finish", "fin_unload",
                            "swap", "irq_mark", "swap_unload"}
      PROVE  OnCpu
  BY <1>2 DEF BInv, Stage, Rests, Vacant, Submitted, Departing, Asks, Awaits, AtDisk,
     AtPrinter, Returns, Idles
<1>3. at["cpu"] # "swap_unload"
  BY <1>2 DEF OnCpu, Works, Loads, Interrupts, Dispatches
<1>4. OnCpu => /\ running = Job /\ Job # NULL /\ Job \in Created /\ Job \notin freed
               /\ at["cpu"] = "fetch" => ~Done(Job)
               /\ at["cpu"] \in HasProcess => cur = Job
               /\ at["cpu"] = "swap" => ~present_bit[Job]
  BY JobType DEF OnCpu, AtWork
<1>5. segments \in {<<>>, <<Job>>}
  BY DEF BInv, JobAlone
<1>6. at["cpu"] = "v" => processes_waiting[Instr.semaphore] = <<>>
  BY <1>2, InstrSem DEF OnCpu, Works, Loads, Interrupts, Dispatches, NobodyWaits
<1>7. at["cpu"] = "fin_unload" => ~UnloadUndefined(cur)
  <2>. SUFFICES ASSUME at["cpu"] = "fin_unload" PROVE ~UnloadUndefined(cur)
    OBVIOUS
  <2>1. cur = Job /\ Job \notin freed
    BY <1>2, <1>4 DEF HasProcess, FinishLabel
  <2>2. \A i \in DOMAIN segments : segments[i] = Job
    BY <1>5
  <2>. QED BY <2>1, <2>2 DEF UnloadUndefined
<1>8. at["cpu"] = "fin_unlink" => ~Contains(ready, cur)
  <2>. SUFFICES ASSUME at["cpu"] = "fin_unlink" PROVE ~Contains(ready, cur)
    OBVIOUS
  <2>1. ready = <<>>
    BY DEF BInv, Stage, Rests, Vacant, Submitted, OnCpu, Works, Loads, Interrupts,
       Dispatches, Departing, Asks, Awaits, AtDisk, AtPrinter, Returns, Idles
  <2>. QED BY <2>1 DEF Contains
<1>9. ~SwapUndefined
  <2>. SUFFICES ASSUME at["cpu"] = "swap" PROVE ~NotEnoughSpace
    BY <1>3 DEF SwapUndefined
  <2>1. cur = Job /\ Job \in Created /\ Job \in Proc /\ ~present_bit[Job]
    BY <1>2, <1>4, CreatedProc DEF HasProcess, MemoryLabel, IInv, TypeOK
  <2>2. num_free_pages >= NUM_PAGES
    BY <2>1 DEF BInv, JobAlone
  <2>3. PagesOf(Job) \in Nat /\ PagesOf(Job) <= NUM_PAGES
    BY <2>1, FileAssumption DEF IInv, TypeOK, CreateTypeOK, EachFits, PagesOf
  <2>. QED BY <2>1, <2>2, <2>3, ClockAssumption
           DEF NotEnoughSpace, IInv, TypeOK, MemTypeOK
<1>10. ~UnlinkUndefined
  <2>. SUFFICES ASSUME at["cpu"] = "fin_unlink" PROVE ~UnlinkUndefined
    BY DEF UnlinkUndefined
  <2>1. PCB = <<Job>> /\ cur = Job
    BY DEF BInv, Stage, Rests, Vacant, Submitted, OnCpu, Works, Loads, Interrupts,
       Dispatches, Departing, Asks, Awaits, AtDisk, AtPrinter, Returns, Idles
  <2>2. Contains(PCB, cur) /\ Head(PCB) = cur
    BY <2>1 DEF Contains
  <2>. QED BY <2>2 DEF UnlinkUndefined
<1>. HIDE DEF SwapUndefined, UnloadUndefined
<1>11. ~RunUndefined
  BY <1>1, <1>2, <1>4, <1>6, <1>7, <1>8, <1>9
     DEF RunUndefined, IrqUndefined, UnlinkLabel
<1>. QED BY <1>10, <1>11 DEF CpuUndefined

\* push on PCB finds it empty.
LEMMA PushDefined ==
  ASSUME BInv
  PROVE  ~PushUndefined
  BY DEF PushUndefined, BInv, Stage, Rests, Vacant, Submitted, OnCpu, Departing, Asks,
     Awaits, Away, AtDisk, AtPrinter, Returns

\* cpu.c, memory.c, disk.c, print.c and list.c never use memory they should not, as long
\* as each segment fits in an empty memory.
THEOREM BatchNeverFaults ==
  ASSUME EachFits
  PROVE  BatchSpec => []NoFault
<1>1. ASSUME IInv, BInv, NoFault, [BatchNext]_vars
      PROVE  NoFault'
  <2>1. CASE os # "up"
    BY <1>1, <2>1, HaltedStays DEF NoFault, vars, BatchNext
  <2>2. CASE os = "up"
    <3>1. /\ ~Fault(CpuUndefined) /\ ~Fault(DiskUndefined)
          /\ ~Fault(PrintUndefined) /\ ~Fault(PushUndefined)
      BY <1>1, CpuDefined, DevicesDefined, PushDefined DEF Fault
    <3>. QED BY <1>1, <2>2, <3>1, OnlyFaults DEF BatchNext, NoFault
  <2>. QED BY <2>1, <2>2
<1>2. IInv /\ BInv /\ NoFault /\ [BatchNext]_vars => NoFault'
  BY <1>1
<1>3. Init => NoFault
  BY DEF Init, NoFault
<1>. QED BY BatchInvariant, <1>2, <1>3, PTL DEF BatchSpec

\* The lists hold nobody but the job.
LEMMA OnlyJobHeld ==
  ASSUME IInv, BInv, NEW p \in Created
  PROVE  /\ running = p => (OnCpu \/ Departing) /\ p = Job
         /\ Contains(ready, p) => (Submitted \/ Returns) /\ p = Job
         /\ (\E s \in Sem : Contains(processes_waiting[s], p)) =>
              JobWaits /\ p = Job
         /\ RequestsOf(disk_requests, p) # {} => AtDisk /\ p = Job
         /\ RequestsOf(print_requests, p) # {} => AtPrinter /\ p = Job
<1>0. p # NULL
  BY CreatedProc DEF IInv, TypeOK
<1>1. running = p => (OnCpu \/ Departing) /\ p = Job
  BY <1>0 DEF BInv, Stage, Rests, Vacant, Submitted, OnCpu, Departing, Asks, Awaits,
     Away, AtDisk, AtPrinter, Returns
<1>2. Contains(ready, p) => (Submitted \/ Returns) /\ p = Job
  <2>1. ready \in {<<>>, <<Job>>} /\ (ready # <<>> => Submitted \/ Returns)
    BY DEF BInv, Stage, Rests, Vacant, Submitted, OnCpu, Departing, Asks, Awaits, Away,
       AtDisk, AtPrinter, Returns
  <2>. QED BY <2>1 DEF Contains
<1>3. ASSUME NEW s \in Sem, Contains(processes_waiting[s], p)
      PROVE  JobWaits /\ p = Job
  <2>1. processes_waiting[s] # <<>>
    BY <1>3 DEF Contains
  <2>2. NobodyWaits \/ JobWaits
    BY DEF BInv, Stage, Rests, Vacant, Submitted, OnCpu, Works, Loads, Interrupts,
       Dispatches, Departing, Asks, Awaits, AtDisk, AtPrinter, Returns
  <2>3. JobWaits /\ processes_waiting[s] = <<Job>>
    BY <2>1, <2>2 DEF NobodyWaits, JobWaits
  <2>. QED BY <1>3, <2>3 DEF Contains
<1>4. ASSUME RequestsOf(disk_requests, p) # {} PROVE AtDisk /\ p = Job
  <2>1. disk_requests # <<>>
    BY <1>4 DEF RequestsOf
  <2>2. AtDisk
    BY <2>1 DEF BInv, Stage, Rests, Vacant, Submitted, OnCpu, Departing, Asks, Awaits,
       AtPrinter, Returns, DevicesRest
  <2>3. PICK r : disk_requests = <<r>> /\ r.process = Job
    BY <2>2 DEF AtDisk
  <2>. QED BY <1>4, <2>2, <2>3 DEF RequestsOf
<1>5. ASSUME RequestsOf(print_requests, p) # {} PROVE AtPrinter /\ p = Job
  <2>1. print_requests # <<>>
    BY <1>5 DEF RequestsOf
  <2>2. AtPrinter
    BY <2>1 DEF BInv, Stage, Rests, Vacant, Submitted, OnCpu, Departing, Asks, Awaits,
       AtDisk, Returns, DevicesRest
  <2>3. PICK r : print_requests = <<r>> /\ r.process = Job
    BY <2>2 DEF AtPrinter
  <2>. QED BY <1>5, <2>2, <2>3 DEF RequestsOf
<1>. QED BY <1>1, <1>2, <1>3, <1>4, <1>5

\* cpu.h:65-67, process.h:12-13: whenever no thread is moving it, the status of the job
\* says where it is, the lists of the devices included.
THEOREM BatchStatusesAgree == BatchSpec => []StatusAgrees
<1>1. ASSUME IInv, BInv, Quiet, NEW p \in Created
      PROVE  /\ running = p => status[p] = "RUNNING"
             /\ Contains(ready, p) => status[p] = "READY"
             /\ Blocked(p) => status[p] = "WAITING"
  <2>1. running = p => status[p] = "RUNNING"
    <3>. SUFFICES ASSUME running = p PROVE status[p] = "RUNNING"
      OBVIOUS
    <3>1. p = Job /\ OnCpu
      BY <1>1, OnlyJobHeld DEF Quiet, Departing
    <3>2. Works
      BY <1>1, <3>1 DEF Quiet, OnCpu, Loads, Interrupts, Dispatches
    <3>. QED BY <3>1, <3>2 DEF Works
  <2>2. Contains(ready, p) => status[p] = "READY"
    BY <1>1, OnlyJobHeld DEF Submitted, Returns
  <2>3. (\E s \in Sem : Contains(processes_waiting[s], p)) => status[p] = "WAITING"
    <3>. SUFFICES ASSUME \E s \in Sem : Contains(processes_waiting[s], p)
                  PROVE  status[p] = "WAITING"
      OBVIOUS
    <3>1. p = Job /\ JobWaits
      BY <1>1, OnlyJobHeld
    <3>2. ~NobodyWaits
      BY <3>1 DEF JobWaits, NobodyWaits
    <3>3. Awaits
      BY <1>1, <3>2 DEF BInv, Stage, Rests, Vacant, Submitted, OnCpu, Works, Loads,
         Interrupts, Dispatches, Departing, Asks, AtDisk, AtPrinter, Returns, Quiet
    <3>. QED BY <3>1, <3>3 DEF Awaits
  <2>4. RequestsOf(disk_requests, p) # {} => status[p] = "WAITING"
    BY <1>1, OnlyJobHeld DEF AtDisk, Quiet
  <2>5. RequestsOf(print_requests, p) # {} => status[p] = "WAITING"
    BY <1>1, OnlyJobHeld DEF AtPrinter, Quiet
  <2>. QED BY <2>1, <2>2, <2>3, <2>4, <2>5 DEF Blocked
<1>2. IInv /\ HostLocks /\ BInv => StatusAgrees
  BY <1>1 DEF StatusAgrees
<1>. QED BY BatchInvariant, <1>2, PTL

-----------------------------------------------------------------------------
(* A program that is the only one. *)

\* Until a program is submitted no thread has anything to do.
Unused ==
  processes_id = 0 =>
    /\ DevicesIdle
    /\ at["cpu"] = "spin" /\ at["ui"] = "prompt"
    /\ PCB = <<>> /\ running = NULL /\ ~new_process /\ interrupt_semaphore = 1

\* cpu.c:132: with no process and no flag the CPU thread spins.
LEMMA StepUnused ==
  ASSUME IInv, Unused, [Next]_vars
  PROVE  Unused'
<1>. SUFFICES ASSUME processes_id' = 0 PROVE Unused'
  BY DEF Unused
<1>1. ~CreateProcess
  BY DEF CreateProcess, IInv, TypeOK, CreateTypeOK
<1>2. processes_id = 0
  BY <1>1, CreatedStays
<1>3. CpuStep \/ UiNext \/ OsOnly
  BY <1>2, Steps DEF Unused
<1>4. ~CpuStep
  BY <1>2, UnlinkStep
     DEF Unused, CpuStep, Interrupt, IrqLock, IrqTest, IrqMark, IrqSchedule,
         IrqScheduled, IrqExit, MemoryNext, LoadStart, SwapChoose, SwapUnload,
         LoadSegment, Spin, ClearFlag, Loop, FetchAbsent, Fetch, Exec, PSuccess,
         PFailure, PCharge, VNoneWaiting, VHandOver, Exit, Finish, FinishWait,
         FinishUnload, FinishFree, FinishSchedule, FinishPost, UnlinkLabel, Before
<1>5. ~Submission
  BY <1>2 DEF Unused, Submission, LinkPCB, MoveTail, Enqueue, Announce, Before
<1>6. Quit => OsOnly
  BY DEF Quit, OsOnly
<1>. QED BY <1>1, <1>2, <1>3, <1>4, <1>5, <1>6
            DEF UiNext, OsOnly, Unused, DevicesIdle, schedVars, createVars,
                ioVars, diskVars, printVars, localVars, lockVars

\* Whoever submits one program and no more runs one at a time, however the threads
\* interleave: what BatchSpec promises, the program promises him.
THEOREM OneIsABatch ==
  ASSUME MaxProcs <= 1
  PROVE  Spec => BatchSpec
<1>1. Init => Unused
  BY DEF Init, Unused, DevicesIdle, Thread
<1>2. IInv /\ Unused /\ [Next]_vars => Unused'
  BY StepUnused
<1>3. ASSUME IInv, Unused, [Next]_vars
      PROVE  [BatchNext]_vars
  <2>1. ASSUME processes_id' # processes_id PROVE Idle
    <3>1. processes_id = 0
      BY <1>3, <2>1, CreatedStays, BoundAssumption
         DEF CreateProcess, IInv, TypeOK, CreateTypeOK
    <3>. QED BY <1>3, <3>1 DEF Unused, Idle
  <2>. QED BY <1>3, <2>1 DEF BatchNext
<1>4. IInv /\ Unused /\ [Next]_vars => [BatchNext]_vars
  BY <1>3
<1>. QED BY Invariant, <1>1, <1>2, <1>4, PTL DEF Spec, BatchSpec

-----------------------------------------------------------------------------
(* What the job has executed. *)

\* A step that ends no instruction leaves the program counter alone.
LEMMA PCStays ==
  ASSUME [Next]_vars, ~Exec, ~PSuccess, ~PFailure, ~VNoneWaiting, ~VHandOver,
         ~EnqueueDisk, ~EnqueuePrint
  PROVE  UNCHANGED PC
<1>. USE DEF procVars
<1>1. CASE CpuStep \/ UiNext
  BY <1>1, PCMoves
<1>2. CASE DiskNext \/ PrintNext
  BY <1>2 DEF DiskNext, PrintNext, Interrupt, IrqLock, IrqTest, IrqMark, IrqSchedule,
     IrqScheduled, IrqExit, SweepStart, SweepNext, SweepEnd, FulfillDiskRequest,
     DiskRequestFinished, DiskPost, FulfillPrint, PrintRequestFinished
<1>3. CASE \/ Fault(CpuUndefined) \/ Fault(DiskUndefined)
           \/ Fault(PrintUndefined) \/ Fault(PushUndefined) \/ UNCHANGED vars
  BY <1>3 DEF Fault, vars
<1>4. CpuNext => CpuStep
  BY DEF CpuNext, CpuStep, Unlinking
<1>. QED BY <1>1, <1>2, <1>3, <1>4
            DEF Next, Cpu, DiskThread, PrintThread, UiThread, Halted

\* Where an instruction ends it advances.
LEMMA PCAdvances ==
  ASSUME [Next]_vars
  PROVE  \/ UNCHANGED PC
         \/ /\ NextPC /\ at["cpu"] \in {"exec", "p", "v", "enqueue"}
            /\ UNCHANGED <<createVars, freed, memVars>>
<1>1. CASE Exec \/ PSuccess \/ PFailure \/ VNoneWaiting \/ VHandOver
  BY <1>1 DEF Exec, PSuccess, PFailure, VNoneWaiting, VHandOver, Before
<1>2. CASE EnqueueDisk \/ EnqueuePrint
  BY <1>2 DEF EnqueueDisk, EnqueuePrint, Before
<1>. QED BY <1>1, <1>2, PCStays

\* Only Fetch leads to an instruction, or to the interruption that requests one.
LEMMA ExecutingKept ==
  ASSUME IInv, [Next]_vars, ~Fetch, Executing'
  PROVE  /\ Executing /\ UNCHANGED <<cur, PC, irq>>
         /\ at["cpu"] \in {"exec", "p", "v"} \/ at'["cpu"] \in {"exec", "p", "v"}
              => at'["cpu"] = at["cpu"]
<1>. USE DEF Executing, procVars, localVars, IrqLabel
<1>1. CASE Interrupt("cpu")
  <2>1. Type("cpu") = irq
    BY DEF Type
  <2>2. Return("cpu") \in {"exec", "p", "v"} \cup IrqLabel => FALSE
    BY <2>1 DEF Return, IInv, TypeOK, ControlTypeOK, CpuInterruption, INTERRUPTION_TYPE
  <2>3. Return("cpu") = "enqueue" => irq \in {"DISK_REQUEST", "PRINT_REQUEST"}
    BY <2>1 DEF Return, IInv, TypeOK, ControlTypeOK, CpuInterruption, INTERRUPTION_TYPE
  <2>. QED BY <1>1, <2>2, <2>3, CpuGoes DEF Interrupt, IrqLock, IrqTest, IrqMark,
              IrqSchedule, IrqScheduled, IrqExit, Before
<1>2. CASE MemoryNext
  BY <1>2, CpuGoes DEF MemoryNext, LoadStart, SwapChoose, SwapUnload, LoadSegment, Raise
<1>3. CASE Spin \/ ClearFlag \/ Loop \/ FetchAbsent \/ Exec
  BY <1>3, CpuGoes DEF Spin, ClearFlag, Loop, FetchAbsent, Exec, Raise
<1>4. CASE PSuccess \/ PFailure \/ PCharge \/ VNoneWaiting \/ VHandOver
  BY <1>4, CpuGoes DEF PSuccess, PFailure, PCharge, VNoneWaiting, VHandOver, Raise
<1>5. CASE Exit \/ Finish \/ FinishWait \/ FinishUnload
  BY <1>5, CpuGoes DEF Exit, Finish, FinishWait, FinishUnload, Raise
<1>6. CASE FinishFree \/ Unlinking \/ FinishSchedule \/ FinishPost
  BY <1>6, CpuGoes, UnlinkStep DEF FinishFree, FinishSchedule, FinishPost, UnlinkLabel
<1>7. CASE EnqueueDisk \/ EnqueuePrint
  BY <1>7, CpuGoes DEF EnqueueDisk, EnqueuePrint
<1>8. CASE DiskNext
  <2>1. at'["cpu"] = at["cpu"]
    BY <1>8, DeviceGoes DEF DiskNext, Interrupt, IrqLock, IrqTest, IrqMark, IrqSchedule,
       IrqScheduled, IrqExit, SweepStart, SweepNext, SweepEnd, FulfillDiskRequest,
       DiskRequestFinished, DiskPost
  <2>2. UNCHANGED <<PC, localVars>>
    BY <1>8 DEF DiskNext, Interrupt, IrqLock, IrqTest, IrqMark, IrqSchedule,
       IrqScheduled, IrqExit, SweepStart, SweepNext, SweepEnd, FulfillDiskRequest,
       DiskRequestFinished, DiskPost
  <2>. QED BY <2>1, <2>2
<1>9. CASE PrintNext
  <2>1. at'["cpu"] = at["cpu"]
    BY <1>9, DeviceGoes DEF PrintNext, Interrupt, IrqLock, IrqTest, IrqMark,
       IrqSchedule, IrqScheduled, IrqExit, FulfillPrint, PrintRequestFinished
  <2>2. UNCHANGED <<PC, localVars>>
    BY <1>9 DEF PrintNext, Interrupt, IrqLock, IrqTest, IrqMark, IrqSchedule,
       IrqScheduled, IrqExit, FulfillPrint, PrintRequestFinished
  <2>. QED BY <2>1, <2>2
<1>10. CASE UiNext
  <2>1. at'["cpu"] = at["cpu"] /\ UNCHANGED <<PC, localVars>>
    BY <1>10, UiGoes
       DEF UiNext, Submission, CreateProcess, LinkPCB, MoveTail, Enqueue, Announce, Quit
  <2>. QED BY <2>1
<1>11. CASE \/ Fault(CpuUndefined) \/ Fault(DiskUndefined)
            \/ Fault(PrintUndefined) \/ Fault(PushUndefined) \/ UNCHANGED vars
  BY <1>11 DEF Fault, vars
<1>. QED BY <1>1, <1>2, <1>3, <1>4, <1>5, <1>6, <1>7, <1>8, <1>9, <1>10, <1>11
            DEF Next, Cpu, CpuNext, DiskThread, PrintThread, UiThread, Halted, Unlinking

\* An instruction is executed for the job.
LEMMA ExecutesJob ==
  ASSUME IInv, BInv, Executing
  PROVE  /\ cur = Job /\ Job \in Created /\ Job \notin freed /\ ~Done(Job)
         /\ OnCpu \/ Asks
<1>1. OnCpu \/ Asks
  BY DEF BInv, Stage, Rests, Vacant, Submitted, Departing, Awaits, AtDisk, AtPrinter,
     Returns, Idles, Executing, IrqLabel
<1>2. processes_id > 0 /\ Job \notin freed
  BY <1>1 DEF OnCpu, Asks, Away, AtWork
<1>3. CASE Asks
  BY <1>2, <1>3, JobType DEF Asks, IInv, LocalsOK, CpuLocalsOK
<1>4. CASE OnCpu
  <2>1. at["cpu"] \in HasProcess \/ Interrupts \/ Dispatches
    BY <1>4 DEF OnCpu, Works, Loads, Executing, IrqLabel, HasProcess
  <2>2. cur = Job
    BY <1>4, <2>1 DEF OnCpu, Interrupts, Dispatches, Executing, Blocking, HasProcess
  <2>. QED BY <1>1, <1>2, <2>2, JobType DEF IInv, LocalsOK, CpuLocalsOK
<1>. QED BY <1>1, <1>3, <1>4

\* Whose segment is in memory, and whose instruction is of the kind the CPU thread has
\* found it to be.
XInv ==
  /\ Fetched
  /\ Executing => present_bit[Job]
  /\ Executing /\ at["cpu"] \notin {"p", "v"} => Instr.opcode \notin {"P", "V"}

\* Whoever is fetched is.
LEMMA FetchedX ==
  ASSUME IInv, BInv, Fetch
  PROVE  XInv'
<1>1. OnCpu
  BY DEF BInv, Stage, Rests, Vacant, Submitted, Departing, Asks, Awaits, AtDisk,
     AtPrinter, Returns, Idles, Fetch, Before
<1>2. /\ running = Job /\ Job' = Job
      /\ cur' = running
      /\ present_bit'[Job'] = present_bit[running] /\ present_bit[running]
      /\ UNCHANGED <<file, PC>>
  BY <1>1 DEF OnCpu, Fetch, Job, NewProcess, createVars, procVars
<1>3. PICK opcode : opcode = InstructionAt(running).opcode
  OBVIOUS
<1>4. Instr'.opcode = opcode
  BY <1>2, <1>3 DEF Instr, InstructionAt, CodeOf
<1>5. \/ opcode = "EXEC" /\ at'["cpu"] = "exec"
      \/ opcode = "P" /\ at'["cpu"] = "p"
      \/ opcode = "V" /\ at'["cpu"] = "v"
      \/ opcode \notin {"P", "V"} /\ at'["cpu"] = "irq_lock"
  BY <1>3, CpuGoes DEF Fetch, Raise
<1>. QED BY <1>2, <1>4, <1>5 DEF XInv, Fetched

\* A step that leads elsewhere finds it so.
LEMMA StepX ==
  ASSUME IInv, BInv, XInv, [BatchNext]_vars
  PROVE  XInv'
<1>1. CASE Fetch
  BY <1>1, FetchedX
<1>2. CASE ~Fetch /\ ~Executing'
  <2>1. at'["cpu"] \notin {"exec", "p", "v"}
    BY <1>2 DEF Executing
  <2>. QED BY <1>2, <2>1 DEF XInv, Fetched
<1>3. CASE ~Fetch /\ Executing'
  <2>1. [Next]_vars
    BY DEF BatchNext
  <2>2. /\ Executing /\ UNCHANGED <<cur, PC, irq>>
        /\ at["cpu"] \in {"exec", "p", "v"} \/ at'["cpu"] \in {"exec", "p", "v"}
              => at'["cpu"] = at["cpu"]
    BY <1>3, <2>1, ExecutingKept
  <2>3. cur = Job /\ Job \in Created
    BY <2>2, ExecutesJob
  <2>4. Instr' = Instr
    <3>1. file'[cur] = file[cur]
      BY <2>1, <2>3, FileKept
    <3>. QED BY <2>2, <3>1 DEF Instr, InstructionAt, CodeOf
  <2>5. ~CreateProcess
    <3>1. at["cpu"] # "spin"
      BY <2>2 DEF Executing, IrqLabel
    <3>2. processes_id \in Nat
      BY BoundAssumption DEF IInv, TypeOK, CreateTypeOK
    <3>. QED BY <3>1, <3>2 DEF BatchNext, CreateProcess, Idle, vars, createVars
  <2>6. Job' = Job
    BY <2>1, <2>5, CreatedStays DEF Job, NewProcess
  <2>7. ~SwapUnload /\ ~LoadSegment /\ ~FinishUnload
    BY <2>2 DEF SwapUnload, LoadSegment, FinishUnload, Before, Executing, IrqLabel
  <2>8. UNCHANGED present_bit
    BY <2>1, <2>7, SegmentsStay
  <2>. QED BY <2>2, <2>4, <2>6, <2>8 DEF XInv, Fetched
<1>. QED BY <1>1, <1>2, <1>3

\* The invariants together.
THEOREM BatchExecutes == BatchSpec => [](IInv /\ BInv /\ XInv)
<1>1. Init => XInv
  <2>. SUFFICES ASSUME Init PROVE XInv
    OBVIOUS
  <2>1. at["cpu"] = "spin"
    BY DEF Init, Thread
  <2>. QED BY <2>1 DEF XInv, Fetched, Executing, IrqLabel
<1>2. IInv /\ BInv /\ XInv /\ [BatchNext]_vars => XInv'
  BY StepX
<1>. QED BY BatchInvariant, <1>1, <1>2, PTL DEF BatchSpec


-----------------------------------------------------------------------------
(* The critical sections of the job. *)

\* The job has the semaphore's functions to itself: it runs, and nobody waits.
LEMMA JobCalls ==
  ASSUME IInv, BInv, XInv, at["cpu"] \in {"p", "v"}
  PROVE  /\ at["cpu"] = "p" => AtCall("P")
         /\ at["cpu"] = "v" => AtCall("V")
         /\ NobodyWaits
<1>1. Executing
  BY DEF Executing
<1>2. cur = Job /\ Job \in Created /\ ~Done(Job) /\ (OnCpu \/ Asks)
  BY <1>1, ExecutesJob
<1>3. OnCpu
  BY <1>2 DEF Asks
<1>4. running = Job /\ NobodyWaits
  BY <1>3 DEF OnCpu, Works, Loads, Interrupts, Dispatches
<1>5. \A s \in Sem : cur \notin WaitingFor(s)
  BY <1>4 DEF NobodyWaits, WaitingFor, ToSet
<1>. QED BY <1>2, <1>4, <1>5, InstrSem DEF XInv, Fetched, AtCall

\* Only P and V touch the semaphores.
LEMMA OwnersStay ==
  ASSUME [Next]_vars, ~PSuccess, ~PFailure, ~VNoneWaiting, ~VHandOver
  PROVE  UNCHANGED <<owner, processes_waiting>>
<1>. USE DEF semVars
<1>1. CASE CpuNext
  BY <1>1, UnlinkStep
     DEF CpuNext, Interrupt, IrqLock, IrqTest, IrqMark, IrqSchedule, IrqScheduled,
         IrqExit, MemoryNext, LoadStart, SwapChoose, SwapUnload, LoadSegment, Spin,
         ClearFlag, Loop, FetchAbsent, Fetch, Exec, PCharge, EnqueueDisk, EnqueuePrint,
         Exit, Finish, FinishWait, FinishUnload, FinishFree, FinishSchedule, FinishPost,
         Unlinking, UnlinkLabel
<1>2. CASE DiskNext \/ PrintNext
  BY <1>2 DEF DiskNext, PrintNext, Interrupt, IrqLock, IrqTest, IrqMark, IrqSchedule,
     IrqScheduled, IrqExit, SweepStart, SweepNext, SweepEnd, FulfillDiskRequest,
     DiskRequestFinished, DiskPost, FulfillPrint, PrintRequestFinished
<1>3. CASE UiNext
  BY <1>3
     DEF UiNext, Submission, CreateProcess, LinkPCB, MoveTail, Enqueue, Announce, Quit
<1>4. CASE \/ Fault(CpuUndefined) \/ Fault(DiskUndefined)
           \/ Fault(PrintUndefined) \/ Fault(PushUndefined) \/ UNCHANGED vars
  BY <1>4 DEF Fault, vars
<1>. QED BY <1>1, <1>2, <1>3, <1>4
            DEF Next, Cpu, DiskThread, PrintThread, UiThread, Halted

\* Nothing else that is executed is a call.
LEMMA JobCallsNothing ==
  ASSUME IInv, BInv, XInv, [Next]_vars, ~PSuccess, ~PFailure, ~VNoneWaiting, ~VHandOver
  PROVE  CallsNothing
<1>1. CASE UNCHANGED PC
  BY <1>1 DEF CallsNothing
<1>2. CASE /\ NextPC /\ at["cpu"] \in {"exec", "p", "v", "enqueue"}
           /\ UNCHANGED <<createVars, freed, memVars>>
  <2>1. Executing
    BY <1>2 DEF Executing
  <2>2. cur \in Created /\ ~Done(cur)
    BY <2>1, ExecutesJob
  <2>3. CASE at["cpu"] \in {"exec", "enqueue"}
    BY <1>2, <2>1, <2>2, <2>3 DEF XInv, CallsNothing
  <2>4. CASE at["cpu"] \in {"p", "v"}
    <3>1. UNCHANGED PC
      BY <2>4, PCStays DEF Exec, EnqueueDisk, EnqueuePrint, Before
    <3>. QED BY <1>1, <3>1 DEF CallsNothing
  <2>. QED BY <1>2, <2>3, <2>4
<1>. QED BY <1>1, <1>2, PCAdvances

\* cpu.h:65-67, cpu.c:227-239: one program at a time, whatever instructions it has, owns
\* the semaphore while it is between its P and its V; what its predecessors did with the
\* semaphores, and how the device threads interrupt it, does not matter.
THEOREM BatchMutualExclusion ==
  ASSUME PairsPV
  PROVE  BatchSpec => []OwnerInside
<1>1. Init => OwnerInside
  <2>. SUFFICES ASSUME Init PROVE OwnerInside
    OBVIOUS
  <2>1. processes_id = 0
    BY DEF Init
  <2>2. Created = {}
    BY <2>1 DEF Created
  <2>. QED BY <2>2 DEF OwnerInside
<1>2. IInv /\ BInv /\ XInv /\ OwnerInside /\ [BatchNext]_vars /\ IInv' => OwnerInside'
  <2>. SUFFICES ASSUME IInv, BInv, XInv, OwnerInside, [BatchNext]_vars, IInv'
                PROVE  OwnerInside'
    OBVIOUS
  <2>1. [Next]_vars
    BY DEF BatchNext
  <2>2. CASE PSuccess \/ PFailure
    <3>1. AtCall("P")
      BY <2>2, JobCalls DEF PSuccess, PFailure, Before
    <3>. QED BY <2>1, <2>2, <3>1, InsidePSuccess, InsidePFailure
  <2>3. CASE VNoneWaiting \/ VHandOver
    <3>1. AtCall("V") /\ NobodyWaits
      BY <2>3, JobCalls DEF VNoneWaiting, VHandOver, Before
    <3>2. ~VHandOver
      BY <3>1 DEF AtCall, NobodyWaits, VHandOver
    <3>. QED BY <2>1, <2>3, <3>1, <3>2, InsideV
  <2>4. CASE ~PSuccess /\ ~PFailure /\ ~VNoneWaiting /\ ~VHandOver
    <3>1. FreshPC
      BY DEF BInv, Others, FreshPC
    <3>2. CallsNothing /\ UNCHANGED <<owner, processes_waiting>>
      BY <2>1, <2>4, JobCallsNothing, OwnersStay
    <3>. QED BY <2>1, <3>1, <3>2, InsideStays
  <2>. QED BY <2>2, <2>3, <2>4
<1>. QED BY BatchExecutes, <1>1, <1>2, PTL DEF BatchSpec

-----------------------------------------------------------------------------
(* The memory of the job. *)

\* memory.c:190: one program at a time, whatever segment ids the files give: its segment
\* is in the list once while it is loaded, and no other is.
THEOREM BatchSegmentsListed == BatchSpec => []ListedIfLoaded
<1>1. ASSUME IInv, BInv, NEW p \in Created
      PROVE  Cardinality(Positions(segments, p)) = IF present_bit[p] THEN 1 ELSE 0
  <2>1. p \in Proc
    BY <1>1, CreatedProc DEF IInv, TypeOK
  <2>2. CASE p = Job /\ segments = <<Job>> /\ present_bit[p]
    <3>1. Positions(segments, p) = {1}
      BY <2>2, PlacesInLists
    <3>. QED BY <2>2, <3>1, FS_Singleton
  <2>3. CASE ~(p = Job /\ segments = <<Job>>) /\ ~present_bit[p]
    <3>1. segments = <<>> \/ (segments = <<Job>> /\ p # Job)
      BY <1>1, <2>3 DEF BInv, JobAlone
    <3>2. Positions(segments, p) = {}
      BY <3>1 DEF Positions
    <3>. QED BY <2>3, <3>2, FS_EmptySet
  <2>. QED BY <1>1, <2>1, <2>2, <2>3 DEF BInv, JobAlone
<1>2. IInv /\ BInv => ListedIfLoaded
  BY <1>1 DEF ListedIfLoaded
<1>. QED BY BatchInvariant, <1>2, PTL

\* A program that has been executed to its end, and is not empty, has been loaded.
PagesExact ==
  /\ segments = <<>> => num_free_pages = NUM_PAGES
  /\ segments # <<>> => num_free_pages = NUM_PAGES - PagesOf(Job)
  /\ processes_id > 0 /\ Job \notin freed /\ PC[Job] > 0 /\ at["cpu"] # "fin_free"
       => segments # <<>>

\* Whoever is through has executed something.
LEMMA DoneExecuted ==
  ASSUME NoneEmpty, IInv, NEW p \in Created, Done(p)
  PROVE  PC[p] > 0
<1>1. PICK f \in File : f = file[p]
  BY DEF IInv, TypeOK, CreateTypeOK
<1>2. Code[f] \in Seq(Instruction) /\ Code[f] # <<>>
  BY FileAssumption DEF NoneEmpty
<1>3. Len(Code[f]) \in Nat /\ Len(Code[f]) # 0
  BY <1>2, EmptySeq, LenProperties
<1>4. PC[p] \in Nat /\ PC[p] >= Len(Code[f])
  BY <1>1, CreatedProc DEF Done, CodeOf, IInv, TypeOK, ProcTypeOK
<1>. QED BY <1>3, <1>4

\* Only the end of a process frees its segment.
LEMMA FreedStays ==
  ASSUME [Next]_vars, ~FinishFree
  PROVE  UNCHANGED freed
<1>. USE DEF procVars
<1>1. CASE CpuNext
  BY <1>1, UnlinkStep
     DEF CpuNext, Interrupt, IrqLock, IrqTest, IrqMark, IrqSchedule, IrqScheduled,
         IrqExit, MemoryNext, LoadStart, SwapChoose, SwapUnload, LoadSegment, Spin,
         ClearFlag, Loop, FetchAbsent, Fetch, Exec, PSuccess, PFailure, PCharge,
         VNoneWaiting, VHandOver, EnqueueDisk, EnqueuePrint, Exit, Finish, FinishWait,
         FinishUnload, FinishSchedule, FinishPost, Unlinking, UnlinkLabel
<1>2. CASE DiskNext \/ PrintNext
  BY <1>2 DEF DiskNext, PrintNext, Interrupt, IrqLock, IrqTest, IrqMark, IrqSchedule,
     IrqScheduled, IrqExit, SweepStart, SweepNext, SweepEnd, FulfillDiskRequest,
     DiskRequestFinished, DiskPost, FulfillPrint, PrintRequestFinished
<1>3. CASE UiNext
  BY <1>3
     DEF UiNext, Submission, CreateProcess, LinkPCB, MoveTail, Enqueue, Announce, Quit
<1>4. CASE \/ Fault(CpuUndefined) \/ Fault(DiskUndefined)
           \/ Fault(PrintUndefined) \/ Fault(PushUndefined) \/ UNCHANGED vars
  BY <1>4 DEF Fault, vars
<1>. QED BY <1>1, <1>2, <1>3, <1>4
            DEF Next, Cpu, DiskThread, PrintThread, UiThread, Halted

\* The segment of a program at its end is freed next.
LEMMA FreesNext ==
  ASSUME IInv, [Next]_vars, at["cpu"] = "fin_free"
  PROVE  FinishFree \/ at'["cpu"] = "fin_free"
<1>1. CpuNext => FinishFree
  BY UnlinkStep
     DEF CpuNext, Interrupt, IrqLock, IrqTest, IrqMark, IrqSchedule, IrqScheduled,
         IrqExit, MemoryNext, LoadStart, SwapChoose, SwapUnload, LoadSegment, Spin,
         ClearFlag, Loop, FetchAbsent, Fetch, Exec, PSuccess, PFailure, PCharge,
         VNoneWaiting, VHandOver, EnqueueDisk, EnqueuePrint, Exit, Finish, FinishWait,
         FinishUnload, FinishSchedule, FinishPost, Before, Unlinking, UnlinkLabel
<1>2. ~CpuNext => at'["cpu"] = at["cpu"]
  BY OtherThreads
<1>. QED BY <1>1, <1>2

\* The segment of the job is loaded into an empty memory, and unloaded into one.
LEMMA StepPagesOfJob ==
  ASSUME NoneEmpty, IInv, BInv, PagesExact, [Next]_vars, BInv',
         LoadSegment \/ FinishUnload
  PROVE  PagesExact'
<1>1. OnCpu /\ cur = Job /\ Job' = Job /\ at["cpu"] \in {"swap", "fin_unload"}
  <2>1. at["cpu"] \in {"swap", "fin_unload"} /\ UNCHANGED createVars
    BY DEF LoadSegment, FinishUnload, Before
  <2>2. OnCpu
    BY <2>1 DEF BInv, Stage, Rests, Vacant, Submitted, Departing, Asks, Awaits, AtDisk,
       AtPrinter, Returns, Idles
  <2>. QED BY <2>1, <2>2 DEF OnCpu, HasProcess, MemoryLabel, FinishLabel, Job,
              NewProcess, createVars
<1>2. Job \in Created /\ Job \in Proc /\ Job \notin freed /\ processes_id > 0
  BY <1>1, Running
<1>3. PagesOf(Job) \in Nat /\ PagesOf(Job)' = PagesOf(Job)
  BY <1>1, <1>2, CreatedProc DEF LoadSegment, FinishUnload, createVars, IInv, TypeOK,
     PagesOf
<1>4. NUM_PAGES \in Nat /\ num_free_pages \in Int
  BY ClockAssumption DEF IInv, TypeOK, MemTypeOK
<1>5. CASE LoadSegment
  <2>1. segments = <<>>
    BY <1>1, <1>2, <1>5 DEF LoadSegment, Before, OnCpu, BInv, JobAlone
  <2>2. num_free_pages' = num_free_pages - PagesOf(Job)
    BY <1>1, <1>5 DEF LoadSegment
  <2>3. segments' # <<>>
    <3>1. present_bit'[Job]
      BY <1>1, <1>2, <1>5 DEF LoadSegment, IInv, TypeOK, MemTypeOK
    <3>. QED BY <1>2, <3>1 DEF BInv, JobAlone
  <2>. QED BY <1>1, <1>3, <1>4, <2>1, <2>2, <2>3 DEF PagesExact
<1>6. CASE FinishUnload
  <2>1. at["cpu"] = "fin_unload" /\ at'["cpu"] = "fin_free"
    BY <1>6, CpuGoes DEF FinishUnload, Before
  <2>2. PC[Job] > 0
    <3>1. Done(Job)
      BY <1>1, <2>1 DEF OnCpu
    <3>. QED BY <1>2, <3>1, DoneExecuted
  <2>3. num_free_pages = NUM_PAGES - PagesOf(Job)
    BY <1>2, <2>1, <2>2 DEF PagesExact
  <2>4. num_free_pages' = num_free_pages + PagesOf(Job)
    BY <1>1, <1>6 DEF FinishUnload, memory_unload_segment
  <2>5. segments' = <<>>
    BY <2>1 DEF BInv, JobAlone
  <2>. QED BY <1>3, <1>4, <2>1, <2>3, <2>4, <2>5 DEF PagesExact
<1>. QED BY <1>5, <1>6

\* Nothing else loads or unloads one, and only a program that is loaded is executed.
LEMMA StepPagesExact ==
  ASSUME NoneEmpty, IInv, HostLocks, BInv, XInv, PagesExact, [BatchNext]_vars, BInv'
  PROVE  PagesExact'
<1>0. [Next]_vars
  BY DEF BatchNext
<1>1. CASE LoadSegment \/ FinishUnload
  BY <1>0, <1>1, StepPagesOfJob
<1>2. CASE CreateProcess
  <2>1. processes_id \in Nat /\ processes_id \in Proc \ Created
        /\ processes_id' = processes_id + 1
    BY <1>2, BoundAssumption DEF CreateProcess, Created, Proc, IInv, TypeOK,
       CreateTypeOK
  <2>2. Idle
    BY <2>1 DEF BatchNext, vars, createVars
  <2>3. Vacant
    BY <2>2 DEF BInv, Stage, Rests, Submitted, OnCpu, Departing, Asks, Awaits, Away,
       AtDisk, AtPrinter, Returns, AtWork, Idle
  <2>4. segments = <<>>
    BY <2>3 DEF BInv, JobAlone, Vacant
  <2>5. UNCHANGED <<segments, num_free_pages, PC>>
    BY <1>2 DEF CreateProcess, memVars, procVars
  <2>6. Job' = processes_id
    BY <2>1 DEF Job, NewProcess
  <2>7. PC[processes_id] = 0
    BY <2>1 DEF BInv, Others
  <2>. QED BY <2>4, <2>5, <2>6, <2>7 DEF PagesExact
<1>3. CASE ~LoadSegment /\ ~FinishUnload /\ ~CreateProcess
  <2>1. ~SwapUnload
    BY DEF SwapUnload, Before, BInv, Stage, Rests, Vacant, Submitted, OnCpu, Works,
       Loads, Interrupts, Dispatches, Departing, Asks, Awaits, AtDisk, AtPrinter,
       Returns, Idles
  <2>2. UNCHANGED <<segments, num_free_pages, processes_id>>
    BY <1>0, <1>3, <2>1, SegmentsStay, CreatedStays
  <2>3. Job' = Job
    BY <2>2 DEF Job, NewProcess
  <2>4. segments # <<>> => PagesOf(Job)' = PagesOf(Job)
    <3>1. segments # <<>> => Job \in Created
      BY DEF BInv, JobAlone
    <3>. QED BY <1>0, <2>3, <3>1, FileKept DEF PagesOf
  <2>5. ASSUME processes_id > 0, Job \notin freed', PC'[Job] > 0,
               at'["cpu"] # "fin_free"
        PROVE  segments # <<>>
    <3>1. CASE UNCHANGED PC
      <4>1. at["cpu"] # "fin_free" /\ Job \notin freed
        <5>1. CASE FinishFree
          <6>1. at["cpu"] = "fin_free"
            BY <5>1 DEF FinishFree, Before
          <6>2. OnCpu
            BY <6>1 DEF BInv, Stage, Rests, Vacant, Submitted, Departing, Asks, Awaits,
               AtDisk, AtPrinter, Returns, Idles
          <6>3. cur = Job
            BY <6>1, <6>2 DEF OnCpu, HasProcess, FinishLabel
          <6>. QED BY <2>5, <5>1, <6>3 DEF FinishFree
        <5>2. CASE ~FinishFree
          BY <1>0, <2>5, <5>2, FreedStays, FreesNext
        <5>. QED BY <5>1, <5>2
      <4>. QED BY <2>5, <3>1, <4>1 DEF PagesExact
    <3>2. CASE NextPC /\ at["cpu"] \in {"exec", "p", "v", "enqueue"}
      <4>1. Executing
        BY <3>2 DEF Executing
      <4>2. present_bit[Job] /\ Job \in Proc
        BY <4>1, ExecutesJob, CreatedProc DEF XInv, IInv, TypeOK
      <4>. QED BY <4>2 DEF BInv, JobAlone
    <3>. QED BY <1>0, <3>1, <3>2, PCAdvances
  <2>. QED BY <2>2, <2>3, <2>4, <2>5 DEF PagesExact
<1>. QED BY <1>1, <1>2, <1>3

\* The pages that are loaded are those of the job.
LEMMA JobsPages ==
  ASSUME IInv, BInv, PagesExact
  PROVE  /\ num_free_pages = NUM_PAGES - Cardinality(LoadedPages)
         /\ Cardinality(LoadedPages) \in Nat
<1>0. Created \subseteq Proc /\ NUM_PAGES \in Nat
  BY CreatedProc, ClockAssumption DEF IInv, TypeOK
<1>1. CASE segments = <<>>
  <2>1. {q \in Created : present_bit[q]} = {}
    BY <1>0, <1>1 DEF BInv, JobAlone
  <2>2. LoadedPages = {}
    BY <2>1 DEF LoadedPages
  <2>3. Cardinality(LoadedPages) = 0
    BY <2>2, FS_EmptySet
  <2>. QED BY <1>0, <1>1, <2>3 DEF PagesExact
<1>2. CASE segments # <<>>
  <2>1. Job \in Created /\ {q \in Created : present_bit[q]} = {Job}
    BY <1>0, <1>2 DEF BInv, JobAlone
  <2>2. LoadedPages = SegmentPages(Job)
    BY <2>1 DEF LoadedPages, SegmentPages
  <2>3. Cardinality(LoadedPages) = PagesOf(Job) /\ PagesOf(Job) \in Nat
    BY <2>1, <2>2, SegmentSize, CreatedProc DEF IInv, TypeOK
  <2>. QED BY <1>2, <2>3 DEF PagesExact
<1>. QED BY <1>1, <1>2

\* memory.h:51-52: one program at a time, the count of free pages is exact, provided that
\* each has an instruction: process_finish_syscall counts free the pages of a process
\* whether or not it was ever loaded (memory.c:181-192).
THEOREM BatchPagesAddUp ==
  ASSUME NoneEmpty
  PROVE  BatchSpec => [](FreePageCount /\ FreePagesBounded)
<1>1. Init => PagesExact
  <2>. SUFFICES ASSUME Init PROVE PagesExact
    OBVIOUS
  <2>1. segments = <<>> /\ num_free_pages = NUM_PAGES /\ processes_id = 0
    BY DEF Init
  <2>. QED BY <2>1 DEF PagesExact
<1>2. IInv /\ HostLocks /\ BInv /\ XInv /\ PagesExact /\ [BatchNext]_vars /\ BInv'
        => PagesExact'
  BY StepPagesExact
<1>3. IInv /\ BInv /\ PagesExact => FreePageCount /\ FreePagesBounded
  BY JobsPages, ClockAssumption DEF FreePageCount, FreePagesBounded
<1>. QED BY BatchInvariant, BatchExecutes, <1>1, <1>2, <1>3, PTL DEF BatchSpec

-----------------------------------------------------------------------------
(* What the log of an interruption reads. *)

\* The job is not through where it is loaded, or interrupted but by a new program.
ToMark == {"irq_lock", "irq_test", "irq_mark"}

GoesOn ==
  \/ at["cpu"] \in {"load", "swap"}
  \/ at["cpu"] \in ToMark /\ irq # "NEW_PROCESS"

LogInv == GoesOn => ~Done(Job)

\* Only there, and where it is fetched, tested or queued, does a step lead there.
LEMMA LeadsToLog ==
  ASSUME IInv, [Next]_vars, GoesOn'
  PROVE  \/ GoesOn /\ at["cpu"] \in {"load", "swap"} \cup ToMark
         \/ (FetchAbsent \/ Fetch) /\ at["cpu"] = "fetch"
         \/ Exit /\ running # NULL /\ ~Done(running) /\ at["cpu"] = "exit"
         \/ PFailure \/ SwapUnload
<1>. USE DEF GoesOn, ToMark, Before, localVars
<1>1. CASE ~CpuNext
  BY <1>1, OtherThreads
<1>2. CASE Interrupt("cpu")
  <2>1. Return("cpu") \notin {"load", "swap"} \cup ToMark
    BY DEF Return, Type, IInv, TypeOK, ControlTypeOK, CpuInterruption, INTERRUPTION_TYPE
  <2>. QED BY <1>2, <2>1, CpuGoes DEF Interrupt, IrqLock, IrqTest, IrqMark, IrqSchedule,
              IrqScheduled, IrqExit
<1>3. CASE LoadStart \/ SwapChoose \/ LoadSegment
  BY <1>3, CpuGoes DEF LoadStart, SwapChoose, LoadSegment, Raise
<1>4. CASE FetchAbsent \/ Fetch \/ PFailure
  BY <1>4 DEF FetchAbsent, Fetch
<1>5. CASE Exit
  BY <1>5, CpuGoes DEF Exit
<1>6. CASE Spin
  BY <1>6, CpuGoes DEF Spin, Raise
<1>7. CASE ClearFlag \/ Loop \/ Exec
  BY <1>7, CpuGoes DEF ClearFlag, Loop, Exec
<1>8. CASE PSuccess \/ PCharge \/ VNoneWaiting \/ VHandOver
  BY <1>8, CpuGoes DEF PSuccess, PCharge, VNoneWaiting, VHandOver
<1>9. CASE EnqueueDisk \/ EnqueuePrint \/ Finish \/ FinishWait \/ FinishUnload
  BY <1>9, CpuGoes DEF EnqueueDisk, EnqueuePrint, Finish, FinishWait, FinishUnload
<1>10. CASE FinishFree \/ Unlinking \/ FinishSchedule \/ FinishPost
  BY <1>10, CpuGoes, UnlinkStep DEF FinishFree, FinishSchedule, FinishPost, UnlinkLabel
<1>11. CASE SwapUnload
  BY <1>11
<1>. QED BY <1>1, <1>2, <1>3, <1>4, <1>5, <1>6, <1>7, <1>8, <1>9, <1>10, <1>11
         DEF CpuNext, MemoryNext, Unlinking

\* There it is not through.
LEMMA StepLog ==
  ASSUME EndsOutside, IInv, BInv, XInv, LogInv, [BatchNext]_vars
  PROVE  LogInv'
<1>. SUFFICES ASSUME GoesOn' PROVE ~Done(Job)'
  BY DEF LogInv
<1>1. [Next]_vars
  BY DEF BatchNext
<1>0. ~SwapUnload
  BY DEF SwapUnload, Before, BInv, Stage, Rests, Vacant, Submitted, OnCpu, Works,
     Loads, Interrupts, Dispatches, Departing, Asks, Awaits, AtDisk, AtPrinter,
     Returns, Idles
<1>2. at["cpu"] # "spin"
  BY <1>0, <1>1, LeadsToLog DEF PFailure, Before, ToMark
<1>3. ~CreateProcess
  <2>1. processes_id \in Nat
    BY BoundAssumption DEF IInv, TypeOK, CreateTypeOK
  <2>. QED BY <1>2, <2>1 DEF BatchNext, CreateProcess, Idle, vars, createVars
<1>4. Job' = Job
  BY <1>1, <1>3, CreatedStays DEF Job, NewProcess
<1>5. CASE PFailure
  <2>1. AtCall("P") /\ NextPC /\ cur = Job
    <3>1. at["cpu"] = "p" /\ Executing /\ NextPC
      BY <1>5 DEF PFailure, Before, Executing
    <3>. QED BY <3>1, JobCalls, ExecutesJob
  <2>2. Job \in Created /\ ~Done(Job)
    BY <2>1 DEF AtCall
  <2>3. Done(Job)' <=> Done(Job)
    BY <1>1, <1>4, <2>1, <2>2, GoesOnAfterP
  <2>. QED BY <2>2, <2>3
<1>6. CASE ~PFailure
  <2>1. /\ at["cpu"] \in {"load", "swap", "fetch", "exit"} \cup ToMark
        /\ \/ GoesOn
           \/ at["cpu"] = "fetch"
           \/ at["cpu"] = "exit" /\ running # NULL /\ ~Done(running)
    BY <1>0, <1>1, <1>6, LeadsToLog
  <2>2. Job \in Created /\ ~Done(Job)
    <3>1. AtWork
      BY <2>1 DEF BInv, Stage, Rests, Vacant, Submitted, OnCpu, Departing, Asks, Awaits,
         AtDisk, AtPrinter, Returns, Idles, Away, ToMark, GoesOn
    <3>2. Job \in Created
      BY <3>1, JobType DEF AtWork
    <3>3. GoesOn => ~Done(Job)
      BY DEF LogInv
    <3>4. at["cpu"] = "fetch" => ~Done(Job)
      BY DEF BInv, Stage, Rests, Vacant, Submitted, OnCpu, Departing, Asks, Awaits,
         AtDisk, AtPrinter, Returns, Idles
    <3>5. running # NULL => running = Job
      BY DEF BInv, Stage, Rests, Vacant, Submitted, OnCpu, Departing, Asks, Awaits,
         AtDisk, AtPrinter, Returns, Away
    <3>. QED BY <2>1, <3>2, <3>3, <3>4, <3>5
  <2>3. UNCHANGED PC
    BY <1>1, <2>1, PCAdvances DEF ToMark
  <2>4. Done(Job)' <=> Done(Job)
    BY <1>1, <1>4, <2>2, <2>3, DoneStays
  <2>. QED BY <2>2, <2>4
<1>. QED BY <1>5, <1>6

\* log.c:32-37: one program at a time, whatever interrupts it, the log reads an
\* instruction that the interrupted process still has to execute.
THEOREM BatchLogReads ==
  ASSUME EndsOutside
  PROVE  BatchSpec => []ReadsAnInstruction
<1>1. Init => LogInv
  <2>. SUFFICES ASSUME Init PROVE LogInv
    OBVIOUS
  <2>1. at["cpu"] = "spin"
    BY DEF Init, Thread
  <2>. QED BY <2>1 DEF LogInv, GoesOn, ToMark
<1>2. IInv /\ BInv /\ XInv /\ LogInv /\ [BatchNext]_vars => LogInv'
  BY StepLog
<1>3. ASSUME BInv, LogInv, at["cpu"] = "irq_mark", running # NULL
      PROVE  ~Done(running)
  <2>1. OnCpu
    BY <1>3 DEF BInv, Stage, Rests, Vacant, Submitted, Departing, Asks, Awaits, AtDisk,
       AtPrinter, Returns, Idles
  <2>2. irq # "NEW_PROCESS"
    BY <1>3, <2>1 DEF OnCpu, Works, Loads, Interrupts, Dispatches
  <2>. QED BY <1>3, <2>1, <2>2 DEF OnCpu, LogInv, GoesOn, ToMark
<1>4. BInv /\ LogInv => ReadsAnInstruction
  BY <1>3 DEF ReadsAnInstruction
<1>. QED BY BatchExecutes, <1>1, <1>2, <1>4, PTL DEF BatchSpec

=============================================================================
