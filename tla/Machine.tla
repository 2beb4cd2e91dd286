------------------------------ MODULE Machine ------------------------------
(***************************************************************************)
(* The state AlienOS keeps in global variables (main.c) and in the heap    *)
(* structures they point to, and the four host threads that share it: the  *)
(* CPU, the disk, the printer and the user interface (the main thread).    *)
(***************************************************************************)
EXTENDS Lists, FiniteSets, FiniteSetsExt

CONSTANTS
  MaxProcs,            \* bound: how many programs the user submits
  File,                \* the program files the user can submit
  Resubmitted,         \* those the user may submit more than once
  Code,                \* Code[f]: the instructions of file f
  Priority,            \* Priority[f]: its priority line, smaller is more urgent
  SegmentId,           \* SegmentId[f]: its segment id line
  Pages,               \* Pages[f]: the number of pages of its segment
  Sem,                 \* names of the simulated semaphores
  QUANTUM_TIME_TOTAL,  \* 5000 in scheduler.h
  P_TIME,              \* 200, what acquiring a semaphore costs (cpu.c:97)
  NUM_PAGES,           \* 131072 in memory.h
  MAX_DISK_TRACK,      \* 200 in disk.h
  NULL

Proc == 0..(MaxProcs - 1)
Thread == {"cpu", "disk", "print", "ui"}
Status == {"READY", "WAITING", "FINISHED", "RUNNING"}
Opcode == {"EXEC", "READ", "WRITE", "P", "V", "PRINT"}

\* One instruction of a program: the operand of EXEC, READ, WRITE and PRINT, the
\* semaphore of P and V.
Instruction == [opcode : Opcode, operand : Nat, semaphore : Sem \cup {NULL}]

INTERRUPTION_TYPE ==
  {"SEMAPHORE", "MEMORY", "NEW_PROCESS", "QUANTUM_TIME", "DISK_REQUEST",
   "DISK_FINISHED", "PRINT_REQUEST", "PRINT_FINISHED"}

\* A request is named by the process that made it and the instruction it made it
\* with: a process executes an instruction once, so no two requests are equal.
Request == [process : Proc, instr : Nat]

\* Files the program accepts.  A priority of 0 divides by zero (scheduler.c:47), an
\* EXEC of 0 counts down past zero (cpu.c:50), and a P or V on a semaphore that its
\* program does not declare can dereference NULL (cpu.c:86-87, 110-111): none of them
\* is considered.
ASSUME BoundAssumption == MaxProcs \in Nat /\ NULL \notin Proc
ASSUME FileAssumption ==
  /\ NULL \notin File
  /\ Code \in [File -> Seq(Instruction)]
  /\ \A f \in File : \A i \in DOMAIN Code[f] :
       Code[f][i].opcode \in {"P", "V"} => Code[f][i].semaphore \in Sem
  /\ Priority \in [File -> Nat \ {0}]
  /\ SegmentId \in [File -> Nat]
  /\ Pages \in [File -> Nat]
ASSUME ClockAssumption ==
  /\ QUANTUM_TIME_TOTAL \in Nat
  /\ P_TIME \in Nat
  /\ NUM_PAGES \in Nat
  /\ MAX_DISK_TRACK \in Nat

VARIABLES
  running,             \* scheduler->running_process
  ready,               \* scheduler->ready_processes
  new_process,         \* the flag the UI raises for the CPU
  processes_id,        \* the next process id
  file,                \* the file each process was read from
  PCB,                 \* the process control blocks, in creation order
  PCB_tail,            \* the process in the node PCB->tail points to; NULL when
                       \* there is none or it has been freed
  behind,              \* the tail that push has read; NULL when it has been freed
  status, PC, remaining_time,
  exec,                \* segment->exec: units done of the EXEC under way
  freed,               \* processes whose Segment has been freed
  owner,               \* owner_id of each simulated semaphore, -1 for none
  processes_waiting,   \* the waiting list of each simulated semaphore
  num_free_pages, segments, present_bit, used_bit,
  disk_requests, curr_track,
  sweep_next,          \* disk_sweep's `request_fulfilled`
  disk_request,        \* disk_sweep's `request_fulfilled_data`
  print_requests,
  interrupt_semaphore, scheduler_semaphore, disk_semaphore,
  at,                  \* the control point of each thread
  irq,                 \* the interruption the CPU thread is raising
  cur,                 \* the CPU thread's local `running` or `process`
  victim,              \* the process memory.c is swapping out
  os                   \* "up", "exited", or "fault" after undefined behaviour

schedVars  == <<running, ready, new_process>>
createVars == <<processes_id, file, PCB, PCB_tail, behind>>
procVars   == <<status, PC, remaining_time, exec, freed>>
semVars    == <<owner, processes_waiting>>
memVars    == <<num_free_pages, segments, present_bit, used_bit>>
diskVars   == <<disk_requests, curr_track, sweep_next, disk_request>>
printVars  == <<print_requests>>
ioVars     == <<diskVars, printVars>>
lockVars   == <<interrupt_semaphore, scheduler_semaphore, disk_semaphore>>
localVars  == <<irq, cur, victim>>
vars == <<schedVars, createVars, procVars, semVars, memVars, ioVars, lockVars,
          localVars, at, os>>

-----------------------------------------------------------------------------
(* Reading a process through its file. *)

Created == 0..(processes_id - 1)
NewProcess == processes_id - 1
CodeOf(p) == Code[file[p]]
Prio(p) == Priority[file[p]]
PagesOf(p) == Pages[file[p]]
SegmentOf(p) == SegmentId[file[p]]
Done(p) == PC[p] >= Len(CodeOf(p))
InstructionAt(p) == CodeOf(p)[PC[p] + 1]
Track(r) == CodeOf(r.process)[r.instr + 1].operand

\* Control: thread t is about to do what `label` names, and moves on.
Before(t, label) == os = "up" /\ at[t] = label
Goto(t, label) == at' = [at EXCEPT ![t] = label]

\* The state main() leaves when the threads start.
Init ==
  /\ running = NULL
  /\ ready = <<>>
  /\ new_process = FALSE
  /\ processes_id = 0
  /\ file = [p \in Proc |-> NULL]
  /\ PCB = <<>>
  /\ PCB_tail = NULL
  /\ behind = NULL
  /\ status = [p \in Proc |-> "READY"]
  /\ PC = [p \in Proc |-> 0]
  /\ remaining_time = [p \in Proc |-> 0]
  /\ exec = [p \in Proc |-> 0]
  /\ freed = {}
  /\ owner = [s \in Sem |-> -1]
  /\ processes_waiting = [s \in Sem |-> <<>>]
  /\ num_free_pages = NUM_PAGES
  /\ segments = <<>>
  /\ present_bit = [p \in Proc |-> FALSE]
  /\ used_bit = [p \in Proc |-> FALSE]
  /\ disk_requests = <<>>
  /\ curr_track = 0
  /\ sweep_next = NULL
  /\ disk_request = NULL
  /\ print_requests = <<>>
  /\ interrupt_semaphore = 1
  /\ scheduler_semaphore = 1
  /\ disk_semaphore = 1
  /\ at = [t \in Thread |-> CASE t = "cpu" -> "spin"
                              [] t \in {"disk", "print"} -> "poll"
                              [] t = "ui" -> "prompt"]
  /\ irq = "NEW_PROCESS"
  /\ cur = NULL
  /\ victim = NULL
  /\ os = "up"

=============================================================================
