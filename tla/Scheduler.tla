----------------------------- MODULE Scheduler -----------------------------
(***************************************************************************)
(* scheduler/scheduler.c: one list of ready processes kept in priority     *)
(* order, and one running process.  Callers hold scheduler_semaphore; the  *)
(* operators say what happens to the list while they do.                   *)
(***************************************************************************)
EXTENDS Machine

\* Mutants: the process is pushed; it overtakes those of its own priority.
add_process_scheduler_Push(q, p) == Append(q, p)
add_process_scheduler_Overtake(q, p) ==
  InsertBeforeFirst(q, p, {i \in DOMAIN q : Prio(q[i]) >= Prio(p)})

\* The list q after add_process_scheduler(p): behind every process that is at
\* least as urgent.
add_process_scheduler(q, p) ==
  InsertBeforeFirst(q, p, {i \in DOMAIN q : Prio(q[i]) > Prio(p)})

\* Mutants: an interrupted process is not put back; a blocked one is; a finished
\* one is.
StillReady_RunningOnly == running # NULL /\ status[running] = "RUNNING"
StillReady_Always == running # NULL
StillReady_Finished == running # NULL /\ status[running] # "WAITING"

\* The ready list once forward_scheduling has put the running process back, if
\* its status says that it can still run.
StillReady == running # NULL /\ status[running] \in {"READY", "RUNNING"}
Candidates ==
  IF StillReady THEN add_process_scheduler(ready, running) ELSE ready

\* forward_scheduling: the head of that list runs, with a fresh quantum.
NoneToSchedule ==
  /\ Candidates = <<>>
  /\ running' = NULL
  /\ ready' = <<>>
  /\ UNCHANGED <<status, remaining_time>>

ScheduleFirst ==
  /\ Candidates # <<>>
  /\ running' = Head(Candidates)
  /\ ready' = Tail(Candidates)
  /\ status' = [status EXCEPT ![Head(Candidates)] = "RUNNING"]
  /\ remaining_time' = [remaining_time EXCEPT ![Head(Candidates)] =
                          QUANTUM_TIME_TOTAL \div Prio(Head(Candidates))]

forward_scheduling == NoneToSchedule \/ ScheduleFirst

=============================================================================
