-------------------------------- MODULE Disk --------------------------------
(***************************************************************************)
(* The disk thread (disk/disk.c): sweep after sweep over the list of       *)
(* requests, in ascending order of tracks, while the CPU thread inserts    *)
(* new ones.  A request is linked from the enqueuing action of Cpu.        *)
(***************************************************************************)
EXTENDS Interrupt

\* if (disk_scheduler->requests->header) disk_sweep()
SweepStart ==
  /\ Before("disk", "poll")
  /\ disk_requests # <<>>
  /\ curr_track' = 0
  /\ sweep_next' = Head(disk_requests)
  /\ Goto("disk", "sweep")
  /\ UNCHANGED <<schedVars, createVars, procVars, semVars, memVars, disk_requests,
                 disk_request, printVars, localVars, lockVars, os>>

Sweeping == sweep_next # NULL /\ curr_track < MAX_DISK_TRACK

\* The request after r in the list, NULL when r is the last.
Successor(r) ==
  LET later == {i \in 2..Len(disk_requests) : disk_requests[i - 1] = r}
  IN IF later = {} THEN NULL ELSE disk_requests[Min(later)]

\* `request_fulfilled->next` is read here, before disk_semaphore is taken.
SweepNext ==
  /\ Before("disk", "sweep")
  /\ Sweeping
  /\ disk_request' = sweep_next
  /\ sweep_next' = Successor(sweep_next)
  /\ curr_track' = Track(sweep_next)
  /\ Goto("disk", "disk_lock")
  /\ UNCHANGED <<schedVars, createVars, procVars, semVars, memVars, disk_requests,
                 printVars, localVars, lockVars, os>>

SweepEnd ==
  /\ Before("disk", "sweep")
  /\ ~Sweeping
  /\ Goto("disk", "poll")
  /\ UNCHANGED <<schedVars, createVars, procVars, semVars, memVars, ioVars, localVars,
                 lockVars, os>>

\* fulfill_disk_request, under disk_semaphore until the interruption is over.
FulfillDiskRequest ==
  /\ Before("disk", "disk_lock")
  /\ disk_semaphore = 1
  /\ disk_semaphore' = 0
  /\ status' = [status EXCEPT ![disk_request.process] = "READY"]
  /\ Goto("disk", "disk_add")
  /\ UNCHANGED <<schedVars, createVars, PC, remaining_time, exec, freed, semVars,
                 memVars, ioVars, localVars, interrupt_semaphore, scheduler_semaphore,
                 os>>

\* delete_list finds the first request with the track that was served.
SameTrack ==
  {i \in DOMAIN disk_requests : Track(disk_requests[i]) = Track(disk_request)}

DiskRequestFinished ==
  /\ Before("disk", "disk_add")
  /\ scheduler_semaphore = 1
  /\ ready' = add_process_scheduler(ready, disk_request.process)
  /\ IF SameTrack = {} THEN UNCHANGED disk_requests
     ELSE disk_requests' \in DeleteSorted(disk_requests, Min(SameTrack))
  /\ Goto("disk", "irq_lock")
  /\ UNCHANGED <<running, new_process, createVars, procVars, semVars, memVars,
                 curr_track, sweep_next, disk_request, printVars, localVars, lockVars,
                 os>>

\* Mutant: disk_sweep does not post disk_semaphore.
DiskPost_Missing ==
  /\ Before("disk", "disk_post")
  /\ Goto("disk", "sweep")
  /\ UNCHANGED <<schedVars, createVars, procVars, semVars, memVars, ioVars, localVars,
                 lockVars, os>>

DiskPost ==
  /\ Before("disk", "disk_post")
  /\ disk_semaphore' = 1
  /\ Goto("disk", "sweep")
  /\ UNCHANGED <<schedVars, createVars, procVars, semVars, memVars, ioVars, localVars,
                 interrupt_semaphore, scheduler_semaphore, os>>

\* delete_list follows a `prev` that the insertion loop left wrong.
DiskUndefined ==
  \/ /\ at["disk"] = "disk_add"
     /\ SameTrack # {}
     /\ Min(SameTrack) # 1
  \/ IrqUndefined("disk")

DiskNext ==
  \/ Interrupt("disk")
  \/ SweepStart \/ SweepNext \/ SweepEnd
  \/ FulfillDiskRequest \/ DiskRequestFinished \/ DiskPost

=============================================================================
