------------------------------- MODULE Batch -------------------------------
(***************************************************************************)
(* The whole program with a user who runs one program at a time, as on a   *)
(* batch system: what is typed next waits until the program before it has  *)
(* finished.  The code asks nothing of the kind; with more haste the       *)
(* device threads and the user race with the CPU thread.                   *)
(***************************************************************************)
EXTENDS AlienOS

\* No process is left, and no thread is in the middle of anything.
Idle ==
  /\ PCB = <<>>
  /\ at["cpu"] = "spin"
  /\ interrupt_semaphore = 1

BatchNext == Next /\ (processes_id' # processes_id => Idle)

BatchSpec == Init /\ [][BatchNext]_vars

FairBatchSpec == BatchSpec /\ Fairness

=============================================================================
