--------------------------------- MODULE Ui ---------------------------------
(***************************************************************************)
(* The main thread: load_file_name_window (ui/main-window.c) reads the     *)
(* name of a program file or `q`, and process_create_syscall (cpu/cpu.c)   *)
(* submits the program.                                                    *)
(***************************************************************************)
EXTENDS Scheduler

\* create_process, and the beginning of push on PCB: the new node becomes the header of
\* an empty list, or the tail to link it behind is read.
CreateProcess ==
  /\ Before("ui", "prompt")
  /\ processes_id < MaxProcs
  /\ \E f \in File :
       /\ f \in Resubmitted \/ \A p \in Created : file[p] # f
       /\ file' = [file EXCEPT ![processes_id] = f]
  /\ processes_id' = processes_id + 1
  /\ \/ /\ PCB = <<>>
        /\ PCB' = <<processes_id>>
        /\ UNCHANGED behind
        /\ Goto("ui", "ui_tail")
     \/ /\ PCB # <<>>
        /\ behind' = PCB_tail
        /\ UNCHANGED PCB
        /\ Goto("ui", "ui_link")
  /\ UNCHANGED <<schedVars, PCB_tail, procVars, semVars, memVars, ioVars, localVars,
                 lockVars, os>>

\* list->tail->next = new_node.  The process is in the list from here on if the node it
\* is linked behind is; the CPU thread may have cut that one off since.
LinkPCB ==
  /\ Before("ui", "ui_link")
  /\ behind # NULL
  /\ PCB' = IF Contains(PCB, behind) THEN Append(PCB, NewProcess) ELSE PCB
  /\ behind' = NULL
  /\ Goto("ui", "ui_tail")
  /\ UNCHANGED <<schedVars, processes_id, file, PCB_tail, procVars, semVars, memVars,
                 ioVars, localVars, lockVars, os>>

\* new_node->next = NULL and list->tail = new_node, wherever that node is by now.
MoveTail ==
  /\ Before("ui", "ui_tail")
  /\ PCB_tail' = NewProcess
  /\ Goto("ui", "ui_enqueue")
  /\ UNCHANGED <<schedVars, processes_id, file, PCB, behind, procVars, semVars, memVars,
                 ioVars, localVars, lockVars, os>>

\* The node to link behind has been freed.
PushUndefined == at["ui"] = "ui_link" /\ behind = NULL

Enqueue ==
  /\ Before("ui", "ui_enqueue")
  /\ scheduler_semaphore = 1
  /\ ready' = add_process_scheduler(ready, NewProcess)
  /\ Goto("ui", "ui_announce")
  /\ UNCHANGED <<running, new_process, createVars, procVars, semVars, memVars, ioVars,
                 localVars, lockVars, os>>

\* Mutant: the flag is raised only when there is a process to interrupt.
Announce_IfRunning ==
  /\ Before("ui", "ui_announce")
  /\ new_process' = (running # NULL)
  /\ Goto("ui", "prompt")
  /\ UNCHANGED <<running, ready, createVars, procVars, semVars, memVars, ioVars,
                 localVars, lockVars, os>>

\* update_new_process_flag(true)
Announce ==
  /\ Before("ui", "ui_announce")
  /\ new_process' = TRUE
  /\ Goto("ui", "prompt")
  /\ UNCHANGED <<running, ready, createVars, procVars, semVars, memVars, ioVars,
                 localVars, lockVars, os>>

\* `q`, or a file that cannot be read: main returns or create_process exits, and
\* the other threads end with the process.
Quit ==
  /\ Before("ui", "prompt")
  /\ os' = "exited"
  /\ UNCHANGED <<schedVars, createVars, procVars, semVars, memVars, ioVars, localVars,
                 lockVars, at>>

\* What follows a submission without the user's doing.
Submission == LinkPCB \/ MoveTail \/ Enqueue \/ Announce

UiNext == CreateProcess \/ Submission \/ Quit

=============================================================================
