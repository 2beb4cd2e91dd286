------------------------------ MODULE Printer ------------------------------
(***************************************************************************)
(* The printer thread (print/print.c): it serves the requests in the order *)
(* in which they were pushed.                                              *)
(***************************************************************************)
EXTENDS Interrupt

\* fulfill_print
FulfillPrint ==
  /\ Before("print", "poll")
  /\ print_requests # <<>>
  /\ status' = [status EXCEPT ![Head(print_requests).process] = "READY"]
  /\ Goto("print", "print_add")
  /\ UNCHANGED <<schedVars, createVars, PC, remaining_time, exec, freed, semVars,
                 memVars, ioVars, localVars, lockVars, os>>

PrintRequestFinished ==
  /\ Before("print", "print_add")
  /\ scheduler_semaphore = 1
  /\ ready' = add_process_scheduler(ready, Head(print_requests).process)
  /\ print_requests' = Tail(print_requests)
  /\ Goto("print", "irq_lock")
  /\ UNCHANGED <<running, new_process, createVars, procVars, semVars, memVars,
                 diskVars, localVars, lockVars, os>>

PrintUndefined == IrqUndefined("print")

PrintNext == Interrupt("print") \/ FulfillPrint \/ PrintRequestFinished

=============================================================================
