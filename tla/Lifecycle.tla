----------------------------- MODULE Lifecycle -----------------------------
(***************************************************************************)
(* What the kernel promises its processes, without lists, flags, host      *)
(* threads or memory: the states a process goes through, who is dispatched *)
(* and who gets a semaphore.                                               *)
(***************************************************************************)
EXTENDS Integers, Sequences

CONSTANTS Proc, Sem, Nobody

VARIABLES
  phase,       \* "new", "ready", "running", "blocked" or "finished"
  priority,    \* the smaller the more urgent, 0 before it is known
  holder,      \* of each semaphore
  queue        \* of each semaphore, first come first served

vars == <<phase, priority, holder, queue>>

Init ==
  /\ phase = [p \in Proc |-> "new"]
  /\ priority = [p \in Proc |-> 0]
  /\ holder = [s \in Sem |-> Nobody]
  /\ queue = [s \in Sem |-> <<>>]

Queued(p) == \E s \in Sem : \E i \in DOMAIN queue[s] : queue[s][i] = p

Submit(p) ==
  /\ phase[p] = "new"
  /\ phase' = [phase EXCEPT ![p] = "ready"]
  /\ priority'[p] \in Nat
  /\ priority' = [priority EXCEPT ![p] = priority'[p]]
  /\ UNCHANGED <<holder, queue>>

\* The running process goes to the queue it stands in, or back to the ready ones;
\* one of the most urgent ready ones runs next, and nobody only when none is ready.
Dispatch(q) ==
  /\ phase' = [p \in Proc |->
                 IF p = q THEN "running"
                 ELSE IF phase[p] # "running" THEN phase[p]
                 ELSE IF Queued(p) THEN "blocked" ELSE "ready"]
  /\ q # Nobody => phase[q] \in {"ready", "running"} /\ ~Queued(q)
  /\ \A p \in Proc : phase'[p] = "ready" => q # Nobody /\ priority[q] <= priority[p]
  /\ UNCHANGED <<priority, holder, queue>>

Acquire(p, s) ==
  /\ phase[p] = "running"
  /\ holder[s] \in {p, Nobody}
  /\ holder' = [holder EXCEPT ![s] = p]
  /\ UNCHANGED <<phase, priority, queue>>

Await(p, s) ==
  /\ phase[p] = "running"
  /\ holder[s] \notin {p, Nobody}
  /\ queue' = [queue EXCEPT ![s] = Append(@, p)]
  /\ UNCHANGED <<phase, priority, holder>>

\* The first in the queue has the semaphore at once, and is ready again.
Release(s) ==
  /\ \E p \in Proc : phase[p] = "running"
  /\ \/ /\ queue[s] = <<>>
        /\ holder' = [holder EXCEPT ![s] = Nobody]
        /\ UNCHANGED <<phase, queue>>
     \/ /\ queue[s] # <<>>
        /\ phase[Head(queue[s])] = "blocked"
        /\ phase' = [phase EXCEPT ![Head(queue[s])] = "ready"]
        /\ holder' = [holder EXCEPT ![s] = Head(queue[s])]
        /\ queue' = [queue EXCEPT ![s] = Tail(@)]
  /\ UNCHANGED priority

Finish(p) ==
  /\ phase[p] = "running"
  /\ ~Queued(p)
  /\ phase' = [phase EXCEPT ![p] = "finished"]
  /\ UNCHANGED <<priority, holder, queue>>

Next ==
  \/ \E p \in Proc : Submit(p) \/ Finish(p)
  \/ \E q \in Proc \cup {Nobody} : Dispatch(q)
  \/ \E p \in Proc, s \in Sem : Acquire(p, s) \/ Await(p, s)
  \/ \E s \in Sem : Release(s)

Spec == Init /\ [][Next]_vars

=============================================================================
