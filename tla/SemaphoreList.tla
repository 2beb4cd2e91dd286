---------------------------- MODULE SemaphoreList ----------------------------
(***************************************************************************)
(* memory->semaphores, the one list that two threads use with no lock at   *)
(* all.  The main thread reads the header of a program file, searches the  *)
(* list for each semaphore on its line and pushes those it does not find   *)
(* (read_program_header, process/process.c).  The CPU thread searches the  *)
(* same list for the semaphore of each P and V (cpu/cpu.c), node by node,  *)
(* while push writes one pointer at a time.  push links a node before it   *)
(* sets the node's next, which until then is whatever malloc returned.     *)
(*                                                                         *)
(* Nothing leaves this list, so the i-th node allocated is named i, and    *)
(* prev, which only delete_list reads, is left out.  A program searches    *)
(* for the semaphores on its own line: what a P or V on another would find *)
(* nobody promises, and cpu.c:86-87 would use it untested.                 *)
(***************************************************************************)
EXTENDS Integers, Sequences

CONSTANTS
  Program,       \* the program files
  Name,          \* names of semaphores
  Declared,      \* Declared[p]: the names on the semaphore line of p, in order
  NULL,
  Unset          \* the contents of memory that malloc has returned

ASSUME NullAssumption == NULL \notin Nat /\ Unset \notin Nat /\ NULL # Unset
ASSUME DeclaredAssumption == Declared \in [Program -> Seq(Name)]

VARIABLES
  header, tail,
  nodes,         \* how many nodes have been allocated
  next, name,    \* of each node
  created,       \* the programs of the processes the scheduler may run
  \* The main thread: its control point, the program whose header it reads, the
  \* position on its semaphore line, and the pointer of find.
  ui, program, ch, ui_tmp,
  \* The CPU thread: idle, or searching for the semaphore of an instruction.
  cpu, wanted, cpu_tmp

listVars == <<header, tail, nodes, next, name>>
uiVars == <<ui, program, ch, ui_tmp>>
cpuVars == <<cpu, wanted, cpu_tmp>>
vars == <<listVars, created, uiVars, cpuVars>>

\* Mutant: create_list leaves the tail to chance.
Init_AnyTail ==
  /\ header = NULL /\ tail = Unset
  /\ nodes = 0 /\ next = <<>> /\ name = <<>>
  /\ created = {}
  /\ ui = "prompt" /\ program = NULL /\ ch = 0 /\ ui_tmp = NULL
  /\ cpu = "idle" /\ wanted = NULL /\ cpu_tmp = NULL

Init ==
  /\ header = NULL /\ tail = NULL
  /\ nodes = 0 /\ next = <<>> /\ name = <<>>
  /\ created = {}
  /\ ui = "prompt" /\ program = NULL /\ ch = 0 /\ ui_tmp = NULL
  /\ cpu = "idle" /\ wanted = NULL /\ cpu_tmp = NULL

-----------------------------------------------------------------------------
(* The main thread. *)

Open(p) ==
  /\ ui = "prompt"
  /\ ui' = "read" /\ program' = p /\ ch' = 1
  /\ UNCHANGED <<listVars, created, ui_tmp, cpuVars>>

\* Mutant: the header's last semaphore is not read.
LastRead_Early == ch >= Len(Declared[program])

LastRead == ch > Len(Declared[program])

\* The semaphore line is over: in the end the process is ready.
Close ==
  /\ ui = "read"
  /\ LastRead
  /\ created' = created \cup {program}
  /\ ui' = "prompt"
  /\ UNCHANGED <<listVars, program, ch, ui_tmp, cpuVars>>

\* Mutant: the search begins at the wrong end.
StartFind_AtTail ==
  /\ ui = "read"
  /\ ~LastRead
  /\ ui' = "find" /\ ui_tmp' = tail
  /\ UNCHANGED <<listVars, created, program, ch, cpuVars>>

StartFind ==
  /\ ui = "read"
  /\ ~LastRead
  /\ ui' = "find" /\ ui_tmp' = header
  /\ UNCHANGED <<listVars, created, program, ch, cpuVars>>

Matches(n, c) == name[n] = c

\* find, one node at a time.
Find ==
  /\ ui = "find"
  /\ ui_tmp # NULL
  /\ IF Matches(ui_tmp, Declared[program][ch])
     THEN ui' = "read" /\ ch' = ch + 1 /\ UNCHANGED ui_tmp
     ELSE ui_tmp' = next[ui_tmp] /\ UNCHANGED <<ui, ch>>
  /\ UNCHANGED <<listVars, created, program, cpuVars>>

\* The semaphore and its node are allocated, and push tests the header.
NotFound ==
  /\ ui = "find"
  /\ ui_tmp = NULL
  /\ nodes' = nodes + 1
  /\ next' = Append(next, Unset)
  /\ name' = Append(name, Declared[program][ch])
  /\ ui' = IF header = NULL THEN "push_header" ELSE "push_link"
  /\ UNCHANGED <<header, tail, created, program, ch, ui_tmp, cpuVars>>

\* push on an empty list: header, tail, next.
PushHeader ==
  /\ ui = "push_header"
  /\ header' = nodes
  /\ ui' = "push_first"
  /\ UNCHANGED <<tail, nodes, next, name, created, program, ch, ui_tmp, cpuVars>>

PushFirst ==
  /\ ui = "push_first"
  /\ tail' = nodes
  /\ ui' = "push_only"
  /\ UNCHANGED <<header, nodes, next, name, created, program, ch, ui_tmp, cpuVars>>

PushOnly ==
  /\ ui = "push_only"
  /\ next' = [next EXCEPT ![nodes] = NULL]
  /\ ui' = "read" /\ ch' = ch + 1
  /\ UNCHANGED <<header, tail, nodes, name, created, program, ui_tmp, cpuVars>>

\* push behind the tail: the tail's next, the node's next, tail.
PushLink ==
  /\ ui = "push_link"
  /\ next' = [next EXCEPT ![tail] = nodes]
  /\ ui' = "push_next"
  /\ UNCHANGED <<header, tail, nodes, name, created, program, ch, ui_tmp, cpuVars>>

PushNext ==
  /\ ui = "push_next"
  /\ next' = [next EXCEPT ![nodes] = NULL]
  /\ ui' = "push_tail"
  /\ UNCHANGED <<header, tail, nodes, name, created, program, ch, ui_tmp, cpuVars>>

PushTail ==
  /\ ui = "push_tail"
  /\ tail' = nodes
  /\ ui' = "read" /\ ch' = ch + 1
  /\ UNCHANGED <<header, nodes, next, name, created, program, ui_tmp, cpuVars>>

-----------------------------------------------------------------------------
(* The CPU thread. *)

\* A P or V of a process that the scheduler has dispatched.
Search(c) ==
  /\ cpu = "idle"
  /\ cpu' = "find" /\ wanted' = c /\ cpu_tmp' = header
  /\ UNCHANGED <<listVars, created, uiVars>>

Visit ==
  /\ cpu = "find"
  /\ cpu_tmp \notin {NULL, Unset}
  /\ IF Matches(cpu_tmp, wanted)
     THEN cpu' = "idle" /\ UNCHANGED cpu_tmp
     ELSE cpu_tmp' = next[cpu_tmp] /\ UNCHANGED cpu
  /\ UNCHANGED <<listVars, created, uiVars, wanted>>

Next ==
  \/ \E p \in Program : Open(p)
  \/ Close \/ StartFind \/ Find \/ NotFound
  \/ PushHeader \/ PushFirst \/ PushOnly
  \/ PushLink \/ PushNext \/ PushTail
  \/ \E p \in created : \E i \in DOMAIN Declared[p] : Search(Declared[p][i])
  \/ Visit

Spec == Init /\ [][Next]_vars

-----------------------------------------------------------------------------

Link == Nat \cup {NULL, Unset}

\* Pointers are nodes, NULL or, in a next not yet set and the pointers that could be
\* read from it, anything; header and tail are always set.
TypeOK ==
  /\ header \in Nat \cup {NULL} /\ tail \in Nat \cup {NULL}
  /\ nodes \in Nat
  /\ next \in [1..nodes -> Link]
  /\ name \in [1..nodes -> Name]
  /\ created \subseteq Program
  /\ ui \in {"prompt", "read", "find", "push_header", "push_first", "push_only",
             "push_link", "push_next", "push_tail"}
  /\ program \in Program \cup {NULL}
  /\ ch \in Nat
  /\ ui_tmp \in Link
  /\ cpu \in {"idle", "find"}
  /\ wanted \in Name \cup {NULL}
  /\ cpu_tmp \in Link

\* Nothing protects the CPU thread's search but that it ends in time: cpu.c:87 and
\* cpu.c:111 use the node that find returns without a test, and push (list.c:30)
\* links a node whose next is not set yet.  The search never runs off the list.
SearchSucceeds == cpu = "find" => cpu_tmp \in 1..nodes

\* Two programs that use a semaphore use the same one (process.c:87-90).
OneOfEachName == \A i, j \in 1..nodes : name[i] = name[j] => i = j

=============================================================================
