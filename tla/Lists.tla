------------------------------- MODULE Lists -------------------------------
(***************************************************************************)
(* The linked lists of list/list.c as the rest of the kernel sees them:    *)
(* the sequence of data met by following `next` from `header`.             *)
(*                                                                         *)
(* push is Append, pop is Head and Tail, find is Contains, and delete_list *)
(* takes one entry out of a list that is only ever pushed to: RemoveAt on  *)
(* segments, Tail on print_requests, and the steps that Cpu spells out on  *)
(* PCB, where another thread can be in the middle of a push.  What is left *)
(* for this module is the insertion loop that scheduler.c and disk.c each  *)
(* spell out, and what delete_list does to a list that loop has built.     *)
(***************************************************************************)
EXTENDS Integers, Sequences, SequencesExt

\* The two insertion loops: the new node goes in front of the first node that
\* must come after it, and to the end when there is none.  `later` is the set
\* of positions holding such nodes.
InsertBeforeFirst(q, x, later) ==
  IF later = {} THEN Append(q, x) ELSE InsertAt(q, Min(later), x)

\* delete_list on a list built by those loops.  They leave some `prev` pointers
\* wrong: the header's when a node is put before it, and, when a node goes in
\* the middle, the new node's (it points to itself) and its successor's (it
\* still skips the new node).  Deleting the header never reads `prev`.  Deleting
\* the node at position i unlinks everything between the node its `prev` names
\* and itself: only itself when that pointer is right, its younger neighbours
\* too when it is stale.  A NULL, freed or self-referring `prev` is undefined
\* behaviour and is not a result of this operator.
DeleteSorted(q, i) ==
  IF i = 1
  THEN {Tail(q)}
  ELSE {SubSeq(q, 1, j) \o SubSeq(q, i + 1, Len(q)) : j \in 1..(i - 1)}

=============================================================================
