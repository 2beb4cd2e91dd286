------------------------------- MODULE Memory -------------------------------
(***************************************************************************)
(* memory/memory.c as the CPU uses it: the count of free pages, the list   *)
(* of loaded segments, and the second-chance choice of a segment to swap   *)
(* out.  A segment is named by its process.  Which slot of the page table  *)
(* a page gets is left out: no other part of the kernel reads the table.   *)
(***************************************************************************)
EXTENDS Interrupt

\* Mutant: the header is deleted whatever segment was asked for.
SameId_Header(p) == {i \in DOMAIN segments : i = 1}

\* Positions of `segments` that delete_list takes for the segment of p.
SameId(p) == {i \in DOMAIN segments : SegmentOf(segments[i]) = SegmentOf(p)}

\* The end of memory_unload_segment: the first entry with the segment's id leaves
\* the list, whether or not it is the segment's own.
Unlisted(p) ==
  /\ segments' = IF SameId(p) = {} THEN segments
                 ELSE RemoveAt(segments, Min(SameId(p)))
  /\ present_bit' = [present_bit EXCEPT ![p] = FALSE]
  /\ used_bit' = [used_bit EXCEPT ![p] = FALSE]

\* Mutants: the pages are not counted free; one of them is not.
memory_unload_segment_Leak(p) == UNCHANGED num_free_pages /\ Unlisted(p)
memory_unload_segment_LeakOne(p) ==
  num_free_pages' = num_free_pages + PagesOf(p) - 1 /\ Unlisted(p)

\* memory_unload_segment counts the pages free whether or not p was loaded.
memory_unload_segment(p) ==
  /\ num_free_pages' = num_free_pages + PagesOf(p)
  /\ Unlisted(p)

\* The search for that entry, or the caller, reads a freed segment.
UnloadUndefined(p) ==
  \/ p \in freed
  \/ \E i \in DOMAIN segments :
       segments[i] \in freed /\ \A j \in SameId(p) : i <= j

\* swap_segment: `next_swapped` is never set, so every search starts at the
\* header.  It stops at the first segment that is unused, or has just been
\* given its second chance.
Stops ==
  {i \in DOMAIN segments :
     \/ ~used_bit[segments[i]]
     \/ \E j \in 1..(i - 1) : segments[j] = segments[i]}
VictimIndex == IF Stops = {} THEN 1 ELSE Min(Stops)
Passed ==
  IF Stops = {} THEN ToSet(segments)
  ELSE {segments[i] : i \in 1..(VictimIndex - 1)}

Scanned == Passed \cup {segments[VictimIndex]}

NotEnoughSpace == num_free_pages < PagesOf(cur)

\* memory_load_syscall, then memory_load_requisition until the segment fits.
LoadStart ==
  /\ Before("cpu", "load")
  /\ status' = [status EXCEPT ![cur] = "WAITING"]
  /\ Goto("cpu", "swap")
  /\ UNCHANGED <<schedVars, createVars, PC, remaining_time, exec, freed, semVars,
                 memVars, ioVars, localVars, lockVars, os>>

\* The victim's find_process and its memory_unload_syscall, up to the status.
SwapChoose ==
  /\ Before("cpu", "swap")
  /\ NotEnoughSpace
  /\ segments # <<>>
  /\ Scanned \cap freed = {}
  /\ LET v == segments[VictimIndex] IN
       /\ Contains(PCB, v)
       /\ victim' = v
       /\ status' = [status EXCEPT ![v] = "WAITING"]
  /\ used_bit' = [p \in Proc |-> used_bit[p] /\ p \notin Passed]
  /\ Goto("cpu", "swap_unload")
  /\ UNCHANGED <<schedVars, createVars, PC, remaining_time, exec, freed, semVars,
                 num_free_pages, segments, present_bit, ioVars, irq, cur, lockVars, os>>

SwapUnload ==
  /\ Before("cpu", "swap_unload")
  /\ ~UnloadUndefined(victim)
  /\ memory_unload_segment(victim)
  /\ status' = [status EXCEPT ![victim] = "READY"]
  /\ Goto("cpu", "swap")
  /\ UNCHANGED <<schedVars, createVars, PC, remaining_time, exec, freed, semVars,
                 ioVars, localVars, lockVars, os>>

LoadSegment ==
  /\ Before("cpu", "swap")
  /\ ~NotEnoughSpace
  /\ num_free_pages' = num_free_pages - PagesOf(cur)
  /\ segments' = Append(segments, cur)
  /\ present_bit' = [present_bit EXCEPT ![cur] = TRUE]
  /\ Raise("MEMORY")
  /\ UNCHANGED <<schedVars, createVars, procVars, semVars, used_bit, ioVars,
                 cur, victim, lockVars, os>>

\* The search falls off an empty list, reads a freed segment, or finds no
\* process in the PCB.
SwapUndefined ==
  \/ /\ at["cpu"] = "swap"
     /\ NotEnoughSpace
     /\ \/ segments = <<>>
        \/ Scanned \cap freed # {}
        \/ ~Contains(PCB, segments[VictimIndex])
  \/ at["cpu"] = "swap_unload" /\ UnloadUndefined(victim)

MemoryNext == LoadStart \/ SwapChoose \/ SwapUnload \/ LoadSegment

=============================================================================
