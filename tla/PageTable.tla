----------------------------- MODULE PageTable -----------------------------
(***************************************************************************)
(* The page table of memory/memory.c, one page at a time: load_segment and *)
(* memory_unload_segment, and the two searches of the table they make for  *)
(* every page.  memory.c is called by the CPU thread only, so the steps of *)
(* one call are never interleaved with those of another.                   *)
(*                                                                         *)
(* Slot NUM_PAGES is the memory just behind the table, which both searches *)
(* return when they run off its end, and which the code then writes.  It   *)
(* belongs to nobody: malloc rounds the two megabytes of the table up to   *)
(* the next page of the host.                                              *)
(***************************************************************************)
EXTENDS Loader, FiniteSetsExt

CONSTANTS
  Segment,       \* one segment for each process
  Id,            \* Id[s]: the segment id line of the file, not always unique
  SizeLine,      \* SizeLine[s]: the size line of the file, in KB
  NUM_PAGES,     \* 131072 in memory.h
  NoId           \* -1, the segment id of a slot that holds no page (init_memory
                 \* leaves it to chance, and nothing reads it before it is set)

ASSUME TableAssumption ==
  /\ NUM_PAGES \in Nat
  /\ SizeLine \in [Segment -> Nat]
  /\ \A s \in Segment : Id[s] # NoId

VARIABLES
  free,            \* the `free` bit of every slot
  segment_id,      \* the owner of the page in every slot
  num_free_pages,
  present,         \* the segments whose present bit is set
  call,            \* the function of memory.c being executed
  segment,         \* its argument
  i                \* its loop counter

vars == <<free, segment_id, num_free_pages, present, call, segment, i>>

Slot == 0..NUM_PAGES
InTable == 0..(NUM_PAGES - 1)
Pages(s) == num_pages(SizeLine[s])

Init ==
  /\ free \in {f \in [Slot -> BOOLEAN] : \A k \in InTable : f[k]}
  /\ segment_id = [k \in Slot |-> NoId]
  /\ num_free_pages = NUM_PAGES
  /\ present = {}
  /\ call = "none"
  /\ segment \in Segment
  /\ i = 0

FirstIn(slots) == IF slots = {} THEN NUM_PAGES ELSE Min(slots)

Call(function, s) ==
  /\ call = "none"
  /\ call' = function
  /\ segment' = s
  /\ i' = 0
  /\ UNCHANGED <<free, segment_id, num_free_pages, present>>

\* load_segment, called by memory_load_requisition once there is room.
Load(s) ==
  /\ s \notin present
  /\ num_free_pages >= Pages(s)
  /\ Call("load_segment", s)

\* memory_unload_segment, called for a segment in the list of loaded segments.
Unload(s) == s \in present /\ Call("memory_unload_segment", s)

\* Mutant: `<=` for `<` in the loops.
Turn_OneMore(function) ==
  /\ call = function
  /\ i <= Pages(segment)
  /\ i' = i + 1
  /\ UNCHANGED <<present, call, segment>>

\* One turn of the loop over the pages of the segment.
Turn(function) ==
  /\ call = function
  /\ i < Pages(segment)
  /\ i' = i + 1
  /\ UNCHANGED <<present, call, segment>>

\* Mutant: the page is not counted.
add_page_memory_Uncounted ==
  /\ Turn("load_segment")
  /\ LET k == FirstIn({j \in InTable : ~free[j]}) IN
       /\ free' = [free EXCEPT ![k] = FALSE]
       /\ segment_id' = [segment_id EXCEPT ![k] = Id[segment]]
  /\ UNCHANGED num_free_pages

\* "searches first free page": the loop goes on while slots are free, so that it
\* stops at the first one that is used.
LoadSlot == FirstIn({k \in InTable : ~free[k]})

add_page_memory ==
  /\ Turn("load_segment")
  /\ free' = [free EXCEPT ![LoadSlot] = FALSE]
  /\ segment_id' = [segment_id EXCEPT ![LoadSlot] = Id[segment]]
  /\ num_free_pages' = num_free_pages - 1

\* memory_delete_page: a page is counted free whether or not one was found.
UnloadSlot == FirstIn({k \in InTable : ~free[k] /\ segment_id[k] = Id[segment]})

memory_delete_page ==
  /\ Turn("memory_unload_segment")
  /\ free' = [free EXCEPT ![UnloadSlot] = TRUE]
  /\ segment_id' = [segment_id EXCEPT ![UnloadSlot] = NoId]
  /\ num_free_pages' = num_free_pages + 1

Loaded ==
  /\ call = "load_segment"
  /\ i = Pages(segment)
  /\ present' = present \cup {segment}
  /\ call' = "none"
  /\ UNCHANGED <<free, segment_id, num_free_pages, segment, i>>

Unloaded ==
  /\ call = "memory_unload_segment"
  /\ i = Pages(segment)
  /\ present' = present \ {segment}
  /\ call' = "none"
  /\ UNCHANGED <<free, segment_id, num_free_pages, segment, i>>

Next ==
  \/ \E s \in Segment : Load(s) \/ Unload(s)
  \/ add_page_memory \/ memory_delete_page
  \/ Loaded \/ Unloaded

Spec == Init /\ [][Next]_vars

-----------------------------------------------------------------------------

\* Every slot has its bit, and no call counts past the pages of its segment.
TypeOK ==
  /\ free \in [Slot -> BOOLEAN]
  /\ num_free_pages \in Int
  /\ present \subseteq Segment
  /\ call \in {"none", "load_segment", "memory_unload_segment"}
  /\ segment \in Segment
  /\ i \in 0..Pages(segment)

\* What the kernel sees between two calls: the pages of the call under way do
\* not count yet.
FreeBefore ==
  CASE call = "none" -> num_free_pages
    [] call = "load_segment" -> num_free_pages + i
    [] call = "memory_unload_segment" -> num_free_pages - i

Abstract == INSTANCE FreePages WITH
  Need <- [s \in Segment |-> Pages(s)],
  free <- FreeBefore,
  loaded <- present

\* Page by page, with their searches, load_segment and memory_unload_segment do
\* what the rest of the kernel assumes of them: FreePages.
ImplementsFreePages == Abstract!Spec

\* memory.c:53, add_page_memory "Inserts a new page into the memory page table", and
\* memory.c:58, "searches first free page": a loaded segment has its pages in the table.
PagesInTable ==
  call = "none" =>
    \A s \in present :
      Cardinality({k \in InTable : ~free[k] /\ segment_id[k] = Id[s]}) >= Pages(s)

=============================================================================
