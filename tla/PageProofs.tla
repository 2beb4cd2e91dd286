----------------------------- MODULE PageProofs -----------------------------
(***************************************************************************)
(* Proofs about the page table: it stays empty, and the count beside it is *)
(* right all the same.                                                     *)
(***************************************************************************)
EXTENDS PageTable, TLAPS

\* A number of pages is a natural number.
LEMMA PagesType == \A s \in Segment : Pages(s) \in Nat
<1> SUFFICES ASSUME NEW s \in Segment PROVE Pages(s) \in Nat
  OBVIOUS
<1>1. SizeLine[s] \in Nat /\ KBYTE \in Nat
  BY TableAssumption, UnitAssumption
<1>2. PICK n \in Nat : n = SizeLine[s] * KBYTE
  BY <1>1
<1>3. size(SizeLine[s]) \in Nat
  BY <1>2, UnitAssumption DEF size
<1> QED
  BY <1>3, UnitAssumption DEF Pages, num_pages

-----------------------------------------------------------------------------

\* What its caller has established holds until a call returns.
CallOK ==
  /\ call = "load_segment" =>
       segment \notin present /\ num_free_pages + i >= Pages(segment)
  /\ call = "memory_unload_segment" => segment \in present

\* memory.c:58-63: as no slot is used at first, both searches run off the end of the
\* table, every page goes to the slot behind it, and the table stays empty.
TableUntouched == \A k \in InTable : free[k] /\ segment_id[k] = NoId

\* The inductive invariant: the types, the empty table, on which the two searches
\* depend, and the callers' tests, on which the refinement does.
IInv == TypeOK /\ TableUntouched /\ CallOK

\* With an empty table both searches return the slot behind it.
LEMMA BehindTheTable ==
  ASSUME TableUntouched
  PROVE  LoadSlot = NUM_PAGES /\ UnloadSlot = NUM_PAGES
BY DEF TableUntouched, LoadSlot, UnloadSlot, FirstIn

\* Init establishes the invariant.
LEMMA InitIInv == Init => IInv
BY PagesType, TableAssumption
DEF Init, IInv, TypeOK, TableUntouched, CallOK, Slot, InTable

\* Every step of every call keeps it.
LEMMA StepIInv == IInv /\ [Next]_vars => IInv'
<1> SUFFICES ASSUME IInv, [Next]_vars
             PROVE  IInv'
  OBVIOUS
<1> USE PagesType, TableAssumption
<1>1. TypeOK /\ TableUntouched /\ CallOK
  BY DEF IInv
<1>2. LoadSlot = NUM_PAGES /\ UnloadSlot = NUM_PAGES
  BY <1>1, BehindTheTable
<1>3. NUM_PAGES \notin InTable
  BY DEF InTable
<1>4. ASSUME NEW s \in Segment, Load(s) \/ Unload(s)
      PROVE  IInv'
  <2>1. UNCHANGED <<free, segment_id, num_free_pages, present>> /\ segment' = s
    BY <1>4 DEF Load, Unload, Call
  <2>2. call' \in {"load_segment", "memory_unload_segment"} /\ i' = 0
    BY <1>4 DEF Load, Unload, Call
  <2>3. CallOK'
    BY <1>1, <1>4, <2>1 DEF Load, Unload, Call, CallOK, TypeOK, Pages
  <2> QED
    BY <1>1, <2>1, <2>2, <2>3 DEF IInv, TypeOK, TableUntouched, Pages
<1>5. CASE add_page_memory
  <2>1. UNCHANGED <<present, call, segment>> /\ i' \in 0..Pages(segment)
    BY <1>1, <1>5 DEF add_page_memory, Turn, TypeOK
  <2>2. TypeOK'
    BY <1>1, <1>2, <1>5, <2>1 DEF add_page_memory, TypeOK, Slot, Pages
  <2>3. TableUntouched'
    BY <1>1, <1>2, <1>3, <1>5 DEF add_page_memory, TableUntouched, InTable
  <2>4. CallOK'
    BY <1>1, <1>5, <2>1 DEF add_page_memory, Turn, CallOK, TypeOK, Pages
  <2> QED
    BY <2>2, <2>3, <2>4 DEF IInv
<1>6. CASE memory_delete_page
  <2>1. UNCHANGED <<present, call, segment>> /\ i' \in 0..Pages(segment)
    BY <1>1, <1>6 DEF memory_delete_page, Turn, TypeOK
  <2>2. TypeOK'
    BY <1>1, <1>2, <1>6, <2>1 DEF memory_delete_page, TypeOK, Slot, Pages
  <2>3. TableUntouched'
    BY <1>1, <1>2, <1>3, <1>6 DEF memory_delete_page, TableUntouched, InTable
  <2>4. CallOK'
    BY <1>1, <1>6, <2>1 DEF memory_delete_page, Turn, CallOK, TypeOK, Pages
  <2> QED
    BY <2>2, <2>3, <2>4 DEF IInv
<1>7. CASE Loaded \/ Unloaded
  <2>1. /\ UNCHANGED <<free, segment_id, num_free_pages, segment, i>>
        /\ call' = "none"
        /\ present' \subseteq present \cup {segment}
    BY <1>7 DEF Loaded, Unloaded
  <2> QED
    BY <1>1, <2>1 DEF IInv, TypeOK, TableUntouched, CallOK, Pages
<1>8. CASE UNCHANGED vars
  BY <1>1, <1>8 DEF vars, IInv, TypeOK, TableUntouched, CallOK, Pages
<1> QED
  BY <1>4, <1>5, <1>6, <1>7, <1>8 DEF Next

\* Whatever is loaded and unloaded, no slot of the table is ever marked used, and
\* every page is written to the memory behind it (memory.c:59), so that PagesInTable is
\* wrong for every table and every segment that has a page.
THEOREM TableStaysEmpty == Spec => []TableUntouched
<1>1. IInv => TableUntouched
  BY DEF IInv
<1> QED
  BY InitIInv, StepIInv, <1>1, PTL DEF Spec

\* The types of the page table's variables hold throughout.
THEOREM PageTypes == Spec => []TypeOK
<1>1. IInv => TypeOK
  BY DEF IInv
<1> QED
  BY InitIInv, StepIInv, <1>1, PTL DEF Spec

-----------------------------------------------------------------------------
(* The refinement. *)

\* An empty memory is an empty memory.
LEMMA InitAbstract == Init => Abstract!Init
BY DEF Init, FreeBefore, Abstract!Init

\* A step of a call is a stutter of FreePages, until its last one, which is a Load
\* or an Unload.
LEMMA StepAbstract ==
  ASSUME IInv, [Next]_vars
  PROVE  [Abstract!Next]_<<FreeBefore, present>>
<1> USE PagesType
<1>1. TypeOK /\ CallOK
  BY DEF IInv
<1>2. segment \in Segment /\ Pages(segment) \in Nat /\ i \in Nat
  BY <1>1 DEF TypeOK
<1>3. ASSUME NEW s \in Segment, Load(s) \/ Unload(s)
      PROVE  UNCHANGED <<FreeBefore, present>>
  BY <1>1, <1>3 DEF Load, Unload, Call, FreeBefore, TypeOK
<1>4. CASE add_page_memory
  <2>1. call = "load_segment" /\ call' = call /\ i' = i + 1 /\ present' = present
    BY <1>4 DEF add_page_memory, Turn
  <2>2. num_free_pages' = num_free_pages - 1
    BY <1>4 DEF add_page_memory
  <2> QED
    BY <1>1, <1>2, <2>1, <2>2 DEF FreeBefore, TypeOK
<1>5. CASE memory_delete_page
  <2>1. /\ call = "memory_unload_segment" /\ call' = call
        /\ i' = i + 1 /\ present' = present
    BY <1>5 DEF memory_delete_page, Turn
  <2>2. num_free_pages' = num_free_pages + 1
    BY <1>5 DEF memory_delete_page
  <2> QED
    BY <1>1, <1>2, <2>1, <2>2 DEF FreeBefore, TypeOK
<1>6. CASE Loaded
  <2>1. FreeBefore = num_free_pages + Pages(segment) /\ FreeBefore' = num_free_pages
    BY <1>6 DEF Loaded, FreeBefore
  <2>2. Abstract!Load(segment)
    BY <1>1, <1>2, <1>6, <2>1 DEF Loaded, CallOK, TypeOK, Abstract!Load
  <2> QED
    BY <1>2, <2>2 DEF Abstract!Next
<1>7. CASE Unloaded
  <2>1. FreeBefore = num_free_pages - Pages(segment) /\ FreeBefore' = num_free_pages
    BY <1>7 DEF Unloaded, FreeBefore
  <2>2. Abstract!Unload(segment)
    BY <1>1, <1>2, <1>7, <2>1 DEF Unloaded, CallOK, TypeOK, Abstract!Unload
  <2> QED
    BY <1>2, <2>2 DEF Abstract!Next
<1>8. CASE UNCHANGED vars
  BY <1>8 DEF vars, FreeBefore
<1> QED
  BY <1>3, <1>4, <1>5, <1>6, <1>7, <1>8 DEF Next

\* memory.c's page-by-page loops implement the count of free pages that the rest
\* of the kernel relies on, for every set of segments and size of the table.
THEOREM Refinement == Spec => ImplementsFreePages
<1> USE DEF Abstract!Spec, ImplementsFreePages
<1>1. IInv /\ [Next]_vars => [Abstract!Next]_<<FreeBefore, present>>
  BY StepAbstract
<1> QED
  BY InitIInv, StepIInv, InitAbstract, <1>1, PTL DEF Spec

=============================================================================
