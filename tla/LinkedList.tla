----------------------------- MODULE LinkedList -----------------------------
(***************************************************************************)
(* list/list.c pointer by pointer: header, tail, next and prev, as push,   *)
(* pop and delete_list change them, and as the insertion loops of          *)
(* scheduler/scheduler.c and disk/disk.c do.  One operation is one step:   *)
(* this is a list that its users lock.                                     *)
(*                                                                         *)
(* The heap maps the addresses in use to their nodes.  delete_list frees   *)
(* its node, whose address malloc may return again while pointers to it    *)
(* survive; pop gives its node to a caller that never frees it.            *)
(***************************************************************************)
EXTENDS Integers, Sequences, FiniteSets, FiniteSetsExt

CONSTANTS
  Address,       \* what malloc may return
  Key,           \* what an entry is sorted and found by: priority, track, id
  NULL

\* NULL is neither an address nor, in the abstract list below, a list.
ASSUME AddressAssumption ==
  /\ IsFiniteSet(Address) /\ Key \subseteq Int
  /\ NULL \notin Address /\ NULL \notin Seq([at : Address, key : Key])

VARIABLES
  sorted,        \* entries are inserted in order of keys, and never pushed
  heap,
  header,
  tail,
  broken         \* delete_list has followed a bad pointer

vars == <<sorted, heap, header, tail, broken>>

\* Mutant: create_list leaves the tail to chance.
Init_AnyTail ==
  /\ sorted \in BOOLEAN
  /\ heap = <<>>
  /\ header = NULL
  /\ tail = "uninitialised"
  /\ broken = FALSE

Init ==
  /\ sorted \in BOOLEAN
  /\ heap = <<>>
  /\ header = NULL
  /\ tail = NULL
  /\ broken = FALSE

InUse(a) == a \in DOMAIN heap
Limit == Cardinality(Address)

\* The nodes met from header, up to a NULL or a freed one.  A walk that goes on
\* after Limit nodes has met a cycle.
At[i \in 0..Limit] ==
  IF i = 0 THEN header
  ELSE IF InUse(At[i - 1]) THEN heap[At[i - 1]].next ELSE NULL
Steps == {i \in 0..Limit : InUse(At[i])}
Reached == {At[i] : i \in Steps}

\* No freed node and no cycle is met from header.
Sound == ~broken /\ \A i \in 0..Limit : At[i] = NULL \/ (InUse(At[i]) /\ i < Limit)

Node(n, p, k) == [next |-> n, prev |-> p, key |-> k]
With(h, a, node) == [b \in DOMAIN h \cup {a} |-> IF b = a THEN node ELSE h[b]]
Without(h, a) == [b \in DOMAIN h \ {a} |-> h[b]]

PushFirst(a, k) ==
  /\ header = NULL
  /\ heap' = With(heap, a, Node(NULL, NULL, k))
  /\ header' = a /\ tail' = a

PushBehind(a, k) ==
  /\ ~sorted
  /\ header # NULL
  /\ heap' = With([heap EXCEPT ![tail].next = a], a, Node(NULL, tail, k))
  /\ tail' = a
  /\ UNCHANGED header

\* A node that belongs before the header; the old header's prev is not set.
InsertFirst(a, k) ==
  /\ sorted
  /\ header # NULL /\ k < heap[header].key
  /\ heap' = With(heap, a, Node(header, NULL, k))
  /\ header' = a
  /\ UNCHANGED tail

\* Mutant: the loop stops in front of a node with the same key.
Aux_Strict(k) ==
  CHOOSE aux \in Reached :
    /\ aux = header \/ heap[aux].key < k
    /\ heap[aux].next = NULL \/ heap[heap[aux].next].key >= k

\* The last node the insertion loop visits: its successor has a greater key.
Aux(k) ==
  CHOOSE aux \in Reached :
    /\ aux = header \/ heap[aux].key <= k
    /\ heap[aux].next = NULL \/ heap[heap[aux].next].key > k

\* `aux->next->prev = new_node` comes after `aux->next = new_node`: it makes the new
\* node's prev point to itself and leaves its successor's as it was.
InsertBehind(a, k) ==
  /\ sorted
  /\ header # NULL /\ k >= heap[header].key
  /\ LET aux == Aux(k)
         last == heap[aux].next = NULL
     IN  /\ heap' = With([heap EXCEPT ![aux].next = a], a,
                          Node(heap[aux].next, IF last THEN aux ELSE a, k))
         /\ tail' = IF last THEN a ELSE tail
  /\ UNCHANGED header

\* The caller keeps the data.
Pop ==
  /\ header # NULL
  /\ header' = heap[header].next
  /\ heap' = IF header' = NULL THEN heap ELSE [heap EXCEPT ![header'].prev = NULL]
  /\ UNCHANGED tail

\* The node that find returns to delete_list.
Found(k) == {i \in Steps : heap[At[i]].key = k}
Place(k) == At[Min(Found(k))]

DeleteHeader(p) ==
  /\ p = header
  /\ heap' = Without(heap, p)
  /\ header' = heap[p].next
  /\ UNCHANGED <<tail, broken>>

DeleteTail(p) ==
  LET before == heap[p].prev IN
    /\ p # header /\ p = tail
    /\ InUse(before)
    /\ heap' = Without([heap EXCEPT ![before].next = NULL], p)
    /\ tail' = before
    /\ UNCHANGED <<header, broken>>

\* Mutant: the successor keeps its prev.
DeleteMiddle_OneWay(p) ==
  LET before == heap[p].prev
      after == heap[p].next
  IN  /\ p # header /\ p # tail
      /\ InUse(before) /\ InUse(after)
      /\ heap' = Without([heap EXCEPT ![before].next = after], p)
      /\ UNCHANGED <<header, tail, broken>>

DeleteMiddle(p) ==
  LET before == heap[p].prev
      after == heap[p].next
  IN  /\ p # header /\ p # tail
      /\ InUse(before) /\ InUse(after)
      /\ heap' =
           Without([heap EXCEPT ![before].next = after, ![after].prev = before], p)
      /\ UNCHANGED <<header, tail, broken>>

\* A prev, or the next of a node that is not the tail, that is NULL or was freed.
DeleteUndefined(p) ==
  /\ p # header
  /\ ~InUse(heap[p].prev) \/ (p # tail /\ ~InUse(heap[p].next))
  /\ broken' = TRUE
  /\ UNCHANGED <<heap, header, tail>>

\* Where the next walk of the list is undefined behaviour the model ends, and where
\* the nodes that pop leaks have used up its bounded heap.
Halted == (~Sound \/ DOMAIN heap = Address) /\ UNCHANGED vars

Next ==
  \/ /\ Sound
     /\ \/ /\ \E a \in Address \ DOMAIN heap, k \in Key :
                \/ PushFirst(a, k) \/ PushBehind(a, k)
                \/ InsertFirst(a, k) \/ InsertBehind(a, k)
           /\ UNCHANGED broken
        \/ Pop /\ UNCHANGED broken
        \/ \E k \in Key :
             /\ Found(k) # {}
             /\ \/ DeleteHeader(Place(k)) \/ DeleteTail(Place(k))
                \/ DeleteMiddle(Place(k)) \/ DeleteUndefined(Place(k))
     /\ UNCHANGED sorted
  \/ Halted

Spec == Init /\ [][Next]_vars

-----------------------------------------------------------------------------

Pointer == Address \cup {NULL}

\* Every pointer is an address or NULL, and the heap holds nodes.
TypeOK ==
  /\ sorted \in BOOLEAN /\ broken \in BOOLEAN
  /\ header \in Pointer /\ tail \in Pointer
  /\ DOMAIN heap \subseteq Address
  /\ \A a \in DOMAIN heap : heap[a] \in [next : Pointer, prev : Pointer, key : Key]

Content ==
  [i \in 1..Cardinality(Steps) |-> [at |-> At[i - 1], key |-> heap[At[i - 1]].key]]

Abstract == INSTANCE AbstractList WITH
  Entry <- [at : Address, key : Key],
  Undefined <- NULL,
  list <- IF Sound THEN Content ELSE NULL

\* The nodes met by following next change as the sequences of Lists do, by which
\* every other module describes its lists: a list that is only pushed to never breaks,
\* and a sorted one does only in delete_list, behind its header.
ImplementsList == Abstract!Spec

\* list.h:15, prev is the "pointer to previous element": in a list that is only
\* pushed to it is, for all but the header, and the last node met is the tail.
QueueLinked ==
  ~sorted /\ header # NULL =>
    /\ \A i \in Steps : i > 0 => heap[At[i]].prev = At[i - 1]
    /\ tail = At[Cardinality(Steps) - 1]

=============================================================================
