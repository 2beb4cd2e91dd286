---------------------------- MODULE AbstractList ----------------------------
(***************************************************************************)
(* What the kernel's modules assume of a list: a sequence of entries that  *)
(* changes in the ways Lists describes.  A list is used either as a queue, *)
(* to which entries are only pushed, or in sorted order, to which they are *)
(* only inserted.                                                          *)
(***************************************************************************)
EXTENDS Lists

CONSTANTS
  Entry,       \* records with a key
  Key,
  Undefined    \* what is left of a list after undefined behaviour

VARIABLES
  sorted,      \* which of the two uses this list is put to
  list

Init == sorted \in BOOLEAN /\ list = <<>>

Push(e) == ~sorted /\ list' = Append(list, e)

Insert(e) ==
  /\ sorted
  /\ list' = InsertBeforeFirst(list, e, {i \in DOMAIN list : list[i].key > e.key})

Pop == list # <<>> /\ list' = Tail(list)

\* The first entry with key k leaves.  From a sorted list, where it is not the
\* first of all, others may go with it, or the list with them.
Delete(k) ==
  LET found == {i \in DOMAIN list : list[i].key = k} IN
    /\ found # {}
    /\ IF sorted /\ Min(found) # 1
       THEN list' \in DeleteSorted(list, Min(found)) \cup {Undefined}
       ELSE list' = RemoveAt(list, Min(found))

Next ==
  /\ list # Undefined
  /\ \/ \E e \in Entry : Push(e) \/ Insert(e)
     \/ Pop
     \/ \E k \in Key : Delete(k)
  /\ UNCHANGED sorted

Spec == Init /\ [][Next]_<<sorted, list>>

=============================================================================
