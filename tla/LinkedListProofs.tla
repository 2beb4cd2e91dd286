-------------------------- MODULE LinkedListProofs --------------------------
(***************************************************************************)
(* That the pointers of list/list.c, as push, pop, delete_list and the     *)
(* insertion loops change them, implement the sequences by which the other *)
(* modules describe their lists, for every number of nodes and every set   *)
(* of keys.                                                                *)
(*                                                                         *)
(* The inductive invariant LInv names a sequence of distinct nodes, each   *)
(* of which has the one behind it as its next (Good): At, a function that  *)
(* is defined by recursion, then has its values (ChainWalk), and each      *)
(* operation, which changes the fields of two or three nodes, turns that   *)
(* sequence into another (NodeLinkedIn, NodesUnlinked).  It says nothing   *)
(* of the prev of a node in a sorted list, because InsertBehind gets it    *)
(* wrong: delete_list unlinks whatever lies behind the node that prev      *)
(* names, which may be more than it should, or frees a node that next      *)
(* still leads to, and the list is not sound any more (FreedIsMet).        *)
(***************************************************************************)
EXTENDS LinkedList, ListsProofs, FiniteSetTheorems

\* The walk from header meets the nodes of q, each at the next of the one before, and
\* then the pointer `end`, which is not in use.
Chain(q, end) ==
  /\ q \in Seq(DOMAIN heap)
  /\ end \notin DOMAIN heap
  /\ header = IF q = <<>> THEN end ELSE q[1]
  /\ \A i \in 1..Len(q) : heap[q[i]].next = IF i < Len(q) THEN q[i + 1] ELSE end

\* What At is then.
Walked(q, end) ==
  At = [i \in 0..Limit |->
          IF i < Len(q) THEN q[i + 1] ELSE IF i = Len(q) THEN end ELSE NULL]

WalkFact ==
  TypeOK => \A q, end : Chain(q, end) /\ Len(q) <= Limit => Walked(q, end)

\* The walk of a list, read from its recursive definition: were there a position at
\* which At has another value, there would be a first one.
LEMMA Walk == WalkFact
<1> SUFFICES ASSUME TypeOK, NEW q, NEW end, Chain(q, end), Len(q) <= Limit
             PROVE  Walked(q, end)
  BY DEF WalkFact
<1> DEFINE f == [i \in 0..Limit |->
                  IF i < Len(q) THEN q[i + 1] ELSE IF i = Len(q) THEN end ELSE NULL]
           body(g) == [i \in 0..Limit |->
                        IF i = 0 THEN header
                        ELSE IF InUse(g[i - 1]) THEN heap[g[i - 1]].next ELSE NULL]
<1>1. /\ q \in Seq(DOMAIN heap) /\ Len(q) \in Nat /\ end \notin DOMAIN heap
      /\ NULL \notin DOMAIN heap /\ Limit \in Nat
      /\ \A i \in 1..Len(q) : q[i] \in DOMAIN heap
  BY AddressAssumption, FS_CardinalityType DEF Chain, TypeOK, Limit
<1>2. ASSUME NEW i \in 0..Limit
      PROVE  f[i] = IF i = 0 THEN header
                    ELSE IF InUse(f[i - 1]) THEN heap[f[i - 1]].next ELSE NULL
  <2>1. CASE i = 0
    <3>1. q = <<>> <=> Len(q) = 0
      BY <1>1
    <3> QED
      BY <1>1, <2>1, <3>1 DEF Chain
  <2>2. CASE i > 0 /\ i <= Len(q)
    <3>1. i - 1 \in 0..Limit /\ i \in 1..Len(q) /\ f[i - 1] = q[i]
      BY <1>1, <2>2
    <3>2. heap[q[i]].next = IF i < Len(q) THEN q[i + 1] ELSE end
      BY <3>1 DEF Chain
    <3> QED
      BY <1>1, <2>2, <3>1, <3>2 DEF InUse
  <2>3. CASE i > Len(q)
    <3>1. i - 1 \in 0..Limit /\ i # 0
      BY <1>1, <2>3
    <3>2. f[i - 1] = end \/ f[i - 1] = NULL
      BY <1>1, <2>3, <3>1
    <3> QED
      BY <1>1, <2>3, <3>1, <3>2 DEF InUse
  <2> QED
    BY <1>1, <2>1, <2>2, <2>3
<1>3. f = body(f)
  BY <1>2
<1>4. At = body(At)
  <2> HIDE DEF f
  <2>1. \E g : g = body(g)
    BY <1>3
  <2> QED
    BY <2>1 DEF At
<1>5. \A i \in 0..Limit : At[i] = f[i]
  <2> DEFINE differ == {i \in 0..Limit : At[i] # f[i]}
  <2> SUFFICES ASSUME differ # {} PROVE FALSE
    OBVIOUS
  <2>1. PICK j : j = Min(differ)
    OBVIOUS
  <2>2. differ \in SUBSET Nat
    BY <1>1
  <2>3. j \in differ /\ \A i \in differ : j <= i
    <3> HIDE DEF differ
    <3> QED
      BY <2>1, <2>2, MinIsLeast
  <2>4. At[j] = IF j = 0 THEN header
                ELSE IF InUse(At[j - 1]) THEN heap[At[j - 1]].next ELSE NULL
    <3> HIDE DEF f
    <3> QED
      BY <1>4, <2>3
  <2>5. j # 0 => j - 1 \in 0..Limit /\ At[j - 1] = f[j - 1]
    <3> HIDE DEF f
    <3> QED
      BY <1>1, <2>3
  <2>6. At[j] = f[j]
    <3> HIDE DEF f
    <3> QED
      BY <1>2, <2>3, <2>4, <2>5
  <2> QED
    BY <2>3, <2>6
<1>6. At = f
  <2> HIDE DEF f
  <2>1. DOMAIN At = 0..Limit /\ At = [i \in DOMAIN At |-> At[i]]
    BY <1>4
  <2>2. DOMAIN f = 0..Limit /\ f = [i \in DOMAIN f |-> f[i]]
    BY <1>3
  <2> QED
    BY <1>5, <2>1, <2>2
<1> QED
  BY <1>6 DEF Walked

\* The same after a step.
LEMMA WalkNext == WalkFact'
BY Walk, PTL

-----------------------------------------------------------------------------

\* A walk that meets every node once ends within Limit steps.
LEMMA InjectiveLength ==
  ASSUME TypeOK, NEW q \in Seq(DOMAIN heap), IsInjective(q)
  PROVE  Len(q) \in Nat /\ Len(q) <= Limit
<1>1. IsFiniteSet(Address) /\ DOMAIN heap \in SUBSET Address /\ Len(q) \in Nat
  BY AddressAssumption DEF TypeOK
<1>2. /\ IsFiniteSet(DOMAIN heap)
      /\ Cardinality(DOMAIN heap) <= Limit
      /\ Cardinality(DOMAIN heap) \in Nat /\ Limit \in Nat
  BY <1>1, FS_Subset, FS_CardinalityType DEF Limit
<1>3. q \in Injection(1..Len(q), DOMAIN heap)
  BY DEF IsInjective, Injection
<1>4. Cardinality(1..Len(q)) <= Cardinality(DOMAIN heap)
  BY <1>2, <1>3, FS_Injection
<1>5. Cardinality(1..Len(q)) = Len(q)
  <2>1. 1 \in Int /\ Len(q) \in Int
    BY <1>1
  <2>2. Cardinality(1..Len(q)) = IF 1 > Len(q) THEN 0 ELSE Len(q) - 1 + 1
    BY <2>1, FS_Interval
  <2> QED
    BY <1>1, <2>2
<1> QED
  BY <1>1, <1>2, <1>4, <1>5

\* The entries of the abstract list for the nodes of q.
Entries(q) == [i \in 1..Len(q) |-> [at |-> q[i], key |-> heap[q[i]].key]]

\* What the walk says of the variables' other readings.
ChainFact ==
  TypeOK => \A q, end :
    Chain(q, end) /\ IsInjective(q) =>
      /\ Sound <=> ~broken /\ end = NULL
      /\ Steps = 0..(Len(q) - 1)
      /\ \A i \in 1..Len(q) : At[i - 1] = q[i]
      /\ Reached = {q[i] : i \in 1..Len(q)}
      /\ Content = Entries(q)

\* The walk ends at `end`, and the list that is read off it is that of q.
LEMMA ChainWalk == ChainFact
<1> SUFFICES ASSUME TypeOK, NEW q, NEW end, Chain(q, end), IsInjective(q)
             PROVE  /\ Sound <=> ~broken /\ end = NULL
                    /\ Steps = 0..(Len(q) - 1)
                    /\ \A i \in 1..Len(q) : At[i - 1] = q[i]
                    /\ Reached = {q[i] : i \in 1..Len(q)}
                    /\ Content = Entries(q)
  BY DEF ChainFact
<1>1. /\ q \in Seq(DOMAIN heap) /\ Len(q) \in Nat /\ end \notin DOMAIN heap
      /\ NULL \notin DOMAIN heap /\ Limit \in Nat /\ Len(q) <= Limit
      /\ \A i \in 1..Len(q) : q[i] \in DOMAIN heap
  BY AddressAssumption, FS_CardinalityType, InjectiveLength DEF Chain, TypeOK, Limit
<1>2. \A i \in 0..Limit : At[i] =
        IF i < Len(q) THEN q[i + 1] ELSE IF i = Len(q) THEN end ELSE NULL
  BY <1>1, Walk DEF WalkFact, Walked
<1>3. /\ \A i \in 0..(Len(q) - 1) : At[i] = q[i + 1]
      /\ At[Len(q)] = end
      /\ \A i \in 0..Limit : i > Len(q) => At[i] = NULL
  BY <1>1, <1>2
<1>4. Sound <=> ~broken /\ end = NULL
  <2>1. ASSUME end = NULL, NEW i \in 0..Limit
        PROVE  At[i] = NULL \/ (InUse(At[i]) /\ i < Limit)
    <3>1. CASE i < Len(q)
      BY <1>1, <1>2, <3>1 DEF InUse
    <3>2. CASE i >= Len(q)
      BY <1>1, <1>2, <2>1, <3>2
    <3> QED
      BY <1>1, <3>1, <3>2
  <2>2. ASSUME end # NULL
        PROVE  ~(At[Len(q)] = NULL \/ (InUse(At[Len(q)]) /\ Len(q) < Limit))
    BY <1>1, <1>3, <2>2 DEF InUse
  <2> QED
    BY <1>1, <2>1, <2>2 DEF Sound
<1>5. Steps = 0..(Len(q) - 1)
  <2>1. ASSUME NEW i \in 0..Limit PROVE InUse(At[i]) <=> i < Len(q)
    BY <1>1, <1>2 DEF InUse
  <2> QED
    BY <1>1, <2>1 DEF Steps
<1>6. ASSUME NEW i \in 1..Len(q) PROVE At[i - 1] = q[i]
  <2>1. i - 1 \in 0..(Len(q) - 1) /\ (i - 1) + 1 = i
    BY <1>1
  <2> QED
    BY <1>3, <2>1
<1>7. Reached = {q[i] : i \in 1..Len(q)}
  <2>1. ASSUME NEW i \in Steps PROVE \E j \in 1..Len(q) : At[i] = q[j]
    <3>1. i + 1 \in 1..Len(q) /\ At[i] = q[i + 1]
      BY <1>1, <1>3, <1>5
    <3> QED
      BY <3>1
  <2>2. ASSUME NEW i \in 1..Len(q) PROVE \E j \in Steps : q[i] = At[j]
    <3>1. i - 1 \in Steps
      BY <1>1, <1>5
    <3> QED
      BY <1>6, <3>1
  <2> QED
    BY <2>1, <2>2 DEF Reached
<1>8. Content = Entries(q)
  <2>1. Cardinality(Steps) = Len(q)
    <3>1. 0 \in Int /\ Len(q) - 1 \in Int
      BY <1>1
    <3>2. Cardinality(Steps) = IF 0 > Len(q) - 1 THEN 0 ELSE (Len(q) - 1) - 0 + 1
      BY <1>5, <3>1, FS_Interval
    <3> QED
      BY <1>1, <3>2
  <2> QED
    BY <1>6, <2>1 DEF Content, Entries
<1> QED
  BY <1>4, <1>5, <1>6, <1>7, <1>8

\* The same after a step.
LEMMA ChainWalkNext == ChainFact'
BY ChainWalk, PTL

\* The nodes of the list are those of q: tail is the last; a sorted list is in order
\* of keys; and in one that is only pushed to, prev is the element before.
Good(q) ==
  /\ Chain(q, NULL) /\ IsInjective(q)
  /\ q # <<>> => tail = q[Len(q)]
  /\ sorted => \A i, j \in 1..Len(q) : i < j => heap[q[i]].key <= heap[q[j]].key
  /\ ~sorted => \A i \in 2..Len(q) : heap[q[i]].prev = q[i - 1]

\* The inductive invariant.
LInv ==
  /\ TypeOK
  /\ Sound => \E q : Good(q)
  /\ ~sorted => Sound

\* What a heap is with one node more.
LEMMA WithNode ==
  ASSUME NEW h, NEW a, NEW node
  PROVE  /\ DOMAIN With(h, a, node) = DOMAIN h \cup {a}
         /\ With(h, a, node)[a] = node
         /\ \A b \in DOMAIN h : b # a => With(h, a, node)[b] = h[b]
BY DEF With

\* What a heap is with one node less.
LEMMA WithoutNode ==
  ASSUME NEW h, NEW a
  PROVE  /\ DOMAIN Without(h, a) = DOMAIN h \ {a}
         /\ \A b \in DOMAIN h : b # a => Without(h, a)[b] = h[b]
BY DEF Without

NodeType == [next : Pointer, prev : Pointer, key : Key]
HeapOK(h) == DOMAIN h \subseteq Address /\ \A a \in DOMAIN h : h[a] \in NodeType

\* The changes of the heap keep its type.
LEMMA HeapType ==
  ASSUME NEW h, HeapOK(h), NEW a \in Address
  PROVE  /\ \A node \in NodeType : HeapOK(With(h, a, node))
         /\ HeapOK(Without(h, a))
         /\ \A b, c : c \in Pointer => HeapOK([h EXCEPT ![b].next = c])
         /\ \A b, c : c \in Pointer => HeapOK([h EXCEPT ![b].prev = c])
<1>1. ASSUME NEW node \in NodeType PROVE HeapOK(With(h, a, node))
  <2>1. /\ DOMAIN With(h, a, node) = DOMAIN h \cup {a}
        /\ With(h, a, node)[a] = node
        /\ \A b \in DOMAIN h : b # a => With(h, a, node)[b] = h[b]
    BY DEF With
  <2> HIDE DEF NodeType
  <2>2. \A b \in DOMAIN With(h, a, node) : With(h, a, node)[b] \in NodeType
    BY <1>1, <2>1 DEF HeapOK
  <2> QED
    BY <2>1, <2>2 DEF HeapOK
<1>2. HeapOK(Without(h, a))
  <2>1. /\ DOMAIN Without(h, a) = DOMAIN h \ {a}
        /\ \A b \in DOMAIN h : b # a => Without(h, a)[b] = h[b]
    BY WithoutNode
  <2> QED
    BY <2>1 DEF HeapOK
<1>3. ASSUME NEW b, NEW c \in Pointer PROVE HeapOK([h EXCEPT ![b].next = c])
  BY <1>3 DEF HeapOK, NodeType
<1>4. ASSUME NEW b, NEW c \in Pointer PROVE HeapOK([h EXCEPT ![b].prev = c])
  BY <1>4 DEF HeapOK, NodeType
<1> QED
  BY <1>1, <1>2, <1>3, <1>4

-----------------------------------------------------------------------------
(* Types.  The list is sound when it is changed: the operations find their nodes. *)

\* What the operations read of a sound list.
LEMMA Listed ==
  ASSUME TypeOK, NEW q, Good(q)
  PROVE  /\ q \in Seq(DOMAIN heap) /\ Len(q) \in Nat /\ NULL \notin DOMAIN heap
         /\ IsInjective(q)
         /\ \A i \in 1..Len(q) : q[i] \in DOMAIN heap /\ q[i] \in Address
         /\ \A i, j \in 1..Len(q) : q[i] = q[j] => i = j
         /\ header = NULL <=> q = <<>>
         /\ header # NULL => Len(q) > 0 /\ header = q[1] /\ tail = q[Len(q)]
         /\ \A i \in 1..Len(q) : heap[q[i]].next = IF i < Len(q) THEN q[i + 1] ELSE NULL
<1>1. Chain(q, NULL) /\ q \in Seq(DOMAIN heap) /\ IsInjective(q)
  BY DEF Good, Chain
<1>2. NULL \notin DOMAIN heap /\ DOMAIN heap \subseteq Address
  BY AddressAssumption DEF TypeOK
<1>3. \A i \in 1..Len(q) : q[i] \in DOMAIN heap
  BY <1>1
<1>4. \A i, j \in 1..Len(q) : q[i] = q[j] => i = j
  BY <1>1 DEF IsInjective
<1>5. header = IF q = <<>> THEN NULL ELSE q[1]
  BY <1>1 DEF Chain
<1>6. q # <<>> => Len(q) > 0 /\ 1 \in 1..Len(q)
  BY <1>1
<1> QED
  BY <1>1, <1>2, <1>3, <1>4, <1>5, <1>6 DEF Good, Chain

\* The node found for a key is the first one with it.
LEMMA FoundNode ==
  ASSUME TypeOK, NEW q, Good(q), NEW k, Found(k) # {}
  PROVE  \E m \in 1..Len(q) :
           /\ Place(k) = q[m] /\ heap[q[m]].key = k
           /\ \A i \in 1..Len(q) : heap[q[i]].key = k => m <= i
<1>1. /\ Steps = 0..(Len(q) - 1)
      /\ \A i \in 1..Len(q) : At[i - 1] = q[i]
  BY ChainWalk DEF ChainFact, Good
<1>2. Len(q) \in Nat
  BY Listed
<1>3. PICK n : n = Min(Found(k))
  OBVIOUS
<1>4. Found(k) \in SUBSET Nat
  BY <1>1, <1>2 DEF Found
<1>5. n \in Found(k) /\ \A i \in Found(k) : n <= i
  BY <1>3, <1>4, MinIsLeast
<1>6. n \in 0..(Len(q) - 1) /\ heap[At[n]].key = k
  BY <1>1, <1>5 DEF Found
<1>7. n + 1 \in 1..Len(q) /\ (n + 1) - 1 = n
  BY <1>2, <1>6
<1>8. At[n] = q[n + 1]
  BY <1>1, <1>7
<1>9. ASSUME NEW i \in 1..Len(q), heap[q[i]].key = k PROVE n + 1 <= i
  <2>1. i - 1 \in Steps /\ At[i - 1] = q[i]
    BY <1>1, <1>2
  <2>2. i - 1 \in Found(k)
    BY <1>9, <2>1 DEF Found
  <2> QED
    BY <1>2, <1>5, <1>6, <2>2
<1> QED
  BY <1>3, <1>6, <1>7, <1>8, <1>9 DEF Place

\* A greater key or the end is met: the insertion loop has a last node, and it is the
\* one before the first with a greater key.
LEMMA AuxNode ==
  ASSUME TypeOK, NEW q, Good(q), sorted, header # NULL, NEW k \in Key,
         k >= heap[header].key
  PROVE  \E m \in 1..Len(q) :
           /\ Aux(k) = q[m] /\ heap[Aux(k)].key <= k
           /\ m < Len(q) => heap[q[m + 1]].key > k
<1>0. /\ Len(q) \in Nat /\ Len(q) > 0 /\ header = q[1] /\ NULL \notin DOMAIN heap
      /\ \A i \in 1..Len(q) : q[i] \in DOMAIN heap /\ q[i] \in Address
      /\ \A i \in 1..Len(q) : heap[q[i]].next = IF i < Len(q) THEN q[i + 1] ELSE NULL
      /\ \A i, j \in 1..Len(q) : q[i] = q[j] => i = j
  BY Listed
<1>1. Reached = {q[i] : i \in 1..Len(q)}
  BY ChainWalk DEF ChainFact, Good
<1>2. k \in Int /\ \A i \in 1..Len(q) : heap[q[i]].key \in Int
  BY <1>0, AddressAssumption DEF TypeOK
<1> DEFINE stop(aux) == /\ aux = header \/ heap[aux].key <= k
                        /\ heap[aux].next = NULL \/ heap[heap[aux].next].key > k
<1>3. ASSUME NEW i \in 1..Len(q)
      PROVE  stop(q[i]) <=> /\ heap[q[i]].key <= k
                            /\ i < Len(q) => heap[q[i + 1]].key > k
  <2>1. q[i] = header => heap[q[i]].key <= k
    BY <1>0, <1>2
  <2>2. heap[q[i]].next = IF i < Len(q) THEN q[i + 1] ELSE NULL
    BY <1>0
  <2>3. i < Len(q) => q[i + 1] # NULL
    <3>1. i < Len(q) => i + 1 \in 1..Len(q)
      BY <1>0
    <3> QED
      BY <1>0, <3>1
  <2> QED
    BY <2>1, <2>2, <2>3
<1>4. \E i \in 1..Len(q) : stop(q[i])
  <2> DEFINE ends == {i \in 1..Len(q) : i < Len(q) => heap[q[i + 1]].key > k}
  <2>1. Len(q) \in ends /\ ends \in SUBSET Nat
    BY <1>0
  <2>2. PICK m : m = Min(ends)
    OBVIOUS
  <2>3. m \in ends /\ \A i \in ends : m <= i
    <3> HIDE DEF ends
    <3> QED
      BY <2>1, <2>2, MinIsLeast
  <2>4. heap[q[m]].key <= k
    <3>1. CASE m = 1
      BY <1>0, <1>2, <3>1
    <3>2. CASE m # 1
      <4>1. m - 1 \in 1..Len(q) /\ m - 1 < Len(q) /\ (m - 1) + 1 = m
        BY <1>0, <2>3, <3>2
      <4>2. m - 1 \notin ends
        BY <1>0, <2>3, <4>1
      <4> QED
        BY <1>2, <2>3, <4>1, <4>2
    <3> QED
      BY <3>1, <3>2
  <2> HIDE DEF stop
  <2>5. m \in 1..Len(q) /\ (m < Len(q) => heap[q[m + 1]].key > k)
    BY <2>3
  <2> QED
    BY <1>3, <2>4, <2>5
<1>5. stop(Aux(k)) /\ Aux(k) \in Reached
  <2> DEFINE good(aux) == aux \in Reached /\ stop(aux)
  <2>1. \E aux : good(aux)
    <3> HIDE DEF stop
    <3> QED
      BY <1>1, <1>4
  <2>2. Aux(k) = CHOOSE aux \in Reached : stop(aux)
    BY DEF Aux
  <2> HIDE DEF stop
  <2> QED
    BY <2>1, <2>2
<1>6. PICK m \in 1..Len(q) : Aux(k) = q[m]
  BY <1>1, <1>5
<1>7. stop(q[m])
  <2> HIDE DEF stop
  <2> QED
    BY <1>5, <1>6
<1> HIDE DEF stop
<1> QED
  BY <1>3, <1>6, <1>7

\* The insertions keep the types.
LEMMA InsertType ==
  ASSUME TypeOK, NEW q, Good(q), NEW a \in Address \ DOMAIN heap, NEW k \in Key,
         \/ PushFirst(a, k) \/ PushBehind(a, k)
         \/ InsertFirst(a, k) \/ InsertBehind(a, k)
  PROVE  HeapOK(heap') /\ header' \in Pointer /\ tail' \in Pointer
<1>1. /\ HeapOK(heap) /\ header \in Pointer /\ tail \in Pointer
      /\ a \in Address /\ a \in Pointer /\ NULL \in Pointer
  BY DEF TypeOK, HeapOK, NodeType, Pointer
<1>2. \A n, p \in Pointer : Node(n, p, k) \in NodeType
  BY DEF Node, NodeType
<1>3. CASE PushFirst(a, k)
  BY <1>1, <1>2, <1>3, HeapType DEF PushFirst
<1>4. CASE PushBehind(a, k)
  <2>1. HeapOK([heap EXCEPT ![tail].next = a])
    BY <1>1, HeapType
  <2>2. HeapOK(With([heap EXCEPT ![tail].next = a], a, Node(NULL, tail, k)))
    BY <1>1, <1>2, <2>1, HeapType
  <2> QED
    BY <1>1, <1>4, <2>2 DEF PushBehind
<1>5. CASE InsertFirst(a, k)
  BY <1>1, <1>2, <1>5, HeapType DEF InsertFirst
<1>6. CASE InsertBehind(a, k)
  <2>1. PICK m \in 1..Len(q) : Aux(k) = q[m]
    BY <1>6, AuxNode DEF InsertBehind
  <2>2. Aux(k) \in DOMAIN heap /\ Aux(k) \in Pointer
    BY <2>1, Listed DEF Pointer
  <2>3. heap[Aux(k)].next \in Pointer
    BY <1>1, <2>2 DEF HeapOK, NodeType
  <2>4. HeapOK([heap EXCEPT ![Aux(k)].next = a])
    BY <1>1, HeapType
  <2> DEFINE last == heap[Aux(k)].next = NULL
             node == Node(heap[Aux(k)].next, IF last THEN Aux(k) ELSE a, k)
  <2>5. node \in NodeType
    BY <1>1, <1>2, <2>2, <2>3
  <2>6. HeapOK(With([heap EXCEPT ![Aux(k)].next = a], a, node))
    <3> HIDE DEF node
    <3> QED
      BY <1>1, <2>4, <2>5, HeapType
  <2> QED
    BY <1>1, <1>6, <2>6 DEF InsertBehind
<1> QED
  BY <1>3, <1>4, <1>5, <1>6

\* delete_list keeps the types.
LEMMA DeleteType ==
  ASSUME TypeOK, NEW q, Good(q), NEW k \in Key, Found(k) # {},
         \/ DeleteHeader(Place(k)) \/ DeleteTail(Place(k))
         \/ DeleteMiddle(Place(k)) \/ DeleteUndefined(Place(k))
  PROVE  /\ HeapOK(heap') /\ header' \in Pointer /\ tail' \in Pointer
         /\ broken' \in BOOLEAN
<1>1. /\ HeapOK(heap) /\ header \in Pointer /\ tail \in Pointer /\ NULL \in Pointer
      /\ broken \in BOOLEAN
  BY DEF TypeOK, HeapOK, NodeType, Pointer
<1>2. PICK m \in 1..Len(q) : Place(k) = q[m]
  BY FoundNode
<1>3. PICK p : p = Place(k)
  OBVIOUS
<1>4. p \in DOMAIN heap /\ p \in Address
  BY <1>2, <1>3, Listed
<1>5. heap[p].next \in Pointer /\ heap[p].prev \in Pointer
  BY <1>1, <1>4 DEF HeapOK, NodeType
<1>6. CASE DeleteHeader(p)
  BY <1>1, <1>4, <1>5, <1>6, HeapType DEF DeleteHeader
<1>7. CASE DeleteTail(p)
  <2>1. HeapOK([heap EXCEPT ![heap[p].prev].next = NULL])
    BY <1>1, HeapType, <1>4
  <2>2. HeapOK(Without([heap EXCEPT ![heap[p].prev].next = NULL], p))
    BY <1>4, <2>1, HeapType
  <2> QED
    BY <1>1, <1>5, <1>7, <2>2 DEF DeleteTail
<1>8. CASE DeleteMiddle(p)
  <2> DEFINE before == heap[p].prev
             after == heap[p].next
             one == [heap EXCEPT ![before].next = after]
             both == [one EXCEPT ![after].prev = before]
  <2>1. HeapOK(one)
    BY <1>1, <1>4, <1>5, HeapType
  <2>2. HeapOK(both)
    <3> HIDE DEF one
    <3> QED
      BY <1>4, <1>5, <2>1, HeapType
  <2>3. HeapOK(Without(both, p))
    <3> HIDE DEF both
    <3> QED
      BY <1>4, <2>2, HeapType
  <2>4. both = [heap EXCEPT ![before].next = after, ![after].prev = before]
    OBVIOUS
  <2>5. heap' = Without(both, p) /\ UNCHANGED <<header, tail, broken>>
    BY <1>8, <2>4 DEF DeleteMiddle
  <2> QED
    BY <1>1, <2>3, <2>5
<1>9. CASE DeleteUndefined(p)
  BY <1>1, <1>9 DEF DeleteUndefined
<1> QED
  BY <1>1, <1>3, <1>6, <1>7, <1>8, <1>9 DEF DeleteHeader, DeleteTail, DeleteMiddle

\* A step keeps the types.
LEMMA StepType == LInv /\ [Next]_vars => TypeOK'
<1> SUFFICES ASSUME LInv, [Next]_vars PROVE TypeOK'
  OBVIOUS
<1>1. TypeOK
  BY DEF LInv
<1>2. /\ HeapOK(heap) /\ header \in Pointer /\ tail \in Pointer
      /\ broken \in BOOLEAN /\ sorted \in BOOLEAN
  BY <1>1 DEF TypeOK, HeapOK, NodeType
<1>3. ASSUME HeapOK(heap'), header' \in Pointer, tail' \in Pointer,
             broken' \in BOOLEAN, sorted' \in BOOLEAN
      PROVE  TypeOK'
  BY <1>3 DEF TypeOK, HeapOK, NodeType, Pointer
<1>4. CASE UNCHANGED vars
  BY <1>2, <1>3, <1>4 DEF vars
<1>5. CASE Sound /\ Pop /\ UNCHANGED <<broken, sorted>>
  <2>1. PICK q : Good(q)
    BY <1>5 DEF LInv
  <2>2. header \in DOMAIN heap
    BY <1>1, <1>5, <2>1, Listed DEF Pop
  <2>3. heap[header].next \in Pointer /\ NULL \in Pointer
    BY <1>2, <2>2 DEF HeapOK, NodeType, Pointer
  <2>4. header \in Address
    BY <1>2, <2>2 DEF HeapOK
  <2>5. HeapOK([heap EXCEPT ![heap[header].next].prev = NULL])
    BY <1>2, <2>3, <2>4, HeapType
  <2> QED
    BY <1>2, <1>3, <1>5, <2>3, <2>5 DEF Pop
<1>6. ASSUME Sound, NEW a \in Address \ DOMAIN heap, NEW k \in Key,
             \/ PushFirst(a, k) \/ PushBehind(a, k)
             \/ InsertFirst(a, k) \/ InsertBehind(a, k),
             UNCHANGED <<broken, sorted>>
      PROVE  TypeOK'
  <2>1. PICK q : Good(q)
    BY <1>6 DEF LInv
  <2> QED
    BY <1>1, <1>2, <1>3, <1>6, <2>1, InsertType
<1>7. ASSUME Sound, NEW k \in Key, Found(k) # {},
             \/ DeleteHeader(Place(k)) \/ DeleteTail(Place(k))
             \/ DeleteMiddle(Place(k)) \/ DeleteUndefined(Place(k)),
             UNCHANGED sorted
      PROVE  TypeOK'
  <2>1. PICK q : Good(q)
    BY <1>7 DEF LInv
  <2> QED
    BY <1>1, <1>2, <1>3, <1>7, <2>1, DeleteType
<1> QED
  BY <1>4, <1>5, <1>6, <1>7 DEF Next, Halted

-----------------------------------------------------------------------------
(* What the changes of the heap do to the list.  Each is said of any heap that differs
   from the old one as those of the operations do. *)

Entry == [at : Address, key : Key]

\* The entries of a list are entries.
LEMMA EntriesType ==
  ASSUME TypeOK, NEW q \in Seq(DOMAIN heap)
  PROVE  /\ Entries(q) \in Seq(Entry) /\ Len(Entries(q)) = Len(q)
         /\ \A i \in 1..Len(q) :
              Entries(q)[i] = [at |-> q[i], key |-> heap[q[i]].key]
<1>1. Len(q) \in Nat /\ \A i \in 1..Len(q) : q[i] \in DOMAIN heap
  OBVIOUS
<1>2. \A i \in 1..Len(q) : [at |-> q[i], key |-> heap[q[i]].key] \in Entry
  BY <1>1 DEF TypeOK, Entry
<1> QED
  BY <1>1, <1>2 DEF Entries

\* A sequence of nodes in use, given by its elements.
LEMMA NodesOf ==
  ASSUME NEW S, NEW r \in Seq(S), NEW T, \A i \in 1..Len(r) : r[i] \in T
  PROVE  r \in Seq(T)
OBVIOUS

\* A node linked in at position j.
LinkedIn(q, j, a, k) ==
  /\ DOMAIN heap' = DOMAIN heap \cup {a}
  /\ heap'[a].key = k /\ heap'[a].next = IF j <= Len(q) THEN q[j] ELSE NULL
  /\ \A b \in DOMAIN heap :
       /\ heap'[b].key = heap[b].key /\ heap'[b].prev = heap[b].prev
       /\ heap'[b].next = IF j > 1 /\ b = q[j - 1] THEN a ELSE heap[b].next
  /\ header' = IF j = 1 THEN a ELSE header
  /\ tail' = IF j = Len(q) + 1 THEN a ELSE tail
  /\ sorted' = sorted /\ broken' = broken

\* It is in order of keys, or at the end with the old tail as its prev.
Placed(q, j, a, k) ==
  /\ sorted => /\ \A i \in 1..Len(q) : i < j => heap[q[i]].key <= k
               /\ \A i \in 1..Len(q) : i >= j => heap[q[i]].key > k
  /\ ~sorted => j = Len(q) + 1 /\ (j > 1 => heap'[a].prev = q[j - 1])

\* The list is then the old one with that node in it.
LEMMA NodeLinkedIn ==
  ASSUME TypeOK, TypeOK', NEW q, Good(q), NEW a \in Address \ DOMAIN heap,
         NEW k \in Key,
         NEW j \in 1..(Len(q) + 1), LinkedIn(q, j, a, k), Placed(q, j, a, k)
  PROVE  /\ Good(InsertAt(q, j, a))'
         /\ Entries(InsertAt(q, j, a))'
              = InsertAt(Entries(q), j, [at |-> a, key |-> k])
<1>0. /\ q \in Seq(DOMAIN heap) /\ Len(q) \in Nat /\ NULL \notin DOMAIN heap
      /\ \A i \in 1..Len(q) : q[i] \in DOMAIN heap /\ q[i] \in Address /\ q[i] # a
      /\ \A i, l \in 1..Len(q) : q[i] = q[l] => i = l
      /\ header = NULL <=> q = <<>>
      /\ header # NULL => Len(q) > 0 /\ header = q[1] /\ tail = q[Len(q)]
      /\ \A i \in 1..Len(q) : heap[q[i]].next = IF i < Len(q) THEN q[i + 1] ELSE NULL
  BY Listed
<1>1. PICK r : r = InsertAt(q, j, a)
  OBVIOUS
<1>2. q \in Seq(Address) /\ a \in Address
  BY <1>0, NodesOf
<1>3. /\ r \in Seq(Address) /\ Len(r) = Len(q) + 1
      /\ \A i \in 1..(Len(q) + 1) :
           r[i] = IF i < j THEN q[i] ELSE IF i = j THEN a ELSE q[i - 1]
  <2>1. InsertAt(q, j, a) \in Seq(Address)
    BY <1>2, InsertAtElements
  <2>2. Len(InsertAt(q, j, a)) = Len(q) + 1
    BY <1>2, InsertAtElements
  <2>3. \A i \in 1..(Len(q) + 1) : InsertAt(q, j, a)[i] =
          IF i < j THEN q[i] ELSE IF i = j THEN a ELSE q[i - 1]
    BY <1>2, InsertAtElements
  <2> QED
    BY <1>1, <2>1, <2>2, <2>3
<1>4. ASSUME NEW i \in 1..Len(r) PROVE r[i] \in DOMAIN heap'
  <2>1. DOMAIN heap' = DOMAIN heap \cup {a}
    BY DEF LinkedIn
  <2>2. /\ i < j => i \in 1..Len(q) /\ r[i] = q[i]
        /\ i = j => r[i] = a
        /\ i > j => i - 1 \in 1..Len(q) /\ r[i] = q[i - 1]
    BY <1>0, <1>3
  <2>3. i < j \/ i = j \/ i > j
    BY <1>0, <1>3
  <2> QED
    BY <1>0, <2>1, <2>2, <2>3
<1>5. r \in Seq(DOMAIN heap') /\ NULL \notin DOMAIN heap'
  BY <1>3, <1>4, NodesOf, AddressAssumption DEF TypeOK
<1>6. ASSUME NEW i \in 1..Len(r), NEW l \in 1..Len(r), r[i] = r[l] PROVE i = l
  <2>1. /\ i < j => i \in 1..Len(q)
        /\ l < j => l \in 1..Len(q)
        /\ i > j => i - 1 \in 1..Len(q)
        /\ l > j => l - 1 \in 1..Len(q)
    BY <1>0, <1>3
  <2>2. CASE i < j /\ l < j
    <3>1. r[i] = q[i] /\ r[l] = q[l]
      BY <1>3, <2>2
    <3> QED
      BY <1>0, <1>6, <2>1, <2>2, <3>1
  <2>3. CASE i > j /\ l > j
    <3>0. i \in 1..(Len(q) + 1) /\ l \in 1..(Len(q) + 1)
      BY <1>3
    <3>1. r[i] = q[i - 1] /\ r[l] = q[l - 1]
      <4>1. r[i] = q[i - 1]
        BY <1>3, <2>3, <3>0
      <4>2. r[l] = q[l - 1]
        BY <1>3, <2>3, <3>0
      <4> QED
        BY <4>1, <4>2
    <3>2. i - 1 \in 1..Len(q) /\ l - 1 \in 1..Len(q) /\ q[i - 1] = q[l - 1]
      BY <1>6, <2>1, <2>3, <3>1
    <3>3. i - 1 = l - 1
      BY <1>0, <3>2
    <3> QED
      BY <3>0, <3>3
  <2>4. CASE i = j \/ l = j
    <3>1. \A n \in 1..Len(r) : r[n] = a => n = j
      <4>1. ASSUME NEW n \in 1..Len(r), n # j PROVE r[n] # a
        <5>1. CASE n < j
          <6>1. n \in 1..Len(q) /\ r[n] = q[n]
            BY <1>0, <1>3, <5>1
          <6> QED
            BY <1>0, <6>1
        <5>2. CASE n > j
          <6>1. n - 1 \in 1..Len(q) /\ r[n] = q[n - 1]
            BY <1>0, <1>3, <5>2
          <6> QED
            BY <1>0, <6>1
        <5> QED
          BY <1>3, <4>1, <5>1, <5>2
      <4> QED
        BY <4>1
    <3>2. i = j => r[i] = a
      BY <1>3
    <3>3. l = j => r[l] = a
      BY <1>3
    <3> QED
      BY <1>6, <2>4, <3>1, <3>2, <3>3
  <2>5. ASSUME NEW n \in 1..Len(r), NEW o \in 1..Len(r), n < j, o > j PROVE r[n] # r[o]
    <3>1. n \in 1..Len(q) /\ o - 1 \in 1..Len(q) /\ n # o - 1
      BY <1>0, <1>3, <2>5
    <3>2. r[n] = q[n] /\ r[o] = q[o - 1]
      BY <1>3, <2>5
    <3> QED
      BY <1>0, <3>1, <3>2
  <2> QED
    BY <1>3, <1>6, <2>2, <2>3, <2>4, <2>5
<1>7. IsInjective(r)
  BY <1>3, <1>6 DEF IsInjective
<1>8. ASSUME NEW i \in 1..Len(r)
      PROVE  heap'[r[i]].next = IF i < Len(r) THEN r[i + 1] ELSE NULL
  <2>1. CASE i = j
    <3>1. r[i] = a /\ heap'[a].next = IF j <= Len(q) THEN q[j] ELSE NULL
      BY <1>3, <2>1 DEF LinkedIn
    <3>2. j <= Len(q) => r[i + 1] = q[j]
      BY <1>0, <1>3, <2>1
    <3> QED
      BY <1>0, <1>3, <2>1, <3>1, <3>2
  <2>2. CASE i < j
    <3>1. i \in 1..Len(q) /\ r[i] = q[i] /\ i < Len(r)
      BY <1>0, <1>3, <2>2
    <3>2. heap'[q[i]].next = IF j > 1 /\ q[i] = q[j - 1] THEN a ELSE heap[q[i]].next
      BY <1>0, <3>1 DEF LinkedIn
    <3>3. CASE i = j - 1
      BY <1>0, <1>3, <2>2, <3>1, <3>2, <3>3
    <3>4. CASE i # j - 1
      <4>1. j - 1 \in 1..Len(q) /\ q[i] # q[j - 1]
        BY <1>0, <2>2, <3>1, <3>4
      <4>2. i < Len(q) /\ i + 1 < j
        BY <1>0, <2>2, <3>1, <3>4
      <4>3. heap'[q[i]].next = q[i + 1] /\ r[i + 1] = q[i + 1]
        BY <1>0, <1>3, <3>1, <3>2, <4>1, <4>2
      <4> QED
        BY <3>1, <4>3
    <3> QED
      BY <3>3, <3>4
  <2>3. CASE i > j
    <3>1. i - 1 \in 1..Len(q) /\ r[i] = q[i - 1] /\ i - 1 >= j
      BY <1>0, <1>3, <2>3
    <3>2. j > 1 => j - 1 \in 1..Len(q) /\ q[i - 1] # q[j - 1]
      BY <1>0, <3>1
    <3>3. heap'[q[i - 1]].next = heap[q[i - 1]].next
      BY <1>0, <3>1, <3>2 DEF LinkedIn
    <3>4. heap[q[i - 1]].next = IF i - 1 < Len(q) THEN q[(i - 1) + 1] ELSE NULL
      BY <1>0, <3>1
    <3>5. i < Len(r) => r[i + 1] = q[(i - 1) + 1]
      BY <1>0, <1>3, <2>3
    <3> QED
      BY <1>0, <1>3, <3>1, <3>3, <3>4, <3>5
  <2> QED
    BY <1>3, <2>1, <2>2, <2>3
<1>9. header' = r[1] /\ tail' = r[Len(r)] /\ r # <<>>
  <2>1. CASE j = 1
    BY <1>0, <1>3, <2>1 DEF LinkedIn
  <2>2. CASE j # 1
    <3>1. Len(q) > 0 /\ 1 < j
      BY <1>0, <2>2
    <3>2. header # NULL
      BY <1>0, <3>1
    <3> QED
      BY <1>0, <1>3, <3>1, <3>2 DEF LinkedIn
  <2> QED
    BY <2>1, <2>2
<1>10. Chain(r, NULL)'
  BY <1>5, <1>8, <1>9 DEF Chain
<1>11. ASSUME sorted, NEW i \in 1..Len(r), NEW l \in 1..Len(r), i < l
       PROVE  heap'[r[i]].key <= heap'[r[l]].key
  <2>1. /\ heap'[a].key = k /\ k \in Int
        /\ \A b \in DOMAIN heap : heap'[b].key = heap[b].key /\ heap[b].key \in Int
    BY AddressAssumption DEF LinkedIn, TypeOK
  <2>2. /\ i < j => i \in 1..Len(q)
        /\ l < j => l \in 1..Len(q)
        /\ i > j => i - 1 \in 1..Len(q)
        /\ l > j => l - 1 \in 1..Len(q)
    BY <1>0, <1>3
  <2>3. /\ \A n \in 1..Len(q) : n < j => heap[q[n]].key <= k
        /\ \A n \in 1..Len(q) : n >= j => heap[q[n]].key > k
    BY <1>11 DEF Placed
  <2>4. \A n, o \in 1..Len(q) : n < o => heap[q[n]].key <= heap[q[o]].key
    BY <1>11 DEF Good
  <2>5. \A n \in 1..Len(q) : heap'[q[n]].key = heap[q[n]].key /\ heap[q[n]].key \in Int
    BY <1>0, <2>1
  <2>6. CASE l < j
    <3>1. i \in 1..Len(q) /\ l \in 1..Len(q) /\ r[i] = q[i] /\ r[l] = q[l]
      BY <1>3, <1>11, <2>2, <2>6
    <3>2. heap[q[i]].key <= heap[q[l]].key
      BY <1>11, <2>4, <3>1
    <3> QED
      BY <2>5, <3>1, <3>2
  <2>7. CASE l = j
    BY <1>3, <1>11, <2>1, <2>2, <2>3, <2>5, <2>7
  <2>8. CASE l > j /\ i < j
    BY <1>3, <1>11, <2>2, <2>4, <2>5, <2>8
  <2>9. CASE l > j /\ i = j
    BY <1>3, <1>11, <2>1, <2>2, <2>3, <2>5, <2>9
  <2>10. CASE i > j
    <3>0. j \in Int /\ i \in 1..(Len(q) + 1) /\ l \in 1..(Len(q) + 1) /\ l > j
      BY <1>0, <1>3, <1>11, <2>10
    <3>1. i - 1 < l - 1 /\ r[i] = q[i - 1] /\ r[l] = q[l - 1]
      <4>1. i - 1 < l - 1
        BY <1>11, <3>0
      <4>2. r[i] = q[i - 1]
        BY <1>3, <2>10, <3>0
      <4>3. r[l] = q[l - 1]
        BY <1>3, <3>0
      <4> QED
        BY <4>1, <4>2, <4>3
    <3>2. i - 1 \in 1..Len(q) /\ l - 1 \in 1..Len(q)
      BY <1>11, <2>2, <2>10
    <3>3. heap[q[i - 1]].key <= heap[q[l - 1]].key
      BY <2>4, <3>1, <3>2
    <3> QED
      BY <2>5, <3>1, <3>2, <3>3
  <2> QED
    BY <1>3, <1>11, <2>6, <2>7, <2>8, <2>9, <2>10
<1>12. ASSUME ~sorted, NEW i \in 2..Len(r) PROVE heap'[r[i]].prev = r[i - 1]
  <2>1. j = Len(q) + 1 /\ (j > 1 => heap'[a].prev = q[j - 1])
    BY <1>12 DEF Placed
  <2>2. CASE i = j
    <3>1. r[i] = a /\ r[i - 1] = q[j - 1] /\ j > 1
      BY <1>0, <1>3, <2>1, <2>2
    <3> QED
      BY <2>1, <3>1
  <2>3. CASE i # j
    <3>1. i \in 2..Len(q) /\ i < j /\ i \in 1..Len(q) /\ i - 1 \in 1..Len(q)
      BY <1>0, <1>3, <2>1, <2>3
    <3>2. r[i] = q[i] /\ r[i - 1] = q[i - 1]
      BY <1>0, <1>3, <3>1
    <3>3. heap'[q[i]].prev = heap[q[i]].prev
      BY <1>0, <3>1 DEF LinkedIn
    <3>4. heap[q[i]].prev = q[i - 1]
      BY <1>12, <3>1 DEF Good
    <3> QED
      BY <3>2, <3>3, <3>4
  <2> QED
    BY <2>2, <2>3
<1>13. Good(r)'
  <2>1. sorted' = sorted
    BY DEF LinkedIn
  <2> QED
    BY <1>7, <1>9, <1>10, <1>11, <1>12, <2>1 DEF Good
<1>14. Entries(r)' = InsertAt(Entries(q), j, [at |-> a, key |-> k])
  <2>1. PICK e : e = [at |-> a, key |-> k]
    OBVIOUS
  <2>2. e \in Entry
    BY <2>1 DEF Entry
  <2>3. /\ Entries(q) \in Seq(Entry) /\ Len(Entries(q)) = Len(q)
        /\ \A i \in 1..Len(q) : Entries(q)[i] = [at |-> q[i], key |-> heap[q[i]].key]
    BY <1>0, EntriesType
  <2>4. PICK es : es = Entries(q)
    OBVIOUS
  <2>5. PICK fs : fs = InsertAt(es, j, e)
    OBVIOUS
  <2>6. /\ fs \in Seq(Entry) /\ Len(fs) = Len(q) + 1
        /\ \A i \in 1..(Len(q) + 1) :
             fs[i] = IF i < j THEN es[i] ELSE IF i = j THEN e ELSE es[i - 1]
    <3>1. es \in Seq(Entry) /\ Len(es) = Len(q) /\ j \in 1..(Len(es) + 1)
      BY <2>3, <2>4
    <3>2. fs \in Seq(Entry)
      BY <2>2, <2>5, <3>1, InsertAtElements
    <3>3. Len(fs) = Len(es) + 1
      BY <2>2, <2>5, <3>1, InsertAtElements
    <3>4. \A i \in 1..(Len(es) + 1) :
            fs[i] = IF i < j THEN es[i] ELSE IF i = j THEN e ELSE es[i - 1]
      BY <2>2, <2>5, <3>1, InsertAtElements
    <3> QED
      BY <3>1, <3>2, <3>3, <3>4
  <2>7. ASSUME NEW i \in 1..(Len(q) + 1)
        PROVE  fs[i] = [at |-> r[i], key |-> heap'[r[i]].key]
    <3>1. heap'[a].key = k /\ \A b \in DOMAIN heap : heap'[b].key = heap[b].key
      BY DEF LinkedIn
    <3>2. CASE i < j
      <4>1. i \in 1..Len(q) /\ fs[i] = es[i] /\ r[i] = q[i]
        BY <1>0, <1>3, <2>6, <3>2
      <4>2. es[i] = [at |-> q[i], key |-> heap[q[i]].key]
        BY <2>3, <2>4, <4>1
      <4>3. heap'[q[i]].key = heap[q[i]].key
        BY <1>0, <3>1, <4>1
      <4> QED
        BY <4>1, <4>2, <4>3
    <3>3. CASE i = j
      BY <1>3, <2>1, <2>6, <3>1, <3>3
    <3>4. CASE i > j
      <4>1. i - 1 \in 1..Len(q) /\ fs[i] = es[i - 1] /\ r[i] = q[i - 1]
        BY <1>0, <1>3, <2>6, <3>4
      <4>2. es[i - 1] = [at |-> q[i - 1], key |-> heap[q[i - 1]].key]
        BY <2>3, <2>4, <4>1
      <4>3. heap'[q[i - 1]].key = heap[q[i - 1]].key
        BY <1>0, <3>1, <4>1
      <4> QED
        BY <4>1, <4>2, <4>3
    <3> QED
      BY <3>2, <3>3, <3>4
  <2>8. fs = [i \in 1..(Len(q) + 1) |-> [at |-> r[i], key |-> heap'[r[i]].key]]
    <3>1. DOMAIN fs = 1..(Len(q) + 1) /\ fs = [i \in DOMAIN fs |-> fs[i]]
      BY <2>6
    <3> QED
      BY <2>7, <3>1
  <2> QED
    BY <1>3, <2>1, <2>4, <2>5, <2>8 DEF Entries
<1> QED
  BY <1>1, <1>13, <1>14

\* A list that is not broken reads as the entries of its nodes.
ReadsAs ==
  TypeOK /\ ~broken => \A q : Good(q) => Sound /\ Content = Entries(q)

\* Its nodes are all that the walk meets.
LEMMA Reads == ReadsAs
BY ChainWalk DEF ReadsAs, ChainFact, Good

\* The same after a step.
LEMMA ReadsNext == ReadsAs'
BY Reads, PTL

\* The abstract list.
list == IF Sound THEN Content ELSE NULL

\* The insertion of the abstract list is that of Lists.
LEMMA SameInsert ==
  \A es, e, later : Abstract!InsertBeforeFirst(es, e, later)
                       = InsertBeforeFirst(es, e, later)
BY DEF Abstract!InsertBeforeFirst, Abstract!InsertAt, Abstract!Min,
       InsertBeforeFirst, InsertAt, Min

\* So are its deletions.
LEMMA SameDelete ==
  \A es, m : /\ Abstract!DeleteSorted(es, m) = DeleteSorted(es, m)
             /\ Abstract!RemoveAt(es, m) = RemoveAt(es, m)
BY DEF Abstract!DeleteSorted, Abstract!RemoveAt, DeleteSorted, RemoveAt

\* So is the least of a set.
LEMMA SameMin == \A S : Abstract!Min(S) = Min(S)
BY DEF Abstract!Min, Min

\* To append is to insert behind the last.
LEMMA AppendIsInsertAt ==
  ASSUME NEW S, NEW es \in Seq(S), NEW e \in S
  PROVE  Append(es, e) = InsertAt(es, Len(es) + 1, e)
<1>1. Len(es) \in Nat /\ Len(es) + 1 \in 1..(Len(es) + 1)
  OBVIOUS
<1>2. PICK j : j = Len(es) + 1
  OBVIOUS
<1>3. j \in 1..(Len(es) + 1)
  BY <1>1, <1>2
<1>4. PICK fs : fs = InsertAt(es, j, e)
  OBVIOUS
<1>5. fs \in Seq(S)
  BY <1>3, <1>4, InsertAtElements
<1>6. Len(fs) = Len(es) + 1
  BY <1>3, <1>4, InsertAtElements
<1>7. \A i \in 1..(Len(es) + 1) :
        fs[i] = IF i < j THEN es[i] ELSE IF i = j THEN e ELSE es[i - 1]
  <2>1. \A i \in 1..(Len(es) + 1) : InsertAt(es, j, e)[i] =
          IF i < j THEN es[i] ELSE IF i = j THEN e ELSE es[i - 1]
    BY <1>3, InsertAtElements
  <2> QED
    BY <1>4, <2>1
<1>8. PICK gs : gs = Append(es, e)
  OBVIOUS
<1>9. gs \in Seq(S) /\ Len(gs) = Len(es) + 1
  BY <1>8
<1>10. \A i \in 1..(Len(es) + 1) : gs[i] = IF i = Len(es) + 1 THEN e ELSE es[i]
  BY <1>1, <1>8
<1>11. \A i \in 1..Len(gs) : gs[i] = fs[i]
  BY <1>1, <1>2, <1>7, <1>9, <1>10
<1>12. gs = fs
  BY <1>5, <1>6, <1>9, <1>11, SeqEqual
<1> QED
  BY <1>2, <1>4, <1>8, <1>12

\* Where the insertion loops of the abstract list put an entry.
LEMMA InsertsAt ==
  ASSUME NEW S, NEW es \in Seq(S), NEW e \in S, NEW j \in 1..(Len(es) + 1), NEW later,
         later = {i \in 1..Len(es) : i >= j}
  PROVE  InsertBeforeFirst(es, e, later) = InsertAt(es, j, e)
<1>1. Len(es) \in Nat
  OBVIOUS
<1>2. CASE j = Len(es) + 1
  <2>1. later = {}
    BY <1>1, <1>2
  <2> QED
    BY <1>2, <2>1, AppendIsInsertAt DEF InsertBeforeFirst
<1>3. CASE j <= Len(es)
  <2>1. j \in later /\ later \in SUBSET Nat /\ \A i \in later : j <= i
    BY <1>1, <1>3
  <2>2. PICK m : m = Min(later)
    OBVIOUS
  <2>3. m \in later /\ \A i \in later : m <= i
    BY <2>1, <2>2, MinIsLeast
  <2>4. m = j
    BY <2>1, <2>3
  <2> QED
    BY <2>1, <2>2, <2>4 DEF InsertBeforeFirst
<1> QED
  BY <1>1, <1>2, <1>3

\* To link a node in at its place is an insertion of the abstract list.
LEMMA InsertionSimulates ==
  ASSUME TypeOK, TypeOK', Sound, NEW q, Good(q), NEW a \in Address \ DOMAIN heap,
         NEW k \in Key, NEW j \in 1..(Len(q) + 1),
         LinkedIn(q, j, a, k), Placed(q, j, a, k)
  PROVE  /\ \E r : Good(r)'
         /\ Sound'
         /\ \E e \in Entry : Abstract!Push(e) \/ Abstract!Insert(e)
<1>1. PICK r : r = InsertAt(q, j, a)
  OBVIOUS
<1>2. PICK e : e = [at |-> a, key |-> k]
  OBVIOUS
<1>3. Good(r)' /\ Entries(r)' = InsertAt(Entries(q), j, e)
  BY <1>1, <1>2, NodeLinkedIn
<1>4. ~broken /\ ~broken'
  BY DEF Sound, LinkedIn
<1>5. Sound' /\ Content' = Entries(r)'
  BY <1>3, <1>4, ReadsNext DEF ReadsAs
<1>6. Content = Entries(q)
  BY <1>4, Reads DEF ReadsAs
<1>7. /\ q \in Seq(DOMAIN heap) /\ Len(q) \in Nat
      /\ \A i \in 1..Len(q) : q[i] \in DOMAIN heap
  BY Listed
<1>8. PICK es : es = Entries(q)
  OBVIOUS
<1>9. /\ es \in Seq(Entry) /\ Len(es) = Len(q)
      /\ \A i \in 1..Len(q) : es[i] = [at |-> q[i], key |-> heap[q[i]].key]
  BY <1>7, <1>8, EntriesType
<1>10. e \in Entry /\ e.key = k
  BY <1>2 DEF Entry
<1>11. list = es /\ list' = InsertAt(es, j, e)
  BY <1>3, <1>5, <1>6, <1>8 DEF list
<1>12. CASE ~sorted
  <2>1. j = Len(es) + 1
    BY <1>9, <1>12 DEF Placed
  <2>2. list' = Append(es, e)
    BY <1>9, <1>10, <1>11, <2>1, AppendIsInsertAt
  <2>3. Abstract!Push(e)
    BY <1>11, <1>12, <2>2 DEF Abstract!Push, list
  <2> QED
    BY <1>3, <1>5, <1>10, <2>3
<1>13. CASE sorted
  <2>1. ASSUME NEW i \in 1..Len(es) PROVE es[i].key > k <=> i >= j
    <3>0. i \in 1..Len(q)
      BY <1>9
    <3>1. i \in 1..Len(q) /\ es[i].key = heap[q[i]].key
      <4>1. es[i] = [at |-> q[i], key |-> heap[q[i]].key]
        BY <1>9, <3>0
      <4> QED
        BY <3>0, <4>1
    <3>2. heap[q[i]].key \in Int /\ k \in Int
      BY <1>7, <3>1, AddressAssumption DEF TypeOK
    <3>3. /\ i < j => heap[q[i]].key <= k
          /\ i >= j => heap[q[i]].key > k
      BY <1>13, <3>1 DEF Placed
    <3> QED
      BY <1>7, <3>1, <3>2, <3>3
  <2>2. PICK later : later = {i \in DOMAIN es : es[i].key > e.key}
    OBVIOUS
  <2>3. later = {i \in 1..Len(es) : i >= j}
    BY <1>9, <1>10, <2>1, <2>2
  <2>4. list' = InsertBeforeFirst(es, e, later)
    BY <1>9, <1>10, <1>11, <2>3, InsertsAt
  <2>5. list' = InsertBeforeFirst(list, e, {i \in DOMAIN list : list[i].key > e.key})
    BY <1>11, <2>2, <2>4
  <2>6. Abstract!Insert(e)
    BY <1>13, <2>5, SameInsert DEF Abstract!Insert, list
  <2> QED
    BY <1>3, <1>5, <1>10, <2>6
<1> QED
  BY <1>12, <1>13

\* Each of the four ways in which the code links a node in puts it at its place.
LEMMA InsertStep ==
  ASSUME TypeOK, TypeOK', Sound, NEW q, Good(q), NEW a \in Address \ DOMAIN heap,
         NEW k \in Key, UNCHANGED <<sorted, broken>>,
         \/ PushFirst(a, k) \/ PushBehind(a, k)
         \/ InsertFirst(a, k) \/ InsertBehind(a, k)
  PROVE  \E j \in 1..(Len(q) + 1) : LinkedIn(q, j, a, k) /\ Placed(q, j, a, k)
<1>0. /\ q \in Seq(DOMAIN heap) /\ Len(q) \in Nat /\ NULL \notin DOMAIN heap
      /\ \A i \in 1..Len(q) : q[i] \in DOMAIN heap /\ q[i] \in Address /\ q[i] # a
      /\ \A i, l \in 1..Len(q) : q[i] = q[l] => i = l
      /\ header = NULL <=> q = <<>>
      /\ header # NULL => Len(q) > 0 /\ header = q[1] /\ tail = q[Len(q)]
      /\ \A i \in 1..Len(q) : heap[q[i]].next = IF i < Len(q) THEN q[i + 1] ELSE NULL
  BY Listed
<1>1. \A b \in DOMAIN heap :
        /\ heap[b] \in [next : Pointer, prev : Pointer, key : Key]
        /\ heap[b].key \in Int /\ b # a
  BY AddressAssumption DEF TypeOK
<1>2. k \in Int
  BY AddressAssumption
<1>3. CASE PushFirst(a, k)
  <2>1. Len(q) = 0 /\ q = <<>>
    BY <1>0, <1>3 DEF PushFirst
  <2>2. heap' = With(heap, a, Node(NULL, NULL, k))
    BY <1>3 DEF PushFirst
  <2>3. /\ DOMAIN heap' = DOMAIN heap \cup {a} /\ heap'[a] = Node(NULL, NULL, k)
        /\ \A b \in DOMAIN heap : heap'[b] = heap[b]
    BY <1>1, <2>2 DEF With
  <2>4. LinkedIn(q, 1, a, k)
    BY <1>3, <2>1, <2>3 DEF LinkedIn, PushFirst, Node
  <2>5. Placed(q, 1, a, k)
    BY <2>1 DEF Placed
  <2>6. 1 \in 1..(Len(q) + 1)
    BY <1>0
  <2> QED
    BY <2>4, <2>5, <2>6
<1>4. CASE PushBehind(a, k)
  <2>1. /\ Len(q) > 0 /\ tail = q[Len(q)] /\ Len(q) \in 1..Len(q)
        /\ header # NULL /\ ~sorted
    BY <1>0, <1>4 DEF PushBehind
  <2>2. PICK h : h = [heap EXCEPT ![tail].next = a]
    OBVIOUS
  <2>3. /\ DOMAIN h = DOMAIN heap
        /\ \A b \in DOMAIN heap :
             /\ h[b].key = heap[b].key /\ h[b].prev = heap[b].prev
             /\ h[b].next = IF b = tail THEN a ELSE heap[b].next
    BY <1>1, <2>2
  <2>4. heap' = With(h, a, Node(NULL, tail, k)) /\ tail' = a /\ header' = header
    BY <1>4, <2>2 DEF PushBehind
  <2>5. /\ DOMAIN heap' = DOMAIN heap \cup {a} /\ heap'[a] = Node(NULL, tail, k)
        /\ \A b \in DOMAIN heap : heap'[b] = h[b]
    BY <1>1, <2>3, <2>4 DEF With
  <2>6. PICK j : j = Len(q) + 1
    OBVIOUS
  <2>7. j \in 1..(Len(q) + 1) /\ j > 1 /\ j - 1 = Len(q) /\ ~(j <= Len(q)) /\ j # 1
    BY <1>0, <2>1, <2>6
  <2>8. LinkedIn(q, j, a, k)
    BY <2>1, <2>3, <2>4, <2>5, <2>6, <2>7 DEF LinkedIn, Node
  <2>9. Placed(q, j, a, k)
    BY <2>1, <2>5, <2>6, <2>7 DEF Placed, Node
  <2> QED
    BY <2>7, <2>8, <2>9
<1>5. CASE InsertFirst(a, k)
  <2>1. /\ Len(q) > 0 /\ 1 \in 1..Len(q) /\ header = q[1] /\ header # NULL /\ sorted
        /\ k < heap[header].key
    BY <1>0, <1>5 DEF InsertFirst
  <2>2. heap' = With(heap, a, Node(header, NULL, k)) /\ header' = a /\ tail' = tail
    BY <1>5 DEF InsertFirst
  <2>3. /\ DOMAIN heap' = DOMAIN heap \cup {a} /\ heap'[a] = Node(header, NULL, k)
        /\ \A b \in DOMAIN heap : heap'[b] = heap[b]
    BY <1>1, <2>2 DEF With
  <2>4. LinkedIn(q, 1, a, k)
    BY <1>0, <2>1, <2>2, <2>3 DEF LinkedIn, Node
  <2>5. ASSUME NEW i \in 1..Len(q) PROVE heap[q[i]].key > k
    <3>1. 1 < i => heap[q[1]].key <= heap[q[i]].key
      BY <2>1 DEF Good
    <3>2. heap[q[1]].key \in Int /\ heap[q[i]].key \in Int
      BY <1>0, <1>1, <2>1
    <3> QED
      BY <1>0, <1>2, <2>1, <3>1, <3>2
  <2>6. Placed(q, 1, a, k)
    BY <1>0, <2>1, <2>5 DEF Placed
  <2>7. 1 \in 1..(Len(q) + 1)
    BY <1>0
  <2> QED
    BY <2>4, <2>6, <2>7
<1>6. CASE InsertBehind(a, k)
  <2>1. sorted /\ header # NULL /\ k >= heap[header].key
    BY <1>6 DEF InsertBehind
  <2>2. PICK m \in 1..Len(q) :
          /\ Aux(k) = q[m] /\ heap[Aux(k)].key <= k
          /\ m < Len(q) => heap[q[m + 1]].key > k
    BY <2>1, AuxNode
  <2>3. PICK aux : aux = Aux(k)
    OBVIOUS
  <2>4. aux = q[m] /\ aux \in DOMAIN heap /\ aux # a /\ heap[q[m]].key <= k
    BY <1>0, <2>2, <2>3
  <2>5. heap[aux].next = IF m < Len(q) THEN q[m + 1] ELSE NULL
    BY <1>0, <2>4
  <2>6. PICK node :
          node = Node(heap[aux].next, IF heap[aux].next = NULL THEN aux ELSE a, k)
    OBVIOUS
  <2>7. node.next = heap[aux].next /\ node.key = k
    BY <2>6 DEF Node
  <2>8. PICK h : h = [heap EXCEPT ![aux].next = a]
    OBVIOUS
  <2>9. /\ DOMAIN h = DOMAIN heap
        /\ \A b \in DOMAIN heap :
             /\ h[b].key = heap[b].key /\ h[b].prev = heap[b].prev
             /\ h[b].next = IF b = aux THEN a ELSE heap[b].next
    BY <1>1, <2>8
  <2>10. /\ heap' = With(h, a, node) /\ header' = header
         /\ tail' = IF heap[aux].next = NULL THEN a ELSE tail
    BY <1>6, <2>3, <2>6, <2>8 DEF InsertBehind
  <2>11. /\ DOMAIN heap' = DOMAIN heap \cup {a} /\ heap'[a] = node
         /\ \A b \in DOMAIN heap : heap'[b] = h[b]
    BY <1>1, <2>9, <2>10 DEF With
  <2>12. heap[aux].next = NULL <=> m = Len(q)
    <3>1. m < Len(q) => m + 1 \in 1..Len(q)
      BY <1>0
    <3> QED
      BY <1>0, <2>5, <3>1
  <2>13. PICK j : j = m + 1
    OBVIOUS
  <2>14. /\ j \in 1..(Len(q) + 1) /\ j > 1 /\ j - 1 = m /\ j # 1
         /\ j <= Len(q) <=> m < Len(q)
         /\ j = Len(q) + 1 <=> m = Len(q)
    BY <1>0, <2>13
  <2>15. LinkedIn(q, j, a, k)
    BY <2>4, <2>5, <2>7, <2>9, <2>10, <2>11, <2>12, <2>13, <2>14 DEF LinkedIn
  <2>16. ASSUME NEW i \in 1..Len(q)
         PROVE  /\ i < j => heap[q[i]].key <= k
                /\ i >= j => heap[q[i]].key > k
    <3>1. heap[q[i]].key \in Int /\ heap[q[m]].key \in Int
      BY <1>0, <1>1
    <3>2. CASE i < m
      <4>1. heap[q[i]].key <= heap[q[m]].key
        BY <2>1, <3>2 DEF Good
      <4> QED
        BY <1>2, <2>4, <2>13, <3>1, <3>2, <4>1
    <3>3. CASE i = m
      BY <1>0, <2>4, <2>14, <3>3
    <3>4. CASE i > m
      <4>1. m < Len(q) /\ m + 1 \in 1..Len(q) /\ i >= m + 1
        BY <1>0, <3>4
      <4>2. heap[q[m + 1]].key > k /\ heap[q[m + 1]].key \in Int
        BY <1>0, <1>1, <2>2, <4>1
      <4>3. heap[q[m + 1]].key <= heap[q[i]].key
        <5>1. m + 1 < i => heap[q[m + 1]].key <= heap[q[i]].key
          BY <2>1, <4>1 DEF Good
        <5>2. m + 1 = i \/ m + 1 < i
          BY <4>1
        <5> QED
          BY <3>1, <5>1, <5>2, <4>2
      <4> QED
        BY <1>2, <2>14, <3>1, <3>4, <4>2, <4>3
    <3> QED
      BY <1>0, <3>2, <3>3, <3>4
  <2>17. Placed(q, j, a, k)
    BY <2>1, <2>16 DEF Placed
  <2> QED
    BY <2>14, <2>15, <2>17
<1> QED
  BY <1>3, <1>4, <1>5, <1>6

-----------------------------------------------------------------------------
(* What is left of a list that loses the nodes behind j up to m. *)

Cut(q, j, m) == SubSeq(q, 1, j) \o SubSeq(q, m + 1, Len(q))

\* The elements of what is left when those behind j up to m are cut out.
LEMMA CutElements ==
  ASSUME NEW S, NEW q \in Seq(S), NEW m \in 1..Len(q), NEW j \in 0..(m - 1)
  PROVE  /\ Cut(q, j, m) \in Seq(S)
         /\ Len(Cut(q, j, m)) = j + (Len(q) - m)
         /\ \A i \in 1..(j + (Len(q) - m)) :
              Cut(q, j, m)[i] = IF i <= j THEN q[i] ELSE q[(i - j) + m]
<1>1. Len(q) \in Nat /\ \A i \in 1..Len(q) : q[i] \in S
  BY ElementOfSeq
<1>2. PICK front : front = SubSeq(q, 1, j)
  OBVIOUS
<1>3. PICK back : back = SubSeq(q, m + 1, Len(q))
  OBVIOUS
<1>4. front \in Seq(S) /\ Len(front) = j
  BY <1>1, <1>2, SubSeqProperties
<1>5. \A i \in 1..j : front[i] = q[i]
  BY <1>1, <1>2, SubSeqProperties
<1>6. back \in Seq(S) /\ Len(back) = Len(q) - m
  BY <1>1, <1>3, SubSeqProperties
<1>7. \A i \in 1..(Len(q) - m) : back[i] = q[i + m]
  <2>1. \A i \in 1..(Len(q) - (m + 1) + 1) : back[i] = q[(m + 1) + i - 1]
    BY <1>1, <1>3, SubSeqProperties
  <2>2. ASSUME NEW i \in 1..(Len(q) - m) PROVE back[i] = q[i + m]
    <3>1. i \in 1..(Len(q) - (m + 1) + 1) /\ (m + 1) + i - 1 = i + m
      BY <1>1
    <3> QED
      BY <2>1, <3>1
  <2> QED
    BY <2>2
<1>8. PICK r : r = front \o back
  OBVIOUS
<1>9. r \in Seq(S) /\ Len(r) = j + (Len(q) - m)
  BY <1>4, <1>6, <1>8, ConcatProperties
<1>10. \A i \in 1..(j + (Len(q) - m)) : r[i] = IF i <= j THEN front[i] ELSE back[i - j]
  <2>1. \A i \in 1..(Len(front) + Len(back)) :
          r[i] = IF i <= Len(front) THEN front[i] ELSE back[i - Len(front)]
    BY <1>4, <1>6, <1>8, ConcatProperties
  <2> QED
    BY <1>4, <1>6, <2>1
<1>11. ASSUME NEW i \in 1..(j + (Len(q) - m))
       PROVE  r[i] = IF i <= j THEN q[i] ELSE q[(i - j) + m]
  <2>1. CASE i <= j
    <3>1. i \in 1..j /\ r[i] = front[i]
      BY <1>1, <1>10, <2>1
    <3> QED
      BY <1>5, <2>1, <3>1
  <2>2. CASE i > j
    <3>1. i - j \in 1..(Len(q) - m) /\ r[i] = back[i - j]
      BY <1>1, <1>10, <2>2
    <3> QED
      BY <1>7, <2>2, <3>1
  <2> QED
    BY <1>1, <2>1, <2>2
<1> QED
  BY <1>2, <1>3, <1>8, <1>9, <1>11 DEF Cut

\* The nodes behind j up to m are unlinked.
Unlinked(q, j, m) ==
  /\ \A i \in 1..Len(q) : i <= j \/ i > m =>
       q[i] \in DOMAIN heap' /\ heap'[q[i]].key = heap[q[i]].key
  /\ \A i \in 1..Len(q) : i < j \/ i > m => heap'[q[i]].next = heap[q[i]].next
  /\ j > 0 => heap'[q[j]].next = IF m < Len(q) THEN q[m + 1] ELSE NULL
  /\ header' = IF j > 0 THEN header ELSE IF m < Len(q) THEN q[m + 1] ELSE NULL
  /\ m < Len(q) => tail' = tail
  /\ m = Len(q) /\ j > 0 => tail' = q[j]
  /\ ~sorted => /\ j = m - 1
                /\ \A i \in 2..Len(q) : i < m \/ i > m + 1 =>
                     heap'[q[i]].prev = heap[q[i]].prev
                /\ m < Len(q) /\ j > 0 => heap'[q[m + 1]].prev = q[j]
  /\ sorted' = sorted /\ broken' = broken

\* The list is then the old one without them.
LEMMA NodesUnlinked ==
  ASSUME TypeOK, TypeOK', NEW q, Good(q), NEW m \in 1..Len(q), NEW j \in 0..(m - 1),
         Unlinked(q, j, m)
  PROVE  /\ Good(Cut(q, j, m))'
         /\ Entries(Cut(q, j, m))' = Cut(Entries(q), j, m)
<1>0. /\ q \in Seq(DOMAIN heap) /\ Len(q) \in Nat
      /\ \A i \in 1..Len(q) : q[i] \in DOMAIN heap /\ q[i] \in Address
      /\ \A i, l \in 1..Len(q) : q[i] = q[l] => i = l
      /\ header = NULL <=> q = <<>>
      /\ header # NULL => Len(q) > 0 /\ header = q[1] /\ tail = q[Len(q)]
      /\ \A i \in 1..Len(q) : heap[q[i]].next = IF i < Len(q) THEN q[i + 1] ELSE NULL
  BY Listed
<1>1. PICK r : r = Cut(q, j, m)
  OBVIOUS
<1>2. PICK n : n = j + (Len(q) - m)
  OBVIOUS
<1>3. q \in Seq(Address) /\ n \in Nat
  BY <1>0, <1>2, NodesOf
<1>4. /\ r \in Seq(Address) /\ Len(r) = n
      /\ \A i \in 1..n : r[i] = IF i <= j THEN q[i] ELSE q[(i - j) + m]
  <2>1. Cut(q, j, m) \in Seq(Address)
    BY <1>3, CutElements
  <2>2. Len(Cut(q, j, m)) = j + (Len(q) - m)
    BY <1>3, CutElements
  <2>3. \A i \in 1..(j + (Len(q) - m)) :
          Cut(q, j, m)[i] = IF i <= j THEN q[i] ELSE q[(i - j) + m]
    BY <1>3, CutElements
  <2> QED
    BY <1>1, <1>2, <2>1, <2>2, <2>3
<1> DEFINE from(i) == IF i <= j THEN i ELSE (i - j) + m
<1>5. ASSUME NEW i \in 1..n
      PROVE  from(i) \in 1..Len(q) /\ r[i] = q[from(i)] /\ (from(i) <= j \/ from(i) > m)
  BY <1>0, <1>2, <1>4
<1>6. \A i, l \in 1..n : i < l => from(i) < from(l)
  BY <1>0, <1>2
<1>7. \A i \in 1..n : i # j /\ i < n => from(i + 1) = from(i) + 1
  BY <1>0, <1>2
<1>8. /\ j > 0 => j \in 1..n /\ from(j) = j
      /\ m < Len(q) => j + 1 \in 1..n /\ from(j + 1) = m + 1
      /\ m = Len(q) => n = j
      /\ n > j => from(n) = Len(q)
  <2>1. j > 0 => j \in 1..n /\ from(j) = j
    BY <1>0, <1>2
  <2>2. m < Len(q) => j + 1 \in 1..n /\ from(j + 1) = m + 1
    BY <1>0, <1>2
  <2>3. m = Len(q) => n = j
    BY <1>0, <1>2
  <2>4. n > j => from(n) = Len(q)
    BY <1>0, <1>2
  <2> QED
    BY <2>1, <2>2, <2>3, <2>4
<1>9. /\ \A i \in 1..n : i # j => (from(i) < j \/ from(i) > m)
      /\ \A i \in 1..n : i # j => (i < n <=> from(i) < Len(q))
  BY <1>0, <1>2
<1> HIDE DEF from
<1>10. r \in Seq(DOMAIN heap') /\ NULL \notin DOMAIN heap'
  <2>1. \A i \in 1..Len(r) : r[i] \in DOMAIN heap'
    BY <1>4, <1>5 DEF Unlinked
  <2> QED
    BY <1>4, <2>1, NodesOf, AddressAssumption DEF TypeOK
<1>11. IsInjective(r)
  <2>1. ASSUME NEW i \in 1..n, NEW l \in 1..n, r[i] = r[l] PROVE i = l
    <3>1. from(i) = from(l)
      BY <1>0, <1>5, <2>1
    <3>2. ~(i < l) /\ ~(l < i)
      <4>1. from(i) \in Int /\ from(l) \in Int
        BY <1>5
      <4> QED
        BY <1>6, <3>1, <4>1
    <3> QED
      BY <1>3, <3>2
  <2> QED
    BY <1>4, <2>1 DEF IsInjective
<1>12. ASSUME NEW i \in 1..n
       PROVE  heap'[r[i]].next = IF i < n THEN r[i + 1] ELSE NULL
  <2>1. CASE i = j
    <3>1. r[i] = q[j] /\ heap'[q[j]].next = IF m < Len(q) THEN q[m + 1] ELSE NULL
      BY <1>5, <1>8, <2>1 DEF Unlinked
    <3>2. m < Len(q) => i < n /\ r[i + 1] = q[m + 1]
      BY <1>3, <1>5, <1>8, <2>1
    <3>3. ~(m < Len(q)) => ~(i < n)
      BY <1>0, <1>3, <1>8, <2>1
    <3> QED
      BY <3>1, <3>2, <3>3
  <2>2. CASE i # j
    <3>1. PICK f : f = from(i)
      OBVIOUS
    <3>2. /\ f \in 1..Len(q) /\ r[i] = q[f] /\ (f < j \/ f > m)
          /\ i < n <=> f < Len(q)
      BY <1>5, <1>9, <2>2, <3>1
    <3>3. heap'[q[f]].next = heap[q[f]].next
      BY <3>2 DEF Unlinked
    <3>4. heap[q[f]].next = IF f < Len(q) THEN q[f + 1] ELSE NULL
      BY <1>0, <3>2
    <3>5. i < n => r[i + 1] = q[f + 1]
      <4>1. i < n => i + 1 \in 1..n /\ from(i + 1) = f + 1
        BY <1>3, <1>7, <2>2, <3>1
      <4> QED
        BY <1>5, <4>1
    <3> QED
      BY <3>2, <3>3, <3>4, <3>5
  <2> QED
    BY <2>1, <2>2
<1>13. header' = IF r = <<>> THEN NULL ELSE r[1]
  <2>1. r = <<>> <=> n = 0
    BY <1>4
  <2>2. CASE j > 0
    <3>1. 1 \in 1..n /\ 1 <= j /\ Len(q) > 0
      BY <1>0, <1>2, <2>2
    <3>2. r[1] = q[1]
      BY <1>4, <3>1
    <3> QED
      BY <1>0, <2>1, <2>2, <3>1, <3>2 DEF Unlinked
  <2>3. CASE j = 0
    <3>1. m < Len(q) => 1 \in 1..n /\ r[1] = q[m + 1]
      BY <1>5, <1>8, <2>3
    <3>2. ~(m < Len(q)) => n = 0
      BY <1>0, <1>8, <2>3
    <3>3. header' = IF m < Len(q) THEN q[m + 1] ELSE NULL
      BY <2>3 DEF Unlinked
    <3> QED
      BY <2>1, <3>1, <3>2, <3>3
  <2> QED
    BY <2>2, <2>3
<1>14. r # <<>> => tail' = r[n]
  <2>1. CASE m < Len(q)
    <3>1. n > j /\ n \in 1..n /\ from(n) = Len(q)
      BY <1>3, <1>8, <2>1
    <3>2. r[n] = q[Len(q)] /\ tail' = tail
      BY <1>5, <2>1, <3>1 DEF Unlinked
    <3>3. header # NULL
      BY <1>0, <2>1
    <3> QED
      BY <1>0, <3>2, <3>3
  <2>2. CASE m = Len(q)
    <3>1. n = j /\ (r # <<>> => j > 0)
      BY <1>4, <1>8, <2>2
    <3>2. j > 0 => r[j] = q[j] /\ tail' = q[j]
      BY <1>5, <1>8, <2>2 DEF Unlinked
    <3> QED
      BY <3>1, <3>2
  <2> QED
    BY <1>0, <2>1, <2>2
<1>15. Chain(r, NULL)'
  BY <1>4, <1>10, <1>12, <1>13 DEF Chain
<1>16. ASSUME sorted, NEW i \in 1..n, NEW l \in 1..n, i < l
       PROVE  heap'[r[i]].key <= heap'[r[l]].key
  <2>1. from(i) \in 1..Len(q) /\ from(l) \in 1..Len(q) /\ from(i) < from(l)
    BY <1>5, <1>6, <1>16
  <2>2. heap[q[from(i)]].key <= heap[q[from(l)]].key
    BY <1>16, <2>1 DEF Good
  <2>3. heap'[q[from(i)]].key = heap[q[from(i)]].key
        /\ heap'[q[from(l)]].key = heap[q[from(l)]].key
    BY <1>5, <2>1 DEF Unlinked
  <2> QED
    BY <1>5, <2>2, <2>3
<1>17. ASSUME ~sorted, NEW i \in 2..n PROVE heap'[r[i]].prev = r[i - 1]
  <2>1. /\ j = m - 1
        /\ \A l \in 2..Len(q) : l < m \/ l > m + 1 => heap'[q[l]].prev = heap[q[l]].prev
        /\ m < Len(q) /\ j > 0 => heap'[q[m + 1]].prev = q[j]
    BY <1>17 DEF Unlinked
  <2>2. \A l \in 2..Len(q) : heap[q[l]].prev = q[l - 1]
    BY <1>17 DEF Good
  <2>3. i \in 1..n /\ i - 1 \in 1..n
    BY <1>3
  <2>4. CASE i <= j
    <3>1. r[i] = q[i] /\ r[i - 1] = q[i - 1] /\ i < m /\ i \in 2..Len(q)
      BY <1>0, <1>4, <2>1, <2>3, <2>4
    <3> QED
      BY <2>1, <2>2, <3>1
  <2>5. CASE i = j + 1
    <3>1. r[i] = q[m + 1] /\ r[i - 1] = q[j] /\ m < Len(q) /\ j > 0
      BY <1>0, <1>2, <1>4, <2>3, <2>5
    <3> QED
      BY <2>1, <3>1
  <2>6. CASE i > j + 1
    <3>1. r[i] = q[i + 1] /\ r[i - 1] = q[i] /\ i + 1 > m + 1 /\ i + 1 \in 2..Len(q)
      <4>1. (i - j) + m = i + 1 /\ ((i - 1) - j) + m = i
        BY <1>0, <2>1
      <4>2. ~(i <= j) /\ ~(i - 1 <= j)
        BY <1>3, <2>6
      <4>3. r[i] = q[(i - j) + m] /\ r[i - 1] = q[((i - 1) - j) + m]
        BY <1>4, <2>3, <4>2
      <4> QED
        BY <1>0, <1>2, <2>1, <2>6, <4>1, <4>3
    <3>2. heap'[q[i + 1]].prev = heap[q[i + 1]].prev
      BY <2>1, <3>1
    <3>3. heap[q[i + 1]].prev = q[(i + 1) - 1] /\ (i + 1) - 1 = i
      BY <2>2, <3>1
    <3> QED
      BY <3>1, <3>2, <3>3
  <2> QED
    BY <1>0, <2>4, <2>5, <2>6
<1>18. Good(r)'
  <2>1. sorted' = sorted
    BY DEF Unlinked
  <2> QED
    BY <1>4, <1>11, <1>14, <1>15, <1>16, <1>17, <2>1 DEF Good
<1>19. Entries(r)' = Cut(Entries(q), j, m)
  <2>1. PICK es : es = Entries(q)
    OBVIOUS
  <2>2. /\ es \in Seq(Entry) /\ Len(es) = Len(q)
        /\ \A i \in 1..Len(q) : es[i] = [at |-> q[i], key |-> heap[q[i]].key]
    BY <1>0, <2>1, EntriesType
  <2>3. PICK fs : fs = Cut(es, j, m)
    OBVIOUS
  <2>4. m \in 1..Len(es)
    BY <2>2
  <2>5. fs \in Seq(Entry)
    BY <2>2, <2>3, <2>4, CutElements
  <2>6. Len(fs) = n
    <3>1. Len(fs) = j + (Len(es) - m)
      BY <2>2, <2>3, <2>4, CutElements
    <3> QED
      BY <1>2, <2>2, <3>1
  <2>7. \A i \in 1..n : fs[i] = IF i <= j THEN es[i] ELSE es[(i - j) + m]
    <3>1. \A i \in 1..(j + (Len(es) - m)) :
            Cut(es, j, m)[i] = IF i <= j THEN es[i] ELSE es[(i - j) + m]
      BY <2>2, <2>4, CutElements
    <3> QED
      BY <1>2, <2>2, <2>3, <3>1
  <2>8. ASSUME NEW i \in 1..n
        PROVE  fs[i] = [at |-> r[i], key |-> heap'[r[i]].key]
    <3>1. fs[i] = es[from(i)]
      BY <2>7 DEF from
    <3>2. PICK f : f = from(i)
      OBVIOUS
    <3>3. f \in 1..Len(q) /\ r[i] = q[f] /\ (f <= j \/ f > m)
      BY <1>5, <3>2
    <3>4. heap'[q[f]].key = heap[q[f]].key
      BY <3>3 DEF Unlinked
    <3>5. es[f] = [at |-> q[f], key |-> heap[q[f]].key]
      BY <2>2, <3>3
    <3> QED
      BY <3>1, <3>2, <3>3, <3>4, <3>5
  <2>9. fs = [i \in 1..n |-> [at |-> r[i], key |-> heap'[r[i]].key]]
    <3>1. DOMAIN fs = 1..n /\ fs = [i \in DOMAIN fs |-> fs[i]]
      BY <2>5, <2>6
    <3> QED
      BY <2>8, <3>1
  <2> QED
    BY <1>4, <2>1, <2>3, <2>9 DEF Entries
<1> QED
  BY <1>1, <1>18, <1>19

\* A sound list reads as the entries of its nodes.
LEMMA SoundReads ==
  ASSUME TypeOK, Sound, NEW q, Good(q)
  PROVE  /\ ~broken /\ list = Entries(q)
         /\ q \in Seq(DOMAIN heap) /\ Len(q) \in Nat
         /\ Entries(q) \in Seq(Entry) /\ Len(Entries(q)) = Len(q)
         /\ \A i \in 1..Len(q) :
              Entries(q)[i] = [at |-> q[i], key |-> heap[q[i]].key]
<1>1. ~broken
  BY DEF Sound
<1>2. list = Entries(q)
  BY <1>1, Reads DEF ReadsAs, list
<1>3. q \in Seq(DOMAIN heap) /\ Len(q) \in Nat
  BY Listed
<1> QED
  BY <1>1, <1>2, <1>3, EntriesType

\* The first entry with a key is that of the first node with it.
LEMMA FirstFound ==
  ASSUME TypeOK, Sound, NEW q, Good(q), NEW k, NEW m \in 1..Len(q), heap[q[m]].key = k,
         \A i \in 1..Len(q) : heap[q[i]].key = k => m <= i
  PROVE  LET found == {i \in DOMAIN list : list[i].key = k}
         IN  found # {} /\ Min(found) = m
<1>1. PICK es : es = Entries(q)
  OBVIOUS
<1>2. /\ list = es /\ Len(q) \in Nat /\ es \in Seq(Entry) /\ Len(es) = Len(q)
      /\ \A i \in 1..Len(q) : es[i] = [at |-> q[i], key |-> heap[q[i]].key]
  BY <1>1, SoundReads
<1>3. PICK found : found = {i \in DOMAIN es : es[i].key = k}
  OBVIOUS
<1>4. ASSUME NEW i \in 1..Len(q) PROVE es[i].key = heap[q[i]].key
  <2>1. es[i] = [at |-> q[i], key |-> heap[q[i]].key]
    BY <1>2
  <2> QED
    BY <2>1
<1>5. found = {i \in 1..Len(q) : heap[q[i]].key = k}
  <2>1. DOMAIN es = 1..Len(q)
    BY <1>2
  <2> QED
    BY <1>3, <1>4, <2>1
<1>6. m \in found /\ found \in SUBSET Nat /\ \A i \in found : m <= i
  BY <1>2, <1>5
<1>7. PICK n : n = Min(found)
  OBVIOUS
<1>8. n \in found /\ \A i \in found : n <= i
  BY <1>6, <1>7, MinIsLeast
<1>9. n = m
  BY <1>6, <1>8
<1> QED
  BY <1>2, <1>3, <1>6, <1>7, <1>9

\* To unlink the node that was found is a deletion of the abstract list.
LEMMA DeletionSimulates ==
  ASSUME TypeOK, TypeOK', Sound, NEW q, Good(q), NEW k \in Key,
         NEW m \in 1..Len(q), heap[q[m]].key = k,
         \A i \in 1..Len(q) : heap[q[i]].key = k => m <= i,
         NEW j \in 0..(m - 1), m > 1 => j > 0, Unlinked(q, j, m)
  PROVE  /\ \E r : Good(r)'
         /\ Sound'
         /\ Abstract!Delete(k)
<1>1. Good(Cut(q, j, m))' /\ Entries(Cut(q, j, m))' = Cut(Entries(q), j, m)
  BY NodesUnlinked
<1>2. ~broken /\ ~broken'
  BY DEF Sound, Unlinked
<1>3. Sound' /\ Content' = Cut(Entries(q), j, m)
  BY <1>1, <1>2, ReadsNext DEF ReadsAs
<1>4. PICK es : es = Entries(q)
  OBVIOUS
<1>5. list = es /\ list' = Cut(es, j, m)
  BY <1>3, <1>4, SoundReads DEF list
<1>6. PICK found : found = {i \in DOMAIN list : list[i].key = k}
  OBVIOUS
<1>7. found # {} /\ Min(found) = m
  BY <1>6, FirstFound
<1>8. CASE sorted /\ m # 1
  <2>1. j \in 1..(m - 1)
    BY <1>8
  <2>2. list' \in DeleteSorted(list, m)
    BY <1>5, <1>8, <2>1 DEF DeleteSorted, Cut
  <2>3. Abstract!Delete(k)
    BY <1>6, <1>7, <1>8, <2>2, SameDelete, SameMin DEF Abstract!Delete, list
  <2> QED
    BY <1>1, <1>3, <2>3
<1>9. CASE ~(sorted /\ m # 1)
  <2>1. j = m - 1
    BY <1>9 DEF Unlinked
  <2>2. list' = RemoveAt(list, m)
    BY <1>5, <2>1 DEF RemoveAt, Cut
  <2>3. Abstract!Delete(k)
    BY <1>6, <1>7, <1>9, <2>2, SameDelete, SameMin DEF Abstract!Delete, list
  <2> QED
    BY <1>1, <1>3, <2>3
<1> QED
  BY <1>8, <1>9

\* So is a deletion behind the header of a sorted list that breaks it.
LEMMA LossSimulates ==
  ASSUME TypeOK, Sound, NEW q, Good(q), NEW k \in Key,
         NEW m \in 1..Len(q), heap[q[m]].key = k,
         \A i \in 1..Len(q) : heap[q[i]].key = k => m <= i
  PROVE  sorted /\ m # 1 /\ ~Sound' => Abstract!Delete(k)
<1>1. PICK found : found = {i \in DOMAIN list : list[i].key = k}
  OBVIOUS
<1>2. found # {} /\ Min(found) = m
  BY <1>1, FirstFound
<1>3. ASSUME sorted, m # 1, ~Sound' PROVE Abstract!Delete(k)
  <2>1. list' = NULL
    BY <1>3 DEF list
  <2> QED
    BY <1>1, <1>2, <1>3, <2>1, SameMin DEF Abstract!Delete, list
<1> QED
  BY <1>3

\* A walk that still leads to a node that has been freed is not that of a sound list.
LEMMA FreedIsMet ==
  ASSUME TypeOK, TypeOK', NEW q, Good(q), NEW m \in 2..Len(q),
         header' = header, q[m] \notin DOMAIN heap',
         \A i \in 1..(m - 1) :
           q[i] \in DOMAIN heap' /\ heap'[q[i]].next = heap[q[i]].next
  PROVE  ~Sound'
<1>0. /\ q \in Seq(DOMAIN heap) /\ Len(q) \in Nat /\ NULL \notin DOMAIN heap
      /\ \A i \in 1..Len(q) : q[i] \in DOMAIN heap /\ q[i] \in Address
      /\ \A i, l \in 1..Len(q) : q[i] = q[l] => i = l
      /\ header = NULL <=> q = <<>>
      /\ header # NULL => Len(q) > 0 /\ header = q[1] /\ tail = q[Len(q)]
      /\ \A i \in 1..Len(q) : heap[q[i]].next = IF i < Len(q) THEN q[i + 1] ELSE NULL
  BY Listed
<1>1. PICK r : r = SubSeq(q, 1, m - 1)
  OBVIOUS
<1>2. r \in Seq(DOMAIN heap') /\ Len(r) = m - 1 /\ \A i \in 1..(m - 1) : r[i] = q[i]
  <2>1. 1 \in Int /\ m - 1 \in Int /\ \A i \in 1..(m - 1) : q[i] \in DOMAIN heap'
    OBVIOUS
  <2>2. r \in Seq(DOMAIN heap')
    BY <1>1, <2>1, SubSeqProperties
  <2>3. Len(r) = IF 1 <= m - 1 THEN (m - 1) - 1 + 1 ELSE 0
    BY <1>1, <2>1, SubSeqProperties
  <2>4. \A i \in 1..((m - 1) - 1 + 1) : SubSeq(q, 1, m - 1)[i] = q[1 + i - 1]
    BY <2>1, SubSeqProperties
  <2>5. ASSUME NEW i \in 1..(m - 1) PROVE r[i] = q[i]
    <3>1. i \in 1..((m - 1) - 1 + 1) /\ 1 + i - 1 = i
      OBVIOUS
    <3> QED
      BY <1>1, <2>4, <3>1
  <2> QED
    BY <2>2, <2>3, <2>5
<1>3. r # <<>> /\ header' = r[1]
  <2>1. 1 \in 1..(m - 1) /\ Len(q) > 0
    BY <1>0
  <2> QED
    BY <1>0, <1>2, <2>1
<1>4. ASSUME NEW i \in 1..Len(r)
      PROVE  heap'[r[i]].next = IF i < Len(r) THEN r[i + 1] ELSE q[m]
  <2>1. i \in 1..(m - 1) /\ i \in 1..Len(q) /\ i < Len(q)
    BY <1>0, <1>2
  <2>2. heap'[r[i]].next = q[i + 1]
    BY <1>0, <1>2, <2>1
  <2>3. i < Len(r) => r[i + 1] = q[i + 1]
    BY <1>2, <2>1
  <2>4. ~(i < Len(r)) => i + 1 = m
    BY <1>2, <2>1
  <2> QED
    BY <2>2, <2>3, <2>4
<1>5. Chain(r, q[m])'
  BY <1>2, <1>3, <1>4 DEF Chain
<1>6. ASSUME NEW i \in 1..(m - 1), NEW l \in 1..(m - 1), r[i] = r[l] PROVE i = l
  <2>1. i \in 1..Len(q) /\ l \in 1..Len(q) /\ q[i] = q[l]
    BY <1>0, <1>2, <1>6
  <2> QED
    BY <1>0, <2>1
<1>7. IsInjective(r)
  BY <1>2, <1>6 DEF IsInjective
<1>8. q[m] # NULL
  BY <1>0
<1> QED
  BY <1>5, <1>7, <1>8, ChainWalkNext DEF ChainFact

\* pop takes the first entry.
LEMMA PopStep ==
  ASSUME TypeOK, TypeOK', Sound, NEW q, Good(q), Pop, UNCHANGED <<sorted, broken>>
  PROVE  /\ \E r : Good(r)'
         /\ Sound'
         /\ Abstract!Pop
<1>0. /\ q \in Seq(DOMAIN heap) /\ Len(q) \in Nat /\ NULL \notin DOMAIN heap
      /\ \A i \in 1..Len(q) : q[i] \in DOMAIN heap /\ q[i] \in Address
      /\ \A i, l \in 1..Len(q) : q[i] = q[l] => i = l
      /\ header = NULL <=> q = <<>>
      /\ header # NULL => Len(q) > 0 /\ header = q[1] /\ tail = q[Len(q)]
      /\ \A i \in 1..Len(q) : heap[q[i]].next = IF i < Len(q) THEN q[i + 1] ELSE NULL
  BY Listed
<1>1. header # NULL /\ header = q[1] /\ 1 \in 1..Len(q) /\ Len(q) > 0
  BY <1>0 DEF Pop
<1>2. header' = IF 1 < Len(q) THEN q[2] ELSE NULL
  BY <1>0, <1>1 DEF Pop
<1>3. /\ DOMAIN heap' = DOMAIN heap
      /\ \A b \in DOMAIN heap :
           /\ heap'[b].key = heap[b].key /\ heap'[b].next = heap[b].next
           /\ b # header' => heap'[b].prev = heap[b].prev
  BY DEF Pop, TypeOK
<1>4. tail' = tail
  BY DEF Pop
<1>5. ASSUME NEW i \in 2..Len(q), i > 2 PROVE heap'[q[i]].prev = heap[q[i]].prev
  <2>1. i \in 1..Len(q) /\ 2 \in 1..Len(q) /\ q[i] # q[2] /\ 1 < Len(q)
    BY <1>0, <1>5
  <2> QED
    BY <1>0, <1>2, <1>3, <2>1
<1>6. Unlinked(q, 0, 1)
  BY <1>0, <1>1, <1>2, <1>3, <1>4, <1>5 DEF Unlinked
<1>7. Good(Cut(q, 0, 1))' /\ Entries(Cut(q, 0, 1))' = Cut(Entries(q), 0, 1)
  <2>1. 0 \in 0..(1 - 1)
    OBVIOUS
  <2> QED
    BY <1>1, <1>6, <2>1, NodesUnlinked
<1>8. ~broken /\ ~broken'
  BY DEF Sound
<1>9. Sound' /\ Content' = Cut(Entries(q), 0, 1)
  BY <1>7, <1>8, ReadsNext DEF ReadsAs
<1>10. PICK es : es = Entries(q)
  OBVIOUS
<1>11. /\ list = es /\ list' = Cut(es, 0, 1)
       /\ es \in Seq(Entry) /\ Len(es) = Len(q)
  BY <1>9, <1>10, SoundReads DEF list
<1>12. es # <<>>
  BY <1>1, <1>11
<1>13. Cut(es, 0, 1) = Tail(es)
  <2>1. SubSeq(es, 1, 0) = <<>>
    BY SubSeqEmpty
  <2>2. Tail(es) = SubSeq(es, 2, Len(es)) /\ Tail(es) \in Seq(Entry)
    BY <1>11, <1>12, TailIsSubSeq
  <2>3. <<>> \o Tail(es) = Tail(es)
    BY <2>2, ConcatEmptySeq
  <2> QED
    BY <2>1, <2>2, <2>3 DEF Cut
<1>14. Abstract!Pop
  BY <1>11, <1>12, <1>13 DEF Abstract!Pop, list
<1> QED
  BY <1>7, <1>9, <1>14

\* delete_list of the header unlinks the header and nothing else.
LEMMA HeaderUnlinked ==
  ASSUME TypeOK, TypeOK', NEW q, Good(q), NEW m \in 1..Len(q), DeleteHeader(q[m]),
         sorted' = sorted
  PROVE  m = 1 /\ Unlinked(q, 0, m)
<1>0. /\ q \in Seq(DOMAIN heap) /\ Len(q) \in Nat /\ NULL \notin DOMAIN heap
      /\ \A i \in 1..Len(q) : q[i] \in DOMAIN heap /\ q[i] \in Address
      /\ \A i, l \in 1..Len(q) : q[i] = q[l] => i = l
      /\ header = NULL <=> q = <<>>
      /\ header # NULL => Len(q) > 0 /\ header = q[1] /\ tail = q[Len(q)]
      /\ \A i \in 1..Len(q) : heap[q[i]].next = IF i < Len(q) THEN q[i + 1] ELSE NULL
  BY Listed
<1>1. q[m] = header /\ header # NULL /\ header = q[1] /\ 1 \in 1..Len(q)
  BY <1>0 DEF DeleteHeader
<1>2. m = 1
  BY <1>0, <1>1
<1>3. /\ heap' = Without(heap, q[1]) /\ header' = heap[q[1]].next
      /\ UNCHANGED <<tail, broken>>
  BY <1>1 DEF DeleteHeader
<1>4. /\ DOMAIN heap' = DOMAIN heap \ {q[1]}
      /\ \A b \in DOMAIN heap : b # q[1] => heap'[b] = heap[b]
  BY <1>3 DEF Without
<1>5. \A i \in 1..Len(q) : i > 1 => q[i] \in DOMAIN heap' /\ heap'[q[i]] = heap[q[i]]
  BY <1>0, <1>1, <1>4
<1>6. header' = IF 1 < Len(q) THEN q[1 + 1] ELSE NULL
  BY <1>0, <1>1, <1>3
<1>7. Unlinked(q, 0, 1)
  BY <1>0, <1>3, <1>5, <1>6 DEF Unlinked
<1> QED
  BY <1>2, <1>7

\* delete_list of the tail: the list ends with the node that its prev names, if that is
\* one before it; if it is not, the walk meets the freed node.
LEMMA TailUnlinked ==
  ASSUME TypeOK, TypeOK', NEW q, Good(q), NEW m \in 1..Len(q), DeleteTail(q[m]),
         sorted' = sorted
  PROVE  /\ m > 1
         /\ \/ \E j \in 1..(m - 1) : Unlinked(q, j, m)
            \/ sorted /\ ~Sound'
<1>0. /\ q \in Seq(DOMAIN heap) /\ Len(q) \in Nat /\ NULL \notin DOMAIN heap
      /\ \A i \in 1..Len(q) : q[i] \in DOMAIN heap /\ q[i] \in Address
      /\ \A i, l \in 1..Len(q) : q[i] = q[l] => i = l
      /\ header = NULL <=> q = <<>>
      /\ header # NULL => Len(q) > 0 /\ header = q[1] /\ tail = q[Len(q)]
      /\ \A i \in 1..Len(q) : heap[q[i]].next = IF i < Len(q) THEN q[i + 1] ELSE NULL
  BY Listed
<1>1. PICK before : before = heap[q[m]].prev
  OBVIOUS
<1>2. /\ q[m] # header /\ q[m] = tail /\ InUse(before) /\ tail' = before
      /\ heap' = Without([heap EXCEPT ![before].next = NULL], q[m])
      /\ UNCHANGED <<header, broken>>
  BY <1>1 DEF DeleteTail
<1>3. header # NULL /\ Len(q) \in 1..Len(q) /\ 1 \in 1..Len(q)
  BY <1>0
<1>4. m = Len(q) /\ m > 1
  <2>1. m = Len(q)
    BY <1>0, <1>2, <1>3
  <2>2. m # 1
    BY <1>0, <1>2, <1>3
  <2> QED
    BY <1>0, <2>1, <2>2
<1>5. /\ DOMAIN heap' = DOMAIN heap \ {q[m]}
      /\ \A b \in DOMAIN heap : b # q[m] =>
           /\ heap'[b].key = heap[b].key /\ heap'[b].prev = heap[b].prev
           /\ b # before => heap'[b].next = heap[b].next
           /\ b = before => heap'[b].next = NULL
  BY <1>2 DEF Without, InUse, TypeOK
<1>6. ASSUME NEW i \in 1..(m - 1)
      PROVE  i \in 1..Len(q) /\ q[i] # q[m] /\ q[i] \in DOMAIN heap'
  BY <1>0, <1>5
<1>7. CASE \E j \in 1..(m - 1) : before = q[j]
  <2>1. PICK j \in 1..(m - 1) : before = q[j]
    BY <1>7
  <2>2. ~sorted => j = m - 1
    <3>1. ~sorted => heap[q[m]].prev = q[m - 1]
      BY <1>4 DEF Good
    <3>2. m - 1 \in 1..Len(q) /\ j \in 1..Len(q)
      BY <1>0, <1>4
    <3> QED
      BY <1>0, <1>1, <2>1, <3>1, <3>2
  <2>3. /\ \A i \in 1..Len(q) : i <= j \/ i > m =>
             q[i] \in DOMAIN heap' /\ heap'[q[i]].key = heap[q[i]].key
        /\ \A i \in 1..Len(q) : i < j \/ i > m => heap'[q[i]].next = heap[q[i]].next
        /\ heap'[q[j]].next = NULL
        /\ \A i \in 2..Len(q) : i < m => heap'[q[i]].prev = heap[q[i]].prev
    <3>1. ASSUME NEW i \in 1..Len(q), i <= j \/ i > m
          PROVE  q[i] \in DOMAIN heap' /\ heap'[q[i]].key = heap[q[i]].key
      BY <1>0, <1>4, <1>5, <1>6, <3>1
    <3>2. ASSUME NEW i \in 1..Len(q), i < j \/ i > m
          PROVE  heap'[q[i]].next = heap[q[i]].next
      <4>1. i \in 1..(m - 1) /\ q[i] # q[j]
        BY <1>0, <1>4, <3>2
      <4> QED
        BY <1>0, <1>5, <1>6, <2>1, <4>1
    <3>3. heap'[q[j]].next = NULL
      BY <1>0, <1>5, <1>6, <2>1
    <3>4. ASSUME NEW i \in 2..Len(q), i < m
          PROVE  heap'[q[i]].prev = heap[q[i]].prev
      <4>1. i \in 1..(m - 1)
        BY <3>4
      <4> QED
        BY <1>0, <1>5, <1>6, <4>1
    <3> QED
      BY <3>1, <3>2, <3>3, <3>4
  <2>4. Unlinked(q, j, m)
    <3>1. j > 0 /\ ~(m < Len(q)) /\ m = Len(q) /\ j \in 1..(m - 1)
      BY <1>0, <1>4
    <3>2. j > 0 => heap'[q[j]].next = IF m < Len(q) THEN q[m + 1] ELSE NULL
      BY <2>3, <3>1
    <3>3. header' = IF j > 0 THEN header ELSE IF m < Len(q) THEN q[m + 1] ELSE NULL
      BY <1>2, <3>1
    <3>4. (m < Len(q) => tail' = tail) /\ (m = Len(q) /\ j > 0 => tail' = q[j])
      BY <1>2, <2>1, <3>1
    <3>5. \A i \in 2..Len(q) : i < m \/ i > m + 1 => heap'[q[i]].prev = heap[q[i]].prev
      BY <1>0, <2>3, <3>1
    <3>6. m < Len(q) /\ j > 0 => heap'[q[m + 1]].prev = q[j]
      BY <3>1
    <3>7. sorted' = sorted /\ broken' = broken
      BY <1>2
    <3> QED
      BY <2>2, <2>3, <3>2, <3>3, <3>4, <3>5, <3>6, <3>7 DEF Unlinked
  <2> QED
    BY <1>4, <2>4
<1>8. CASE ~\E j \in 1..(m - 1) : before = q[j]
  <2>1. sorted
    <3>1. ~sorted => heap[q[m]].prev = q[m - 1]
      BY <1>4 DEF Good
    <3>2. m - 1 \in 1..(m - 1)
      BY <1>4
    <3> QED
      BY <1>1, <1>8, <3>1, <3>2
  <2>2. ASSUME NEW i \in 1..(m - 1)
        PROVE  q[i] \in DOMAIN heap' /\ heap'[q[i]].next = heap[q[i]].next
    BY <1>0, <1>5, <1>6, <1>8
  <2>3. q[m] \notin DOMAIN heap' /\ m \in 2..Len(q) /\ header' = header
    BY <1>2, <1>4, <1>5
  <2>4. ~Sound'
    BY <2>2, <2>3, FreedIsMet
  <2> QED
    BY <1>4, <2>1, <2>4
<1> QED
  BY <1>7, <1>8

\* delete_list of a node with neighbours: the node that its prev names goes on with its
\* next, if that is one before it; if it is not, the walk meets the freed node.
LEMMA MiddleUnlinked ==
  ASSUME TypeOK, TypeOK', NEW q, Good(q), NEW m \in 1..Len(q), DeleteMiddle(q[m]),
         sorted' = sorted
  PROVE  /\ m > 1
         /\ \/ \E j \in 1..(m - 1) : Unlinked(q, j, m)
            \/ sorted /\ ~Sound'
<1>0. /\ q \in Seq(DOMAIN heap) /\ Len(q) \in Nat /\ NULL \notin DOMAIN heap
      /\ \A i \in 1..Len(q) : q[i] \in DOMAIN heap /\ q[i] \in Address
      /\ \A i, l \in 1..Len(q) : q[i] = q[l] => i = l
      /\ header = NULL <=> q = <<>>
      /\ header # NULL => Len(q) > 0 /\ header = q[1] /\ tail = q[Len(q)]
      /\ \A i \in 1..Len(q) : heap[q[i]].next = IF i < Len(q) THEN q[i + 1] ELSE NULL
  BY Listed
<1>1. PICK before : before = heap[q[m]].prev
  OBVIOUS
<1>2. PICK after : after = heap[q[m]].next
  OBVIOUS
<1>3. /\ q[m] # header /\ q[m] # tail /\ InUse(before) /\ InUse(after)
      /\ heap' = Without([heap EXCEPT ![before].next = after,
                                      ![after].prev = before], q[m])
      /\ UNCHANGED <<header, tail, broken>>
  BY <1>1, <1>2 DEF DeleteMiddle
<1>4. header # NULL /\ Len(q) \in 1..Len(q) /\ 1 \in 1..Len(q)
  BY <1>0
<1>5. m > 1 /\ m < Len(q) /\ m + 1 \in 1..Len(q) /\ after = q[m + 1]
  <2>1. m # 1
    BY <1>0, <1>3, <1>4
  <2>2. m # Len(q)
    BY <1>0, <1>3, <1>4
  <2>3. m > 1 /\ m < Len(q) /\ m + 1 \in 1..Len(q)
    BY <1>0, <2>1, <2>2
  <2> QED
    BY <1>0, <1>2, <2>3
<1>6. /\ DOMAIN heap' = DOMAIN heap \ {q[m]}
      /\ \A b \in DOMAIN heap : b # q[m] =>
           /\ heap'[b].key = heap[b].key
           /\ b # after => heap'[b].prev = heap[b].prev
           /\ b = after => heap'[b].prev = before
           /\ b # before => heap'[b].next = heap[b].next
           /\ b = before => heap'[b].next = after
  <2>1. PICK one : one = [heap EXCEPT ![before].next = after]
    OBVIOUS
  <2>2. PICK both : both = [one EXCEPT ![after].prev = before]
    OBVIOUS
  <2>3. /\ DOMAIN one = DOMAIN heap
        /\ \A b \in DOMAIN heap :
             /\ one[b] \in [next : Pointer \cup {after}, prev : Pointer, key : Key]
             /\ one[b].key = heap[b].key /\ one[b].prev = heap[b].prev
             /\ one[b].next = IF b = before THEN after ELSE heap[b].next
    BY <2>1 DEF TypeOK
  <2>4. /\ DOMAIN both = DOMAIN heap
        /\ \A b \in DOMAIN heap :
             /\ both[b].key = one[b].key /\ both[b].next = one[b].next
             /\ both[b].prev = IF b = after THEN before ELSE one[b].prev
    BY <2>2, <2>3
  <2>5. heap' = Without(both, q[m])
    BY <1>3, <2>1, <2>2
  <2>6. /\ DOMAIN heap' = DOMAIN heap \ {q[m]}
        /\ \A b \in DOMAIN heap : b # q[m] => heap'[b] = both[b]
    BY <2>4, <2>5 DEF Without
  <2> QED
    BY <2>3, <2>4, <2>6
<1>7. ASSUME NEW i \in 1..Len(q), i # m
      PROVE  /\ q[i] # q[m] /\ q[i] \in DOMAIN heap'
             /\ q[i] = after <=> i = m + 1
  BY <1>0, <1>5, <1>6, <1>7
<1>8. CASE \E j \in 1..(m - 1) : before = q[j]
  <2>1. PICK j \in 1..(m - 1) : before = q[j]
    BY <1>8
  <2>2. ~sorted => j = m - 1
    <3>1. ~sorted => heap[q[m]].prev = q[m - 1]
      BY <1>5 DEF Good
    <3>2. m - 1 \in 1..Len(q) /\ j \in 1..Len(q)
      BY <1>0, <1>5
    <3> QED
      BY <1>0, <1>1, <2>1, <3>1, <3>2
  <2>3. ASSUME NEW i \in 1..Len(q), i <= j \/ i > m
        PROVE  q[i] \in DOMAIN heap' /\ heap'[q[i]].key = heap[q[i]].key
    <3>1. i # m
      BY <2>3
    <3> QED
      BY <1>0, <1>6, <1>7, <3>1
  <2>4. ASSUME NEW i \in 1..Len(q), i < j \/ i > m
        PROVE  heap'[q[i]].next = heap[q[i]].next
    <3>1. i # m /\ j \in 1..Len(q) /\ i # j
      BY <1>0, <2>4
    <3>2. q[i] # before
      BY <1>0, <2>1, <3>1
    <3> QED
      BY <1>0, <1>6, <1>7, <3>1, <3>2
  <2>5. heap'[q[j]].next = q[m + 1]
    <3>1. j \in 1..Len(q) /\ j # m
      BY <1>0
    <3> QED
      BY <1>0, <1>5, <1>6, <1>7, <2>1, <3>1
  <2>6. ASSUME NEW i \in 2..Len(q), i < m \/ i > m + 1
        PROVE  heap'[q[i]].prev = heap[q[i]].prev
    <3>1. i \in 1..Len(q) /\ i # m /\ i # m + 1
      BY <2>6
    <3> QED
      BY <1>0, <1>6, <1>7, <3>1
  <2>7. heap'[q[m + 1]].prev = q[j]
    BY <1>0, <1>5, <1>6, <1>7, <2>1
  <2>8. Unlinked(q, j, m)
    <3>1. j > 0 /\ m < Len(q) /\ m # Len(q) /\ j \in 1..(m - 1)
      BY <1>0, <1>5
    <3>2. j > 0 => heap'[q[j]].next = IF m < Len(q) THEN q[m + 1] ELSE NULL
      BY <2>5, <3>1
    <3>3. header' = IF j > 0 THEN header ELSE IF m < Len(q) THEN q[m + 1] ELSE NULL
      BY <1>3, <3>1
    <3>4. (m < Len(q) => tail' = tail) /\ (m = Len(q) /\ j > 0 => tail' = q[j])
      BY <1>3, <3>1
    <3>7. sorted' = sorted /\ broken' = broken
      BY <1>3
    <3> QED
      BY <2>2, <2>3, <2>4, <2>6, <2>7, <3>2, <3>3, <3>4, <3>7 DEF Unlinked
  <2> QED
    BY <1>5, <2>8
<1>9. CASE ~\E j \in 1..(m - 1) : before = q[j]
  <2>1. sorted
    <3>1. ~sorted => heap[q[m]].prev = q[m - 1]
      BY <1>5 DEF Good
    <3>2. m - 1 \in 1..(m - 1)
      BY <1>5
    <3> QED
      BY <1>1, <1>9, <3>1, <3>2
  <2>2. ASSUME NEW i \in 1..(m - 1)
        PROVE  q[i] \in DOMAIN heap' /\ heap'[q[i]].next = heap[q[i]].next
    <3>1. i \in 1..Len(q) /\ i # m
      BY <1>0
    <3> QED
      BY <1>0, <1>6, <1>7, <1>9, <3>1
  <2>3. q[m] \notin DOMAIN heap' /\ m \in 2..Len(q) /\ header' = header
    BY <1>3, <1>5, <1>6
  <2>4. ~Sound'
    BY <2>2, <2>3, FreedIsMet
  <2> QED
    BY <1>5, <2>1, <2>4
<1> QED
  BY <1>8, <1>9

\* A bad pointer is followed behind the header of a sorted list only.
LEMMA UndefinedSorted ==
  ASSUME TypeOK, NEW q, Good(q), NEW m \in 1..Len(q), DeleteUndefined(q[m])
  PROVE  sorted /\ m # 1 /\ ~Sound'
<1>0. /\ q \in Seq(DOMAIN heap) /\ Len(q) \in Nat /\ NULL \notin DOMAIN heap
      /\ \A i \in 1..Len(q) : q[i] \in DOMAIN heap /\ q[i] \in Address
      /\ \A i, l \in 1..Len(q) : q[i] = q[l] => i = l
      /\ header = NULL <=> q = <<>>
      /\ header # NULL => Len(q) > 0 /\ header = q[1] /\ tail = q[Len(q)]
      /\ \A i \in 1..Len(q) : heap[q[i]].next = IF i < Len(q) THEN q[i + 1] ELSE NULL
  BY Listed
<1>1. /\ q[m] # header /\ broken'
      /\ ~InUse(heap[q[m]].prev) \/ (q[m] # tail /\ ~InUse(heap[q[m]].next))
  BY DEF DeleteUndefined
<1>2. header # NULL /\ 1 \in 1..Len(q) /\ Len(q) \in 1..Len(q)
  BY <1>0
<1>3. m # 1
  BY <1>0, <1>1, <1>2
<1>4. ~Sound'
  BY <1>1 DEF Sound
<1>5. sorted
  <2> SUFFICES ASSUME ~sorted PROVE FALSE
    OBVIOUS
  <2>1. heap[q[m]].prev = q[m - 1] /\ m - 1 \in 1..Len(q)
    <3>1. m \in 2..Len(q) /\ m - 1 \in 1..Len(q)
      BY <1>0, <1>3
    <3> QED
      BY <3>1 DEF Good
  <2>2. InUse(heap[q[m]].prev)
    BY <1>0, <2>1 DEF InUse
  <2>3. q[m] # tail
    BY <1>1, <2>2
  <2>4. m < Len(q) /\ m + 1 \in 1..Len(q)
    <3>1. m # Len(q)
      BY <1>0, <1>2, <2>3
    <3> QED
      BY <1>0, <3>1
  <2>5. InUse(heap[q[m]].next)
    BY <1>0, <2>4 DEF InUse
  <2> QED
    BY <1>1, <2>2, <2>5
<1> QED
  BY <1>3, <1>4, <1>5

-----------------------------------------------------------------------------
(* The theorems. *)

\* A step keeps the invariant and is one of the abstract list, or leaves it alone.
Simulated == LInv' /\ (Abstract!Next \/ UNCHANGED <<sorted, list>>)

\* The invariant holds where the list is sound, as one of some nodes.
LEMMA GoodKept ==
  ASSUME TypeOK', Sound', \E r : Good(r)'
  PROVE  LInv'
BY DEF LInv

\* The abstract list is not undefined while the list is sound.
LEMMA Defined ==
  ASSUME TypeOK, Sound, NEW q, Good(q)
  PROVE  list # NULL
<1>1. list \in Seq(Entry)
  BY SoundReads
<1> QED
  BY <1>1, AddressAssumption DEF Entry

\* push and the insertion loops.
LEMMA InsertionKept ==
  ASSUME LInv, TypeOK', Sound, NEW a \in Address \ DOMAIN heap, NEW k \in Key,
         \/ PushFirst(a, k) \/ PushBehind(a, k)
         \/ InsertFirst(a, k) \/ InsertBehind(a, k),
         UNCHANGED <<sorted, broken>>
  PROVE  Simulated
<1>1. PICK q : Good(q)
  BY DEF LInv
<1>2. TypeOK
  BY DEF LInv
<1>3. PICK j \in 1..(Len(q) + 1) : LinkedIn(q, j, a, k) /\ Placed(q, j, a, k)
  BY <1>1, <1>2, InsertStep
<1>4. /\ \E r : Good(r)'
      /\ Sound'
      /\ \E e \in Entry : Abstract!Push(e) \/ Abstract!Insert(e)
  BY <1>1, <1>2, <1>3, InsertionSimulates
<1>5. LInv'
  BY <1>4, GoodKept
<1>6. list # NULL
  BY <1>1, <1>2, Defined
<1>7. Abstract!Next
  BY <1>4, <1>6 DEF Abstract!Next, Entry, list
<1> QED
  BY <1>5, <1>7 DEF Simulated

\* pop.
LEMMA PopKept ==
  ASSUME LInv, TypeOK', Sound, Pop, UNCHANGED <<sorted, broken>>
  PROVE  Simulated
<1>1. PICK q : Good(q)
  BY DEF LInv
<1>2. TypeOK
  BY DEF LInv
<1>3. (\E r : Good(r)') /\ Sound' /\ Abstract!Pop
  BY <1>1, <1>2, PopStep
<1>4. list # NULL
  BY <1>1, <1>2, Defined
<1>5. Abstract!Next
  BY <1>3, <1>4 DEF Abstract!Next, list
<1> QED
  BY <1>3, <1>5, GoodKept DEF Simulated

\* delete_list: it unlinks the node that find returns, or breaks a sorted list.
LEMMA DeletionKept ==
  ASSUME LInv, TypeOK', Sound, NEW k \in Key, Found(k) # {},
         \/ DeleteHeader(Place(k)) \/ DeleteTail(Place(k))
         \/ DeleteMiddle(Place(k)) \/ DeleteUndefined(Place(k)),
         UNCHANGED sorted
  PROVE  Simulated
<1>1. PICK q : Good(q)
  BY DEF LInv
<1>2. TypeOK
  BY DEF LInv
<1>3. PICK m \in 1..Len(q) :
        /\ Place(k) = q[m] /\ heap[q[m]].key = k
        /\ \A i \in 1..Len(q) : heap[q[i]].key = k => m <= i
  BY <1>1, <1>2, FoundNode
<1>4. list # NULL
  BY <1>1, <1>2, Defined
<1>5. ASSUME NEW j \in 0..(m - 1), m > 1 => j > 0, Unlinked(q, j, m)
      PROVE  Simulated
  <2>1. (\E r : Good(r)') /\ Sound' /\ Abstract!Delete(k)
    BY <1>1, <1>2, <1>3, <1>5, DeletionSimulates
  <2>2. Abstract!Next
    BY <1>4, <2>1 DEF Abstract!Next, list
  <2> QED
    BY <2>1, <2>2, GoodKept DEF Simulated
<1>6. ASSUME sorted /\ m # 1 /\ ~Sound'
      PROVE  Simulated
  <2>1. Abstract!Delete(k)
    BY <1>1, <1>2, <1>3, <1>6, LossSimulates
  <2>2. Abstract!Next
    BY <1>4, <2>1 DEF Abstract!Next, list
  <2>3. LInv'
    BY <1>6 DEF LInv
  <2> QED
    BY <2>2, <2>3 DEF Simulated
<1>7. CASE DeleteHeader(q[m])
  <2>1. m = 1 /\ Unlinked(q, 0, m)
    BY <1>1, <1>2, <1>7, HeaderUnlinked
  <2>2. 0 \in 0..(m - 1) /\ ~(m > 1)
    BY <2>1
  <2> QED
    BY <1>5, <2>1, <2>2
<1>8. CASE DeleteTail(q[m]) \/ DeleteMiddle(q[m])
  <2>1. /\ m > 1
        /\ \/ \E j \in 1..(m - 1) : Unlinked(q, j, m)
           \/ sorted /\ ~Sound'
    BY <1>1, <1>2, <1>8, TailUnlinked, MiddleUnlinked
  <2>2. CASE \E j \in 1..(m - 1) : Unlinked(q, j, m)
    <3>1. PICK j \in 1..(m - 1) : Unlinked(q, j, m)
      BY <2>2
    <3>2. j \in 0..(m - 1) /\ j > 0
      OBVIOUS
    <3> QED
      BY <1>5, <3>1, <3>2
  <2>3. CASE sorted /\ ~Sound'
    BY <1>6, <2>1, <2>3
  <2> QED
    BY <2>1, <2>2, <2>3
<1>9. CASE DeleteUndefined(q[m])
  <2>1. sorted /\ m # 1 /\ ~Sound'
    BY <1>1, <1>2, <1>9, UndefinedSorted
  <2> QED
    BY <1>6, <2>1
<1> QED
  BY <1>3, <1>7, <1>8, <1>9

\* Where no variable changes the list reads the same.
LEMMA Unchanged ==
  ASSUME LInv, UNCHANGED vars
  PROVE  Simulated
<1>1. UNCHANGED <<sorted, heap, header, tail, broken>>
  BY DEF vars
<1>2. At' = At
  BY <1>1 DEF At, InUse, Limit
<1>3. Steps' = Steps /\ (Sound' <=> Sound)
  BY <1>1, <1>2 DEF Steps, Sound, InUse, Limit
<1>4. Content' = Content
  BY <1>1, <1>2, <1>3 DEF Content
<1>5. list' = list
  BY <1>3, <1>4 DEF list
<1>6. TypeOK' /\ \A q : Good(q) => Good(q)'
  BY <1>1 DEF LInv, TypeOK, Good, Chain
<1> QED
  BY <1>1, <1>3, <1>5, <1>6 DEF LInv, Simulated

\* Every step of the code is such a step.
LEMMA StepSimulated == LInv /\ [Next]_vars => Simulated
<1> SUFFICES ASSUME LInv, [Next]_vars PROVE Simulated
  OBVIOUS
<1>1. TypeOK'
  BY StepType
<1>2. CASE UNCHANGED vars
  BY <1>2, Unchanged
<1>3. CASE Sound /\ Pop /\ UNCHANGED broken /\ UNCHANGED sorted
  BY <1>1, <1>3, PopKept
<1>4. ASSUME Sound, NEW a \in Address \ DOMAIN heap, NEW k \in Key,
             \/ PushFirst(a, k) \/ PushBehind(a, k)
             \/ InsertFirst(a, k) \/ InsertBehind(a, k),
             UNCHANGED broken, UNCHANGED sorted
      PROVE  Simulated
  BY <1>1, <1>4, InsertionKept
<1>5. ASSUME Sound, NEW k \in Key, Found(k) # {},
             \/ DeleteHeader(Place(k)) \/ DeleteTail(Place(k))
             \/ DeleteMiddle(Place(k)) \/ DeleteUndefined(Place(k)),
             UNCHANGED sorted
      PROVE  Simulated
  BY <1>1, <1>5, DeletionKept
<1> QED
  BY <1>2, <1>3, <1>4, <1>5 DEF Next, Halted

\* create_list makes an empty list.
LEMMA InitSimulated == Init => LInv /\ Abstract!Init
<1> SUFFICES ASSUME Init PROVE LInv /\ Abstract!Init
  OBVIOUS
<1>1. /\ heap = <<>> /\ header = NULL /\ tail = NULL /\ broken = FALSE
      /\ sorted \in BOOLEAN
  BY DEF Init
<1>2. DOMAIN heap = {}
  BY <1>1
<1>3. TypeOK
  BY <1>1, <1>2 DEF TypeOK, Pointer
<1>4. Good(<<>>)
  <2>1. <<>> \in Seq(DOMAIN heap) /\ Len(<<>>) = 0
    OBVIOUS
  <2>2. Chain(<<>>, NULL)
    BY <1>1, <1>2, <2>1 DEF Chain
  <2>3. IsInjective(<<>>)
    BY <2>1 DEF IsInjective
  <2> QED
    BY <2>1, <2>2, <2>3 DEF Good
<1>5. Sound /\ Content = Entries(<<>>)
  BY <1>1, <1>3, <1>4, Reads DEF ReadsAs
<1>6. Entries(<<>>) = <<>>
  <2>1. <<>> \in Seq(DOMAIN heap) /\ Len(<<>>) = 0
    OBVIOUS
  <2>2. Entries(<<>>) \in Seq(Entry) /\ Len(Entries(<<>>)) = 0
    BY <1>3, <2>1, EntriesType
  <2>3. PICK es : es = Entries(<<>>)
    OBVIOUS
  <2>4. es = <<>>
    BY <2>2, <2>3
  <2> QED
    BY <2>3, <2>4
<1>7. Abstract!Init
  BY <1>1, <1>5, <1>6 DEF Abstract!Init
<1> QED
  BY <1>3, <1>4, <1>5, <1>7 DEF LInv

\* In every state the variables have their types, a list that is only pushed to is
\* sound, and a sound list is that of some sequence of distinct nodes.
THEOREM ListInvariant == Spec => []LInv
<1>1. Init => LInv
  BY InitSimulated
<1>2. LInv /\ [Next]_vars => LInv'
  BY StepSimulated DEF Simulated
<1> QED
  BY <1>1, <1>2, PTL DEF Spec

\* list.c's pointers are those of nodes or NULL, at every moment (TypeOK).
THEOREM ListTypes == Spec => []TypeOK
<1>1. LInv => TypeOK
  BY DEF LInv
<1> QED
  BY <1>1, ListInvariant, PTL

\* push keeps prev the element before, and tail the last element (QueueLinked).
THEOREM QueuesAreLinked == Spec => []QueueLinked
<1>1. LInv => QueueLinked
  <2> SUFFICES ASSUME LInv, ~sorted, header # NULL
               PROVE  /\ \A i \in Steps : i > 0 => heap[At[i]].prev = At[i - 1]
                      /\ tail = At[Cardinality(Steps) - 1]
    BY DEF QueueLinked
  <2>1. PICK q : Good(q)
    BY DEF LInv
  <2>2. TypeOK /\ q \in Seq(DOMAIN heap) /\ Len(q) \in Nat /\ Len(q) > 0
    BY <2>1, Listed DEF LInv
  <2>3. /\ Steps = 0..(Len(q) - 1)
        /\ \A i \in 1..Len(q) : At[i - 1] = q[i]
    BY <2>1, <2>2, ChainWalk DEF ChainFact, Good
  <2>4. tail = q[Len(q)] /\ \A i \in 2..Len(q) : heap[q[i]].prev = q[i - 1]
    BY <2>1, <2>2 DEF Good
  <2>5. ASSUME NEW i \in Steps, i > 0 PROVE heap[At[i]].prev = At[i - 1]
    <3>1. /\ i + 1 \in 2..Len(q) /\ i + 1 \in 1..Len(q) /\ i \in 1..Len(q)
          /\ (i + 1) - 1 = i
      BY <2>2, <2>3, <2>5
    <3>2. At[i] = q[i + 1] /\ At[i - 1] = q[i]
      BY <2>3, <3>1
    <3> QED
      BY <2>4, <3>1, <3>2
  <2>6. Cardinality(Steps) = Len(q)
    <3>1. 0 \in Int /\ Len(q) - 1 \in Int
      BY <2>2
    <3>2. Cardinality(Steps) = IF 0 > Len(q) - 1 THEN 0 ELSE (Len(q) - 1) - 0 + 1
      BY <2>3, <3>1, FS_Interval
    <3> QED
      BY <2>2, <3>2
  <2>7. tail = At[Cardinality(Steps) - 1]
    <3>1. Len(q) \in 1..Len(q)
      BY <2>2
    <3> QED
      BY <2>3, <2>4, <2>6, <3>1
  <2> QED
    BY <2>5, <2>7
<1> QED
  BY <1>1, ListInvariant, PTL

\* The pointers of list.c implement the sequences by which every other module describes
\* its lists (ImplementsList).
THEOREM PointersImplementSequences == Spec => ImplementsList
<1>1. Init => LInv /\ Abstract!Init
  BY InitSimulated
<1>2. LInv /\ [Next]_vars => LInv' /\ (Abstract!Next \/ UNCHANGED <<sorted, list>>)
  BY StepSimulated DEF Simulated
<1> QED
  BY <1>1, <1>2, PTL DEF Spec, ImplementsList, Abstract!Spec, list

============================================================================
