--------------------------- MODULE SemaphoreProofs ---------------------------
(***************************************************************************)
(* Proofs about the list of semaphores: two threads use it with no lock,   *)
(* and the CPU thread's searches succeed, for every set of programs.       *)
(***************************************************************************)
EXTENDS SemaphoreList, SequenceTheorems, TLAPS

Pushing == {"push_header", "push_first", "push_only", "push_link", "push_next",
            "push_tail"}

\* All but the node that is being pushed.
Settled == IF ui \in Pushing THEN nodes - 1 ELSE nodes

\* c is the name of one of the settled nodes.
Has(c) == \E k \in 1..Settled : name[k] = c

\* The settled nodes follow one another from the header to the tail.
ChainOK ==
  /\ ui \in {"push_header", "push_first", "push_only"} => nodes = 1
  /\ ui \in {"push_link", "push_next", "push_tail"} => nodes > 1
  /\ header = IF nodes = 0 \/ ui = "push_header" THEN NULL ELSE 1
  /\ Settled > 0 => tail = Settled
  /\ ui = "push_only" => tail = nodes
  /\ \A i \in 1..(Settled - 1) : next[i] = i + 1
  /\ ui \in {"push_next", "push_tail"} => next[Settled] = nodes
  /\ ui \notin Pushing \ {"push_tail"} /\ nodes > 0 => next[nodes] = NULL

\* What the main thread has read so far is on the list, and what its search has
\* passed is not what it searches for.
ReaderOK ==
  /\ ui # "prompt" => program \in Program /\ ch \in 1..(Len(Declared[program]) + 1)
  /\ ui \notin {"prompt", "read"} => ch \in DOMAIN Declared[program]
  /\ ui # "prompt" => \A j \in 1..(ch - 1) : Has(Declared[program][j])
  /\ ui = "find" =>
       /\ ui_tmp \in 1..nodes \cup {NULL}
       /\ \A k \in 1..nodes : ui_tmp = NULL \/ k < ui_tmp =>
            name[k] # Declared[program][ch]
  /\ ui \in Pushing => name[nodes] = Declared[program][ch]

\* Every semaphore of a process that may run is on the list.
CreatedOK == \A p \in created : \A j \in DOMAIN Declared[p] : Has(Declared[p][j])

\* What the CPU thread searches for is at cpu_tmp or behind it.
SearchOK ==
  cpu = "find" => /\ cpu_tmp \in 1..Settled
                  /\ \E k \in cpu_tmp..Settled : name[k] = wanted

\* The inductive invariant.
IInv == TypeOK /\ OneOfEachName /\ ChainOK /\ ReaderOK /\ CreatedOK /\ SearchOK

\* Append keeps what is there, and adds one element.
LEMMA Appended ==
  ASSUME NEW S, NEW n \in Nat, NEW q \in [1..n -> S], NEW e \in S
  PROVE  /\ Append(q, e) \in [1..(n + 1) -> S]
         /\ \A k \in 1..n : Append(q, e)[k] = q[k]
         /\ Append(q, e)[n + 1] = e
<1>1. q \in Seq(S) /\ Len(q) = n
  OBVIOUS
<1>2. Append(q, e) \in Seq(S) /\ Len(Append(q, e)) = n + 1
  BY <1>1
<1>3. Append(q, e) \in [1..(n + 1) -> S]
  BY <1>2, LenProperties
<1>4. \A k \in 1..(n + 1) : Append(q, e)[k] = IF k = n + 1 THEN e ELSE q[k]
  BY <1>1, AppendProperties
<1> QED
  BY <1>3, <1>4

\* It holds of the empty list.
LEMMA InitIInv == Init => IInv
<1> SUFFICES ASSUME Init PROVE IInv
  OBVIOUS
<1> USE DEF Init
<1>1. TypeOK
  BY DEF TypeOK, Link
<1>2. OneOfEachName /\ ChainOK /\ CreatedOK /\ SearchOK
  BY DEF OneOfEachName, ChainOK, CreatedOK, SearchOK, Settled, Pushing
<1>3. ReaderOK
  BY DEF ReaderOK, Pushing
<1> QED
  BY <1>1, <1>2, <1>3 DEF IInv

\* The character under ch is a name.
LEMMA NameRead ==
  ASSUME NEW p \in Program, NEW j \in DOMAIN Declared[p]
  PROVE  Declared[p][j] \in Name
BY DeclaredAssumption

\* A step keeps the types.
LEMMA StepType == IInv /\ [Next]_vars => TypeOK'
<1> SUFFICES ASSUME IInv, [Next]_vars PROVE TypeOK'
  OBVIOUS
<1> USE DEF TypeOK, Link
<1>0. TypeOK /\ ChainOK /\ ReaderOK
  BY DEF IInv
<1>1. CASE UNCHANGED vars
  BY <1>0, <1>1 DEF vars, listVars, uiVars, cpuVars
<1>2. CASE \E p \in Program : Open(p)
  BY <1>0, <1>2 DEF Open, listVars, cpuVars
<1>3. CASE Close
  BY <1>0, <1>3 DEF Close, listVars, cpuVars, ReaderOK
<1>4. CASE StartFind
  BY <1>0, <1>4 DEF StartFind, listVars, cpuVars
<1>5. CASE Find
  <2>1. ui_tmp \in 1..nodes
    BY <1>0, <1>5 DEF Find, ReaderOK
  <2> QED
    BY <1>0, <1>5, <2>1 DEF Find, listVars, cpuVars
<1>6. CASE NotFound
  <2>1. Declared[program][ch] \in Name
    BY <1>0, <1>6, NameRead DEF NotFound, ReaderOK
  <2>2. Unset \in Link
    OBVIOUS
  <2>3. next' \in [1..nodes' -> Link] /\ name' \in [1..nodes' -> Name]
    BY <1>0, <1>6, <2>1, <2>2, Appended DEF NotFound
  <2> QED
    BY <1>0, <1>6, <2>3 DEF NotFound, cpuVars
<1>7. CASE PushHeader \/ PushFirst \/ PushOnly
  BY <1>0, <1>7 DEF PushHeader, PushFirst, PushOnly, cpuVars
<1>8. CASE PushLink \/ PushNext \/ PushTail
  BY <1>0, <1>8 DEF PushLink, PushNext, PushTail, cpuVars
<1>9. CASE \E p \in created : \E j \in DOMAIN Declared[p] : Search(Declared[p][j])
  <2>0. PICK p \in created : \E j \in DOMAIN Declared[p] : Search(Declared[p][j])
    BY <1>9
  <2>1. PICK j \in DOMAIN Declared[p] : Search(Declared[p][j])
    BY <2>0
  <2>2. Declared[p][j] \in Name
    BY <1>0, NameRead
  <2> QED
    BY <1>0, <2>1, <2>2 DEF Search, listVars, uiVars
<1>10. CASE Visit
  <2>1. cpu_tmp \in 1..nodes
    BY <1>0, <1>10 DEF Visit, IInv, SearchOK, Settled
  <2> QED
    BY <1>0, <1>10, <2>1 DEF Visit, listVars, uiVars
<1> QED
  BY <1>1, <1>2, <1>3, <1>4, <1>5, <1>6, <1>7, <1>8, <1>9, <1>10 DEF Next

\* The list only grows, and its nodes keep their names.
LEMMA Grows ==
  ASSUME IInv, [Next]_vars
  PROVE  /\ nodes \in Nat /\ nodes' \in Nat /\ nodes <= nodes'
         /\ Settled \in Nat /\ Settled' \in Nat /\ Settled <= Settled'
         /\ \A k \in 1..nodes : name'[k] = name[k]
<1>0. TypeOK /\ ChainOK
  BY DEF IInv
<1>1. Len(name) = nodes /\ name \in Seq(Name) /\ nodes \in Nat
  BY <1>0 DEF TypeOK
<1>2. CASE NotFound
  <2>1. Declared[program][ch] \in Name
    BY <1>2, NameRead DEF NotFound, IInv, ReaderOK
  <2>2. \A k \in 1..nodes : name'[k] = name[k]
    BY <1>0, <1>2, <2>1, Appended DEF NotFound, TypeOK
  <2>3. nodes' = nodes + 1 /\ Settled = nodes
    BY <1>1, <1>2 DEF NotFound, Settled, Pushing
  <2>4. ui' \in Pushing
    BY <1>2 DEF NotFound, Pushing
  <2>5. Settled' = nodes
    BY <1>1, <2>3, <2>4 DEF Settled
  <2> QED
    BY <1>1, <2>2, <2>3, <2>5
<1>3. CASE ~NotFound
  <2>1. UNCHANGED <<nodes, name>>
    BY <1>3 DEF Next, Open, Close, StartFind, Find, PushHeader, PushFirst, PushOnly,
      PushLink, PushNext, PushTail, Search, Visit, vars, listVars
  <2>2. ui' \in Pushing => ui \in Pushing
    BY <1>3 DEF Next, Open, Close, StartFind, Find, PushHeader, PushFirst, PushOnly,
      PushLink, PushNext, PushTail, Search, Visit, vars, uiVars, Pushing
  <2>3. ui \in Pushing => nodes > 0
    BY <1>0, <1>1 DEF ChainOK, Pushing
  <2> QED
    BY <1>1, <2>1, <2>2, <2>3 DEF Settled
<1> QED
  BY <1>2, <1>3

\* What has been found on the list can be found again.
LEMMA HasKept ==
  ASSUME IInv, [Next]_vars, NEW c, Has(c)
  PROVE  Has(c)'
<1>1. PICK k \in 1..Settled : name[k] = c
  BY DEF Has
<1>2. Settled <= nodes
  BY Grows DEF Settled
<1> QED
  BY <1>1, <1>2, Grows DEF Has

\* The steps that write neither the list nor the phase of push.
Elsewhere ==
  /\ UNCHANGED listVars
  /\ (ui \notin Pushing /\ ui' \notin Pushing) \/ ui' = ui

\* Only seven actions write the list.
LEMMA StepElsewhere ==
  ASSUME [Next]_vars
  PROVE  Elsewhere \/ NotFound \/ PushHeader \/ PushFirst \/ PushOnly
           \/ PushLink \/ PushNext \/ PushTail
BY DEF Next, Open, Close, StartFind, Find, Search, Visit, vars, listVars, uiVars,
  Elsewhere, Pushing

\* A step keeps the chain.
LEMMA StepChain == IInv /\ [Next]_vars => ChainOK'
<1> SUFFICES ASSUME IInv, [Next]_vars PROVE ChainOK'
  OBVIOUS
<1>0. TypeOK /\ ChainOK /\ ReaderOK
  BY DEF IInv
<1>1. nodes \in Nat /\ next \in [1..nodes -> Link]
  BY <1>0 DEF TypeOK
<1>2. CASE Elsewhere
  BY <1>0, <1>2 DEF Elsewhere, ChainOK, Settled, listVars, Pushing
<1>3. CASE NotFound
  <2>1. nodes' = nodes + 1 /\ Settled = nodes /\ Settled' = nodes
    BY <1>1, <1>3 DEF NotFound, Settled, Pushing
  <2>2. Unset \in Link
    BY DEF Link
  <2>3. \A k \in 1..nodes : next'[k] = next[k]
    BY <1>1, <1>3, <2>2, Appended DEF NotFound
  <2>4. nodes = 0 <=> header = NULL
    BY <1>0, <1>3, NullAssumption DEF NotFound, ChainOK
  <2>5. ui' = IF nodes = 0 THEN "push_header" ELSE "push_link"
    BY <1>3, <2>4 DEF NotFound
  <2>6. UNCHANGED <<header, tail>> /\ ui = "find"
    BY <1>3 DEF NotFound
  <2> QED
    BY <1>0, <1>1, <2>1, <2>3, <2>5, <2>6 DEF ChainOK, Pushing
<1>4. CASE PushHeader
  BY <1>0, <1>1, <1>4 DEF PushHeader, ChainOK, Settled, Pushing
<1>5. CASE PushFirst
  BY <1>0, <1>1, <1>5 DEF PushFirst, ChainOK, Settled, Pushing
<1>6. CASE PushOnly
  BY <1>0, <1>1, <1>6 DEF PushOnly, ChainOK, Settled, Pushing
<1>7. CASE PushLink
  BY <1>0, <1>1, <1>7 DEF PushLink, ChainOK, Settled, Pushing
<1>8. CASE PushNext
  BY <1>0, <1>1, <1>8 DEF PushNext, ChainOK, Settled, Pushing
<1>9. CASE PushTail
  BY <1>0, <1>1, <1>9 DEF PushTail, ChainOK, Settled, Pushing
<1> QED
  BY <1>2, <1>3, <1>4, <1>5, <1>6, <1>7, <1>8, <1>9, StepElsewhere

\* A step gives no two nodes the same name.
LEMMA StepUnique == IInv /\ [Next]_vars => OneOfEachName'
<1> SUFFICES ASSUME IInv, [Next]_vars PROVE OneOfEachName'
  OBVIOUS
<1>0. TypeOK /\ OneOfEachName /\ ReaderOK
  BY DEF IInv
<1>1. CASE NotFound
  <2>1. Declared[program][ch] \in Name
    BY <1>0, <1>1, NameRead DEF NotFound, ReaderOK
  <2>2. /\ nodes \in Nat /\ nodes' = nodes + 1
        /\ \A k \in 1..nodes : name'[k] = name[k]
        /\ name'[nodes + 1] = Declared[program][ch]
    BY <1>0, <1>1, <2>1, Appended DEF NotFound, TypeOK
  <2>3. \A k \in 1..nodes : name[k] # Declared[program][ch]
    BY <1>0, <1>1 DEF NotFound, ReaderOK
  <2> QED
    BY <1>0, <2>2, <2>3 DEF OneOfEachName
<1>2. CASE ~NotFound
  <2>1. UNCHANGED <<nodes, name>>
    BY <1>2, StepElsewhere DEF Elsewhere, listVars, PushHeader, PushFirst, PushOnly,
      PushLink, PushNext, PushTail
  <2> QED
    BY <1>0, <2>1 DEF OneOfEachName
<1> QED
  BY <1>1, <1>2

\* A step lets no process run whose semaphores are not all on the list.
LEMMA StepCreated == IInv /\ [Next]_vars => CreatedOK'
<1> SUFFICES ASSUME IInv, [Next]_vars,
                    NEW p \in created', NEW j \in DOMAIN Declared[p]
             PROVE  Has(Declared[p][j])'
  BY DEF CreatedOK
<1>1. CASE p \in created
  BY <1>1, HasKept DEF IInv, CreatedOK
<1>2. CASE p \notin created
  <2>1. Close /\ p = program
    BY <1>2 DEF Next, Open, Close, StartFind, Find, NotFound, PushHeader, PushFirst,
      PushOnly, PushLink, PushNext, PushTail, Search, Visit, vars
  <2>2. ReaderOK /\ TypeOK /\ ui = "read" /\ ch > Len(Declared[p])
    BY <2>1 DEF IInv, Close, LastRead
  <2>3. p \in Program /\ Declared[p] \in Seq(Name)
    BY <2>1, <2>2, DeclaredAssumption DEF ReaderOK
  <2>4. j \in 1..(ch - 1)
    BY <2>2, <2>3 DEF TypeOK
  <2>5. Has(Declared[p][j])
    BY <2>1, <2>2, <2>4 DEF ReaderOK
  <2> QED
    BY <2>5, HasKept
<1> QED
  BY <1>1, <1>2

\* A step leaves what the CPU thread searches for ahead of its search.
LEMMA StepSearch == IInv /\ [Next]_vars => SearchOK'
<1> SUFFICES ASSUME IInv, [Next]_vars, cpu' = "find"
             PROVE  /\ cpu_tmp' \in 1..Settled'
                    /\ \E k \in cpu_tmp'..Settled' : name'[k] = wanted'
  BY DEF SearchOK
<1>0. TypeOK /\ SearchOK /\ CreatedOK /\ ChainOK /\ Settled \in Nat /\ Settled' \in Nat
      /\ Settled <= Settled' /\ \A k \in 1..Settled : name'[k] = name[k]
  BY Grows DEF IInv, Settled
<1>1. CASE \E p \in created : \E i \in DOMAIN Declared[p] : Search(Declared[p][i])
  <2>1. PICK p \in created : \E i \in DOMAIN Declared[p] : Search(Declared[p][i])
    BY <1>1
  <2>2. PICK i \in DOMAIN Declared[p] : Search(Declared[p][i])
    BY <2>1
  <2>3. PICK k \in 1..Settled : name[k] = Declared[p][i]
    BY <1>0 DEF CreatedOK, Has
  <2>4. header = 1
    BY <1>0, <2>3 DEF ChainOK, Settled, Pushing
  <2>5. cpu_tmp' = 1 /\ wanted' = Declared[p][i]
    BY <2>2, <2>4 DEF Search
  <2> QED
    BY <1>0, <2>3, <2>5
<1>2. CASE Visit
  <2>1. /\ cpu = "find" /\ name[cpu_tmp] # wanted
        /\ cpu_tmp' = next[cpu_tmp] /\ wanted' = wanted
    BY <1>2 DEF Visit, Matches
  <2>2. PICK k \in cpu_tmp..Settled : name[k] = wanted
    BY <1>0, <2>1 DEF SearchOK
  <2>3. cpu_tmp \in 1..Settled
    BY <1>0, <2>1 DEF SearchOK
  <2>4. cpu_tmp # k /\ cpu_tmp \in 1..(Settled - 1)
    BY <1>0, <2>1, <2>2, <2>3
  <2>5. cpu_tmp' = cpu_tmp + 1
    BY <1>0, <2>1, <2>4 DEF ChainOK
  <2>6. k \in cpu_tmp'..Settled'
    BY <1>0, <2>2, <2>3, <2>4, <2>5
  <2>7. name'[k] = wanted'
    BY <1>0, <2>1, <2>2, <2>3
  <2>8. cpu_tmp' \in 1..Settled'
    BY <1>0, <2>4, <2>5
  <2> QED
    BY <2>6, <2>7, <2>8
<1>3. CASE UNCHANGED cpuVars
  <2>1. cpu = "find" /\ cpu_tmp' = cpu_tmp /\ wanted' = wanted
    BY <1>3 DEF cpuVars
  <2>2. cpu_tmp \in 1..Settled
    BY <1>0, <2>1 DEF SearchOK
  <2>3. PICK k \in cpu_tmp..Settled : name[k] = wanted
    BY <1>0, <2>1 DEF SearchOK
  <2>4. k \in cpu_tmp..Settled' /\ name'[k] = wanted /\ cpu_tmp \in 1..Settled'
    BY <1>0, <2>2, <2>3
  <2> QED
    BY <2>1, <2>4
<1> QED
  BY <1>1, <1>2, <1>3 DEF Next, Open, Close, StartFind, Find, NotFound, PushHeader,
    PushFirst, PushOnly, PushLink, PushNext, PushTail, vars

\* A step keeps the main thread's account of its reading: five facts of the next
\* state, the second of them by HasKept wherever ch stays.
LEMMA StepReader == IInv /\ [Next]_vars => ReaderOK'
<1> SUFFICES ASSUME IInv, [Next]_vars PROVE ReaderOK'
  OBVIOUS
<1>0. TypeOK /\ ReaderOK /\ ChainOK
  BY DEF IInv
<1>1. nodes \in Nat /\ ch \in Nat /\ next \in [1..nodes -> Link]
  BY <1>0 DEF TypeOK
<1>2. \A c : Has(c) => Has(c)'
  BY HasKept
<1>3. \A p \in Program : Declared[p] \in Seq(Name)
  BY DeclaredAssumption
<1> HIDE DEF Has
<1>4. CASE UNCHANGED <<uiVars, listVars>>
  BY <1>0, <1>2, <1>4 DEF ReaderOK, uiVars, listVars, Pushing
<1>5. CASE \E p \in Program : Open(p)
  <2>1. program' \in Program /\ ch' = 1 /\ ui' = "read"
    BY <1>5 DEF Open
  <2> QED
    BY <1>3, <2>1 DEF ReaderOK, Pushing
<1>6. CASE Close
  BY <1>6 DEF Close, ReaderOK, Pushing
<1>7. CASE StartFind
  <2>1. /\ ui = "read" /\ ui' = "find" /\ ui_tmp' = header
        /\ UNCHANGED <<nodes, name, program, ch>> /\ ch <= Len(Declared[program])
    BY <1>0, <1>1, <1>3, <1>7 DEF StartFind, LastRead, ReaderOK, listVars
  <2>2. program \in Program /\ ch \in DOMAIN Declared[program]
    BY <1>0, <1>1, <1>3, <2>1 DEF ReaderOK
  <2>3. IF nodes = 0 THEN header = NULL ELSE header = 1
    BY <1>0, <2>1 DEF ChainOK
  <2> QED
    BY <1>0, <1>1, <1>2, <1>3, <2>1, <2>2, <2>3, NullAssumption DEF ReaderOK, Pushing
<1>8. CASE Find
  <2>1. /\ ui = "find" /\ ui_tmp \in 1..nodes /\ program \in Program
        /\ ch \in DOMAIN Declared[program]
        /\ UNCHANGED <<program, nodes, name>>
    BY <1>0, <1>8 DEF Find, ReaderOK, listVars
  <2>2. CASE Matches(ui_tmp, Declared[program][ch])
    <3>1. ui' = "read" /\ ch' = ch + 1
      BY <1>8, <2>2 DEF Find
    <3>2. Has(Declared[program][ch])
      BY <2>1, <2>2 DEF Has, Settled, Matches, Pushing
    <3>3. \A j \in 1..(ch' - 1) : Has(Declared[program][j])'
      BY <1>0, <1>1, <1>2, <2>1, <3>1, <3>2 DEF ReaderOK
    <3> QED
      BY <1>1, <1>3, <2>1, <3>1, <3>3 DEF ReaderOK, Pushing
  <2>3. CASE ~Matches(ui_tmp, Declared[program][ch])
    <3>1. ui_tmp' = next[ui_tmp] /\ UNCHANGED <<ui, ch>>
      BY <1>8, <2>3 DEF Find
    <3>2. next[ui_tmp] = IF ui_tmp = nodes THEN NULL ELSE ui_tmp + 1
      BY <1>0, <1>1, <2>1 DEF ChainOK, Settled, Pushing
    <3>3. \A k \in 1..ui_tmp : name[k] # Declared[program][ch]
      <4>1. \A k \in 1..nodes : k < ui_tmp => name[k] # Declared[program][ch]
        BY <1>0, <2>1 DEF ReaderOK
      <4> QED
        BY <1>1, <2>1, <2>3, <4>1 DEF Matches
    <3>4. /\ ui_tmp' \in 1..nodes \cup {NULL}
          /\ \A k \in 1..nodes : ui_tmp' = NULL \/ k < ui_tmp' =>
               name[k] # Declared[program][ch]
      BY <1>1, <2>1, <3>1, <3>2, <3>3, NullAssumption
    <3>5. \A j \in 1..(ch - 1) : Has(Declared[program][j])'
      BY <1>0, <1>2, <2>1 DEF ReaderOK
    <3>6. ch \in 1..(Len(Declared[program]) + 1)
      BY <1>0, <2>1 DEF ReaderOK
    <3> QED
      BY <2>1, <3>1, <3>4, <3>5, <3>6 DEF ReaderOK, Pushing
  <2> QED
    BY <2>2, <2>3
<1>9. CASE NotFound
  <2>1. /\ ui = "find" /\ ui' \in Pushing /\ UNCHANGED <<program, ch>>
        /\ nodes' = nodes + 1 /\ name' = Append(name, Declared[program][ch])
    BY <1>9 DEF NotFound, Pushing
  <2>2. program \in Program /\ ch \in DOMAIN Declared[program]
    BY <1>0, <2>1 DEF ReaderOK
  <2>3. name'[nodes'] = Declared[program][ch]
    BY <1>0, <2>1, <2>2, NameRead, Appended DEF TypeOK
  <2> QED
    BY <1>0, <1>2, <2>1, <2>2, <2>3 DEF ReaderOK, Pushing
<1>10. CASE PushHeader \/ PushFirst \/ PushLink \/ PushNext
  <2>1. /\ ui \in Pushing /\ ui' \in Pushing /\ UNCHANGED <<program, ch, nodes, name>>
    BY <1>10 DEF PushHeader, PushFirst, PushLink, PushNext, Pushing
  <2> QED
    BY <1>0, <1>2, <2>1 DEF ReaderOK, Pushing
<1>11. CASE PushOnly \/ PushTail
  <2>1. /\ ui \in Pushing /\ ui' = "read" /\ ch' = ch + 1
        /\ UNCHANGED <<program, nodes, name>> /\ nodes > 0
    BY <1>0, <1>1, <1>11 DEF PushOnly, PushTail, Pushing, ChainOK
  <2>2. /\ program \in Program /\ ch \in DOMAIN Declared[program]
        /\ name[nodes] = Declared[program][ch]
    BY <1>0, <2>1 DEF ReaderOK, Pushing
  <2>3. \A c : c = name[nodes] => Has(c)'
    BY <1>1, <2>1 DEF Has, Settled, Pushing
  <2>4. \A j \in 1..(ch' - 1) : Has(Declared[program][j])'
    <3> TAKE j \in 1..(ch' - 1)
    <3>1. CASE j < ch
      BY <1>0, <1>1, <1>2, <2>1, <3>1 DEF ReaderOK, Pushing
    <3>2. CASE j = ch
      BY <2>1, <2>2, <2>3, <3>2
    <3> QED
      BY <1>1, <2>1, <3>1, <3>2
  <2> QED
    BY <1>1, <1>3, <2>1, <2>2, <2>4 DEF ReaderOK, Pushing
<1> QED
  BY <1>4, <1>5, <1>6, <1>7, <1>8, <1>9, <1>10, <1>11 DEF Next, Search, Visit, vars

-----------------------------------------------------------------------------

\* It is an invariant.
LEMMA Invariant == Spec => []IInv
<1>1. IInv /\ [Next]_vars => IInv'
  BY StepType, StepUnique, StepChain, StepReader, StepCreated, StepSearch DEF IInv
<1> QED
  BY InitIInv, <1>1, PTL DEF Spec

\* The pointers, the names and the phases keep their types.
THEOREM SemaphoreTypes == Spec => []TypeOK
BY Invariant, PTL DEF IInv

\* find returns the node of the semaphore of every P and V, whatever the main thread
\* is adding to the list meanwhile (cpu.c:86-87 and 110-111).
THEOREM SearchesSucceed == Spec => []SearchSucceeds
<1>1. IInv => SearchSucceeds
  BY DEF IInv, TypeOK, SearchOK, SearchSucceeds, Settled
<1> QED
  BY Invariant, <1>1, PTL

\* No semaphore is ever created twice (process.c:87-99).
THEOREM SemaphoresShared == Spec => []OneOfEachName
BY Invariant, PTL DEF IInv

=============================================================================
