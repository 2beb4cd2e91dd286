---------------------------- MODULE DisplayProofs ----------------------------
(***************************************************************************)
(* Proofs about the log: whatever the threads log, each one draws the      *)
(* message it has just pushed, the windows show the end of the log, and    *)
(* the window of memory's space shows one report.                          *)
(***************************************************************************)
EXTENDS Display, FiniteSetTheorems, TLAPS

Inside == {"push", "refresh", "post"}

\* The semaphore is 1 when no thread is inside append_log_message's critical section,
\* and 0 when one is.
Exclusive ==
  /\ log_semaphore > 0 => \A t \in Thread : at[t] \notin Inside
  /\ \A t, u \in Thread : at[t] \in Inside /\ at[u] \in Inside => t = u

\* A thread inside a call has something left to log.
CallOK == \A t \in Thread : at[t] # "idle" => pending[t] # <<>>

\* The inductive invariant.
IInv == TypeOK /\ Exclusive /\ CallOK /\ OwnMessage

\* It holds before anything is logged.
LEMMA InitIInv == Init => IInv
BY DEF Init, IInv, TypeOK, Exclusive, CallOK, OwnMessage, Inside

\* What a thread logs next of its call is a message, and so is the rest.
LEMMA PrintedMessage ==
  ASSUME NEW q \in Seq(Message), q # <<>>
  PROVE  Head(q) \in Message /\ Tail(q) \in Seq(Message)
OBVIOUS

\* A pushed message is the last of the log.
LEMMA AppendedMessage ==
  ASSUME NEW q \in Seq(Message), NEW m \in Message
  PROVE  /\ Append(q, m) \in Seq(Message)
         /\ Append(q, m) # <<>>
         /\ Append(q, m)[Len(Append(q, m))] = m
OBVIOUS

\* A step keeps the types.
LEMMA StepType == IInv /\ [Next]_vars => TypeOK'
<1> SUFFICES ASSUME IInv, [Next]_vars PROVE TypeOK'
  OBVIOUS
<1>0. TypeOK /\ Exclusive /\ CallOK /\ OwnMessage
  BY DEF IInv
<1> USE DEF TypeOK, Goto
<1>1. ASSUME NEW t \in Thread, NEW messages \in Calls[t], Call(t, messages)
      PROVE  TypeOK'
  <2>1. messages \in Seq(Message)
    BY CallsAssumption
  <2> QED
    BY <1>0, <1>1, <2>1 DEF Call
<1>2. ASSUME NEW t \in Thread, Wait(t) PROVE TypeOK'
  <2>1. log_semaphore' = 0
    BY <1>0, <1>2 DEF Wait
  <2> QED
    BY <1>0, <1>2, <2>1 DEF Wait
<1>3. ASSUME NEW t \in Thread, Push(t) PROVE TypeOK'
  <2>1. Head(pending[t]) \in Message
    BY <1>0, <1>3, PrintedMessage DEF Push, CallOK
  <2> QED
    BY <1>0, <1>3, <2>1, AppendedMessage DEF Push
<1>4. ASSUME NEW t \in Thread, Refresh(t) PROVE TypeOK'
  <2>1. Head(pending[t]) \in Message
    BY <1>0, <1>4, PrintedMessage DEF Refresh, CallOK
  <2>2. LOGS[Len(LOGS)] = Head(pending[t])
    BY <1>0, <1>4 DEF Refresh, OwnMessage
  <2> DEFINE curr == LOGS[Len(LOGS)]
             w == curr.log_type
             line == IF Full(w) THEN 2 ELSE start[w]
             shown == [log |-> curr, highlight |-> Head(pending[t]).words]
             Lines == [log : Message, highlight : STRING]
  <2>3. w \in LOG_TYPE /\ shown \in Lines
    BY <2>1, <2>2 DEF Message
  <2>4. start' = [start EXCEPT ![w] = line + 1]
        /\ window' =
             [window EXCEPT ![w] = IF Full(w) THEN <<shown>> ELSE Append(@, shown)]
        /\ at' = [at EXCEPT ![t] = "post"] /\ UNCHANGED <<LOGS, log_semaphore, pending>>
    BY <1>4 DEF Refresh
  <2> HIDE DEF w, shown
  <2>5. line + 1 \in Nat
    BY <1>0, <2>3
  <2>6. (IF Full(w) THEN <<shown>> ELSE Append(window[w], shown)) \in Seq(Lines)
    <3>1. window[w] \in Seq(Lines)
      BY <1>0, <2>3
    <3>2. Append(window[w], shown) \in Seq(Lines) /\ <<shown>> \in Seq(Lines)
      BY <2>3, <3>1
    <3> QED
      BY <3>2
  <2>7. start' \in [LOG_TYPE -> Nat]
    BY <1>0, <2>4, <2>5
  <2>8. window' \in [LOG_TYPE -> Seq(Lines)]
    BY <1>0, <2>4, <2>6
  <2> QED
    BY <1>0, <2>4, <2>7, <2>8
<1>5. ASSUME NEW t \in Thread, Post(t) PROVE TypeOK'
  <2>1. log_semaphore' = 1
    BY <1>0, <1>5 DEF Post, Exclusive, Inside
  <2>2. Tail(pending[t]) \in Seq(Message)
    BY <1>0, <1>5, PrintedMessage DEF Post, CallOK
  <2> QED
    BY <1>0, <1>5, <2>1, <2>2 DEF Post
<1>6. CASE UNCHANGED vars
  BY <1>0, <1>6 DEF vars
<1> QED
  BY <1>1, <1>2, <1>3, <1>4, <1>5, <1>6 DEF Next, Rest

\* A step keeps the threads out of each other's critical section.
LEMMA StepExclusive == IInv /\ [Next]_vars => Exclusive'
<1> SUFFICES ASSUME IInv, [Next]_vars PROVE Exclusive'
  OBVIOUS
<1>0. TypeOK /\ Exclusive
  BY DEF IInv
<1> USE DEF Exclusive, Inside, Goto
<1>1. CASE UNCHANGED vars
  BY <1>0, <1>1 DEF vars
<1>2. ASSUME NEW t \in Thread, Wait(t) PROVE Exclusive'
  BY <1>0, <1>2 DEF Wait, TypeOK
<1>3. ASSUME NEW t \in Thread, Post(t) PROVE Exclusive'
  BY <1>0, <1>3 DEF Post, TypeOK
<1>4. ASSUME NEW t \in Thread, NEW messages \in Calls[t], Call(t, messages)
      PROVE  Exclusive'
  BY <1>0, <1>4 DEF Call, TypeOK
<1>5. ASSUME NEW t \in Thread, Push(t) PROVE Exclusive'
  BY <1>0, <1>5 DEF Push, TypeOK
<1>6. ASSUME NEW t \in Thread, Refresh(t) PROVE Exclusive'
  <2>1. at' = [at EXCEPT ![t] = "post"] /\ log_semaphore' = log_semaphore
        /\ at[t] = "refresh"
    BY <1>6 DEF Refresh
  <2> QED
    BY <1>0, <2>1 DEF TypeOK
<1> QED
  BY <1>1, <1>2, <1>3, <1>4, <1>5, <1>6 DEF Next, Rest

\* A step leaves every thread with what it has to log, and the tail of LOGS to the
\* thread that pushed it.
LEMMA StepCalls == IInv /\ [Next]_vars => CallOK' /\ OwnMessage'
<1> SUFFICES ASSUME IInv, [Next]_vars PROVE CallOK' /\ OwnMessage'
  OBVIOUS
<1>0. TypeOK /\ Exclusive /\ CallOK /\ OwnMessage
  BY DEF IInv
<1> USE DEF CallOK, OwnMessage, Goto
<1>1. CASE UNCHANGED vars
  BY <1>0, <1>1 DEF vars
<1>2. ASSUME NEW t \in Thread, Wait(t) PROVE CallOK' /\ OwnMessage'
  BY <1>0, <1>2 DEF Wait, TypeOK
<1>3. ASSUME NEW t \in Thread, Post(t) PROVE CallOK' /\ OwnMessage'
  BY <1>0, <1>3 DEF Post, TypeOK
<1>4. ASSUME NEW t \in Thread, NEW messages \in Calls[t], Call(t, messages)
      PROVE  CallOK' /\ OwnMessage'
  BY <1>0, <1>4, CallsAssumption DEF Call, TypeOK
<1>5. ASSUME NEW t \in Thread, Push(t) PROVE CallOK' /\ OwnMessage'
  <2>1. Head(pending[t]) \in Message
    BY <1>0, <1>5, PrintedMessage DEF Push, TypeOK
  <2>2. /\ at' = [at EXCEPT ![t] = "refresh"] /\ pending' = pending
        /\ LOGS' # <<>> /\ LOGS'[Len(LOGS')] = Head(pending[t])
    BY <1>0, <1>5, <2>1, AppendedMessage DEF Push, TypeOK
  <2>3. \A u \in Thread : at'[u] = "refresh" => u = t
    BY <1>0, <1>5, <2>2 DEF Exclusive, Inside, TypeOK, Push
  <2> QED
    BY <1>0, <1>5, <2>2, <2>3 DEF TypeOK, Push
<1>6. ASSUME NEW t \in Thread, Refresh(t) PROVE CallOK' /\ OwnMessage'
  <2>1. at' = [at EXCEPT ![t] = "post"] /\ UNCHANGED <<LOGS, pending>>
        /\ at[t] = "refresh"
    BY <1>6 DEF Refresh
  <2> QED
    BY <1>0, <2>1 DEF TypeOK
<1> QED
  BY <1>1, <1>2, <1>3, <1>4, <1>5, <1>6 DEF Next, Rest

\* It is an invariant.
LEMMA Invariant == Spec => []IInv
<1>1. IInv /\ [Next]_vars => IInv'
  BY StepType, StepExclusive, StepCalls DEF IInv
<1> QED
  BY InitIInv, <1>1, PTL DEF Spec

\* The log, the windows and the threads' positions keep their types; the log's
\* semaphore is never posted twice.
THEOREM DisplayTypes == Spec => []TypeOK
BY Invariant, PTL DEF IInv

\* The message drawn is the one that the drawing thread has just pushed
\* (main-window.c:238-240 and log.c:23-25).
THEOREM DrawsItsOwn == Spec => []OwnMessage
BY Invariant, PTL DEF IInv

-----------------------------------------------------------------------------
(* The windows show the log.  A message is drawn a step after it is pushed: the
   messages the windows stand for are all of LOGS, or all but the last while a thread
   is about to draw it. *)

SpaceLog == "MEMORY_SPACE_LOG"

DrawnTo == IF \E t \in Thread : at[t] = "refresh" THEN Len(LOGS) - 1 ELSE Len(LOGS)
DrawnOf(w) == {k \in 1..DrawnTo : LOGS[k].log_type = w}

\* The places of D behind k.
After(D, k) == {j \in D : j > k}

\* The lines of a window are the last messages of the places D of the log, in order.
Shows(lines, D, log) ==
  /\ Len(lines) <= Cardinality(D)
  /\ Len(lines) = 0 => D = {}
  /\ \A k \in D : Cardinality(After(D, k)) < Len(lines) =>
       lines[Len(lines) - Cardinality(After(D, k))] = Line(log[k])

\* The line behind the last that a window has.
Bottom(w) == IF w = SpaceLog THEN 2 + LINES_SPACE_LOG ELSE HalfScreen

\* The counter of a window is the line behind its last one, and inside the window.
CountsLines(w) == start[w] = 2 + Len(window[w]) /\ start[w] <= Bottom(w)

ShowsDrawn == \A w \in LOG_TYPE : CountsLines(w) /\ Shows(window[w], DrawnOf(w), LOGS)

\* A set of places in the log is finite, and so is the part of it behind a place.
LEMMA PlacesFinite ==
  ASSUME NEW n \in Nat, NEW D \in SUBSET (1..n)
  PROVE  /\ IsFiniteSet(D) /\ Cardinality(D) \in Nat
         /\ \A k : IsFiniteSet(After(D, k)) /\ Cardinality(After(D, k)) \in Nat
<1>1. IsFiniteSet(1..n)
  BY FS_Interval
<1>2. IsFiniteSet(D)
  BY <1>1, FS_Subset
<1>3. \A k : After(D, k) \in SUBSET D
  BY DEF After
<1>4. \A k : IsFiniteSet(After(D, k))
  BY <1>2, <1>3, FS_Subset
<1> QED
  BY <1>2, <1>4, FS_CardinalityType

\* One more place at the end: it is the last, and every other has one more behind it.
LEMMA PlaceAdded ==
  ASSUME NEW n \in Nat, NEW D \in SUBSET (1..n), NEW d \in Nat, d > n
  PROVE  /\ Cardinality(D \cup {d}) = Cardinality(D) + 1
         /\ Cardinality(After(D \cup {d}, d)) = 0
         /\ \A k \in D :
              Cardinality(After(D \cup {d}, k)) = Cardinality(After(D, k)) + 1
<1>1. d \notin D /\ \A j \in D : j \in Nat /\ j < d
  OBVIOUS
<1>2. Cardinality(D \cup {d}) = Cardinality(D) + 1
  BY <1>1, PlacesFinite, FS_AddElement
<1>3. After(D \cup {d}, d) = {}
  <2>1. \A j \in D \cup {d} : ~(j > d)
    BY <1>1
  <2> QED
    BY <2>1 DEF After
<1>4. ASSUME NEW k \in D
      PROVE  Cardinality(After(D \cup {d}, k)) = Cardinality(After(D, k)) + 1
  <2>1. After(D \cup {d}, k) = After(D, k) \cup {d}
    BY <1>1 DEF After
  <2>2. d \notin After(D, k) /\ IsFiniteSet(After(D, k))
    BY <1>1, PlacesFinite DEF After
  <2> QED
    BY <2>1, <2>2, FS_AddElement
<1> QED
  BY <1>2, <1>3, <1>4, FS_EmptySet

\* A window with the new message on its next line shows the log with that message.
LEMMA LineAdded ==
  ASSUME NEW n \in Nat, NEW D \in SUBSET (1..n), NEW log, NEW L, NEW lines \in Seq(L),
         NEW line \in L, line = Line(log[n + 1]), Shows(lines, D, log)
  PROVE  Shows(Append(lines, line), D \cup {n + 1}, log)
<1> DEFINE d == n + 1
           E == D \cup {d}
           more == Append(lines, line)
<1>1. /\ Cardinality(E) = Cardinality(D) + 1
      /\ Cardinality(After(E, d)) = 0
      /\ \A k \in D : Cardinality(After(E, k)) = Cardinality(After(D, k)) + 1
  <2>1. d \in Nat /\ d > n
    OBVIOUS
  <2> HIDE DEF d
  <2> QED
    BY <2>1, PlaceAdded
<1>2. /\ Cardinality(D) \in Nat
      /\ \A k \in D : Cardinality(After(D, k)) \in Nat
  BY PlacesFinite
<1>3. /\ Len(lines) \in Nat /\ Len(more) = Len(lines) + 1 /\ more[Len(lines) + 1] = line
      /\ \A i \in 1..Len(lines) : more[i] = lines[i]
  OBVIOUS
<1> HIDE DEF more
<1>4. Len(more) <= Cardinality(E) /\ Len(more) # 0
  BY <1>1, <1>2, <1>3 DEF Shows
<1>5. ASSUME NEW k \in E, Cardinality(After(E, k)) < Len(more)
      PROVE  more[Len(more) - Cardinality(After(E, k))] = Line(log[k])
  <2>1. CASE k = d
    BY <1>1, <1>3, <2>1
  <2>2. CASE k \in D
    <3>1. Cardinality(After(D, k)) < Len(lines)
          /\ Len(more) - Cardinality(After(E, k))
               = Len(lines) - Cardinality(After(D, k))
      <4>1. /\ Cardinality(After(E, k)) = Cardinality(After(D, k)) + 1
            /\ Cardinality(After(D, k)) \in Nat
        BY <1>1, <1>2, <2>2
      <4>2. PICK c, e, size, whole : /\ c = Cardinality(After(D, k))
                                     /\ e = Cardinality(After(E, k))
                                     /\ size = Len(lines) /\ whole = Len(more)
        OBVIOUS
      <4>3. e = c + 1 /\ c \in Nat /\ size \in Nat /\ whole = size + 1 /\ e < whole
        <5> HIDE DEF E
        <5> QED
          BY <1>3, <1>5, <4>1, <4>2
      <4>4. c < size /\ whole - e = size - c
        BY <4>3
      <4> HIDE DEF E
      <4> QED
        BY <4>2, <4>4
    <3>2. Len(lines) - Cardinality(After(D, k)) \in 1..Len(lines)
      BY <1>2, <1>3, <2>2, <3>1
    <3>3. lines[Len(lines) - Cardinality(After(D, k))] = Line(log[k])
      BY <2>2, <3>1 DEF Shows
    <3> QED
      BY <1>3, <3>1, <3>2, <3>3
  <2> QED
    BY <2>1, <2>2
<1> QED
  BY <1>4, <1>5 DEF Shows, more

\* So does a window loaded again with the new message alone.
LEMMA LineAlone ==
  ASSUME NEW n \in Nat, NEW D \in SUBSET (1..n), NEW log, NEW line,
         line = Line(log[n + 1])
  PROVE  Shows(<<line>>, D \cup {n + 1}, log)
<1> DEFINE d == n + 1
           E == D \cup {d}
<1>1. /\ Cardinality(E) = Cardinality(D) + 1
      /\ Cardinality(After(E, d)) = 0
      /\ \A k \in D : Cardinality(After(E, k)) = Cardinality(After(D, k)) + 1
  <2>1. d \in Nat /\ d > n
    OBVIOUS
  <2> HIDE DEF d
  <2> QED
    BY <2>1, PlaceAdded
<1>2. /\ Cardinality(D) \in Nat
      /\ \A k \in D : Cardinality(After(D, k)) \in Nat
  BY PlacesFinite
<1>3. Len(<<line>>) = 1 /\ <<line>>[1] = line
  OBVIOUS
<1>4. ASSUME NEW k \in E, Cardinality(After(E, k)) < 1
      PROVE  <<line>>[1 - Cardinality(After(E, k))] = Line(log[k])
  <2>1. k = d
    BY <1>1, <1>2, <1>4
  <2> QED
    BY <1>1, <1>3, <2>1
<1> QED
  BY <1>1, <1>2, <1>3, <1>4 DEF Shows

\* Nothing is drawn before anything is logged.
LEMMA InitShows == Init => ShowsDrawn
<1> SUFFICES ASSUME Init, NEW w \in LOG_TYPE
             PROVE  CountsLines(w) /\ Shows(window[w], DrawnOf(w), LOGS)
  BY DEF ShowsDrawn
<1>1. LOGS = <<>> /\ window[w] = <<>> /\ start[w] = 2
  BY DEF Init
<1>2. DrawnOf(w) = {}
  BY DEF Init, DrawnOf, DrawnTo
<1>3. Shows(window[w], DrawnOf(w), LOGS)
  BY <1>1, <1>2, FS_EmptySet DEF Shows
<1>4. CountsLines(w)
  BY <1>1, ScreenAssumption DEF CountsLines, Bottom, LINES_SPACE_LOG
<1> QED
  BY <1>3, <1>4

\* The places drawn are places of the log.
LEMMA DrawnPlaces ==
  ASSUME IInv
  PROVE  /\ DrawnTo \in Nat /\ DrawnTo <= Len(LOGS)
         /\ \A w : DrawnOf(w) \in SUBSET (1..DrawnTo)
<1>1. TypeOK /\ OwnMessage
  BY DEF IInv
<1>2. Len(LOGS) \in Nat /\ (LOGS # <<>> => Len(LOGS) # 0)
  BY <1>1 DEF TypeOK
<1>3. DrawnTo \in Nat /\ DrawnTo <= Len(LOGS)
  BY <1>1, <1>2 DEF DrawnTo, OwnMessage
<1> QED
  BY <1>3 DEF DrawnOf

\* A step that draws nothing leaves the drawn messages as they are.
LEMMA NothingDrawn ==
  ASSUME IInv, [Next]_vars, \A t \in Thread : ~Refresh(t)
  PROVE  /\ UNCHANGED <<start, window>> /\ DrawnTo' = DrawnTo
         /\ \A k \in 1..DrawnTo : LOGS'[k] = LOGS[k]
<1>0. TypeOK /\ Exclusive /\ CallOK
  BY DEF IInv
<1> USE DEF Goto
<1>1. ASSUME LOGS' = LOGS, UNCHANGED <<start, window>>,
             \A t \in Thread : at'[t] = "refresh" <=> at[t] = "refresh"
      PROVE  /\ UNCHANGED <<start, window>> /\ DrawnTo' = DrawnTo
             /\ \A k \in 1..DrawnTo : LOGS'[k] = LOGS[k]
  BY <1>1 DEF DrawnTo
<1>2. ASSUME NEW t \in Thread, NEW messages \in Calls[t], Call(t, messages)
      PROVE  \A u \in Thread : at'[u] = "refresh" <=> at[u] = "refresh"
  BY <1>0, <1>2 DEF Call, TypeOK
<1>3. ASSUME NEW t \in Thread, Wait(t)
      PROVE  \A u \in Thread : at'[u] = "refresh" <=> at[u] = "refresh"
  BY <1>0, <1>3 DEF Wait, TypeOK
<1>4. ASSUME NEW t \in Thread, Post(t)
      PROVE  \A u \in Thread : at'[u] = "refresh" <=> at[u] = "refresh"
  BY <1>0, <1>4 DEF Post, TypeOK
<1>5. ASSUME NEW t \in Thread, Push(t)
      PROVE  /\ UNCHANGED <<start, window>> /\ DrawnTo' = DrawnTo
             /\ \A k \in 1..DrawnTo : LOGS'[k] = LOGS[k]
  <2>1. \A u \in Thread : at[u] # "refresh"
    BY <1>0, <1>5 DEF Push, Exclusive, Inside
  <2>2. DrawnTo = Len(LOGS)
    BY <2>1 DEF DrawnTo
  <2>3. at'[t] = "refresh" /\ UNCHANGED <<start, window>>
    BY <1>0, <1>5 DEF Push, TypeOK
  <2>4. Head(pending[t]) \in Message /\ LOGS' = Append(LOGS, Head(pending[t]))
    BY <1>0, <1>5, PrintedMessage DEF Push, TypeOK, CallOK
  <2>5. Len(LOGS') = Len(LOGS) + 1 /\ \A k \in 1..Len(LOGS) : LOGS'[k] = LOGS[k]
    BY <1>0, <2>4 DEF TypeOK
  <2>6. DrawnTo' = Len(LOGS)
    BY <1>0, <2>3, <2>5 DEF DrawnTo, TypeOK
  <2> QED
    BY <2>2, <2>3, <2>5, <2>6
<1>6. CASE UNCHANGED vars
  BY <1>6 DEF vars, DrawnTo
<1>7. CASE \E t \in Thread : \E messages \in Calls[t] : Call(t, messages)
  <2>1. PICK t \in Thread : \E messages \in Calls[t] : Call(t, messages)
    BY <1>7
  <2>2. PICK messages \in Calls[t] : Call(t, messages)
    BY <2>1
  <2> QED
    BY <1>1, <1>2, <2>2 DEF Call
<1>8. CASE \E t \in Thread : Wait(t)
  <2>1. PICK t \in Thread : Wait(t)
    BY <1>8
  <2> QED
    BY <1>1, <1>3, <2>1 DEF Wait
<1>9. CASE \E t \in Thread : Post(t)
  <2>1. PICK t \in Thread : Post(t)
    BY <1>9
  <2> QED
    BY <1>1, <1>4, <2>1 DEF Post
<1>10. CASE \E t \in Thread : Push(t)
  BY <1>5, <1>10
<1> QED
  BY <1>6, <1>7, <1>8, <1>9, <1>10 DEF Next, Rest

\* What a drawing thread does: the message at the end of the log goes to the next line
\* of its window, or to the first line of a new one.
LEMMA OneDrawn ==
  ASSUME IInv, NEW t \in Thread, Refresh(t)
  PROVE  LET n == DrawnTo
             w == LOGS[n + 1].log_type
             line == Line(LOGS[n + 1])
         IN  /\ n \in Nat /\ LOGS' = LOGS /\ DrawnTo' = n + 1
             /\ LOGS[n + 1] = Head(pending[t]) /\ LOGS[n + 1] \in Message
             /\ window' = [window EXCEPT ![w] =
                             IF Full(w) THEN <<line>> ELSE Append(@, line)]
             /\ start' = [start EXCEPT ![w] = (IF Full(w) THEN 2 ELSE start[w]) + 1]
<1>0. TypeOK /\ Exclusive /\ CallOK /\ OwnMessage
  BY DEF IInv
<1>1. /\ at[t] = "refresh" /\ LOGS # <<>> /\ LOGS[Len(LOGS)] = Head(pending[t])
      /\ Head(pending[t]) \in Message
  BY <1>0, PrintedMessage DEF Refresh, OwnMessage, TypeOK, CallOK
<1>2. Len(LOGS) \in Nat \ {0} /\ DrawnTo = Len(LOGS) - 1
  BY <1>0, <1>1 DEF DrawnTo, TypeOK
<1>3. \A u \in Thread : at'[u] # "refresh"
  <2>1. at' = [at EXCEPT ![t] = "post"]
    BY DEF Refresh, Goto
  <2> QED
    BY <1>0, <1>1, <2>1 DEF Exclusive, Inside, TypeOK
<1>4. LOGS' = LOGS /\ DrawnTo' = Len(LOGS)
  BY <1>3 DEF DrawnTo, Refresh
<1>5. DrawnTo + 1 = Len(LOGS) /\ DrawnTo \in Nat
  BY <1>2
<1>6. [log |-> LOGS[Len(LOGS)], highlight |-> Head(pending[t]).words]
        = Line(LOGS[Len(LOGS)])
  BY <1>1 DEF Line
<1> QED
  BY <1>1, <1>4, <1>5, <1>6 DEF Refresh

\* A step keeps the windows showing the log.
LEMMA StepShows == IInv /\ ShowsDrawn /\ [Next]_vars => ShowsDrawn'
<1> SUFFICES ASSUME IInv, ShowsDrawn, [Next]_vars, NEW w \in LOG_TYPE
             PROVE  CountsLines(w)' /\ Shows(window'[w], DrawnOf(w)', LOGS')
  BY DEF ShowsDrawn
<1>0. /\ CountsLines(w) /\ Shows(window[w], DrawnOf(w), LOGS)
      /\ TypeOK /\ DrawnOf(w) \in SUBSET (1..DrawnTo) /\ DrawnTo \in Nat
  BY DrawnPlaces DEF ShowsDrawn, IInv
<1>1. CASE \A t \in Thread : ~Refresh(t)
  <2>1. /\ UNCHANGED <<start, window>> /\ DrawnTo' = DrawnTo
        /\ \A k \in 1..DrawnTo : LOGS'[k] = LOGS[k]
    BY <1>1, NothingDrawn
  <2>2. DrawnOf(w)' = DrawnOf(w)
    BY <2>1 DEF DrawnOf
  <2>3. \A k \in DrawnOf(w) : LOGS'[k] = LOGS[k]
    BY <1>0, <2>1
  <2> QED
    BY <1>0, <2>1, <2>2, <2>3 DEF Shows, CountsLines, Line
<1>2. ASSUME NEW t \in Thread, Refresh(t)
      PROVE  CountsLines(w)' /\ Shows(window'[w], DrawnOf(w)', LOGS')
  <2> DEFINE n == DrawnTo
             v == LOGS[n + 1].log_type
             line == Line(LOGS[n + 1])
  <2>1. /\ n \in Nat /\ LOGS' = LOGS /\ DrawnTo' = n + 1 /\ LOGS[n + 1] \in Message
        /\ window' = [window EXCEPT ![v] =
                        IF Full(v) THEN <<line>> ELSE Append(@, line)]
        /\ start' = [start EXCEPT ![v] = (IF Full(v) THEN 2 ELSE start[v]) + 1]
    BY <1>2, OneDrawn
  <2>2. CASE w # v
    <3>1. window'[w] = window[w] /\ start'[w] = start[w]
      BY <1>0, <2>1, <2>2 DEF TypeOK
    <3>2. DrawnOf(w)' = DrawnOf(w)
      <4>1. DrawnOf(w)' = {k \in 1..(n + 1) : LOGS[k].log_type = w}
        BY <2>1 DEF DrawnOf
      <4> QED
        BY <1>0, <2>2, <4>1 DEF DrawnOf
    <3> QED
      BY <1>0, <2>1, <3>1, <3>2 DEF CountsLines
  <2>3. CASE w = v
    <3>1. DrawnOf(w)' = DrawnOf(w) \cup {n + 1}
      <4>1. DrawnOf(w)' = {k \in 1..(n + 1) : LOGS[k].log_type = w}
        BY <2>1 DEF DrawnOf
      <4> QED
        BY <1>0, <2>3, <4>1 DEF DrawnOf
    <3>2. CASE Full(w)
      <4>1. window'[w] = <<line>> /\ start'[w] = 3
        BY <1>0, <2>1, <2>3, <3>2 DEF TypeOK
      <4>2. CountsLines(w)'
        BY <4>1, ScreenAssumption DEF CountsLines, Bottom, LINES_SPACE_LOG
      <4>3. Shows(<<line>>, DrawnOf(w) \cup {n + 1}, LOGS)
        BY <1>0, LineAlone
      <4> QED
        BY <2>1, <3>1, <4>1, <4>2, <4>3
    <3>3. CASE ~Full(w)
      <4>1. window'[w] = Append(window[w], line) /\ start'[w] = start[w] + 1
        BY <1>0, <2>1, <2>3, <3>3 DEF TypeOK
      <4>2. /\ window[w] \in Seq([log : Message, highlight : STRING])
            /\ line \in [log : Message, highlight : STRING]
        BY <1>0, <2>1 DEF TypeOK, Line, Message
      <4>3. Len(window'[w]) = Len(window[w]) + 1 /\ Len(window[w]) \in Nat
        BY <4>1, <4>2
      <4>4. CountsLines(w)'
        <5>1. start[w] = 2 + Len(window[w]) /\ start[w] + 1 <= Bottom(w)
          BY <1>0, <3>3, <4>3, ScreenAssumption
             DEF CountsLines, Bottom, Full, SpaceLog, LINES_SPACE_LOG
        <5>2. start'[w] = 2 + Len(window'[w]) /\ start'[w] <= Bottom(w)
          BY <4>1, <4>3, <5>1
        <5> QED
          BY <5>2 DEF CountsLines, Bottom
      <4>5. Shows(Append(window[w], line), DrawnOf(w) \cup {n + 1}, LOGS)
        BY <1>0, <4>2, LineAdded
      <4> QED
        BY <2>1, <3>1, <4>1, <4>4, <4>5
    <3> QED
      BY <3>2, <3>3
  <2> QED
    BY <2>2, <2>3
<1> QED
  BY <1>1, <1>2

\* When nobody is drawing, the whole log is drawn.
LEMMA AllDrawn == IInv /\ ShowsDrawn => ShowsTheLog
<1> SUFFICES ASSUME IInv, ShowsDrawn, log_semaphore = 1, NEW w \in LOG_TYPE
             PROVE  LET n == Len(window[w])
                        behind(k) == Cardinality({j \in OfType(w) : j > k})
                    IN  /\ start[w] = 2 + n
                        /\ w # "MEMORY_SPACE_LOG" => start[w] <= HalfScreen
                        /\ n <= Cardinality(OfType(w))
                        /\ n = 0 => OfType(w) = {}
                        /\ \A k \in OfType(w) :
                             behind(k) < n => window[w][n - behind(k)] = Line(LOGS[k])
  BY DEF ShowsTheLog
<1>1. DrawnTo = Len(LOGS)
  BY DEF IInv, Exclusive, Inside, DrawnTo
<1>2. DrawnOf(w) = OfType(w)
  BY <1>1 DEF DrawnOf, OfType, IInv, TypeOK
<1>3. CountsLines(w) /\ Shows(window[w], OfType(w), LOGS)
  BY <1>2 DEF ShowsDrawn
<1> QED
  BY <1>3 DEF CountsLines, Shows, After, Bottom, SpaceLog

\* log.h:16-17 and refresh_log: when nobody is drawing, the lines of every window are
\* the last messages of its type, in the order of the log and each with its own
\* highlight, and none is below the window.
THEOREM WindowsShowTheLog == Spec => []ShowsTheLog
<1>1. ShowsDrawn /\ IInv /\ [Next]_vars => ShowsDrawn'
  BY StepShows
<1> QED
  BY InitShows, Invariant, <1>1, AllDrawn, PTL DEF Spec

-----------------------------------------------------------------------------
(* The window of memory's space shows one report.  A report is made of three messages,
   drawn one at a time, with the other threads' messages between them. *)

Report == print_memory_state_changed

\* What a thread of a call has still to draw.
Undrawn(t) == IF at[t] = "post" THEN Tail(pending[t]) ELSE pending[t]

\* The calls end with the last m messages of a report, and have no other part of one.
EndsReport(messages, m) ==
  \E k \in Nat :
    /\ Len(messages) = k + m
    /\ \A i \in 1..k : messages[i].log_type # SpaceLog
    /\ \A i \in 1..m : messages[k + i] = Report[LINES_SPACE_LOG - m + i]

\* The window holds the beginning of a report.
Begins ==
  /\ Len(window[SpaceLog]) <= LINES_SPACE_LOG
  /\ \A i \in 1..Len(window[SpaceLog]) : window[SpaceLog][i].log = Report[i]

\* A report that is begun has its end still to be drawn by thread c, and nothing of a
\* report is left to draw if none is begun, but a whole one.
Completes(c, m) ==
  /\ EndsReport(Undrawn(c), m)
  /\ m \in {1, 2} \/ Len(window[SpaceLog]) \in {1, 2}
       => Len(window[SpaceLog]) + m = LINES_SPACE_LOG

ReportInv(c) ==
  /\ Begins
  /\ \E m \in 0..LINES_SPACE_LOG : Completes(c, m)
  /\ \A t \in Thread \ {c} : EndsReport(Undrawn(t), 0)
  /\ \A t \in Thread : at[t] = "idle" => pending[t] = <<>>

\* The thread that reports, and what every call is.
Reporter(c) ==
  /\ c \in Thread
  /\ \A messages \in Calls[c] : EndsReport(messages, 0) \/ EndsReport(messages, 3)
  /\ \A t \in Thread \ {c} : \A messages \in Calls[t] : EndsReport(messages, 0)

\* There is one when the reports are whole.
LEMMA ReporterExists == ReportsWhole => \E c : Reporter(c)
<1> SUFFICES ASSUME ReportsWhole PROVE \E c : Reporter(c)
  OBVIOUS
<1>1. PICK c \in Thread : \A t \in Thread : \A messages \in Calls[t] :
        \E k \in 0..Len(messages) :
          /\ \A i \in 1..k : messages[i].log_type # "MEMORY_SPACE_LOG"
          /\ \/ Len(messages) = k
             \/ /\ t = c
                /\ Len(messages) = k + LINES_SPACE_LOG
                /\ \A i \in 1..LINES_SPACE_LOG :
                     messages[k + i] = print_memory_state_changed[i]
  BY DEF ReportsWhole
<1>2. ASSUME NEW t \in Thread, NEW messages \in Calls[t]
      PROVE  EndsReport(messages, 0) \/ (t = c /\ EndsReport(messages, 3))
  <2>1. PICK k \in 0..Len(messages) :
          /\ \A i \in 1..k : messages[i].log_type # "MEMORY_SPACE_LOG"
          /\ \/ Len(messages) = k
             \/ /\ t = c
                /\ Len(messages) = k + LINES_SPACE_LOG
                /\ \A i \in 1..LINES_SPACE_LOG :
                     messages[k + i] = print_memory_state_changed[i]
    BY <1>1
  <2>2. k \in Nat
    OBVIOUS
  <2>3. CASE Len(messages) = k
    <3>1. Len(messages) = k + 0
      BY <2>2, <2>3
    <3> QED
      BY <2>1, <2>2, <3>1 DEF EndsReport, SpaceLog
  <2>4. CASE Len(messages) # k
    <3>1. \A i \in 1..3 : messages[k + i] = Report[LINES_SPACE_LOG - 3 + i]
      <4>1. \A i \in 1..3 : LINES_SPACE_LOG - 3 + i = i
        BY DEF LINES_SPACE_LOG
      <4>2. \A i \in 1..3 : messages[k + i] = print_memory_state_changed[i]
        BY <2>1, <2>4 DEF LINES_SPACE_LOG
      <4> QED
        BY <4>1, <4>2 DEF Report
    <3>2. t = c /\ Len(messages) = k + 3
      BY <2>1, <2>4 DEF LINES_SPACE_LOG
    <3> QED
      BY <2>1, <2>2, <3>1, <3>2 DEF EndsReport, SpaceLog
  <2> QED
    BY <2>3, <2>4
<1> QED
  BY <1>2 DEF Reporter

\* The messages of a report go to the window of memory's space.
LEMMA ReportMessages ==
  \A i \in 1..3 : Report[i].log_type = SpaceLog
<1>1. /\ Report[1] = Space("Total space available")
      /\ Report[2] = Space("Using space")
      /\ Report[3] = Space("Using percentage")
  BY DEF Report, print_memory_state_changed
<1>2. \A words : Space(words).log_type = SpaceLog
  BY DEF Space, SpaceLog
<1>3. /\ Report[1].log_type = SpaceLog
      /\ Report[2].log_type = SpaceLog
      /\ Report[3].log_type = SpaceLog
  BY <1>1, <1>2
<1>4. \A i \in 1..3 : i = 1 \/ i = 2 \/ i = 3
  OBVIOUS
<1> QED
  BY <1>3, <1>4

\* A message drawn: if it is of a report it is the one due, and one less is left.
LEMMA OneLess ==
  ASSUME NEW q \in Seq(Message), q # <<>>, NEW m \in 0..3, EndsReport(q, m)
  PROVE  IF Head(q).log_type = SpaceLog
           THEN m > 0 /\ Head(q) = Report[4 - m] /\ EndsReport(Tail(q), m - 1)
           ELSE EndsReport(Tail(q), m)
<1>1. PICK k \in Nat :
        /\ Len(q) = k + m
        /\ \A i \in 1..k : q[i].log_type # SpaceLog
        /\ \A i \in 1..m : q[k + i] = Report[LINES_SPACE_LOG - m + i]
  BY DEF EndsReport
<1>2. /\ Len(q) > 0 /\ Head(q) = q[1] /\ Len(Tail(q)) = Len(q) - 1
      /\ \A i \in 1..(Len(q) - 1) : Tail(q)[i] = q[i + 1]
  OBVIOUS
<1>3. CASE k > 0
  <2>1. Head(q).log_type # SpaceLog
    BY <1>1, <1>2, <1>3
  <2>2. k - 1 \in Nat /\ Len(Tail(q)) = (k - 1) + m
    BY <1>1, <1>2, <1>3
  <2>3. \A i \in 1..(k - 1) : Tail(q)[i].log_type # SpaceLog
    BY <1>1, <1>2, <1>3
  <2>4. ASSUME NEW i \in 1..m
        PROVE  Tail(q)[(k - 1) + i] = Report[LINES_SPACE_LOG - m + i]
    <3>1. (k - 1) + i \in 1..(Len(q) - 1) /\ ((k - 1) + i) + 1 = k + i
      BY <1>1, <1>3
    <3> QED
      BY <1>1, <1>2, <3>1
  <2>5. EndsReport(Tail(q), m)
    BY <2>2, <2>3, <2>4 DEF EndsReport
  <2> QED
    BY <2>1, <2>5
<1>4. CASE k = 0
  <2>1. m > 0 /\ LINES_SPACE_LOG - m + 1 = 4 - m
    BY <1>1, <1>2, <1>4 DEF LINES_SPACE_LOG
  <2>2. Head(q) = Report[4 - m]
    BY <1>1, <1>2, <1>4, <2>1
  <2>3. Head(q).log_type = SpaceLog
    BY <2>1, <2>2, ReportMessages
  <2>4. Len(Tail(q)) = 0 + (m - 1) /\ m - 1 \in Nat
    BY <1>1, <1>2, <1>4, <2>1
  <2>5. ASSUME NEW i \in 1..(m - 1)
        PROVE  Tail(q)[0 + i] = Report[LINES_SPACE_LOG - (m - 1) + i]
    <3>1. /\ i \in 1..(Len(q) - 1) /\ 0 + i = i /\ i + 1 \in 1..m /\ k + (i + 1) = i + 1
          /\ LINES_SPACE_LOG - m + (i + 1) = LINES_SPACE_LOG - (m - 1) + i
      BY <1>1, <1>4 DEF LINES_SPACE_LOG
    <3>2. Tail(q)[i] = q[i + 1]
      BY <1>2, <3>1
    <3>3. q[k + (i + 1)] = Report[LINES_SPACE_LOG - m + (i + 1)]
      BY <1>1, <3>1
    <3> QED
      BY <3>1, <3>2, <3>3
  <2>6. EndsReport(Tail(q), m - 1)
    <3>1. PICK z \in Nat : z = 0
      OBVIOUS
    <3>2. /\ Len(Tail(q)) = z + (m - 1) /\ 1..z = {}
          /\ \A i \in 1..(m - 1) :
               Tail(q)[z + i] = Report[LINES_SPACE_LOG - (m - 1) + i]
      BY <2>4, <2>5, <3>1
    <3> QED
      BY <3>2 DEF EndsReport
  <2> QED
    BY <2>1, <2>2, <2>3, <2>6
<1> QED
  BY <1>3, <1>4

\* Before anything is logged there is no report.
LEMMA InitReport == ASSUME Init, NEW c, Reporter(c) PROVE ReportInv(c)
<1>1. \A t \in Thread : Undrawn(t) = <<>> /\ pending[t] = <<>>
  BY DEF Init, Undrawn
<1>2. EndsReport(<<>>, 0)
  <2>1. Len(<<>>) = 0 + 0
    OBVIOUS
  <2> QED
    BY <2>1 DEF EndsReport
<1>3. Len(window[SpaceLog]) = 0
  BY DEF Init, SpaceLog, LOG_TYPE
<1>4. Completes(c, 0)
  BY <1>1, <1>2, <1>3 DEF Completes, Reporter
<1>5. 0 \in 0..LINES_SPACE_LOG /\ Begins
  BY <1>3 DEF Begins, LINES_SPACE_LOG
<1> QED
  BY <1>1, <1>2, <1>4, <1>5 DEF ReportInv

\* A step that draws nothing and begins no call leaves what is undrawn.
LEMMA SameUndrawn ==
  ASSUME IInv, NEW t \in Thread, Wait(t) \/ Push(t) \/ Post(t)
  PROVE  /\ window' = window
         /\ \A u \in Thread : Undrawn(u)' = Undrawn(u)
         /\ \A u \in Thread : at'[u] = "idle" =>
              (at[u] = "idle" /\ pending'[u] = pending[u]) \/ pending'[u] = <<>>
<1>0. TypeOK
  BY DEF IInv
<1> USE DEF Goto, Undrawn
<1>1. CASE Wait(t)
  BY <1>0, <1>1 DEF Wait, TypeOK
<1>2. CASE Push(t)
  BY <1>0, <1>2 DEF Push, TypeOK
<1>3. CASE Post(t)
  BY <1>0, <1>3 DEF Post, TypeOK
<1> QED
  BY <1>1, <1>2, <1>3

\* A call begun is drawn from its first message.
LEMMA CallUndrawn ==
  ASSUME IInv, NEW t \in Thread, NEW messages \in Calls[t], Call(t, messages)
  PROVE  /\ at[t] = "idle" /\ window' = window
         /\ Undrawn(t)' = messages
         /\ \A u \in Thread \ {t} : Undrawn(u)' = Undrawn(u)
         /\ \A u \in Thread : at'[u] = "idle" =>
              at[u] = "idle" /\ pending'[u] = pending[u]
BY DEF IInv, TypeOK, Call, Goto, Undrawn

\* A message drawn is no longer to be drawn.
LEMMA RefreshUndrawn ==
  ASSUME IInv, NEW t \in Thread, Refresh(t)
  PROVE  /\ pending[t] \in Seq(Message) /\ pending[t] # <<>>
         /\ Undrawn(t) = pending[t] /\ Undrawn(t)' = Tail(pending[t])
         /\ \A u \in Thread \ {t} : Undrawn(u)' = Undrawn(u)
         /\ \A u \in Thread : at'[u] = "idle" =>
              at[u] = "idle" /\ pending'[u] = pending[u]
<1>1. at[t] = "refresh" /\ at' = [at EXCEPT ![t] = "post"] /\ pending' = pending
  BY DEF Refresh, Goto
<1> QED
  BY <1>1 DEF IInv, TypeOK, CallOK, Undrawn

\* The next message of the report goes to the next line of its window, and the first
\* one to the first line of a new one.
LEMMA NextOfReport ==
  ASSUME IInv, ShowsDrawn, NEW c, Reporter(c), ReportInv(c),
         NEW t \in Thread, Refresh(t)
  PROVE  Begins' /\ \E m \in 0..LINES_SPACE_LOG : Completes(c, m)'
<1> DEFINE curr == Head(pending[t])
           w == curr.log_type
           n == Len(window[SpaceLog])
<1>1. /\ pending[t] \in Seq(Message) /\ pending[t] # <<>>
      /\ Undrawn(t) = pending[t] /\ Undrawn(t)' = Tail(pending[t])
      /\ \A u \in Thread \ {t} : Undrawn(u)' = Undrawn(u)
  BY RefreshUndrawn
<1>2. PICK m \in 0..LINES_SPACE_LOG : Completes(c, m)
  BY DEF ReportInv
<1>3. m \in 0..3 /\ c \in Thread
  BY <1>2 DEF LINES_SPACE_LOG, Reporter
<1>4. /\ curr \in Message
      /\ window' = [window EXCEPT ![w] =
                      IF Full(w) THEN <<Line(curr)>> ELSE Append(@, Line(curr))]
  BY OneDrawn
<1>5. /\ window[SpaceLog] \in Seq([log : Message, highlight : STRING]) /\ n \in Nat
      /\ n <= 3 /\ \A i \in 1..n : window[SpaceLog][i].log = Report[i]
      /\ window \in [LOG_TYPE -> Seq([log : Message, highlight : STRING])]
      /\ SpaceLog \in LOG_TYPE
  BY DEF IInv, TypeOK, ReportInv, Begins, LINES_SPACE_LOG, SpaceLog, LOG_TYPE
<1>6. CASE w # SpaceLog
  <2>1. window'[SpaceLog] = window[SpaceLog]
    BY <1>4, <1>5, <1>6
  <2>2. EndsReport(Undrawn(c)', m)
    <3>1. CASE t = c
      BY <1>1, <1>2, <1>3, <1>6, <3>1, OneLess DEF Completes
    <3>2. CASE t # c
      BY <1>1, <1>2, <1>3, <3>2 DEF Completes
    <3> QED
      BY <3>1, <3>2
  <2>3. Completes(c, m)'
    BY <1>2, <2>1, <2>2 DEF Completes
  <2> QED
    BY <2>1, <2>3 DEF ReportInv, Begins
<1>7. CASE w = SpaceLog
  <2>1. t = c
    <3> SUFFICES ASSUME t # c PROVE FALSE
      OBVIOUS
    <3>1. EndsReport(pending[t], 0)
      BY <1>1 DEF ReportInv
    <3> QED
      BY <1>1, <1>7, <3>1, OneLess
  <2>2. m > 0 /\ curr = Report[4 - m] /\ EndsReport(Undrawn(c)', m - 1)
    BY <1>1, <1>2, <1>3, <1>7, <2>1, OneLess DEF Completes
  <2>3. m \in {1, 2} \/ n \in {1, 2} => n + m = 3
    BY <1>2 DEF Completes, LINES_SPACE_LOG
  <2>4. Full(w) <=> n = 3
    <3>1. start[SpaceLog] = 2 + n
      BY <1>5 DEF ShowsDrawn, CountsLines
    <3>2. Full(SpaceLog) <=> start[SpaceLog] = 2 + 3
      BY DEF Full, SpaceLog, LINES_SPACE_LOG
    <3>3. 2 + n = 2 + 3 <=> n = 3
      <4>1. n \in Nat
        BY <1>5
      <4> HIDE DEF n
      <4> QED
        BY <4>1
    <3> QED
      BY <1>7, <3>1, <3>2, <3>3
  <2>5. Line(curr).log = curr /\ Line(curr) \in [log : Message, highlight : STRING]
    BY <1>4 DEF Line, Message
  <2>6. m - 1 \in 0..LINES_SPACE_LOG
    BY <1>3, <2>2 DEF LINES_SPACE_LOG
  <2>7. CASE n = 3
    <3>1. m = 3
      BY <1>3, <2>2, <2>3, <2>7
    <3>2. window'[SpaceLog] = <<Line(curr)>>
      BY <1>4, <1>5, <1>7, <2>4, <2>7
    <3>3. Begins'
      BY <2>2, <2>5, <3>1, <3>2 DEF Begins, LINES_SPACE_LOG
    <3>4. Completes(c, m - 1)'
      BY <2>2, <3>1, <3>2 DEF Completes, LINES_SPACE_LOG
    <3> QED
      BY <2>6, <3>3, <3>4
  <2>8. CASE n # 3
    <3>1. n + m = 3
      <4>1. n \in Nat /\ n <= 3 /\ m \in 0..3 /\ m > 0
        BY <1>3, <1>5, <2>2
      <4> HIDE DEF n
      <4> QED
        BY <2>3, <2>8, <4>1
    <3>2. window'[SpaceLog] = Append(window[SpaceLog], Line(curr))
      BY <1>4, <1>5, <1>7, <2>4, <2>8
    <3>3. /\ Len(window'[SpaceLog]) = n + 1
          /\ \A i \in 1..n : window'[SpaceLog][i] = window[SpaceLog][i]
          /\ window'[SpaceLog][n + 1] = Line(curr)
      BY <1>5, <2>5, <3>2
    <3>4. 4 - m = n + 1
      BY <1>3, <1>5, <3>1
    <3>5. \A i \in 1..(n + 1) : window'[SpaceLog][i].log = Report[i]
      <4>1. \A i \in 1..n : window'[SpaceLog][i].log = Report[i]
        BY <1>5, <3>3
      <4>2. window'[SpaceLog][n + 1].log = Report[n + 1]
        BY <2>2, <2>5, <3>3, <3>4
      <4> QED
        BY <1>5, <4>1, <4>2
    <3>6. Begins'
      <4>1. n + 1 <= LINES_SPACE_LOG
        <5>1. n \in Nat /\ n <= 3
          BY <1>5
        <5> HIDE DEF n
        <5> QED
          BY <2>8, <5>1 DEF LINES_SPACE_LOG
      <4>2. Len(window'[SpaceLog]) = n + 1
        BY <3>3
      <4> QED
        BY <3>5, <4>1, <4>2 DEF Begins
    <3>7. Completes(c, m - 1)'
      BY <1>3, <1>5, <2>2, <3>1, <3>3 DEF Completes, LINES_SPACE_LOG
    <3> QED
      BY <2>6, <3>6, <3>7
  <2> QED
    BY <2>7, <2>8
<1> QED
  BY <1>6, <1>7

\* A step keeps the report whole.
LEMMA StepReport ==
  ASSUME NEW c, Reporter(c)
  PROVE  IInv /\ ShowsDrawn /\ ReportInv(c) /\ [Next]_vars => ReportInv(c)'
<1> SUFFICES ASSUME IInv, ShowsDrawn, ReportInv(c), [Next]_vars PROVE ReportInv(c)'
  OBVIOUS
<1>1. ASSUME NEW t \in Thread, Wait(t) \/ Push(t) \/ Post(t)
      PROVE  ReportInv(c)'
  <2>1. /\ window' = window
        /\ \A u \in Thread : Undrawn(u)' = Undrawn(u)
        /\ \A u \in Thread : at'[u] = "idle" =>
             (at[u] = "idle" /\ pending'[u] = pending[u]) \/ pending'[u] = <<>>
    BY <1>1, SameUndrawn
  <2> QED
    BY <2>1 DEF ReportInv, Begins, Completes, Reporter
<1>2. ASSUME NEW t \in Thread, NEW messages \in Calls[t], Call(t, messages)
      PROVE  ReportInv(c)'
  <2>1. /\ at[t] = "idle" /\ window' = window
        /\ Undrawn(t)' = messages
        /\ \A u \in Thread \ {t} : Undrawn(u)' = Undrawn(u)
        /\ \A u \in Thread : at'[u] = "idle" =>
             at[u] = "idle" /\ pending'[u] = pending[u]
    BY <1>2, CallUndrawn
  <2>2. /\ Begins' /\ \A u \in Thread : at'[u] = "idle" => pending'[u] = <<>>
    BY <2>1 DEF ReportInv, Begins
  <2>3. \A u \in Thread \ {c} : EndsReport(Undrawn(u)', 0)
    BY <2>1 DEF ReportInv, Reporter
  <2>4. PICK m \in 0..LINES_SPACE_LOG : Completes(c, m)
    BY DEF ReportInv
  <2>5. CASE t # c
    <3>1. Completes(c, m)'
      BY <2>1, <2>4, <2>5 DEF Completes, Reporter
    <3> QED
      BY <2>2, <2>3, <2>4, <3>1 DEF ReportInv
  <2>6. CASE t = c
    <3>1. Undrawn(c) = <<>>
      BY <2>1, <2>6 DEF ReportInv, Undrawn, Reporter
    <3>2. m = 0
      BY <2>4, <3>1 DEF Completes, EndsReport, LINES_SPACE_LOG
    <3>3. Len(window[SpaceLog]) \notin {1, 2}
      BY <2>4, <3>2 DEF Completes, LINES_SPACE_LOG
    <3>4. Completes(c, 0)' \/ Completes(c, 3)'
      <4>1. EndsReport(messages, 0) \/ EndsReport(messages, 3)
        BY <2>6 DEF Reporter
      <4> QED
        BY <2>1, <2>6, <3>3, <4>1 DEF Completes
    <3> QED
      BY <2>2, <2>3, <3>4 DEF ReportInv, LINES_SPACE_LOG
  <2> QED
    BY <2>5, <2>6
<1>3. ASSUME NEW t \in Thread, Refresh(t)
      PROVE  ReportInv(c)'
  <2>1. Begins' /\ \E m \in 0..LINES_SPACE_LOG : Completes(c, m)'
    BY <1>3, NextOfReport
  <2>2. /\ pending[t] \in Seq(Message) /\ pending[t] # <<>>
        /\ Undrawn(t) = pending[t] /\ Undrawn(t)' = Tail(pending[t])
        /\ \A u \in Thread \ {t} : Undrawn(u)' = Undrawn(u)
        /\ \A u \in Thread : at'[u] = "idle" =>
             at[u] = "idle" /\ pending'[u] = pending[u]
    BY <1>3, RefreshUndrawn
  <2>3. \A u \in Thread : at'[u] = "idle" => pending'[u] = <<>>
    BY <2>2 DEF ReportInv
  <2>4. ASSUME NEW u \in Thread \ {c} PROVE EndsReport(Undrawn(u)', 0)
    <3>1. EndsReport(Undrawn(u), 0)
      BY DEF ReportInv
    <3>2. CASE u = t
      <4>1. EndsReport(Tail(pending[t]), 0)
        BY <2>2, <3>1, <3>2, OneLess
      <4> QED
        BY <2>2, <3>2, <4>1
    <3>3. CASE u # t
      BY <2>2, <3>1, <3>3
    <3> QED
      BY <3>2, <3>3
  <2> QED
    BY <2>1, <2>3, <2>4 DEF ReportInv
<1>4. CASE UNCHANGED vars
  BY <1>4 DEF vars, ReportInv, Begins, Completes, Undrawn
<1> QED
  BY <1>1, <1>2, <1>3, <1>4 DEF Next, Rest

\* main-window.c:270-281: the window of memory's space shows one report from its first
\* line, never the end of one above the beginning of another, whatever the other
\* threads log in between, when one thread reports and its reports are whole.
THEOREM ShowsOneReport ==
  ASSUME ReportsWhole
  PROVE  Spec => []OneReport
<1>1. PICK c : Reporter(c)
  BY ReporterExists
<1>2. Init => ReportInv(c)
  BY <1>1, InitReport
<1>3. IInv /\ ShowsDrawn /\ ReportInv(c) /\ [Next]_vars => ReportInv(c)'
  BY <1>1, StepReport
<1>4. IInv /\ ShowsDrawn /\ [Next]_vars => ShowsDrawn'
  BY StepShows
<1>5. ReportInv(c) /\ IInv => OneReport
  <2> SUFFICES ASSUME ReportInv(c), IInv PROVE OneReport
    OBVIOUS
  <2> DEFINE lines == window["MEMORY_SPACE_LOG"]
             n == Len(lines)
  <2>1. /\ n \in 0..LINES_SPACE_LOG /\ DOMAIN lines = 1..n
        /\ \A i \in 1..n : lines[i].log = print_memory_state_changed[i]
    <3>1. lines \in Seq([log : Message, highlight : STRING])
      BY DEF IInv, TypeOK, LOG_TYPE
    <3>2. n <= LINES_SPACE_LOG /\ \A i \in 1..n : lines[i].log = Report[i]
      BY DEF ReportInv, Begins, SpaceLog
    <3> QED
      BY <3>1, <3>2 DEF Report
  <2>2. SubSeq(print_memory_state_changed, 1, n)
          = [i \in 1..n |-> print_memory_state_changed[i]]
    <3>1. Len(print_memory_state_changed) = 3
      BY DEF print_memory_state_changed
    <3>2. print_memory_state_changed \in Seq({Report[1], Report[2], Report[3]})
      BY DEF Report, print_memory_state_changed
    <3> QED
      BY <2>1, <3>1, <3>2 DEF LINES_SPACE_LOG
  <2>3. [i \in DOMAIN lines |-> lines[i].log]
          = SubSeq(print_memory_state_changed, 1, n)
    BY <2>1, <2>2
  <2> QED
    BY <2>1, <2>3 DEF OneReport
<1> QED
  BY <1>2, <1>3, <1>4, <1>5, InitShows, Invariant, PTL DEF Spec

=============================================================================
