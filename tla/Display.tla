------------------------------ MODULE Display ------------------------------
(***************************************************************************)
(* The log (log/log.c) and the windows that show it (refresh_log in        *)
(* ui/main-window.c).  Every thread of the kernel logs.  A message is      *)
(* pushed on LOGS and drawn in one critical section; drawing does not get  *)
(* the message but reads the tail of LOGS, and gets the words to highlight *)
(* in it.  A window is a run of lines filled from line 2 on, and replaced  *)
(* by an empty one when it is full.                                        *)
(*                                                                         *)
(* A message is its type and the words in it that the log.c highlights:    *)
(* the rest of its text is a name or a number.                             *)
(***************************************************************************)
EXTENDS Integers, Sequences, FiniteSets

CONSTANTS
  Thread,
  Calls,           \* Calls[t]: what thread t may log at a time
  HalfScreen,      \* getmaxy(stdscr) / 2: the terminal is not resized
  MaxLogs          \* bound: no call begins once LOGS is this long

LOG_TYPE == {"PROCESS_LOG", "MEMORY_LOG", "MEMORY_SPACE_LOG", "DISK_LOG"}
LINES_SPACE_LOG == 3
Message == [log_type : LOG_TYPE, words : STRING]

ASSUME CallsAssumption == Calls \in [Thread -> SUBSET (Seq(Message) \ {<<>>})]
ASSUME ScreenAssumption == HalfScreen \in Nat /\ HalfScreen > 2 /\ MaxLogs \in Nat

-----------------------------------------------------------------------------
(* The functions of log.c: the messages each appends, in order. *)

Process(words) == [log_type |-> "PROCESS_LOG", words |-> words]
MemoryLog(words) == [log_type |-> "MEMORY_LOG", words |-> words]
Space(words) == [log_type |-> "MEMORY_SPACE_LOG", words |-> words]
DiskLog(words) == [log_type |-> "DISK_LOG", words |-> words]

print_execution(opcode, flag) ==
  CASE opcode = "EXEC" -> <<Process("executed")>>
    [] opcode = "P" -> <<Process(IF flag = "SUCCESS" THEN "acquired" ELSE "waiting")>>
    [] opcode = "V" -> <<Process("released")>>

\* A new process and the end of the quantum may interrupt an EXEC half-way.
print_interruption(type, opcode) ==
  (IF type \in {"NEW_PROCESS", "QUANTUM_TIME"} /\ opcode = "EXEC"
     THEN print_execution(opcode, "SUCCESS") ELSE <<>>)
  \o <<Process("interrupted")>>

print_memory_state_changed ==
  <<Space("Total space available"), Space("Using space"), Space("Using percentage")>>

print_syscall(syscall) ==
  CASE syscall = "SEMAPHORE" -> <<Process("owner")>>
    [] syscall = "FINISH" -> <<Process("finished")>>
    [] syscall = "CREATE_PROCESS" -> <<Process("created")>>
    [] syscall = "MEMORY_LOAD" -> <<MemoryLog("Memory load requisition")>>
    [] syscall = "MEMORY_UNLOAD" -> <<MemoryLog("Memory unload requisition")>>
    [] syscall = "MEMORY_FINISH" ->
         <<MemoryLog("Memory operation finished")>> \o print_memory_state_changed

print_scheduled == <<Process("scheduled")>>
print_disk_execution(opcode) == <<DiskLog(opcode)>>
print_print_execution == <<DiskLog("Print")>>

\* What the kernel's calls have in common: memory's space is reported by one thread
\* only, the CPU's, and a call that reports it does so whole, and last (cpu.c:305, 318).
ReportsWhole ==
  \E c \in Thread : \A t \in Thread : \A messages \in Calls[t] :
    \E k \in 0..Len(messages) :
      /\ \A i \in 1..k : messages[i].log_type # "MEMORY_SPACE_LOG"
      /\ \/ Len(messages) = k
         \/ /\ t = c
            /\ Len(messages) = k + LINES_SPACE_LOG
            /\ \A i \in 1..LINES_SPACE_LOG :
                 messages[k + i] = print_memory_state_changed[i]

-----------------------------------------------------------------------------

VARIABLES
  LOGS,
  log_semaphore,
  pending,         \* what each thread still has to log of its call
  at,              \* "idle", or its control point in append_log_message
  start,           \* refresh_log's counters: the next line of each window
  window           \* the lines drawn in each window

vars == <<LOGS, log_semaphore, pending, at, start, window>>

\* Mutant: sem_init gives the semaphore two permits.
Init_TwoPermits ==
  /\ LOGS = <<>>
  /\ log_semaphore = 2
  /\ pending = [t \in Thread |-> <<>>]
  /\ at = [t \in Thread |-> "idle"]
  /\ start = [w \in LOG_TYPE |-> 2]
  /\ window = [w \in LOG_TYPE |-> <<>>]

Init ==
  /\ LOGS = <<>>
  /\ log_semaphore = 1
  /\ pending = [t \in Thread |-> <<>>]
  /\ at = [t \in Thread |-> "idle"]
  /\ start = [w \in LOG_TYPE |-> 2]
  /\ window = [w \in LOG_TYPE |-> <<>>]

Goto(t, label) == at' = [at EXCEPT ![t] = label]

Call(t, messages) ==
  /\ at[t] = "idle"
  /\ Len(LOGS) < MaxLogs
  /\ pending' = [pending EXCEPT ![t] = messages]
  /\ Goto(t, "wait")
  /\ UNCHANGED <<LOGS, log_semaphore, start, window>>

\* Mutant: sem_trywait, whose failure is not looked at.
Wait_Try(t) ==
  /\ at[t] = "wait"
  /\ log_semaphore' = 0
  /\ Goto(t, "push")
  /\ UNCHANGED <<LOGS, pending, start, window>>

Wait(t) ==
  /\ at[t] = "wait"
  /\ log_semaphore > 0
  /\ log_semaphore' = log_semaphore - 1
  /\ Goto(t, "push")
  /\ UNCHANGED <<LOGS, pending, start, window>>

Push(t) ==
  /\ at[t] = "push"
  /\ LOGS' = Append(LOGS, Head(pending[t]))
  /\ Goto(t, "refresh")
  /\ UNCHANGED <<log_semaphore, pending, start, window>>

\* Mutants: one line too many; as many lines for every window.
Full_Late(w) ==
  start[w] = IF w = "MEMORY_SPACE_LOG" THEN 2 + LINES_SPACE_LOG ELSE HalfScreen + 1
Full_Alike(w) == start[w] = HalfScreen

\* The line behind the last that the window of type w has.
Full(w) ==
  start[w] = IF w = "MEMORY_SPACE_LOG" THEN 2 + LINES_SPACE_LOG ELSE HalfScreen

\* refresh_log: a full window is loaded again, and the last message goes to the next
\* line of its window.
Refresh(t) ==
  LET curr == LOGS[Len(LOGS)]
      w == curr.log_type
      line == IF Full(w) THEN 2 ELSE start[w]
      shown == [log |-> curr, highlight |-> Head(pending[t]).words]
  IN  /\ at[t] = "refresh"
      /\ start' = [start EXCEPT ![w] = line + 1]
      /\ window' =
           [window EXCEPT ![w] = IF Full(w) THEN <<shown>> ELSE Append(@, shown)]
      /\ Goto(t, "post")
      /\ UNCHANGED <<LOGS, log_semaphore, pending>>

Post(t) ==
  /\ at[t] = "post"
  /\ log_semaphore' = log_semaphore + 1
  /\ pending' = [pending EXCEPT ![t] = Tail(@)]
  /\ Goto(t, IF pending'[t] = <<>> THEN "idle" ELSE "wait")
  /\ UNCHANGED <<LOGS, start, window>>

\* The bound is reached.
Rest ==
  /\ \A t \in Thread : at[t] = "idle"
  /\ Len(LOGS) >= MaxLogs
  /\ UNCHANGED vars

Next ==
  \/ \E t \in Thread :
       \/ \E messages \in Calls[t] : Call(t, messages)
       \/ Wait(t) \/ Push(t) \/ Refresh(t) \/ Post(t)
  \/ Rest

Spec == Init /\ [][Next]_vars

-----------------------------------------------------------------------------

\* The log and what is still to be logged are messages; the semaphore has one permit.
TypeOK ==
  /\ LOGS \in Seq(Message)
  /\ log_semaphore \in {0, 1}
  /\ pending \in [Thread -> Seq(Message)]
  /\ at \in [Thread -> {"idle", "wait", "push", "refresh", "post"}]
  /\ start \in [LOG_TYPE -> Nat]
  /\ window \in [LOG_TYPE -> Seq([log : Message, highlight : STRING])]

\* print_log takes the place where strstr finds the highlight in the message without
\* a test (main-window.c:160-163), and the message is whatever the tail of LOGS is:
\* it is the thread's own, which has that highlight in it.
OwnMessage ==
  \A t \in Thread :
    at[t] = "refresh" => LOGS # <<>> /\ LOGS[Len(LOGS)] = Head(pending[t])

\* The places in the log of the messages of type w; the line that shows a message.
OfType(w) == {k \in DOMAIN LOGS : LOGS[k].log_type = w}
Line(m) == [log |-> m, highlight |-> m.words]

\* log.h:16-17: messages are "redirected" to the window of their type.  When nobody is
\* drawing, the lines from line 2 on are the last messages of that type, in the order
\* of the log, each with its own highlight; and none is below the window.
ShowsTheLog ==
  log_semaphore = 1 =>
    \A w \in LOG_TYPE :
      LET n == Len(window[w])
          behind(k) == Cardinality({j \in OfType(w) : j > k})
      IN  /\ start[w] = 2 + n
          /\ w # "MEMORY_SPACE_LOG" => start[w] <= HalfScreen
          /\ n <= Cardinality(OfType(w))
          /\ n = 0 => OfType(w) = {}
          /\ \A k \in OfType(w) :
               behind(k) < n => window[w][n - behind(k)] = Line(LOGS[k])

\* The window for the memory's space shows one report (main-window.c:281), never the
\* end of one above the beginning of another, whatever is logged in between.
OneReport ==
  \E n \in 0..LINES_SPACE_LOG :
    [i \in DOMAIN window["MEMORY_SPACE_LOG"] |-> window["MEMORY_SPACE_LOG"][i].log]
      = SubSeq(print_memory_state_changed, 1, n)

=============================================================================
