----------------------------- MODULE MCAlienOS -----------------------------
(***************************************************************************)
(* Small workloads for TLC.  Each cfg picks one set of program files.      *)
(***************************************************************************)
EXTENDS Batch

EXEC(n) == [opcode |-> "EXEC", operand |-> n, semaphore |-> NULL]
READ(n) == [opcode |-> "READ", operand |-> n, semaphore |-> NULL]
PRINT(n) == [opcode |-> "PRINT", operand |-> n, semaphore |-> NULL]
P(s) == [opcode |-> "P", operand |-> 0, semaphore |-> s]
V(s) == [opcode |-> "V", operand |-> 0, semaphore |-> s]

\* Three programs of two priorities that compete for semaphore "s", and for a memory of
\* less than five pages.
SharedFile == {"low", "mid", "high"}
SharedCode ==
  [f \in SharedFile |->
     CASE f = "low" -> <<EXEC(1), P("s"), EXEC(3), V("s")>>
       [] f = "mid" -> <<P("s"), EXEC(1), V("s"), EXEC(1)>>
       [] f = "high" -> <<P("s"), EXEC(1), V("s")>>]
SharedPriority ==
  [f \in SharedFile |-> CASE f = "low" -> 2 [] f = "mid" -> 2 [] f = "high" -> 1]
SharedSegmentId ==
  [f \in SharedFile |-> CASE f = "low" -> 1 [] f = "mid" -> 2 [] f = "high" -> 3]
SharedPages ==
  [f \in SharedFile |-> CASE f = "mid" -> 1 [] f # "mid" -> 2]

\* Programs to run one at a time: one that uses everything, and may be submitted twice,
\* and one whose last instruction is a request.
BatchFile == {"all", "last"}
BatchCode ==
  [f \in BatchFile |->
     CASE f = "all" ->
            <<EXEC(2), READ(2), P("s"), PRINT(1), READ(3), V("s"), EXEC(1), PRINT(2)>>
       [] f = "last" -> <<EXEC(5), P("s"), V("s"), READ(1)>>]
BatchPriority == [f \in BatchFile |-> CASE f = "all" -> 1 [] f = "last" -> 2]
BatchPages == [f \in BatchFile |-> CASE f = "all" -> 2 [] f = "last" -> 1]

\* Programs that overlap on the devices.
DeviceFile == {"reader", "writer", "printer"}
DeviceCode ==
  [f \in DeviceFile |->
     CASE f = "reader" -> <<READ(2), EXEC(1)>>
       [] f = "writer" -> <<READ(1), READ(3)>>
       [] f = "printer" -> <<PRINT(1), EXEC(1)>>]
DevicePriority == [f \in DeviceFile |-> CASE f = "writer" -> 1 [] f # "writer" -> 2]
DeviceSegmentId ==
  [f \in DeviceFile |->
     CASE f = "reader" -> 1 [] f = "writer" -> 2 [] f = "printer" -> 3]

\* A program that prints last, one that shares a semaphore, one that computes.
MixedFile == {"print", "section", "exec"}
MixedCode ==
  [f \in MixedFile |->
     CASE f = "print" -> <<EXEC(1), PRINT(1)>>
       [] f = "section" -> <<P("s"), EXEC(1), V("s")>>
       [] f = "exec" -> <<EXEC(1)>>]
MixedSegmentId ==
  [f \in MixedFile |->
     CASE f = "print" -> 1 [] f = "section" -> 2 [] f = "exec" -> 3]

\* Every program has priority 1, as all of test/ have, and one page.
AllOnes(F) == [f \in F |-> 1]
BatchOnes == AllOnes(BatchFile)
DeviceOnes == AllOnes(DeviceFile)
MixedOnes == AllOnes(MixedFile)

-----------------------------------------------------------------------------
(* What the theorems ask of the programs: these workloads are such. *)

Shared == INSTANCE Workload WITH
  File <- SharedFile, Code <- SharedCode, SegmentId <- SharedSegmentId,
  Pages <- SharedPages, Sem <- {"s"}, Resubmitted <- {}, NUM_PAGES <- 3
ASSUME SharedWorkload ==
  /\ Shared!ComputesOnly /\ Shared!PairsPV /\ Shared!OwnSegments
  /\ Shared!EndsOutside /\ Shared!EachFits /\ ~Shared!AllFit

\* The same programs in a memory of five pages.
Fitting == INSTANCE Workload WITH
  File <- SharedFile, Code <- SharedCode, SegmentId <- SharedSegmentId,
  Pages <- SharedPages, Sem <- {"s"}, Resubmitted <- {}, NUM_PAGES <- 5
ASSUME FittingWorkload == Fitting!AllFit

InTurn == INSTANCE Workload WITH
  File <- BatchFile, Code <- BatchCode, SegmentId <- BatchOnes, Pages <- BatchPages,
  Sem <- {"s"}, Resubmitted <- {"all"}, NUM_PAGES <- 2
ASSUME BatchWorkload ==
  /\ InTurn!PairsPV /\ InTurn!EndsOutside /\ InTurn!NoneEmpty /\ InTurn!EachFits
  /\ ~InTurn!ComputesOnly /\ ~InTurn!OwnSegments /\ ~InTurn!AllFit

=============================================================================
