------------------------------ MODULE Workload ------------------------------
(***************************************************************************)
(* What can be asked of the program files a user submits.  The kernel      *)
(* checks none of it (process/process.c takes any file that parses), so    *)
(* these are hypotheses of theorems, never of the model; MCAlienOS lets    *)
(* TLC evaluate those that the workloads of its runs satisfy.              *)
(***************************************************************************)
EXTENDS Integers, Sequences, FiniteSets

CONSTANTS File, Resubmitted, Code, SegmentId, Pages, Sem, NUM_PAGES

\* No program reads, writes or prints.
ComputesOnly ==
  \A f \in File : \A i \in DOMAIN Code[f] : Code[f][i].opcode \in {"EXEC", "P", "V"}

\* The instructions of f, among the first n, that call P or V on s.
Calls(f, opcode, s, n) ==
  {i \in 1..n : /\ i <= Len(Code[f])
                /\ Code[f][i].opcode = opcode
                /\ Code[f][i].semaphore = s}

\* Every program takes a semaphore and gives it back in turn.  A second P on a semaphore
\* it owns already succeeds (cpu.c:230), and one V then frees it; a V on a semaphore
\* that another process owns takes it away (cpu.c:244).
PairsPV ==
  \A f \in File, s \in Sem : \A n \in 0..Len(Code[f]) :
    Cardinality(Calls(f, "P", s, n)) - Cardinality(Calls(f, "V", s, n)) \in {0, 1}

\* Every process has a segment id of its own: memory_unload_segment looks a segment up
\* by it (memory.c:186-191).
OwnSegments ==
  /\ Resubmitted = {}
  /\ \A f, g \in File : SegmentId[f] = SegmentId[g] => f = g

\* Every program has an instruction.
NoneEmpty == \A f \in File : Code[f] # <<>>

\* Every program has an instruction, and its last one is not a P, which may leave it
\* queued with nothing more to execute.
EndsOutside ==
  \A f \in File : Code[f] # <<>> /\ Code[f][Len(Code[f])].opcode # "P"

\* Each segment fits in an empty memory.
EachFits == \A f \in File : Pages[f] <= NUM_PAGES

\* All of them fit in it together.
AllPages == UNION {{f} \X (1..Pages[f]) : f \in File}
AllFit == IsFiniteSet(AllPages) /\ Cardinality(AllPages) <= NUM_PAGES

=============================================================================
