------------------------------- MODULE Loader -------------------------------
(***************************************************************************)
(* The arithmetic of read_program_header (process/process.c): from the     *)
(* size line of a program file, in KB, to bytes, to pages.                 *)
(***************************************************************************)
EXTENDS Integers

CONSTANTS
  KBYTE,       \* 1024 in memory.h
  PAGE_SIZE,   \* 8192 in memory.h
  WORD         \* 2^32, the number of values of a C unsigned

ASSUME UnitAssumption ==
  /\ KBYTE \in Nat \ {0}
  /\ PAGE_SIZE \in Nat \ {0}
  /\ WORD \in Nat \ {0}

\* seg_size * KBYTE: the product wraps and is stored in an unsigned.
size(kb) == (kb * KBYTE) % WORD

\* ceil(size / PAGE_SIZE): both operands are integers, so C has divided, and
\* rounded down, before ceil is called.
num_pages(kb) == size(kb) \div PAGE_SIZE

=============================================================================
