----------------------------- MODULE FreePages -----------------------------
(***************************************************************************)
(* What the rest of the kernel relies on in memory.c: a number of free     *)
(* pages, from which a load takes the pages of a segment at once and to    *)
(* which an unload gives them back.                                        *)
(***************************************************************************)
EXTENDS Integers

CONSTANTS
  Segment,     \* the segments of the programs
  Need,        \* Need[s]: how many pages segment s takes
  NUM_PAGES

VARIABLES
  free,        \* the number of free pages
  loaded       \* the segments in memory

Init == free = NUM_PAGES /\ loaded = {}

Load(s) ==
  /\ s \notin loaded
  /\ Need[s] <= free
  /\ free' = free - Need[s]
  /\ loaded' = loaded \cup {s}

Unload(s) ==
  /\ s \in loaded
  /\ free' = free + Need[s]
  /\ loaded' = loaded \ {s}

Next == \E s \in Segment : Load(s) \/ Unload(s)

Spec == Init /\ [][Next]_<<free, loaded>>

=============================================================================
