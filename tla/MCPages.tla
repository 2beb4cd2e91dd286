------------------------------ MODULE MCPages ------------------------------
(***************************************************************************)
(* Segments for the page table: sizes of less than a page, of whole pages, *)
(* of a page and a part, and one that wraps; two segments share an id.     *)
(***************************************************************************)
EXTENDS PageTable

Files == {"none", "one", "part", "two", "wraps"}
Ids ==
  [s \in Files |-> CASE s = "none" -> 1 [] s = "one" -> 2 [] s = "part" -> 2
                     [] s = "two" -> 3 [] s = "wraps" -> 4]
Sizes ==
  [s \in Files |-> CASE s = "none" -> 3 [] s = "one" -> 4 [] s = "part" -> 5
                     [] s = "two" -> 8 [] s = "wraps" -> 34]

=============================================================================
