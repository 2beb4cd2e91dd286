------------------------------- MODULE MCLists -------------------------------
EXTENDS LinkedList, TLC

\* The addresses that malloc returns have no order and no meaning.
Addresses == Permutations(Address)

=============================================================================
