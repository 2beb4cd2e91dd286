----------------------------- MODULE MCSemaphores -----------------------------
EXTENDS SemaphoreList

\* A program that shares a semaphore with each of two others, one that names the
\* same one twice, and one that uses none.
Lines ==
  [p1 |-> <<"s", "t">>, p2 |-> <<"t", "u", "v">>, p3 |-> <<"s", "w", "s">>, p4 |-> <<>>]
Programs == DOMAIN Lines
Names == {"s", "t", "u", "v", "w"}

=============================================================================
