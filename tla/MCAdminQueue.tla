---------------------------- MODULE MCAdminQueue ----------------------------
EXTENDS AdminQueue

\* A thread can create and delete both its queues, a client asks once.
ManyLocalCalls == [c \in Callers |-> IF c \in Threads THEN 4 ELSE 1]
=============================================================================
