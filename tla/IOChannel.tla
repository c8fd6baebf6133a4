----------------------------- MODULE IOChannel -----------------------------
(***************************************************************************)
(* What an NVMe queue pair promises to the threads that use it (read_data, *)
(* write_data and their submit/wait halves in bam/include/page_cache.h):   *)
(* a command that was handed over is executed exactly once, after it was   *)
(* handed over, and its issuer goes on after that and not before.          *)
(***************************************************************************)
EXTENDS Integers

CONSTANTS
  Threads,    \* the threads that issue commands
  Ops         \* commands one thread issues, one after the other

VARIABLES
  issued,     \* commands each thread has handed over
  executed,   \* commands of each thread that the device has completed
  returned    \* commands of each thread whose wait has returned

vars == <<issued, executed, returned>>

Init ==
  /\ issued   = [t \in Threads |-> 0]
  /\ executed = [t \in Threads |-> 0]
  /\ returned = [t \in Threads |-> 0]

Issue(t) ==
  /\ issued[t] = returned[t]
  /\ issued[t] < Ops
  /\ issued' = [issued EXCEPT ![t] = @ + 1]
  /\ UNCHANGED <<executed, returned>>

Execute(t) ==
  /\ executed[t] < issued[t]
  /\ executed' = [executed EXCEPT ![t] = @ + 1]
  /\ UNCHANGED <<issued, returned>>

Return(t) ==
  /\ returned[t] < executed[t]
  /\ returned' = [returned EXCEPT ![t] = @ + 1]
  /\ UNCHANGED <<issued, executed>>

Next == \E t \in Threads : Issue(t) \/ Execute(t) \/ Return(t)

Spec == Init /\ [][Next]_vars

(* Every command that was handed over is executed and waited for.          *)
Fairness == \A t \in Threads : WF_vars(Execute(t)) /\ WF_vars(Return(t))

FairSpec == Spec /\ Fairness
=============================================================================
