--------------------------- MODULE SharedMapping ---------------------------
(***************************************************************************)
(* What DMA handles promise to those who hold them: memory is mapped for   *)
(* the device from the moment the first handle exists until the last one   *)
(* is given up, and not longer.                                            *)
(***************************************************************************)
CONSTANTS
    Maps,       \* mappings
    Users       \* handles

VARIABLES
    holders,    \* who holds a mapping
    mapped      \* is it in place?

vars == <<holders, mapped>>

Init ==
    /\ holders = [m \in Maps |-> {}]
    /\ mapped = [m \in Maps |-> FALSE]

\* Taken by the first holder or by one more.
Hold(m, u) ==
    /\ \A n \in Maps : u \notin holders[n]
    /\ holders' = [holders EXCEPT ![m] = @ \cup {u}]
    /\ mapped' = [mapped EXCEPT ![m] = TRUE]

\* Given up; the last holder takes the mapping with it.
Drop(m, u) ==
    /\ u \in holders[m]
    /\ holders' = [holders EXCEPT ![m] = @ \ {u}]
    /\ mapped' = [mapped EXCEPT ![m] = holders[m] # {u}]

\* All holders go at once.
End ==
    /\ holders' = [m \in Maps |-> {}]
    /\ mapped' = [m \in Maps |-> FALSE]

Next == End \/ \E m \in Maps, u \in Users : Hold(m, u) \/ Drop(m, u)

Spec == Init /\ [][Next]_vars
=============================================================================
