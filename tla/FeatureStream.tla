--------------------------- MODULE FeatureStream ---------------------------
(***************************************************************************)
(* What the registered asynchronous read path promises to the data loader: *)
(* batches are asked for, and what comes back is, batch for batch in the   *)
(* order asked, the contents of the pages of the batch - what one call of  *)
(* the synchronous read_feature would have returned.                       *)
(***************************************************************************)
EXTENDS Naturals, Sequences

CONSTANTS
  Batches     \* what a request may ask for: a page for each of its rows

VARIABLES
  asked,      \* the batches submitted so far
  got         \* the contents delivered so far

vars == <<asked, got>>

Init == asked = <<>> /\ got = <<>>

Ask ==
  /\ \E b \in Batches : asked' = Append(asked, b)
  /\ got' = got

Deliver ==
  /\ Len(got) < Len(asked)
  /\ got' = Append(got, asked[Len(got) + 1])
  /\ asked' = asked

Next == Ask \/ Deliver

Spec == Init /\ [][Next]_vars

(* A batch that was asked for is delivered.                                *)
FairSpec == Spec /\ WF_vars(Deliver)
=============================================================================
