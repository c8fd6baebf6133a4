---------------------------- MODULE MCAsyncRead ----------------------------
(* Instances of AsyncRead for TLC: the batches a loader may ask for.       *)
EXTENDS AsyncRead

(* Two rows.  Any two batches have page 1 in common, so that three slots   *)
(* are enough for two requests, four pages make slots be reused, and a     *)
(* request meets pages that another one is reading.                        *)
SharedPage == {<<1, 0>>, <<1, 2>>, <<3, 1>>}

(* The same or disjoint batches, or two rows of one page, which race for  *)
(* it.  Where the first request has the pages 0 and 2, the reader of page  *)
(* 1 has another identifier than 0, and the row that follows it may meet   *)
(* the completion of a third request when it polls for 0.  The batches     *)
(* <<0, 2>> and <<3, 1>> together need more slots than there are: the      *)
(* submit kernel of the second then spins.                                 *)
RacingRows == {<<1, 0>>, <<3, 1>>, <<1, 1>>, <<0, 2>>}

(* One row, any page.                                                      *)
SinglePage == {<<p>> : p \in 0 .. NPages - 1}
=============================================================================
