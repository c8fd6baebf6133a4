-------------------------- MODULE AsyncReadProofs --------------------------
(***************************************************************************)
(* Proofs about AsyncRead, for any number of requests, rows, pages, slots  *)
(* and identifiers, and the polling rules of either loader.                *)
(*                                                                         *)
(* Pins need no assumption (PinsAreRequests).  The rest is for one SSD and *)
(* batches without a repeated page: with more SSDs the lookup table is     *)
(* filled under the wrong one, and a row that follows another row of its   *)
(* own request may poll for a command it does not have.  The argument: a   *)
(* page that is BUSY has exactly one row that reads it (Readers), of a     *)
(* request not later than any other row that waits for the page (Earlier); *)
(* so a row that polls, which is one of the first request, polls for its   *)
(* own command (Pollers), and commands, completions, identifiers and table *)
(* entries all lead to the reading row (Commands, Entries, Lookups).       *)
(***************************************************************************)
EXTENDS AsyncRead, FiniteSetTheorems, SequenceTheorems, NaturalsInduction, TLAPS

Submitting == {"acquire", "look", "hit", "claim", "slot", "send", "follow"}
Waits == {"wait", "cas", "poll", "dequeue"}
Labels == {"idle", "done", "polled"} \cup Submitting \cup Waits
Kernels == {"none", "submit", "try", "window", "poll"}

\* The request at the front of the queue, if there is one.
Front == Len(asked) - Len(queue) + 1

\* The queue has the requests from the front to the last; their rows are live.
Queued ==
  /\ asked \in Seq([1 .. Rows -> Pages]) /\ Len(asked) <= NReq
  /\ queue \in Seq(Nat) /\ Len(queue) <= Len(asked)
  /\ \A i \in 1 .. Len(queue) : queue[i] = Len(asked) - Len(queue) + i
  /\ kernel \in Kernels /\ (kernel # "none" => queue # <<>>)

Placed ==
  /\ pc \in [Ctxs -> Labels]
  /\ \A c \in Ctxs : pc[c] = "idle" <=> c[1] \notin Front .. Len(asked)
  /\ \A c \in Ctxs : pc[c] \in Submitting => kernel = "submit" /\ c[1] = Len(asked)
  /\ \A c \in Ctxs : pc[c] \in Waits => kernel = "poll" /\ c[1] = Front

Holders(p) == {c \in Ctxs : pc[c] \notin {"idle", "acquire"} /\ Page(c) = p}

PinInv == Queued /\ Placed /\ cnt \in [Pages -> Int] /\ PinsAreRequests

-----------------------------------------------------------------------------
\* The assumptions of the theorems on transfers.
OneSsd == Ssds = 1
DistinctRows == \A b \in Batches : \A i, j \in 1 .. Rows : b[i] = b[j] => i = j

Types ==
  /\ valid \in [Pages -> BOOLEAN] /\ busy \in [Pages -> BOOLEAN]
  /\ offset \in [Pages -> Slots \cup {None}]
  /\ trans \in [Slots -> Pages \cup {None}] /\ data \in [Slots -> Pages \cup {None}]
  /\ cidLocked \in [Devs -> SUBSET Cids]
  /\ flying \subseteq [dev : Devs, cid : Cids, slot : Slots, page : Pages]
  /\ cq \in [Devs -> Seq([cid : Cids, marked : BOOLEAN])]
  /\ lookup \in [Devs -> [Cids -> Ctxs \cup {None}]]
  /\ hit \in [Ctxs -> BOOLEAN] /\ pending \in [Ctxs -> BOOLEAN]
  /\ slot \in [Ctxs -> Slots \cup {None}] /\ cid \in [Ctxs -> Cids]
  /\ \A r \in 1 .. Len(asked) : asked[r] \in Batches

\* The slot of a row has the page of the row ...
Mine(c) == slot[c] \in Slots /\ trans[slot[c]] = Page(c)

\* ... and its data, once the row is a hit or polled; then it reads nothing.
HasData ==
  \A c \in Ctxs :
    (hit[c] \/ pc[c] = "polled") =>
      /\ pc[c] \in {"done", "polled"} \cup Waits
      /\ Mine(c) /\ data[slot[c]] = Page(c) /\ ~pending[c]

\* The rows of a request that is ready are.
AllThere == \A c \in Ctxs : c[1] \in ready => hit[c] \/ pc[c] = "polled"

ValidHere ==
  \A p \in Pages : valid[p] =>
    ~busy[p] /\ offset[p] \in Slots /\ trans[offset[p]] = p /\ data[offset[p]] = p

\* The rows that read a page: from the fetch_or to the completion.
Reads(c) == pc[c] \in {"slot", "send"} \/ pending[c]

Readers ==
  /\ \A p \in Pages : busy[p] => \E c \in Ctxs : Reads(c) /\ Page(c) = p
  /\ \A c \in Ctxs : Reads(c) => busy[Page(c)]
  /\ \A c, e \in Ctxs : Reads(c) /\ Reads(e) /\ Page(c) = Page(e) => c = e

\* A row that has sent its command, or is about to, has the slot of the page.
Sent ==
  /\ \A c \in Ctxs : pc[c] = "send" \/ pending[c] => Mine(c) /\ offset[Page(c)] = slot[c]
  /\ \A c \in Ctxs : pending[c] => pc[c] \in {"done"} \cup Waits /\ cid[c] \in cidLocked[0]
  /\ \A c, e \in Ctxs : pending[c] /\ pending[e] /\ cid[c] = cid[e] => c = e

\* What a row that is submitting has seen is still so.
Seen ==
  /\ \A c \in Ctxs : pc[c] = "hit" => valid[Page(c)]
  /\ \A c \in Ctxs : pc[c] = "claim" => ~valid[Page(c)]

After == {"follow", "done", "polled"} \cup Waits
Covered == \A c \in Ctxs : pc[c] \in After => valid[Page(c)] \/ busy[Page(c)]
Earlier == \A c, e \in Ctxs : pc[c] \in After /\ Reads(e) /\ Page(c) = Page(e) => e[1] <= c[1]

Pollers ==
  /\ \A c \in Ctxs : pc[c] \in {"cas", "poll", "dequeue"} => pending[c]
  /\ \A c \in Ctxs : pc[c] = "dequeue" => data[slot[c]] = Page(c)

\* The row c waits for the identifier k.
Awaits(c, k) == pending[c] /\ cid[c] = k

Commands ==
  \A f \in flying :
    /\ \E c \in Ctxs : Awaits(c, f.cid) /\ pc[c] # "dequeue" /\ slot[c] = f.slot /\ Page(c) = f.page
    /\ \A i \in 1 .. Len(cq[0]) : cq[0][i].cid # f.cid

Entries ==
  /\ \A i \in 1 .. Len(cq[0]) : \E c \in Ctxs :
       /\ Awaits(c, cq[0][i].cid) /\ data[slot[c]] = Page(c)
       /\ cq[0][i].marked <=> pc[c] = "dequeue"
  /\ \A i, j \in 1 .. Len(cq[0]) : cq[0][i].cid = cq[0][j].cid => i = j

Lookups ==
  \A c \in Ctxs : pending[c] /\ ~(kernel = "submit" /\ c[1] = Len(asked)) => lookup[0][cid[c]] = c

ReadInv ==
  /\ PinInv /\ Types /\ HasData /\ AllThere /\ ValidHere /\ Readers /\ Sent /\ Seen /\ Covered
  /\ Earlier /\ Pollers /\ Commands /\ Entries /\ Lookups

Delivered == got \in Seq([1 .. Rows -> Pages]) /\ Len(got) = Len(asked) - Len(queue)

-----------------------------------------------------------------------------
(***************************************************************************)
(* Pins.                                                                   *)
(***************************************************************************)
LEMMA CtxsFinite == IsFiniteSet(Ctxs)
<1>1. NReq \in Int /\ Rows \in Int
  BY SizesAssumption
<1>2. IsFiniteSet(1 .. NReq) /\ IsFiniteSet(1 .. Rows)
  BY <1>1, FS_Interval
<1> QED BY <1>2, FS_Product DEF Ctxs, Reqs

LEMMA HoldersFinite ==
  ASSUME NEW p
  PROVE  IsFiniteSet(Holders(p)) /\ Cardinality(Holders(p)) \in Nat
<1>1. Holders(p) \subseteq Ctxs
  BY DEF Holders
<1> QED BY <1>1, CtxsFinite, FS_Subset, FS_CardinalityType

LEMMA CtxParts == ASSUME NEW c \in Ctxs PROVE c[1] \in 1 .. NReq /\ c[2] \in 1 .. Rows /\ c = <<c[1], c[2]>>
BY DEF Ctxs, Reqs

\* A page that a row has acquired is pinned.
LEMMA Pinned ==
  ASSUME PinInv, NEW c \in Ctxs, pc[c] \notin {"idle", "acquire"}, Page(c) \in Pages
  PROVE  cnt[Page(c)] # 0
<1>1. c \in Holders(Page(c))
  BY DEF Holders
<1>2. Cardinality(Holders(Page(c))) # 0
  BY <1>1, HoldersFinite, FS_EmptySet
<1> QED BY <1>2 DEF PinInv, PinsAreRequests, Holders

LEMMA PageType ==
  ASSUME Queued, NEW c \in Ctxs, c[1] \in 1 .. Len(asked)
  PROVE  Page(c) \in Pages
<1>1. asked[c[1]] \in [1 .. Rows -> Pages]
  BY ElementOfSeq DEF Queued
<1> QED BY <1>1, CtxParts DEF Page

LEMMA LivePage ==
  ASSUME Queued, Placed, NEW c \in Ctxs, pc[c] # "idle"
  PROVE  c[1] \in Front .. Len(asked) /\ c[1] \in 1 .. Len(asked) /\ Page(c) \in Pages
<1>1. c[1] \in Front .. Len(asked)
  BY DEF Placed
<1>2. Len(asked) \in Nat /\ Len(queue) \in Nat /\ Len(queue) <= Len(asked)
  BY DEF Queued
<1>3. c[1] \in 1 .. Len(asked)
  BY <1>1, <1>2, CtxParts DEF Front
<1> QED BY <1>1, <1>3, PageType

\* Pins do not change while rows only move on.
LEMMA SamePins ==
  ASSUME PinInv, cnt' = cnt,
         \A c \in Ctxs : pc[c] \in {"idle", "acquire"} <=> pc'[c] \in {"idle", "acquire"},
         \A c \in Ctxs : pc[c] \notin {"idle", "acquire"} => Page(c)' = Page(c)
  PROVE  cnt' \in [Pages -> Int] /\ PinsAreRequests'
<1>1. ASSUME NEW p \in Pages PROVE cnt'[p] = Cardinality(Holders(p)')
  <2>1. Holders(p)' = Holders(p)
    BY DEF Holders
  <2> QED BY <2>1 DEF PinInv, PinsAreRequests, Holders
<1> QED BY <1>1 DEF PinInv, PinsAreRequests, Holders

\* A row of the kernel that runs goes on.
LEMMA RowMoves ==
  ASSUME PinInv, NEW c \in Ctxs, NEW l \in Labels, pc' = [pc EXCEPT ![c] = l],
         \/ pc[c] \in Submitting \ {"acquire"} /\ l \in (Submitting \ {"acquire"}) \cup {"done"}
         \/ pc[c] \in Waits /\ l \in Waits \cup {"polled"},
         UNCHANGED <<cnt, asked, queue, kernel>>
  PROVE  PinInv'
<1>1. Queued' /\ Front' = Front
  BY DEF PinInv, Queued, Front
<1>2. Placed'
  BY <1>1 DEF PinInv, Placed, Submitting, Waits, Labels, Front
<1>3. \A e \in Ctxs : pc[e] \in {"idle", "acquire"} <=> pc'[e] \in {"idle", "acquire"}
  BY DEF PinInv, Placed, Submitting, Waits
<1>4. \A e \in Ctxs : Page(e)' = Page(e)
  BY DEF Page
<1> QED BY <1>1, <1>2, <1>3, <1>4, SamePins DEF PinInv

LEMMA InitPins == Init => PinInv
<1> SUFFICES ASSUME Init PROVE PinInv
  OBVIOUS
<1>1. Queued
  BY SizesAssumption DEF Init, Queued, Kernels
<1>2. Placed
  BY CtxParts DEF Init, Placed, Front, Labels, Submitting, Waits
<1>3. cnt \in [Pages -> Int]
  BY DEF Init
<1>4. ASSUME NEW p \in Pages PROVE cnt[p] = Cardinality(Holders(p))
  <2>1. Holders(p) = {}
    BY DEF Init, Holders
  <2> QED BY <2>1, FS_EmptySet DEF Init
<1> QED BY <1>1, <1>2, <1>3, <1>4 DEF PinInv, PinsAreRequests, Holders

LEMMA SubmitRowPins ==
  ASSUME PinInv, NEW c \in Ctxs, SubmitRow(c), ~Acquire(c)
  PROVE  PinInv'
<1>1. CASE Look(c)
  BY <1>1, RowMoves DEF Look, Goto, Case, hostVars, pageVars, Submitting, Labels
<1>2. CASE Hit(c)
  BY <1>2, RowMoves DEF Hit, Goto, hostVars, pageVars, Submitting, Labels
<1>3. CASE Claim(c)
  BY <1>3, RowMoves DEF Claim, Goto, hostVars, Submitting, Labels
<1>4. CASE FindSlot(c)
  BY <1>4, RowMoves DEF FindSlot, Goto, hostVars, Submitting, Labels
<1>5. CASE SubmitRead(c)
  BY <1>5, RowMoves DEF SubmitRead, Goto, hostVars, pageVars, Submitting, Labels
<1>6. CASE Follow(c)
  BY <1>6, RowMoves DEF Follow, Goto, hostVars, pageVars, Submitting, Labels
<1> QED BY <1>1, <1>2, <1>3, <1>4, <1>5, <1>6 DEF SubmitRow

LEMMA PollRowPins ==
  ASSUME PinInv, NEW c \in Ctxs, PollRow(c)
  PROVE  PinInv'
<1>1. CASE WaitDone(c)
  BY <1>1, RowMoves DEF WaitDone, Goto, hostVars, Waits, Labels
<1>2. CASE WaitBusy(c)
  BY <1>2, RowMoves DEF WaitBusy, Goto, hostVars, pageVars, Waits, Labels
<1>3. CASE WaitCas(c)
  BY <1>3, RowMoves DEF WaitCas, Goto, hostVars, Waits, Labels
<1>4. CASE Poll(c)
  BY <1>4, RowMoves DEF Poll, Goto, hostVars, pageVars, Waits, Labels
<1>5. CASE Publish(c)
  BY <1>5, RowMoves DEF Publish, Goto, hostVars, Waits, Labels
<1> QED BY <1>1, <1>2, <1>3, <1>4, <1>5 DEF PollRow

LEMMA AcquirePins ==
  ASSUME PinInv, NEW c \in Ctxs, Acquire(c)
  PROVE  PinInv'
<1>1. /\ pc[c] = "acquire" /\ cnt' = [cnt EXCEPT ![Page(c)] = @ + 1]
      /\ pc' = [pc EXCEPT ![c] = Case(Page(c))]
      /\ UNCHANGED <<asked, queue, kernel>>
  BY DEF Acquire, Goto, hostVars
<1>2. Case(Page(c)) \in {"hit", "follow", "look", "claim"}
  BY DEF Case
<1>3. Queued' /\ Front' = Front
  BY <1>1 DEF PinInv, Queued, Front
<1>4. Placed'
  BY <1>1, <1>2, <1>3 DEF PinInv, Placed, Submitting, Waits, Labels
<1>5. Page(c) \in Pages
  BY <1>1, LivePage DEF PinInv
<1>6. pc \in [Ctxs -> Labels] /\ cnt \in [Pages -> Int]
  BY DEF PinInv, Placed
<1>7. ASSUME NEW p \in Pages PROVE cnt'[p] = Cardinality(Holders(p)')
  <2>1. cnt[p] = Cardinality(Holders(p)) /\ IsFiniteSet(Holders(p))
    BY HoldersFinite DEF PinInv, PinsAreRequests, Holders
  <2>2. CASE p # Page(c)
    <3>1. Holders(p)' = Holders(p)
      BY <1>1, <1>2, <1>6, <2>2 DEF Holders, Page
    <3> QED BY <1>1, <1>6, <2>1, <2>2, <3>1
  <2>3. CASE p = Page(c)
    <3>1. Holders(p)' = Holders(p) \cup {c} /\ c \notin Holders(p)
      BY <1>1, <1>2, <1>6, <2>3 DEF Holders, Page
    <3>2. Cardinality(Holders(p)') = Cardinality(Holders(p)) + 1
      BY <2>1, <3>1, FS_AddElement
    <3> QED BY <1>1, <1>6, <2>1, <2>3, <3>2
  <2> QED BY <2>2, <2>3
<1>8. cnt' \in [Pages -> Int]
  BY <1>1, <1>5, <1>6
<1> QED BY <1>3, <1>4, <1>7, <1>8 DEF PinInv, PinsAreRequests, Holders

\* Everything else but SubmitLaunch and Get leaves the requests as they are.
LEMMA KernelPins ==
  ASSUME PinInv,
         \/ FrontPoll \/ WindowLaunch \/ KernelEnd
         \/ \E d \in Devs : DevComplete(d) \/ ServiceEvent(d)
         \/ UNCHANGED vars
  PROVE  PinInv'
<1>1. UNCHANGED <<cnt, asked, queue>>
  BY DEF FrontPoll, TryLaunch, PollLaunch, WindowLaunch, KernelEnd, SubmitEnd, ServiceEnd, PollEnd, DevComplete,
         ServiceEvent, vars, pageVars, hostVars
<1>2. Front' = Front /\ (queue # <<>> => Head(queue) = Front)
  BY <1>1 DEF PinInv, Queued, Front
<1>3. Queued'
  <2>1. kernel' \in Kernels /\ (kernel' # "none" => queue # <<>>)
    <3>1. \/ kernel' = kernel \/ kernel' = "none"
          \/ kernel' \in {"try", "poll"} /\ queue # <<>>
          \/ kernel' = "window" /\ Len(queue) > 1
      BY DEF FrontPoll, TryLaunch, PollLaunch, WindowLaunch, KernelEnd, SubmitEnd, ServiceEnd,
             PollEnd, DevComplete, ServiceEvent, Waiting, vars, hostVars
    <3>2. Len(queue) > 1 => queue # <<>>
      BY DEF PinInv, Queued
    <3> QED BY <3>1, <3>2 DEF PinInv, Queued, Kernels
  <2> QED BY <1>1, <2>1 DEF PinInv, Queued
<1>4. CASE PollLaunch
  <2>1. /\ kernel = "none" /\ kernel' = "poll" /\ queue # <<>>
        /\ pc' = [c \in Ctxs |-> IF c[1] = Front THEN "wait" ELSE pc[c]]
    BY <1>2, <1>4 DEF PollLaunch, Waiting
  <2>2. ASSUME NEW c \in Ctxs, c[1] = Front PROVE pc[c] \in {"done", "polled"}
    <3>1. Front \in Front .. Len(asked)
      BY <2>1 DEF PinInv, Queued, Front
    <3>2. pc[c] \in Labels \ {"idle"} /\ pc[c] \notin Submitting /\ pc[c] \notin Waits
      BY <2>1, <2>2, <3>1 DEF PinInv, Placed
    <3> QED BY <3>2 DEF Labels
  <2>3. Placed'
    BY <1>1, <1>2, <2>1, <2>2 DEF PinInv, Placed, Labels, Submitting, Waits
  <2>4. \A c \in Ctxs : pc[c] \in {"idle", "acquire"} <=> pc'[c] \in {"idle", "acquire"}
    BY <2>1, <2>2
  <2>5. \A e \in Ctxs : Page(e)' = Page(e)
    BY <1>1 DEF Page
  <2> QED BY <1>1, <1>3, <2>3, <2>4, <2>5, SamePins DEF PinInv
<1>5. CASE ~PollLaunch
  <2>1. pc' = pc
    BY <1>5 DEF FrontPoll, TryLaunch, WindowLaunch, KernelEnd, SubmitEnd, ServiceEnd, PollEnd, DevComplete,
              ServiceEvent, vars, ctxVars
  <2>2. \A c \in Ctxs : pc[c] \in Submitting => kernel = "submit" /\ kernel' = "submit"
    <3>1. ASSUME NEW c \in Ctxs, pc[c] \in Submitting PROVE kernel = "submit" /\ kernel' = "submit"
      <4>1. kernel = "submit" /\ c[1] = Len(asked)
        BY <3>1 DEF PinInv, Placed
      <4>2. ~SubmitEnd
        <5>1. c \in RowsOf(Len(asked))
          BY <4>1, CtxParts DEF RowsOf
        <5> QED BY <3>1, <5>1 DEF SubmitEnd, Submitting
      <4> QED BY <1>5, <4>1, <4>2 DEF FrontPoll, TryLaunch, WindowLaunch, KernelEnd, ServiceEnd, PollEnd, DevComplete,
              ServiceEvent, vars, hostVars, Waiting
    <3> QED BY <3>1
  <2>3. \A c \in Ctxs : pc[c] \in Waits => kernel = "poll" /\ kernel' = "poll"
    <3>1. ASSUME NEW c \in Ctxs, pc[c] \in Waits PROVE kernel = "poll" /\ kernel' = "poll"
      <4>1. kernel = "poll" /\ c[1] = Front /\ queue # <<>>
        BY <3>1 DEF PinInv, Placed, Queued
      <4>2. ~PollEnd
        <5>1. c \in RowsOf(Head(queue))
          BY <1>2, <4>1, CtxParts DEF RowsOf
        <5> QED BY <3>1, <5>1 DEF PollEnd, Waits
      <4> QED BY <1>5, <4>1, <4>2 DEF FrontPoll, TryLaunch, WindowLaunch, KernelEnd, ServiceEnd, SubmitEnd, DevComplete,
              ServiceEvent, vars, hostVars, Waiting
    <3> QED BY <3>1
  <2>4. Placed'
    BY <1>1, <1>2, <2>1, <2>2, <2>3 DEF PinInv, Placed
  <2>5. \A e \in Ctxs : Page(e)' = Page(e)
    BY <1>1 DEF Page
  <2> QED BY <1>1, <1>3, <2>1, <2>4, <2>5, SamePins DEF PinInv
<1> QED BY <1>4, <1>5

LEMMA SubmitLaunchPins ==
  ASSUME PinInv, SubmitLaunch
  PROVE  PinInv'
<1>1. PICK b \in Batches : asked' = Append(asked, b)
  BY DEF SubmitLaunch
<1>2. b \in [1 .. Rows -> Pages]
  BY BatchesAssumption
<1>3. asked \in Seq([1 .. Rows -> Pages]) /\ queue \in Seq(Nat) /\ Len(asked) \in Nat /\ Len(queue) \in Nat
  BY DEF PinInv, Queued
<1>4. /\ asked' \in Seq([1 .. Rows -> Pages]) /\ Len(asked') = Len(asked) + 1
      /\ \A i \in 1 .. Len(asked) : asked'[i] = asked[i]
  BY <1>1, <1>2, <1>3, AppendProperties
<1>5. queue' = Append(queue, Len(asked) + 1) /\ kernel = "none" /\ kernel' = "submit" /\ Len(asked) < NReq /\ cnt' = cnt
  BY DEF SubmitLaunch, pageVars
<1>6. /\ queue' \in Seq(Nat) /\ Len(queue') = Len(queue) + 1 /\ queue'[Len(queue) + 1] = Len(asked) + 1
      /\ \A i \in 1 .. Len(queue) : queue'[i] = queue[i]
  BY <1>3, <1>5, AppendProperties
<1>7. Front' = Front
  BY <1>3, <1>4, <1>6 DEF Front
<1>8. Queued'
  <2>1. \A i \in 1 .. Len(queue') : queue'[i] = Len(asked') - Len(queue') + i
    <3>1. TAKE i \in 1 .. Len(queue')
    <3>2. CASE i = Len(queue) + 1
      BY <1>3, <1>4, <1>6, <3>2
    <3>3. CASE i \in 1 .. Len(queue)
      BY <1>3, <1>4, <1>6, <3>3 DEF PinInv, Queued
    <3> QED BY <1>3, <1>6, <3>2, <3>3
  <2>2. queue' # <<>> /\ Len(asked') <= NReq /\ Len(queue') <= Len(asked')
    BY <1>3, <1>4, <1>5, <1>6, SizesAssumption DEF PinInv, Queued
  <2> QED BY <1>4, <1>5, <1>6, <2>1, <2>2 DEF Queued, Kernels
<1>9. \A c \in Ctxs : /\ c[1] = Len(asked) + 1 => pc[c] = "idle" /\ pc'[c] = "acquire"
                      /\ c[1] # Len(asked) + 1 => pc'[c] = pc[c]
  <2>1. TAKE c \in Ctxs
  <2>2. c[1] = Len(asked) + 1 => pc[c] = "idle"
    BY <1>3 DEF PinInv, Placed
  <2> QED BY <2>2 DEF SubmitLaunch
<1>10. Placed'
  <2>1. pc' \in [Ctxs -> Labels]
    BY DEF SubmitLaunch, PinInv, Placed, Labels, Submitting
  <2>2. ASSUME NEW c \in Ctxs
        PROVE  /\ pc'[c] = "idle" <=> c[1] \notin Front' .. Len(asked')
               /\ pc'[c] \in Submitting => kernel' = "submit" /\ c[1] = Len(asked')
               /\ pc'[c] \notin Waits
    <3>1. c[1] \in Nat
      BY CtxParts
    <3>2. CASE c[1] = Len(asked) + 1
      BY <1>3, <1>4, <1>5, <1>7, <1>9, <3>2 DEF Front, PinInv, Queued, Waits
    <3>3. CASE c[1] # Len(asked) + 1
      <4>1. pc[c] = "idle" <=> c[1] \notin Front .. Len(asked)
        BY DEF PinInv, Placed
      <4>2. pc[c] \notin Submitting /\ pc[c] \notin Waits
        BY <1>5 DEF PinInv, Placed
      <4> QED BY <1>3, <1>4, <1>7, <1>9, <3>1, <3>3, <4>1, <4>2 DEF Front
    <3> QED BY <3>2, <3>3
  <2> QED BY <2>1, <2>2 DEF Placed
<1>11. \A c \in Ctxs : pc[c] \in {"idle", "acquire"} <=> pc'[c] \in {"idle", "acquire"}
  BY <1>9
<1>12. ASSUME NEW c \in Ctxs, pc[c] \notin {"idle", "acquire"} PROVE Page(c)' = Page(c)
  <2>1. c[1] \in 1 .. Len(asked)
    BY <1>12, LivePage DEF PinInv
  <2> QED BY <1>4, <2>1 DEF Page
<1> QED BY <1>5, <1>8, <1>10, <1>11, <1>12, SamePins DEF PinInv

LEMMA GetPins ==
  ASSUME PinInv, Get
  PROVE  PinInv'
<1> DEFINE r == Head(queue)
<1>1. /\ kernel = "none" /\ queue # <<>> /\ queue' = Tail(queue)
      /\ pc' = [c \in Ctxs |-> IF c[1] = r THEN "idle" ELSE pc[c]]
      /\ cnt' = [p \in Pages |-> Released(r, p)]
      /\ UNCHANGED <<asked, kernel>>
  BY DEF Get
<1>2. asked \in Seq([1 .. Rows -> Pages]) /\ queue \in Seq(Nat) /\ Len(asked) \in Nat /\ Len(queue) \in Nat /\ Len(queue) > 0
  BY <1>1 DEF PinInv, Queued
<1>3. r = Front /\ r \in 1 .. Len(asked)
  <2>1. r = queue[1] /\ Len(queue) <= Len(asked)
    BY <1>1, <1>2 DEF PinInv, Queued
  <2>2. queue[1] = Len(asked) - Len(queue) + 1
    BY <1>2 DEF PinInv, Queued
  <2> QED BY <1>2, <2>1, <2>2 DEF Front
<1> HIDE DEF r
<1>4. /\ queue' \in Seq(Nat) /\ Len(queue') = Len(queue) - 1
      /\ \A i \in 1 .. Len(queue') : queue'[i] = queue[i + 1]
  BY <1>1, <1>2, HeadTailProperties
<1>5. Front' = Front + 1
  BY <1>1, <1>2, <1>4 DEF Front
<1>6. Queued'
  <2>1. ASSUME NEW i \in 1 .. Len(queue') PROVE queue'[i] = Len(asked') - Len(queue') + i
    <3>1. i + 1 \in 1 .. Len(queue) /\ queue'[i] = queue[i + 1]
      BY <1>2, <1>4
    <3>2. queue[i + 1] = Len(asked) - Len(queue) + (i + 1)
      BY <3>1 DEF PinInv, Queued
    <3> QED BY <1>1, <1>2, <1>4, <3>1, <3>2
  <2> QED BY <1>1, <1>2, <1>4, <2>1 DEF PinInv, Queued
<1>7. ASSUME NEW c \in Ctxs PROVE c[1] = r => pc[c] \in {"done", "polled"}
  <2>1. pc[c] \in Labels /\ pc[c] \notin Submitting /\ pc[c] \notin Waits
    BY <1>1 DEF PinInv, Placed
  <2>2. c[1] = r => pc[c] # "idle"
    BY <1>2, <1>3 DEF PinInv, Placed, Front
  <2> QED BY <2>1, <2>2 DEF Labels
<1>8. Placed'
  <2>1. pc' \in [Ctxs -> Labels]
    BY <1>1 DEF PinInv, Placed, Labels
  <2>2. ASSUME NEW c \in Ctxs
        PROVE  /\ pc'[c] = "idle" <=> c[1] \notin Front' .. Len(asked')
               /\ pc'[c] \notin Submitting
               /\ pc'[c] \notin Waits
    <3>1. c[1] \in Nat
      BY CtxParts
    <3>2. pc[c] = "idle" <=> c[1] \notin Front .. Len(asked)
      BY DEF PinInv, Placed
    <3>3. pc[c] \notin Submitting /\ pc[c] \notin Waits
      BY <1>1 DEF PinInv, Placed
    <3>4. CASE c[1] = r
      BY <1>1, <1>2, <1>3, <1>5, <3>4 DEF Submitting, Waits
    <3>5. CASE c[1] # r
      BY <1>1, <1>2, <1>3, <1>5, <3>1, <3>2, <3>3, <3>5 DEF Front
    <3> QED BY <3>4, <3>5
  <2> QED BY <2>1, <2>2 DEF Placed
<1>9. ASSUME NEW p \in Pages PROVE cnt'[p] = Cardinality(Holders(p)') /\ cnt'[p] \in Int
  <2> DEFINE G == {c \in RowsOf(r) : Page(c) = p}
  <2>1. cnt[p] = Cardinality(Holders(p)) /\ IsFiniteSet(Holders(p)) /\ Cardinality(Holders(p)) \in Nat
    BY HoldersFinite DEF PinInv, PinsAreRequests, Holders
  <2>2. cnt'[p] = cnt[p] - Cardinality(G)
    BY <1>1 DEF Released
  <2>3. RowsOf(r) = {c \in Ctxs : c[1] = r}
    <3>1. r \in Reqs
      BY <1>2, <1>3, SizesAssumption DEF PinInv, Queued, Reqs
    <3> QED BY <3>1 DEF RowsOf, Ctxs
  <2>4. G \subseteq Holders(p) /\ Holders(p)' = Holders(p) \ G
    BY <1>1, <1>7, <2>3 DEF Holders, Page
  <2>5. IsFiniteSet(G) /\ Cardinality(G) \in Nat
    BY <2>1, <2>4, FS_Subset, FS_CardinalityType
  <2>6. Cardinality(Holders(p) \ G) = Cardinality(Holders(p)) - Cardinality(Holders(p) \cap G)
    BY <2>1, <2>5, FS_Difference
  <2>7. Holders(p) \cap G = G
    BY <2>4
  <2> HIDE DEF G
  <2>8. Cardinality(Holders(p)') = Cardinality(Holders(p)) - Cardinality(G)
    BY <2>4, <2>6, <2>7
  <2> QED BY <2>1, <2>2, <2>5, <2>8
<1>10. cnt' \in [Pages -> Int]
  BY <1>1, <1>9
<1> QED BY <1>6, <1>8, <1>9, <1>10 DEF PinInv, PinsAreRequests, Holders

LEMMA PinInvStep == PinInv /\ [Next]_vars => PinInv'
<1> SUFFICES ASSUME PinInv, [Next]_vars PROVE PinInv'
  OBVIOUS
<1>1. CASE SubmitLaunch
  BY <1>1, SubmitLaunchPins
<1>2. CASE Get
  BY <1>2, GetPins
<1>3. ASSUME NEW c \in Ctxs, Row(c) PROVE PinInv'
  BY <1>3, AcquirePins, SubmitRowPins, PollRowPins DEF Row
<1>4. CASE \/ FrontPoll \/ WindowLaunch \/ KernelEnd
           \/ \E d \in Devs : DevComplete(d) \/ ServiceEvent(d)
           \/ UNCHANGED vars
  BY <1>4, KernelPins
<1> QED BY <1>1, <1>2, <1>3, <1>4 DEF Next

\* A page is pinned as often as there are rows of outstanding requests that
\* have acquired it, from submit to get (acquire_page_submit_async,
\* release_page), also with several SSDs and with rows that share a page.
THEOREM PinsAreTheRequests == Spec => []PinsAreRequests
<1>1. PinInv => PinsAreRequests
  BY DEF PinInv
<1> QED BY <1>1, InitPins, PinInvStep, PTL DEF Spec

-----------------------------------------------------------------------------
(***************************************************************************)
(* Transfers.                                                              *)
(***************************************************************************)
Rest ==
  /\ Types /\ HasData /\ AllThere /\ ValidHere /\ Readers /\ Sent /\ Seen /\ Covered
  /\ Earlier /\ Pollers /\ Commands /\ Entries /\ Lookups

LEMMA OnlyDev == ASSUME OneSsd PROVE Devs = {0} /\ \A p \in Pages : Dev(p) = 0
<1>1. Devs = {0}
  BY DEF OneSsd, Devs
<1>2. ASSUME NEW p \in Pages PROVE p % 1 = 0
  BY SizesAssumption DEF Pages
<1> QED BY <1>1, <1>2 DEF OneSsd, Dev

\* Rows that read, have data or are polled are live.
LEMMA ReadsLive ==
  ASSUME ReadInv, NEW c \in Ctxs, Reads(c) \/ hit[c] \/ pc[c] \in After \/ pc[c] \in Submitting
  PROVE  pc[c] # "idle" /\ c[1] \in Front .. Len(asked) /\ c[1] \in 1 .. Len(asked) /\ Page(c) \in Pages
<1>1. pc[c] # "idle"
  BY DEF ReadInv, HasData, Sent, Reads, After, Waits, Submitting
<1> QED BY <1>1, LivePage DEF ReadInv, PinInv

LEMMA FrontIsHead == ASSUME Queued, queue # <<>> PROVE Head(queue) = Front /\ Front \in 1 .. Len(asked)
<1>1. Len(queue) \in Nat /\ Len(asked) \in Nat /\ Len(queue) > 0 /\ Len(queue) <= Len(asked) /\ Head(queue) = queue[1]
  BY DEF Queued
<1>2. queue[1] = Len(asked) - Len(queue) + 1
  BY <1>1 DEF Queued
<1> QED BY <1>1, <1>2 DEF Front

\* A row that waits for a page being read is the row that reads it.
LEMMA PollerReads ==
  ASSUME ReadInv, DistinctRows, NEW c \in Ctxs, pc[c] \in Waits, busy[Page(c)]
  PROVE  pending[c]
<1>1. kernel = "poll" /\ c[1] = Front /\ Page(c) \in Pages /\ c[1] \in 1 .. Len(asked)
  BY ReadsLive DEF ReadInv, PinInv, Placed, After
<1>2. PICK e \in Ctxs : Reads(e) /\ Page(e) = Page(c)
  BY <1>1 DEF ReadInv, Readers
<1>3. e[1] <= c[1]
  BY <1>2 DEF ReadInv, Earlier, After
<1>4. e[1] \in Front .. Len(asked)
  BY <1>2, ReadsLive
<1>5. e[1] = c[1]
  BY <1>1, <1>3, <1>4
<1>6. asked[c[1]] \in Batches /\ asked[c[1]][e[2]] = asked[c[1]][c[2]]
  BY <1>1, <1>2, <1>5 DEF ReadInv, Types, Page
<1>7. e = c
  BY <1>5, <1>6, CtxParts DEF DistinctRows
<1>8. pc[c] \notin {"slot", "send"}
  BY DEF Waits
<1> QED BY <1>2, <1>7, <1>8 DEF Reads

\* What a row of the submit kernel reads of its page.
LEMMA CaseOf ==
  ASSUME ReadInv, NEW p \in Pages
  PROVE  /\ Case(p) \in {"hit", "follow", "claim"}
         /\ Case(p) = "hit" => valid[p]
         /\ Case(p) = "claim" => ~valid[p]
         /\ Case(p) = "follow" => busy[p]
BY DEF ReadInv, ValidHere, Case, V_NB, NV_B

\* A row moves on without changing a page, a command or its context.
LEMMA RowPc ==
  ASSUME ReadInv, NEW c \in Ctxs, NEW l, pc' = [pc EXCEPT ![c] = l],
         \/ pc[c] \in {"acquire", "look"} /\ l = Case(Page(c))
         \/ pc[c] = "claim" /\ l = "look"
         \/ pc[c] \in {"wait", "cas"} /\ l \in {"wait", "cas", "poll"} /\ (l # "wait" => pending[c]),
         UNCHANGED <<valid, busy, offset, trans, data, cidLocked, flying, cq, lookup, hit, slot, cid, pending>>,
         UNCHANGED <<asked, queue, ready, kernel>>
  PROVE  Rest'
<1>1. pc \in [Ctxs -> Labels] /\ \A e \in Ctxs : pc'[e] = IF e = c THEN l ELSE pc[e]
  BY DEF ReadInv, PinInv, Placed
<1>2. \A e : Page(e)' = Page(e)
  BY DEF Page
<1>3. Page(c) \in Pages
  BY ReadsLive DEF After, Waits, Submitting
<1>4. /\ pc[c] \in {"acquire", "look", "claim", "wait", "cas"}
      /\ l \in {"hit", "follow", "claim", "look", "wait", "cas", "poll"}
      /\ l = "hit" => valid[Page(c)]
      /\ l = "claim" => ~valid[Page(c)]
      /\ l = "follow" => busy[Page(c)]
      /\ l \in {"hit", "follow", "claim"} => pc[c] \in {"acquire", "look"}
      /\ l \in {"wait", "cas", "poll"} => pc[c] \in {"wait", "cas"}
      /\ l \in {"cas", "poll"} => pending[c]
  BY <1>3, CaseOf
<1>5. \A e \in Ctxs : Reads(e)' <=> Reads(e)
  BY <1>1, <1>4 DEF Reads
<1>6. Types'
  BY DEF ReadInv, Types
<1>7. HasData'
  BY <1>1, <1>2, <1>4 DEF ReadInv, HasData, Mine, Waits
<1>8. AllThere'
  BY <1>1, <1>4 DEF ReadInv, AllThere
<1>9. ValidHere' /\ Readers'
  BY <1>2, <1>5 DEF ReadInv, ValidHere, Readers
<1>10. Sent'
  BY <1>1, <1>2, <1>4 DEF ReadInv, Sent, Mine, Waits
<1>11. Seen' /\ Covered'
  BY <1>1, <1>2, <1>4 DEF ReadInv, Seen, Covered, After, Waits
<1>12. Earlier'
  <2>1. ASSUME NEW e \in Ctxs, Reads(e), pc[c] \in {"acquire", "look"} PROVE e[1] <= c[1]
    <3>1. e[1] \in 1 .. Len(asked) /\ c[1] = Len(asked)
      BY <2>1, ReadsLive DEF ReadInv, PinInv, Placed, Submitting
    <3> QED BY <3>1
  <2> QED BY <1>1, <1>2, <1>4, <1>5, <2>1 DEF ReadInv, Earlier, After, Waits
<1>13. Pollers'
  BY <1>1, <1>2, <1>4 DEF ReadInv, Pollers
<1>14. Commands'
  BY <1>1, <1>2, <1>4 DEF ReadInv, Commands, Awaits
<1>15. Entries'
  BY <1>1, <1>2, <1>4 DEF ReadInv, Entries, Awaits
<1>16. Lookups'
  BY DEF ReadInv, Lookups
<1> QED BY <1>6, <1>7, <1>8, <1>9, <1>10, <1>11, <1>12, <1>13, <1>14, <1>15, <1>16 DEF Rest

\* A row takes the slot in which its page is, or is being read.
LEMMA RowTakes ==
  ASSUME ReadInv, NEW c \in Ctxs, NEW l, NEW s \in Slots, NEW h \in BOOLEAN,
         pc' = [pc EXCEPT ![c] = l], slot' = [slot EXCEPT ![c] = s], hit' = [hit EXCEPT ![c] = h],
         \/ pc[c] \in {"hit", "follow"} /\ l = "done"
         \/ pc[c] = "wait" /\ l = "polled",
         ~Reads(c), trans[s] = Page(c), h \/ l = "polled" => data[s] = Page(c), hit[c] => h,
         UNCHANGED <<valid, busy, offset, trans, data, cidLocked, flying, cq, lookup, cid, pending>>,
         UNCHANGED <<asked, queue, ready, kernel>>
  PROVE  Rest'
<1>1. /\ pc \in [Ctxs -> Labels] /\ \A e \in Ctxs : pc'[e] = IF e = c THEN l ELSE pc[e]
      /\ \A e \in Ctxs : slot'[e] = IF e = c THEN s ELSE slot[e]
      /\ \A e \in Ctxs : hit'[e] = IF e = c THEN h ELSE hit[e]
  BY DEF ReadInv, PinInv, Placed, Types
<1>2. \A e : Page(e)' = Page(e)
  BY DEF Page
<1>3. Page(c) \in Pages /\ pc[c] \in {"hit", "follow", "wait"} /\ l \in {"done", "polled"} /\ ~pending[c]
  BY ReadsLive DEF After, Waits, Submitting, Reads
<1>4. \A e \in Ctxs : Reads(e)' <=> Reads(e)
  BY <1>1, <1>3 DEF Reads
<1>5. valid[Page(c)] \/ (busy[Page(c)] /\ pc[c] \in After)
  BY <1>3 DEF ReadInv, Seen, Covered, After, Waits
<1>6. Types'
  BY DEF ReadInv, Types
<1>7. HasData'
  BY <1>1, <1>2, <1>3 DEF ReadInv, HasData, Mine, Waits
<1>8. AllThere'
  BY <1>1, <1>3 DEF ReadInv, AllThere
<1>9. ValidHere' /\ Readers'
  BY <1>2, <1>4 DEF ReadInv, ValidHere, Readers
<1>10. Sent'
  BY <1>1, <1>2, <1>3 DEF ReadInv, Sent, Mine, Waits
<1>11. Seen' /\ Covered'
  BY <1>1, <1>2, <1>3, <1>5 DEF ReadInv, Seen, Covered, After, Waits
<1>12. Earlier'
  <2>1. ASSUME NEW e \in Ctxs, Reads(e), Page(e) = Page(c) PROVE e[1] <= c[1]
    <3>1. busy[Page(c)]
      BY <2>1 DEF ReadInv, Readers
    <3>2. pc[c] \in After
      BY <1>3, <1>5, <3>1 DEF ReadInv, ValidHere
    <3> QED BY <2>1, <3>2 DEF ReadInv, Earlier
  <2> QED BY <1>1, <1>2, <1>3, <1>4, <2>1 DEF ReadInv, Earlier
<1>13. Pollers'
  BY <1>1, <1>2, <1>3 DEF ReadInv, Pollers
<1>14. Commands'
  BY <1>1, <1>2, <1>3 DEF ReadInv, Commands, Awaits
<1>15. Entries'
  BY <1>1, <1>2, <1>3 DEF ReadInv, Entries, Awaits
<1>16. Lookups'
  BY DEF ReadInv, Lookups
<1> QED BY <1>6, <1>7, <1>8, <1>9, <1>10, <1>11, <1>12, <1>13, <1>14, <1>15, <1>16 DEF Rest

LEMMA ClaimRest ==
  ASSUME ReadInv, NEW c \in Ctxs, Claim(c)
  PROVE  Rest'
<1> DEFINE p == Page(c)
<1>1. /\ pc[c] = "claim" /\ busy' = [busy EXCEPT ![p] = TRUE]
      /\ offset' = [offset EXCEPT ![p] = IF ~busy[p] THEN None ELSE @]
      /\ pc' = [pc EXCEPT ![c] = IF ~busy[p] THEN "slot" ELSE "look"]
      /\ UNCHANGED <<valid, trans, data, cidLocked, flying, cq, lookup, hit, slot, cid, pending>>
      /\ UNCHANGED <<asked, queue, ready, kernel>>
  BY DEF Claim, Claims, Goto, slotVars, qpVars, hostVars
<1>2. p \in Pages /\ ~valid[p]
  BY <1>1, ReadsLive DEF After, Waits, Submitting, ReadInv, Seen
<1>3. busy \in [Pages -> BOOLEAN] /\ offset \in [Pages -> Slots \cup {None}] /\ pc \in [Ctxs -> Labels]
  BY DEF ReadInv, Types, PinInv, Placed
<1> HIDE DEF p
<1>4. CASE busy[p]
  <2>1. busy' = busy /\ offset' = offset /\ pc' = [pc EXCEPT ![c] = "look"]
    BY <1>1, <1>3, <1>4
  <2> QED BY <1>1, <2>1, RowPc
<1>5. CASE ~busy[p]
  <2>1. /\ \A e \in Ctxs : pc'[e] = IF e = c THEN "slot" ELSE pc[e]
        /\ \A q \in Pages : busy'[q] = (q = p \/ busy[q])
        /\ \A q \in Pages : offset'[q] = IF q = p THEN None ELSE offset[q]
    BY <1>1, <1>3, <1>5
  <2>2. (\A e : Page(e)' = Page(e)) /\ p = Page(c)
    BY <1>1 DEF Page, p
  <2>3. \A e \in Ctxs : Reads(e)' <=> (e = c \/ Reads(e))
    BY <1>1, <2>1 DEF Reads
  <2>4. \A e \in Ctxs : Reads(e) => Page(e) # p
    BY <1>5 DEF ReadInv, Readers
  <2>5. \A e \in Ctxs : pc[e] \in After => Page(e) # p
    BY <1>2, <1>5 DEF ReadInv, Covered
  <2>6. \A e \in Ctxs : Reads(e) \/ pc[e] \in After => Page(e) \in Pages
    BY ReadsLive
  <2>7. Types'
    BY <1>1, <1>2 DEF ReadInv, Types
  <2>8. HasData' /\ AllThere'
    BY <1>1, <2>1, <2>2 DEF ReadInv, HasData, AllThere, Mine, Waits
  <2>9. ValidHere'
    BY <1>1, <1>2, <2>1 DEF ReadInv, ValidHere
  <2>10. Readers'
    <3>1. \A q \in Pages : busy'[q] => \E e \in Ctxs : Reads(e)' /\ Page(e)' = q
      BY <2>1, <2>2, <2>3 DEF ReadInv, Readers
    <3>2. \A e \in Ctxs : Reads(e)' => busy'[Page(e)']
      BY <1>2, <2>1, <2>2, <2>3, <2>6 DEF ReadInv, Readers
    <3>3. \A e, d \in Ctxs : Reads(d)' /\ Reads(e)' /\ Page(d)' = Page(e)' => d = e
      BY <2>2, <2>3, <2>4 DEF ReadInv, Readers
    <3> QED BY <3>1, <3>2, <3>3 DEF Readers
  <2>11. Sent'
    <3>1. ASSUME NEW e \in Ctxs, pc'[e] = "send" \/ pending'[e] PROVE Mine(e)' /\ offset'[Page(e)'] = slot'[e]
      <4>1. pc[e] = "send" \/ pending[e]
        BY <1>1, <2>1, <3>1
      <4>2. Reads(e) /\ Mine(e) /\ offset[Page(e)] = slot[e]
        BY <4>1 DEF ReadInv, Sent, Reads
      <4> QED BY <1>1, <2>1, <2>2, <2>4, <2>6, <4>2 DEF Mine
    <3>2. c \in Ctxs /\ ~pending[c]
      BY <1>1 DEF ReadInv, Sent, Waits
    <3> QED BY <1>1, <2>1, <3>1, <3>2 DEF ReadInv, Sent
  <2>12. Seen'
    BY <1>1, <2>1, <2>2 DEF ReadInv, Seen
  <2>13. Covered' /\ Earlier'
    BY <1>1, <2>1, <2>2, <2>3, <2>5, <2>6 DEF ReadInv, Covered, Earlier, After, Waits
  <2>14. Pollers'
    BY <1>1, <2>1, <2>2 DEF ReadInv, Pollers
  <2>15. Commands' /\ Entries'
    BY <1>1, <2>1, <2>2 DEF ReadInv, Commands, Entries, Awaits
  <2>16. Lookups'
    BY <1>1 DEF ReadInv, Lookups
  <2> QED BY <2>7, <2>8, <2>9, <2>10, <2>11, <2>12, <2>13, <2>14, <2>15, <2>16 DEF Rest
<1> QED BY <1>4, <1>5

LEMMA NoneApart == None \notin Pages /\ None \notin Slots
BY NoneAssumption, SizesAssumption DEF Pages, Slots

\* find_slot takes no slot from a row that has one.
LEMMA FindSlotRest ==
  ASSUME ReadInv, NEW c \in Ctxs, FindSlot(c)
  PROVE  Rest'
<1>1. PICK s \in Slots :
         /\ Takable(s) /\ valid' = [q \in Pages |-> valid[q] /\ q # trans[s]]
         /\ trans' = [trans EXCEPT ![s] = Page(c)]
         /\ slot' = [slot EXCEPT ![c] = s]
         /\ offset' = [offset EXCEPT ![Page(c)] = s]
  BY DEF FindSlot
<1>2. /\ pc[c] = "slot" /\ pc' = [pc EXCEPT ![c] = "send"]
      /\ UNCHANGED <<busy, data, cidLocked, flying, cq, lookup, hit, cid, pending>>
      /\ UNCHANGED <<asked, queue, ready, kernel>>
  BY DEF FindSlot, Goto, qpVars, hostVars
<1>3. Reads(c) /\ ~pending[c] /\ ~hit[c]
  BY <1>2 DEF ReadInv, Reads, Sent, HasData, Waits
<1>4. Page(c) \in Pages /\ busy[Page(c)] /\ ~valid[Page(c)]
  BY <1>3, ReadsLive DEF ReadInv, Readers, ValidHere
<1>5. /\ trans \in [Slots -> Pages \cup {None}] /\ offset \in [Pages -> Slots \cup {None}]
      /\ slot \in [Ctxs -> Slots \cup {None}] /\ pc \in [Ctxs -> Labels]
  BY DEF ReadInv, Types, PinInv, Placed
<1>6. /\ \A e \in Ctxs : pc'[e] = IF e = c THEN "send" ELSE pc[e]
      /\ \A e \in Ctxs : slot'[e] = IF e = c THEN s ELSE slot[e]
      /\ \A q \in Pages : offset'[q] = IF q = Page(c) THEN s ELSE offset[q]
      /\ \A u \in Slots : trans'[u] = IF u = s THEN Page(c) ELSE trans[u]
      /\ \A q \in Pages : valid'[q] <=> valid[q] /\ q # trans[s]
  BY <1>1, <1>2, <1>4, <1>5
<1>7. \A e : Page(e)' = Page(e)
  BY <1>2 DEF Page
<1>8. ASSUME NEW e \in Ctxs, pc[e] \notin {"idle", "acquire"} PROVE Page(e) \in Pages /\ trans[s] # Page(e)
  <2>1. Page(e) \in Pages
    BY <1>8, LivePage DEF ReadInv, PinInv
  <2>2. cnt[Page(e)] # 0
    BY <1>8, <2>1, Pinned DEF ReadInv
  <2> QED BY <1>1, <2>1, <2>2, NoneApart DEF Takable
<1>9. ASSUME NEW e \in Ctxs, Mine(e), pc[e] \notin {"idle", "acquire"} PROVE slot[e] # s
  BY <1>8, <1>9 DEF Mine
<1>10. \A e \in Ctxs : Reads(e)' <=> Reads(e)
  BY <1>2, <1>6 DEF Reads
<1>11. \A e \in Ctxs : Reads(e) \/ hit[e] \/ pc[e] \in After \cup (Submitting \ {"acquire"}) => pc[e] \notin {"idle", "acquire"}
  BY DEF ReadInv, HasData, Sent, Reads, After, Waits, Submitting
<1>12. Types'
  <2>1. valid' \in [Pages -> BOOLEAN]
    BY <1>1, <1>6 DEF ReadInv, Types
  <2> QED BY <1>1, <1>2, <1>4, <2>1 DEF ReadInv, Types
<1>13. HasData'
  <2>1. ASSUME NEW e \in Ctxs, hit'[e] \/ pc'[e] = "polled"
        PROVE  /\ pc'[e] \in {"done", "polled"} \cup Waits
               /\ Mine(e)' /\ data'[slot'[e]] = Page(e)' /\ ~pending'[e]
    <3>1. e # c /\ (hit[e] \/ pc[e] = "polled")
      BY <1>2, <1>3, <1>6, <2>1
    <3>2. Mine(e) /\ pc[e] \in {"done", "polled"} \cup Waits /\ data[slot[e]] = Page(e) /\ ~pending[e]
      BY <3>1 DEF ReadInv, HasData
    <3>3. slot[e] # s
      BY <1>9, <3>2 DEF Waits
    <3> QED BY <1>2, <1>6, <1>7, <3>1, <3>2, <3>3 DEF Mine
  <2> QED BY <2>1 DEF HasData
<1>14. AllThere'
  BY <1>2, <1>6 DEF ReadInv, AllThere
<1>15. ValidHere'
  <2>1. ASSUME NEW q \in Pages, valid'[q]
        PROVE  ~busy'[q] /\ offset'[q] \in Slots /\ trans'[offset'[q]] = q /\ data'[offset'[q]] = q
    <3>1. valid[q] /\ q # trans[s] /\ q # Page(c)
      BY <1>4, <1>6, <2>1
    <3>2. ~busy[q] /\ offset[q] \in Slots /\ trans[offset[q]] = q /\ data[offset[q]] = q
      BY <3>1 DEF ReadInv, ValidHere
    <3> QED BY <1>2, <1>6, <3>1, <3>2
  <2> QED BY <2>1 DEF ValidHere
<1>16. Readers'
  BY <1>2, <1>7, <1>10 DEF ReadInv, Readers
<1>17. Sent'
  <2>1. ASSUME NEW e \in Ctxs, pc'[e] = "send" \/ pending'[e] PROVE Mine(e)' /\ offset'[Page(e)'] = slot'[e]
    <3>1. CASE e = c
      BY <1>1, <1>4, <1>6, <1>7, <3>1 DEF Mine
    <3>2. CASE e # c
      <4>1. pc[e] = "send" \/ pending[e]
        BY <1>2, <1>6, <2>1, <3>2
      <4>2. Reads(e) /\ Mine(e) /\ offset[Page(e)] = slot[e]
        BY <4>1 DEF ReadInv, Sent, Reads
      <4>3. slot[e] # s /\ Page(e) \in Pages
        BY <1>8, <1>9, <1>11, <4>2
      <4>4. Page(e) # Page(c)
        BY <1>3, <3>2, <4>2 DEF ReadInv, Readers
      <4> QED BY <1>6, <1>7, <3>2, <4>2, <4>3, <4>4 DEF Mine
    <3> QED BY <3>1, <3>2
  <2> QED BY <1>2, <1>3, <1>6, <2>1 DEF ReadInv, Sent
<1>18. Seen' /\ Covered'
  <2>1. \A e \in Ctxs : pc[e] \in After \/ pc[e] = "hit" => Page(e) \in Pages /\ Page(e) # trans[s]
    BY <1>8 DEF After, Waits
  <2>2. \A e \in Ctxs : pc[e] = "claim" => Page(e) \in Pages
    BY <1>8
  <2>3. \A e \in Ctxs : pc'[e] \in After \cup {"hit", "claim"} => e # c /\ pc[e] = pc'[e]
    BY <1>6 DEF After, Waits
  <2>4. Seen'
    BY <1>6, <1>7, <2>1, <2>2, <2>3 DEF ReadInv, Seen
  <2>5. Covered'
    BY <1>2, <1>6, <1>7, <2>1, <2>3 DEF ReadInv, Covered
  <2> QED BY <2>4, <2>5
<1>19. Earlier'
  BY <1>2, <1>6, <1>7, <1>10 DEF ReadInv, Earlier, After, Waits
<1>20. Pollers'
  <2>1. \A e \in Ctxs : pc'[e] \in {"cas", "poll", "dequeue"} => e # c /\ pc[e] = pc'[e]
    BY <1>6
  <2> QED BY <1>2, <1>6, <1>7, <2>1 DEF ReadInv, Pollers
<1>21. Commands'
  BY <1>2, <1>3, <1>6, <1>7 DEF ReadInv, Commands, Awaits
<1>22. Entries'
  BY <1>2, <1>3, <1>6, <1>7 DEF ReadInv, Entries, Awaits
<1>23. Lookups'
  BY <1>2 DEF ReadInv, Lookups
<1> QED BY <1>12, <1>13, <1>14, <1>15, <1>16, <1>17, <1>18, <1>19, <1>20, <1>21, <1>22, <1>23 DEF Rest

LEMMA SubmitReadRest ==
  ASSUME ReadInv, OneSsd, NEW c \in Ctxs, SubmitRead(c)
  PROVE  Rest'
<1>1. pc[c] = "send" /\ Reads(c) /\ ~pending[c] /\ ~hit[c]
  BY DEF SubmitRead, ReadInv, Reads, Sent, HasData, Waits
<1>2. Page(c) \in Pages /\ busy[Page(c)] /\ Dev(Page(c)) = 0 /\ 0 \in Devs
  BY <1>1, ReadsLive, OnlyDev DEF ReadInv, Readers
<1>3. PICK k \in Cids :
         /\ k \notin cidLocked[0]
         /\ cidLocked' = [cidLocked EXCEPT ![0] = @ \cup {k}]
         /\ flying' = flying \cup {[dev |-> 0, cid |-> k, slot |-> slot[c], page |-> Page(c)]}
         /\ cid' = [cid EXCEPT ![c] = k]
  BY <1>2 DEF SubmitRead, FreeCid
<1>4. /\ pending' = [pending EXCEPT ![c] = TRUE] /\ pc' = [pc EXCEPT ![c] = "done"]
      /\ UNCHANGED <<valid, busy, offset, trans, data, cq, lookup, hit, slot>>
      /\ UNCHANGED <<asked, queue, ready, kernel>>
  BY DEF SubmitRead, Goto, pageVars, slotVars, hostVars
<1>5. /\ pc \in [Ctxs -> Labels] /\ cid \in [Ctxs -> Cids] /\ pending \in [Ctxs -> BOOLEAN]
      /\ cidLocked \in [Devs -> SUBSET Cids]
  BY DEF ReadInv, Types, PinInv, Placed
<1>6. /\ \A e \in Ctxs : pc'[e] = IF e = c THEN "done" ELSE pc[e]
      /\ \A e \in Ctxs : cid'[e] = IF e = c THEN k ELSE cid[e]
      /\ \A e \in Ctxs : pending'[e] <=> e = c \/ pending[e]
      /\ cidLocked'[0] = cidLocked[0] \cup {k}
  BY <1>2, <1>3, <1>4, <1>5
<1>7. \A e : Page(e)' = Page(e)
  BY <1>4 DEF Page
<1>8. \A e \in Ctxs : Reads(e)' <=> Reads(e)
  BY <1>1, <1>6 DEF Reads
<1>9. slot[c] \in Slots /\ Mine(c) /\ offset[Page(c)] = slot[c]
  BY <1>1 DEF ReadInv, Sent, Mine
<1>10. \A e \in Ctxs : pending[e] => cid[e] \in cidLocked[0] /\ cid[e] # k /\ e # c
  BY <1>1, <1>3 DEF ReadInv, Sent
<1>11. Types'
  <2>1. [dev |-> 0, cid |-> k, slot |-> slot[c], page |-> Page(c)] \in [dev : Devs, cid : Cids, slot : Slots, page : Pages]
    BY <1>2, <1>9
  <2> QED BY <1>3, <1>4, <2>1 DEF ReadInv, Types
<1>12. HasData' /\ AllThere'
  BY <1>1, <1>4, <1>6, <1>7 DEF ReadInv, HasData, AllThere, Mine
<1>13. ValidHere' /\ Readers'
  BY <1>4, <1>7, <1>8 DEF ReadInv, ValidHere, Readers
<1>14. Sent'
  <2>1. \A e \in Ctxs : pc'[e] = "send" \/ pending'[e] => Mine(e)' /\ offset'[Page(e)'] = slot'[e]
    BY <1>4, <1>6, <1>7, <1>9 DEF ReadInv, Sent, Mine
  <2>2. \A e \in Ctxs : pending'[e] => pc'[e] \in {"done"} \cup Waits /\ cid'[e] \in cidLocked'[0]
    BY <1>6, <1>10 DEF ReadInv, Sent
  <2>3. \A d, e \in Ctxs : pending'[d] /\ pending'[e] /\ cid'[d] = cid'[e] => d = e
    BY <1>6, <1>10 DEF ReadInv, Sent
  <2> QED BY <2>1, <2>2, <2>3 DEF Sent
<1>15. Seen' /\ Covered'
  BY <1>2, <1>4, <1>6, <1>7 DEF ReadInv, Seen, Covered, After
<1>16. Earlier'
  <2>1. \A e \in Ctxs : Reads(e) /\ Page(e) = Page(c) => e[1] <= c[1]
    <3>1. TAKE e \in Ctxs
    <3>2. Reads(e) /\ Page(e) = Page(c) => e = c
      BY <1>1 DEF ReadInv, Readers
    <3>3. c[1] <= c[1]
      BY CtxParts
    <3> QED BY <3>2, <3>3
  <2> QED BY <1>6, <1>7, <1>8, <2>1 DEF ReadInv, Earlier
<1>17. Pollers'
  BY <1>4, <1>6, <1>7 DEF ReadInv, Pollers
<1>18. Commands'
  <2>1. \A i \in 1 .. Len(cq[0]) : cq[0][i].cid # k
    BY <1>10 DEF ReadInv, Entries, Awaits
  <2>2. ASSUME NEW f \in flying
        PROVE  \E e \in Ctxs : Awaits(e, f.cid)' /\ pc'[e] # "dequeue" /\ slot'[e] = f.slot /\ Page(e)' = f.page
    <3>1. PICK e \in Ctxs : Awaits(e, f.cid) /\ pc[e] # "dequeue" /\ slot[e] = f.slot /\ Page(e) = f.page
      BY DEF ReadInv, Commands
    <3>2. e # c
      BY <1>10, <3>1 DEF Awaits
    <3> QED BY <1>4, <1>6, <1>7, <3>1, <3>2 DEF Awaits
  <2>3. Awaits(c, k)' /\ pc'[c] # "dequeue" /\ slot'[c] = slot[c] /\ Page(c)' = Page(c)
    BY <1>4, <1>6, <1>7 DEF Awaits
  <2>4. ASSUME NEW f \in flying' PROVE f \in flying \/ (f.cid = k /\ f.slot = slot[c] /\ f.page = Page(c))
    BY <1>3
  <2> QED BY <1>4, <2>1, <2>2, <2>3, <2>4 DEF ReadInv, Commands
<1>19. Entries'
  BY <1>4, <1>6, <1>7, <1>10 DEF ReadInv, Entries, Awaits
<1>20. Lookups'
  <2>1. kernel = "submit" /\ c[1] = Len(asked)
    BY <1>1 DEF ReadInv, PinInv, Placed, Submitting
  <2> QED BY <1>4, <1>6, <2>1 DEF ReadInv, Lookups
<1> QED BY <1>11, <1>12, <1>13, <1>14, <1>15, <1>16, <1>17, <1>18, <1>19, <1>20 DEF Rest

LEMMA DevCompleteRest ==
  ASSUME ReadInv, OneSsd, NEW d \in Devs, DevComplete(d)
  PROVE  Rest'
<1>1. PICK f \in flying :
         /\ flying' = flying \ {f}
         /\ data' = [data EXCEPT ![f.slot] = f.page]
         /\ cq' = [cq EXCEPT ![d] = Append(@, [cid |-> f.cid, marked |-> FALSE])]
         /\ UNCHANGED <<valid, busy, offset, trans, cidLocked, lookup, pc, hit, slot, cid, pending>>
         /\ UNCHANGED <<asked, queue, ready, kernel>>
  BY DEF DevComplete, pageVars, ctxVars, hostVars
<1>2. d = 0 /\ Devs = {0}
  BY OnlyDev
<1>3. /\ f.dev = 0 /\ f.cid \in Cids /\ f.slot \in Slots /\ f.page \in Pages
      /\ cq[0] \in Seq([cid : Cids, marked : BOOLEAN]) /\ data \in [Slots -> Pages \cup {None}]
      /\ cq \in [Devs -> Seq([cid : Cids, marked : BOOLEAN])]
  BY <1>2 DEF ReadInv, Types
<1>4. [cid |-> f.cid, marked |-> FALSE] \in [cid : Cids, marked : BOOLEAN]
  BY <1>3
<1>5. cq'[0] = Append(cq[0], [cid |-> f.cid, marked |-> FALSE])
  BY <1>1, <1>2, <1>3
<1>6. /\ cq'[0] \in Seq([cid : Cids, marked : BOOLEAN]) /\ Len(cq'[0]) = Len(cq[0]) + 1 /\ Len(cq[0]) \in Nat
      /\ \A i \in 1 .. Len(cq[0]) : cq'[0][i] = cq[0][i]
      /\ cq'[0][Len(cq[0]) + 1].cid = f.cid /\ ~cq'[0][Len(cq[0]) + 1].marked
  BY <1>3, <1>4, <1>5, AppendProperties
<1>7. \A e : Page(e)' = Page(e)
  BY <1>1 DEF Page
<1>8. PICK c \in Ctxs : Awaits(c, f.cid) /\ pc[c] # "dequeue" /\ slot[c] = f.slot /\ Page(c) = f.page
  BY DEF ReadInv, Commands
<1>9. Mine(c) /\ trans[f.slot] = f.page
  BY <1>8 DEF ReadInv, Sent, Awaits, Mine
<1>10. \A u \in Slots : data[u] = trans[u] => data'[u] = trans[u]
  BY <1>1, <1>3, <1>9
<1>11. data'[f.slot] = f.page
  BY <1>1, <1>3
<1>12. \A e \in Ctxs : Reads(e)' <=> Reads(e)
  BY <1>1 DEF Reads
<1>13. Types'
  <2>1. cq' \in [Devs -> Seq([cid : Cids, marked : BOOLEAN])]
    BY <1>1, <1>2, <1>3, <1>5, <1>6
  <2>2. data' \in [Slots -> Pages \cup {None}]
    BY <1>1, <1>3
  <2> QED BY <1>1, <2>1, <2>2 DEF ReadInv, Types
<1>14. HasData'
  BY <1>1, <1>7, <1>10 DEF ReadInv, HasData, Mine
<1>15. AllThere' /\ Seen' /\ Covered' /\ Earlier' /\ Lookups'
  BY <1>1, <1>7, <1>12 DEF ReadInv, AllThere, Seen, Covered, Earlier, Lookups
<1>16. ValidHere'
  BY <1>1, <1>10 DEF ReadInv, ValidHere
<1>17. Readers' /\ Sent'
  BY <1>1, <1>7, <1>12 DEF ReadInv, Readers, Sent, Mine
<1>18. Pollers'
  <2>1. \A e \in Ctxs : pc[e] = "dequeue" => Mine(e)
    BY DEF ReadInv, Pollers, Sent
  <2> QED BY <1>1, <1>7, <1>10, <2>1 DEF ReadInv, Pollers, Mine
<1>19. Commands'
  <2>1. ASSUME NEW g \in flying, g # f PROVE g.cid # f.cid
    <3>1. PICK e \in Ctxs : Awaits(e, g.cid) /\ slot[e] = g.slot /\ Page(e) = g.page
      BY DEF ReadInv, Commands
    <3>2. g.cid = f.cid => e = c
      BY <1>8, <3>1 DEF ReadInv, Sent, Awaits
    <3>3. /\ g = [dev |-> g.dev, cid |-> g.cid, slot |-> g.slot, page |-> g.page] /\ g.dev = 0
          /\ f = [dev |-> f.dev, cid |-> f.cid, slot |-> f.slot, page |-> f.page]
      BY <1>2 DEF ReadInv, Types
    <3> QED BY <1>3, <1>8, <2>1, <3>1, <3>2, <3>3
  <2>2. ASSUME NEW g \in flying', NEW i \in 1 .. Len(cq'[0]) PROVE cq'[0][i].cid # g.cid
    <3>1. g \in flying /\ g # f
      BY <1>1
    <3>2. CASE i = Len(cq[0]) + 1
      BY <1>6, <2>1, <3>1, <3>2
    <3>3. CASE i \in 1 .. Len(cq[0])
      BY <1>6, <3>1, <3>3 DEF ReadInv, Commands
    <3> QED BY <1>6, <3>2, <3>3
  <2>3. ASSUME NEW g \in flying'
        PROVE  \E e \in Ctxs : Awaits(e, g.cid)' /\ pc'[e] # "dequeue" /\ slot'[e] = g.slot /\ Page(e)' = g.page
    BY <1>1, <1>7 DEF ReadInv, Commands, Awaits
  <2> QED BY <2>2, <2>3 DEF Commands
<1>20. Entries'
  <2>1. ASSUME NEW i \in 1 .. Len(cq'[0])
        PROVE  \E e \in Ctxs : /\ pending'[e] /\ cid'[e] = cq'[0][i].cid /\ data'[slot'[e]] = Page(e)'
                               /\ cq'[0][i].marked <=> pc'[e] = "dequeue"
    <3>1. CASE i = Len(cq[0]) + 1
      BY <1>1, <1>6, <1>7, <1>8, <1>11, <3>1 DEF Awaits
    <3>2. CASE i \in 1 .. Len(cq[0])
      <4>1. PICK e \in Ctxs : /\ Awaits(e, cq[0][i].cid) /\ data[slot[e]] = Page(e)
                              /\ cq[0][i].marked <=> pc[e] = "dequeue"
        BY <3>2 DEF ReadInv, Entries
      <4>2. Mine(e)
        BY <4>1 DEF ReadInv, Sent, Awaits
      <4> QED BY <1>1, <1>6, <1>7, <1>10, <3>2, <4>1, <4>2 DEF Awaits, Mine
    <3> QED BY <1>6, <3>1, <3>2
  <2>2. \A i \in 1 .. Len(cq[0]) : cq[0][i].cid # f.cid
    BY DEF ReadInv, Commands
  <2>3. ASSUME NEW i \in 1 .. Len(cq'[0]), NEW j \in 1 .. Len(cq'[0]), cq'[0][i].cid = cq'[0][j].cid PROVE i = j
    <3>1. (i \in 1 .. Len(cq[0]) \/ i = Len(cq[0]) + 1) /\ (j \in 1 .. Len(cq[0]) \/ j = Len(cq[0]) + 1)
      BY <1>6
    <3>2. CASE i \in 1 .. Len(cq[0]) /\ j \in 1 .. Len(cq[0])
      BY <1>6, <2>3, <3>2 DEF ReadInv, Entries
    <3>3. CASE i = Len(cq[0]) + 1 \/ j = Len(cq[0]) + 1
      BY <1>6, <2>2, <2>3, <3>1, <3>3
    <3> QED BY <3>1, <3>2, <3>3
  <2> QED BY <2>1, <2>3 DEF Entries, Awaits
<1> QED BY <1>13, <1>14, <1>15, <1>16, <1>17, <1>18, <1>19, <1>20 DEF Rest

\* A row's command is done: the page becomes valid in the row's slot.
Finishes(c, l, n) ==
  /\ pending[c] /\ data[slot[c]] = Page(c) /\ kernel # "submit"
  /\ \A f \in flying : f.cid # cid[c]
  /\ \A e \in Ctxs : pc'[e] = IF e = c THEN l ELSE pc[e]
  /\ valid' = [valid EXCEPT ![Page(c)] = TRUE] /\ busy' = [busy EXCEPT ![Page(c)] = FALSE]
  /\ hit' = [hit EXCEPT ![c] = TRUE] /\ pending' = [pending EXCEPT ![c] = FALSE]
  /\ cidLocked' = [cidLocked EXCEPT ![0] = @ \ {cid[c]}]
  /\ lookup' \in [Devs -> [Cids -> Ctxs \cup {None}]]
  /\ \A k \in Cids : k # cid[c] => lookup'[0][k] = lookup[0][k]
  /\ cq' \in [Devs -> Seq([cid : Cids, marked : BOOLEAN])]
  /\ \A j \in 1 .. Len(cq'[0]) :
       j + n \in 1 .. Len(cq[0]) /\ cq'[0][j] = cq[0][j + n] /\ cq'[0][j].cid # cid[c]
  /\ UNCHANGED <<offset, trans, data, flying, slot, cid, asked, queue, ready, kernel>>

LEMMA Finished ==
  ASSUME ReadInv, OneSsd, NEW c \in Ctxs, NEW l \in {"done", "polled"}, NEW n \in Nat, Finishes(c, l, n)
  PROVE  Rest'
<1> USE DEF Finishes
<1> DEFINE p == Page(c)
<1>1. Reads(c) /\ Mine(c) /\ offset[p] = slot[c] /\ pc[c] \in {"done"} \cup Waits
  BY DEF ReadInv, Sent, Reads
<1>2. p \in Pages /\ 0 \in Devs
  BY <1>1, ReadsLive, OnlyDev
<1>3. /\ valid \in [Pages -> BOOLEAN] /\ busy \in [Pages -> BOOLEAN] /\ hit \in [Ctxs -> BOOLEAN]
      /\ pending \in [Ctxs -> BOOLEAN] /\ cidLocked \in [Devs -> SUBSET Cids] /\ cid \in [Ctxs -> Cids]
  BY DEF ReadInv, Types
<1>4. /\ \A q \in Pages : valid'[q] <=> q = p \/ valid[q]
      /\ \A q \in Pages : busy'[q] <=> q # p /\ busy[q]
      /\ \A e \in Ctxs : hit'[e] <=> e = c \/ hit[e]
      /\ \A e \in Ctxs : pending'[e] <=> e # c /\ pending[e]
      /\ cidLocked'[0] = cidLocked[0] \ {cid[c]}
  BY <1>2, <1>3
<1>5. (\A e : Page(e)' = Page(e)) /\ p = Page(c)
  BY DEF Page
<1> HIDE DEF p
<1>6. \A e \in Ctxs : Reads(e)' <=> e # c /\ Reads(e)
  BY <1>1, <1>4 DEF Reads, Waits
<1>7. \A e \in Ctxs : Reads(e) /\ e # c => Page(e) # p /\ Page(e) \in Pages
  BY <1>1, <1>5, ReadsLive DEF ReadInv, Readers
<1>8. \A e \in Ctxs : pending[e] /\ e # c => cid[e] # cid[c]
  BY DEF ReadInv, Sent
<1>9. Types'
  BY DEF ReadInv, Types
<1>10. HasData' /\ AllThere'
  <2>1. ASSUME NEW e \in Ctxs, hit'[e] \/ pc'[e] = "polled"
        PROVE  /\ pc'[e] \in {"done", "polled"} \cup Waits
               /\ Mine(e)' /\ data'[slot'[e]] = Page(e)' /\ ~pending'[e]
    <3>1. CASE e = c
      BY <1>1, <1>4, <1>5, <3>1 DEF Mine
    <3>2. CASE e # c
      BY <1>4, <1>5, <2>1, <3>2 DEF ReadInv, HasData, Mine
    <3> QED BY <3>1, <3>2
  <2>2. AllThere'
    BY <1>4 DEF ReadInv, AllThere
  <2> QED BY <2>1, <2>2 DEF HasData
<1>11. ValidHere'
  BY <1>1, <1>4, <1>5 DEF ReadInv, ValidHere, Mine
<1>12. Readers'
  BY <1>4, <1>5, <1>6, <1>7 DEF ReadInv, Readers
<1>13. Sent'
  <2>1. \A e \in Ctxs : pc'[e] = "send" \/ pending'[e] => e # c /\ pc'[e] = pc[e] /\ (pc[e] = "send" \/ pending[e])
    BY <1>4
  <2>2. \A e \in Ctxs : pc'[e] = "send" \/ pending'[e] => Mine(e)' /\ offset'[Page(e)'] = slot'[e]
    BY <1>5, <2>1 DEF ReadInv, Sent, Mine
  <2>3. \A e \in Ctxs : pending'[e] => pc'[e] \in {"done"} \cup Waits /\ cid'[e] \in cidLocked'[0]
    BY <1>4, <1>8, <2>1 DEF ReadInv, Sent
  <2>4. \A d, e \in Ctxs : pending'[d] /\ pending'[e] /\ cid'[d] = cid'[e] => d = e
    BY <1>4 DEF ReadInv, Sent
  <2> QED BY <2>2, <2>3, <2>4 DEF Sent
<1>14. Seen'
  <2>1. \A e \in Ctxs : pc'[e] \notin {"hit", "claim"}
    BY DEF ReadInv, PinInv, Placed, Submitting
  <2> QED BY <2>1 DEF Seen
<1>15. Covered'
  <2>1. \A e \in Ctxs : pc'[e] \in After => pc[e] \in After /\ Page(e) \in Pages
    BY <1>1, ReadsLive DEF After, Waits
  <2> QED BY <1>4, <1>5, <2>1 DEF ReadInv, Covered
<1>16. Earlier'
  <2>1. \A e \in Ctxs : pc'[e] \in After => pc[e] \in After
    BY <1>1 DEF After, Waits
  <2> QED BY <1>5, <1>6, <2>1 DEF ReadInv, Earlier
<1>17. Pollers'
  BY <1>4, <1>5 DEF ReadInv, Pollers
<1>18. Commands'
  <2>1. ASSUME NEW f \in flying'
        PROVE  \E e \in Ctxs : Awaits(e, f.cid)' /\ pc'[e] # "dequeue" /\ slot'[e] = f.slot /\ Page(e)' = f.page
    <3>1. PICK e \in Ctxs : Awaits(e, f.cid) /\ pc[e] # "dequeue" /\ slot[e] = f.slot /\ Page(e) = f.page
      BY DEF ReadInv, Commands
    <3>2. e # c
      BY <3>1 DEF Awaits
    <3> QED BY <1>4, <1>5, <3>1, <3>2 DEF Awaits
  <2>2. ASSUME NEW f \in flying', NEW i \in 1 .. Len(cq'[0]) PROVE cq'[0][i].cid # f.cid
    <3>1. i + n \in 1 .. Len(cq[0]) /\ cq'[0][i] = cq[0][i + n] /\ f \in flying
      OBVIOUS
    <3> QED BY <3>1 DEF ReadInv, Commands
  <2> QED BY <2>1, <2>2 DEF Commands
<1>19. Entries'
  <2>1. ASSUME NEW j \in 1 .. Len(cq'[0])
        PROVE  \E e \in Ctxs : /\ pending'[e] /\ cid'[e] = cq'[0][j].cid /\ data'[slot'[e]] = Page(e)'
                               /\ cq'[0][j].marked <=> pc'[e] = "dequeue"
    <3>1. j + n \in 1 .. Len(cq[0]) /\ cq'[0][j] = cq[0][j + n] /\ cq[0][j + n].cid # cid[c]
      OBVIOUS
    <3>2. PICK e \in Ctxs : /\ Awaits(e, cq[0][j + n].cid) /\ data[slot[e]] = Page(e)
                            /\ cq[0][j + n].marked <=> pc[e] = "dequeue"
      BY <3>1 DEF ReadInv, Entries
    <3>3. e # c
      BY <3>1, <3>2 DEF Awaits
    <3> QED BY <1>4, <1>5, <3>1, <3>2, <3>3 DEF Awaits
  <2>2. ASSUME NEW i \in 1 .. Len(cq'[0]), NEW j \in 1 .. Len(cq'[0]), cq'[0][i].cid = cq'[0][j].cid PROVE i = j
    <3>1. /\ i + n \in 1 .. Len(cq[0]) /\ cq'[0][i] = cq[0][i + n]
          /\ j + n \in 1 .. Len(cq[0]) /\ cq'[0][j] = cq[0][j + n]
      OBVIOUS
    <3>2. i + n = j + n
      BY <2>2, <3>1 DEF ReadInv, Entries
    <3>3. i \in Int /\ j \in Int
      OBVIOUS
    <3> QED BY <3>2, <3>3
  <2> QED BY <2>1, <2>2 DEF Entries, Awaits
<1>20. Lookups'
  <2>1. \A e \in Ctxs : pending'[e] => pending[e] /\ cid[e] # cid[c] /\ cid[e] \in Cids
    BY <1>3, <1>4, <1>8
  <2> QED BY <2>1 DEF ReadInv, Lookups
<1> QED BY <1>9, <1>10, <1>11, <1>12, <1>13, <1>14, <1>15, <1>16, <1>17, <1>18, <1>19, <1>20 DEF Rest

\* The head of a completion queue moves over some of the entries.
LEMMA HeadMoves ==
  ASSUME NEW S, NEW q \in Seq(S)
  PROVE  /\ MovedHead(q) \in Seq(S)
         /\ \E n \in Nat : \A j \in 1 .. Len(MovedHead(q)) :
              j + n \in 1 .. Len(q) /\ MovedHead(q)[j] = q[j + n]
<1>1. CASE Unmarked(q) = {}
  <2>1. MovedHead(q) = <<>>
    BY <1>1 DEF MovedHead
  <2>2. \A j \in 1 .. Len(MovedHead(q)) : j + 0 \in 1 .. Len(q) /\ MovedHead(q)[j] = q[j + 0]
    BY <2>1
  <2> QED BY <2>1, <2>2
<1>2. CASE Unmarked(q) # {}
  <2>1. Unmarked(q) \subseteq 1 .. Len(q) /\ Unmarked(q) \subseteq Nat /\ Len(q) \in Nat
    BY DEF Unmarked
  <2> DEFINE R == {x \in Nat \X Nat : x[1] < x[2]}
  <2>0. IsWellFoundedOn(R, Nat)
    BY NatLessThanWellFounded, Zenon DEF OpToRel
  <2> HIDE DEF R
  <2>2. PICK m \in Unmarked(q) : \A y \in Unmarked(q) : ~(<<y, m>> \in R)
    BY <1>2, <2>1, <2>0, WFMin
  <2>3. ASSUME NEW y \in Unmarked(q) PROVE m <= y
    <3>1. y \in Nat /\ m \in Nat /\ (y < m => <<y, m>> \in R)
      BY <2>1 DEF R
    <3> QED BY <2>2, <3>1
  <2> DEFINE h == CHOOSE i \in Unmarked(q) : \A j \in Unmarked(q) : i <= j
  <2>4. h \in Unmarked(q) /\ MovedHead(q) = SubSeq(q, h, Len(q))
    BY <1>2, <2>3 DEF MovedHead
  <2> HIDE DEF h
  <2>5. h \in 1 .. Len(q) /\ h - 1 \in Nat
    BY <2>1, <2>4
  <2>6. MovedHead(q) \in Seq(S) /\ Len(MovedHead(q)) = Len(q) - h + 1
    BY <2>1, <2>4, <2>5, SubSeqProperties
  <2>7. ASSUME NEW j \in 1 .. Len(MovedHead(q))
        PROVE  j + (h - 1) \in 1 .. Len(q) /\ MovedHead(q)[j] = q[j + (h - 1)]
    <3>1. j \in 1 .. (Len(q) - h + 1) /\ j + (h - 1) = h + j - 1
      BY <2>1, <2>5, <2>6
    <3>2. MovedHead(q)[j] = q[h + j - 1]
      BY <2>1, <2>4, <2>5, <3>1, SubSeqProperties
    <3> QED BY <2>1, <2>5, <3>1, <3>2
  <2> QED BY <2>5, <2>6, <2>7
<1> QED BY <1>1, <1>2

LEMMA PollRest ==
  ASSUME ReadInv, OneSsd, NEW c \in Ctxs, Poll(c)
  PROVE  Rest'
<1> DEFINE E == [cid : Cids, marked : BOOLEAN]
<1>1. /\ pc[c] = "poll" /\ pc' = [pc EXCEPT ![c] = "dequeue"]
      /\ UNCHANGED <<valid, busy, offset, trans, data, cidLocked, flying, lookup, hit, slot, cid, pending>>
      /\ UNCHANGED <<asked, queue, ready, kernel>>
  BY DEF Poll, Goto, pageVars, slotVars, hostVars
<1>2. Page(c) \in Pages /\ Dev(Page(c)) = 0 /\ 0 \in Devs /\ pending[c] /\ ~hit[c]
  BY <1>1, ReadsLive, OnlyDev DEF After, Waits, ReadInv, Pollers, HasData
<1>3. cq \in [Devs -> Seq(E)] /\ cq[0] \in Seq(E) /\ cid[c] \in Cids /\ pc \in [Ctxs -> Labels]
  BY <1>2 DEF ReadInv, Types, PinInv, Placed
<1>4. PICK i \in Unmarked(cq[0]) :
         /\ cq[0][i].cid = cid[c]
         /\ cq' = [cq EXCEPT ![0] = MovedHead([@ EXCEPT ![i] = [cid |-> cid[c], marked |-> TRUE]])]
  BY <1>2 DEF Poll
<1> DEFINE q == [cq[0] EXCEPT ![i] = [cid |-> cid[c], marked |-> TRUE]]
<1>5. i \in 1 .. Len(cq[0]) /\ Len(cq[0]) \in Nat
  BY <1>3 DEF Unmarked
<1>6. [cid |-> cid[c], marked |-> TRUE] \in E
  BY <1>3
<1>7. /\ q \in Seq(E) /\ Len(q) = Len(cq[0])
      /\ \A j \in 1 .. Len(cq[0]) : q[j] = IF j = i THEN [cid |-> cid[c], marked |-> TRUE] ELSE cq[0][j]
  BY <1>3, <1>5, <1>6, ExceptSeq
<1>8. cq'[0] = MovedHead(q)
  BY <1>2, <1>3, <1>4
<1> HIDE DEF q, E
<1>9. /\ MovedHead(q) \in Seq(E)
      /\ \E n \in Nat : \A j \in 1 .. Len(MovedHead(q)) : j + n \in 1 .. Len(q) /\ MovedHead(q)[j] = q[j + n]
  BY <1>7, HeadMoves
<1>10. PICK n \in Nat : \A j \in 1 .. Len(MovedHead(q)) : j + n \in 1 .. Len(q) /\ MovedHead(q)[j] = q[j + n]
  BY <1>9
<1>11. ASSUME NEW j \in 1 .. Len(cq'[0])
       PROVE  /\ j + n \in 1 .. Len(cq[0]) /\ cq'[0][j].cid = cq[0][j + n].cid
              /\ j + n # i => cq'[0][j] = cq[0][j + n]
              /\ j + n = i => cq'[0][j].marked
  <2>1. j + n \in 1 .. Len(cq[0]) /\ cq'[0][j] = q[j + n]
    BY <1>7, <1>8, <1>10
  <2>2. q[j + n] = IF j + n = i THEN [cid |-> cid[c], marked |-> TRUE] ELSE cq[0][j + n]
    BY <1>7, <2>1
  <2> QED BY <1>4, <2>1, <2>2
<1>12. \A e \in Ctxs : pc'[e] = IF e = c THEN "dequeue" ELSE pc[e]
  BY <1>1, <1>3
<1>13. \A e : Page(e)' = Page(e)
  BY <1>1 DEF Page
<1>14. \A e \in Ctxs : Reads(e)' <=> Reads(e)
  BY <1>1, <1>12 DEF Reads
<1>15. data[slot[c]] = Page(c)
  <2>1. PICK e \in Ctxs : Awaits(e, cid[c]) /\ data[slot[e]] = Page(e)
    BY <1>4, <1>5 DEF ReadInv, Entries
  <2>2. e = c
    BY <1>2, <2>1 DEF ReadInv, Sent, Awaits
  <2> QED BY <2>1, <2>2
<1>16. Types'
  <2>1. cq' \in [Devs -> Seq(E)]
    BY <1>2, <1>3, <1>4, <1>8, <1>9
  <2> QED BY <1>1, <2>1 DEF ReadInv, Types, E
<1>17. HasData' /\ AllThere'
  BY <1>1, <1>2, <1>12, <1>13 DEF ReadInv, HasData, AllThere, Mine
<1>18. ValidHere' /\ Readers'
  BY <1>1, <1>13, <1>14 DEF ReadInv, ValidHere, Readers
<1>19. Sent'
  BY <1>1, <1>12, <1>13 DEF ReadInv, Sent, Mine, Waits
<1>20. Seen' /\ Covered'
  BY <1>1, <1>12, <1>13 DEF ReadInv, Seen, Covered, After, Waits
<1>21. Earlier'
  BY <1>1, <1>12, <1>13, <1>14 DEF ReadInv, Earlier, After, Waits
<1>22. Pollers'
  BY <1>1, <1>2, <1>12, <1>13, <1>15 DEF ReadInv, Pollers
<1>23. Commands'
  <2>1. ASSUME NEW f \in flying
        PROVE  \E e \in Ctxs : Awaits(e, f.cid)' /\ pc'[e] # "dequeue" /\ slot'[e] = f.slot /\ Page(e)' = f.page
    <3>1. PICK e \in Ctxs : Awaits(e, f.cid) /\ pc[e] # "dequeue" /\ slot[e] = f.slot /\ Page(e) = f.page
      BY DEF ReadInv, Commands
    <3>2. f.cid # cid[c]
      BY <1>4, <1>5 DEF ReadInv, Commands
    <3>3. e # c
      BY <3>1, <3>2 DEF Awaits
    <3> QED BY <1>1, <1>12, <1>13, <3>1, <3>3 DEF Awaits
  <2>2. ASSUME NEW f \in flying, NEW j \in 1 .. Len(cq'[0]) PROVE cq'[0][j].cid # f.cid
    <3>1. j + n \in 1 .. Len(cq[0]) /\ cq'[0][j].cid = cq[0][j + n].cid
      BY <1>11
    <3> QED BY <3>1 DEF ReadInv, Commands
  <2> QED BY <1>1, <2>1, <2>2 DEF Commands
<1>24. Entries'
  <2>1. ASSUME NEW j \in 1 .. Len(cq'[0])
        PROVE  \E e \in Ctxs : /\ pending'[e] /\ cid'[e] = cq'[0][j].cid /\ data'[slot'[e]] = Page(e)'
                               /\ cq'[0][j].marked <=> pc'[e] = "dequeue"
    <3>1. j + n \in 1 .. Len(cq[0]) /\ cq'[0][j].cid = cq[0][j + n].cid
      BY <1>11
    <3>2. CASE j + n = i
      <4>1. pending'[c] /\ cid'[c] = cq'[0][j].cid /\ data'[slot'[c]] = Page(c)'
        BY <1>1, <1>2, <1>4, <1>13, <1>15, <3>1, <3>2
      <4>2. cq'[0][j].marked /\ pc'[c] = "dequeue"
        BY <1>11, <1>12, <3>2
      <4> QED BY <4>1, <4>2
    <3>3. CASE j + n # i
      <4>1. PICK e \in Ctxs : /\ Awaits(e, cq[0][j + n].cid) /\ data[slot[e]] = Page(e)
                              /\ cq[0][j + n].marked <=> pc[e] = "dequeue"
        BY <3>1 DEF ReadInv, Entries
      <4>2. cq[0][j + n].cid # cid[c]
        BY <1>4, <1>5, <3>1, <3>3 DEF ReadInv, Entries
      <4>3. e # c
        BY <4>1, <4>2 DEF Awaits
      <4>4. cq'[0][j] = cq[0][j + n]
        BY <1>11, <3>3
      <4> QED BY <1>1, <1>12, <1>13, <4>1, <4>3, <4>4 DEF Awaits
    <3> QED BY <3>2, <3>3
  <2>2. ASSUME NEW k \in 1 .. Len(cq'[0]), NEW j \in 1 .. Len(cq'[0]), cq'[0][k].cid = cq'[0][j].cid PROVE k = j
    <3>1. /\ k + n \in 1 .. Len(cq[0]) /\ cq'[0][k].cid = cq[0][k + n].cid
          /\ j + n \in 1 .. Len(cq[0]) /\ cq'[0][j].cid = cq[0][j + n].cid
      BY <1>11
    <3>2. k + n = j + n
      BY <2>2, <3>1 DEF ReadInv, Entries
    <3>3. k \in Int /\ j \in Int
      OBVIOUS
    <3> QED BY <3>2, <3>3
  <2> QED BY <2>1, <2>2 DEF Entries, Awaits
<1>25. Lookups'
  BY <1>1 DEF ReadInv, Lookups
<1> QED BY <1>16, <1>17, <1>18, <1>19, <1>20, <1>21, <1>22, <1>23, <1>24, <1>25 DEF Rest

LEMMA PublishRest ==
  ASSUME ReadInv, OneSsd, NEW c \in Ctxs, Publish(c)
  PROVE  Rest'
<1>1. pc[c] = "dequeue" /\ pending[c] /\ data[slot[c]] = Page(c)
  BY DEF Publish, ReadInv, Pollers
<1>2. /\ Page(c) \in Pages /\ Dev(Page(c)) = 0 /\ 0 \in Devs /\ busy[Page(c)] /\ ~valid[Page(c)]
      /\ offset[Page(c)] = slot[c] /\ kernel = "poll"
  BY <1>1, ReadsLive, OnlyDev DEF After, Waits, ReadInv, Readers, Reads, ValidHere, Sent, PinInv, Placed
<1>3. /\ cq[0] \in Seq([cid : Cids, marked : BOOLEAN]) /\ offset \in [Pages -> Slots \cup {None}]
      /\ pc \in [Ctxs -> Labels] /\ valid \in [Pages -> BOOLEAN] /\ busy \in [Pages -> BOOLEAN]
      /\ cq \in [Devs -> Seq([cid : Cids, marked : BOOLEAN])] /\ lookup \in [Devs -> [Cids -> Ctxs \cup {None}]]
  BY <1>2 DEF ReadInv, Types, PinInv, Placed
<1>4. /\ cidLocked' = [cidLocked EXCEPT ![0] = @ \ {cid[c]}]
      /\ pending' = [pending EXCEPT ![c] = FALSE]
      /\ offset' = [offset EXCEPT ![Page(c)] = slot[c]]
      /\ valid' = [valid EXCEPT ![Page(c)] = ~@]
      /\ busy' = [busy EXCEPT ![Page(c)] = ~@]
      /\ hit' = [hit EXCEPT ![c] = TRUE]
      /\ pc' = [pc EXCEPT ![c] = "polled"]
      /\ UNCHANGED <<trans, data, flying, cq, lookup, slot, cid, asked, queue, ready, kernel>>
  BY <1>2 DEF Publish, Goto, slotVars, hostVars
<1>5. valid' = [valid EXCEPT ![Page(c)] = TRUE] /\ busy' = [busy EXCEPT ![Page(c)] = FALSE] /\ offset' = offset
  BY <1>2, <1>3, <1>4
<1>6. \A e \in Ctxs : pc'[e] = IF e = c THEN "polled" ELSE pc[e]
  BY <1>3, <1>4
<1>7. \A j \in 1 .. Len(cq'[0]) : cq'[0][j].cid # cid[c]
  BY <1>2, <1>3, <1>4 DEF Publish
<1>8. \A j \in 1 .. Len(cq'[0]) : j + 0 \in 1 .. Len(cq[0]) /\ cq'[0][j] = cq[0][j + 0]
  BY <1>3, <1>4
<1>9. ASSUME NEW f \in flying PROVE f.cid # cid[c]
  <2>1. PICK e \in Ctxs : Awaits(e, f.cid) /\ pc[e] # "dequeue"
    BY DEF ReadInv, Commands
  <2> QED BY <1>1, <2>1 DEF ReadInv, Sent, Awaits
<1>10. Finishes(c, "polled", 0)
  BY <1>1, <1>2, <1>3, <1>4, <1>5, <1>6, <1>7, <1>8, <1>9 DEF Finishes
<1> QED BY <1>10, Finished

\* The table gives the row that waits for the entry, and its page is still being read.
LEMMA ServiceEventRest ==
  ASSUME ReadInv, OneSsd, NEW d \in Devs, ServiceEvent(d)
  PROVE  Rest'
<1> DEFINE k == Head(cq[0]).cid
           c == lookup[0][k]
           p == Page(c)
           E == [cid : Cids, marked : BOOLEAN]
<1>1. d = 0 /\ 0 \in Devs /\ kernel \in {"try", "window"} /\ cq[0] # <<>>
  BY OnlyDev DEF ServiceEvent
<1>2. /\ cq[0] \in Seq(E) /\ offset \in [Pages -> Slots \cup {None}] /\ slot \in [Ctxs -> Slots \cup {None}]
      /\ cq \in [Devs -> Seq(E)] /\ lookup \in [Devs -> [Cids -> Ctxs \cup {None}]]
  BY <1>1 DEF ReadInv, Types
<1>3. /\ Len(cq[0]) \in Nat /\ 1 \in 1 .. Len(cq[0]) /\ cq[0][1] = Head(cq[0]) /\ k \in Cids
      /\ Tail(cq[0]) \in Seq(E) /\ Len(Tail(cq[0])) = Len(cq[0]) - 1
      /\ \A j \in 1 .. Len(Tail(cq[0])) : Tail(cq[0])[j] = cq[0][j + 1]
  <2>1. Len(cq[0]) \in Nat /\ 1 \in 1 .. Len(cq[0]) /\ cq[0][1] = Head(cq[0])
    BY <1>1, <1>2
  <2>2. cq[0][1] \in E
    BY <1>2, <2>1, ElementOfSeq
  <2> HIDE DEF E
  <2>3. /\ Tail(cq[0]) \in Seq(E) /\ Len(Tail(cq[0])) = Len(cq[0]) - 1
        /\ \A j \in 1 .. Len(Tail(cq[0])) : Tail(cq[0])[j] = cq[0][j + 1]
    BY <1>1, <1>2, HeadTailProperties
  <2> QED BY <2>1, <2>2, <2>3 DEF E
<1>4. c \in Ctxs /\ pending[c] /\ cid[c] = k /\ data[slot[c]] = Page(c)
  <2>1. PICK e \in Ctxs : Awaits(e, k) /\ data[slot[e]] = Page(e)
    BY <1>3 DEF ReadInv, Entries
  <2>2. lookup[0][cid[e]] = e
    BY <1>1, <2>1 DEF ReadInv, Lookups, Awaits
  <2> QED BY <2>1, <2>2 DEF Awaits
<1>5. p \in Pages /\ busy[p] /\ ~valid[p] /\ offset[p] = slot[c] /\ pc[c] = "done" /\ ~hit[c]
  <2> HIDE DEF c
  <2>1. Page(c) \in Pages /\ busy[Page(c)]
    BY <1>4, ReadsLive DEF ReadInv, Readers, Reads
  <2>2. ~valid[Page(c)] /\ offset[Page(c)] = slot[c] /\ ~hit[c] /\ pc[c] \in {"done"} \cup Waits
    BY <1>4, <2>1 DEF ReadInv, ValidHere, Sent, HasData
  <2>3. pc[c] \notin Waits
    BY <1>1, <1>4 DEF ReadInv, PinInv, Placed
  <2> QED BY <2>1, <2>2, <2>3
<1>6. Finalizes(c)
  BY <1>4, <1>5, NoneAssumption DEF Finalizes, NV_B
<1>7. /\ cq' = [cq EXCEPT ![0] = Tail(@)]
      /\ cidLocked' = [cidLocked EXCEPT ![0] = @ \ {k}]
      /\ lookup' = [lookup EXCEPT ![0] = [@ EXCEPT ![k] = None]]
      /\ slot' = [slot EXCEPT ![c] = IF valid[p] THEN offset[p] ELSE @]
      /\ offset' = [offset EXCEPT ![p] = IF valid[p] THEN @ ELSE slot[c]]
      /\ valid' = [valid EXCEPT ![p] = TRUE]
      /\ busy' = [busy EXCEPT ![p] = FALSE]
      /\ hit' = [hit EXCEPT ![c] = TRUE]
      /\ pending' = [pending EXCEPT ![c] = FALSE]
      /\ UNCHANGED <<trans, data, flying, pc, cid, asked, queue, ready, kernel>>
  BY <1>1, <1>6 DEF ServiceEvent, slotVars
<1> HIDE DEF k, c, p, E
<1>8. p = Page(c)
  BY DEF p
<1>9. slot' = slot /\ offset' = offset
  BY <1>2, <1>4, <1>5, <1>7
<1>10. cq'[0] = Tail(cq[0]) /\ cq' \in [Devs -> Seq(E)]
  BY <1>1, <1>2, <1>3, <1>7
<1>11. lookup' \in [Devs -> [Cids -> Ctxs \cup {None}]] /\ \A j \in Cids : j # k => lookup'[0][j] = lookup[0][j]
  BY <1>1, <1>2, <1>3, <1>7
<1>12. ASSUME NEW j \in 1 .. Len(cq'[0]) PROVE j + 1 \in 1 .. Len(cq[0]) /\ cq'[0][j] = cq[0][j + 1] /\ cq'[0][j].cid # k
  <2>1. j + 1 \in 1 .. Len(cq[0]) /\ cq'[0][j] = cq[0][j + 1] /\ j + 1 # 1
    BY <1>3, <1>10
  <2>2. cq[0][1].cid = k
    BY <1>3 DEF k
  <2> QED BY <1>3, <2>1, <2>2 DEF ReadInv, Entries
<1>13. ASSUME NEW f \in flying PROVE f.cid # k
  BY <1>3 DEF ReadInv, Commands, k
<1>14. \A e \in Ctxs : pc'[e] = IF e = c THEN "done" ELSE pc[e]
  BY <1>5, <1>7
<1>15. Finishes(c, "done", 1)
  BY <1>1, <1>4, <1>7, <1>8, <1>9, <1>10, <1>11, <1>12, <1>13, <1>14 DEF Finishes, E
<1> QED BY <1>4, <1>15, Finished

\* The requests that ServiceEnd looks at are outstanding.
LEMMA CheckedLive ==
  ASSUME ReadInv, kernel \in {"try", "window"}, NEW c \in Ctxs, c[1] \in Checked
  PROVE  pc[c] \in {"done", "polled"} /\ Page(c) \in Pages
<1>1. queue # <<>> /\ queue \in Seq(Nat) /\ Len(queue) \in Nat /\ Len(asked) \in Nat
  BY DEF ReadInv, PinInv, Queued
<1>2. c[1] \in Front .. Len(asked)
  <2>1. CASE kernel = "try"
    BY <1>1, <2>1, FrontIsHead DEF Checked, ReadInv, PinInv
  <2>2. CASE kernel # "try"
    <3>1. PICK i \in 1 .. Len(queue) : c[1] = queue[i]
      BY <1>1, <2>2 DEF Checked
    <3>2. queue[i] = Len(asked) - Len(queue) + i
      BY DEF ReadInv, PinInv, Queued
    <3> QED BY <1>1, <3>1, <3>2 DEF Front
  <2> QED BY <2>1, <2>2
<1>3. pc[c] \in Labels \ {"idle"} /\ pc[c] \notin Submitting /\ pc[c] \notin Waits
  BY <1>2 DEF ReadInv, PinInv, Placed
<1> QED BY <1>3, LivePage DEF Labels, ReadInv, PinInv

LEMMA ServiceEndRest ==
  ASSUME ReadInv, ServiceEnd
  PROVE  Rest'
<1>1. /\ kernel \in {"try", "window"} /\ kernel' = "none"
      /\ slot' = [c \in Ctxs |-> IF c \in Refreshed THEN offset[Page(c)] ELSE slot[c]]
      /\ hit' = [c \in Ctxs |-> hit[c] \/ c \in Refreshed]
      /\ ready' = ready \cup {r \in Checked : ReadyAt(r)}
      /\ UNCHANGED <<valid, busy, offset, trans, data, cidLocked, flying, cq, lookup, pc, cid, pending, asked, queue>>
  BY DEF ServiceEnd, slotVars, qpVars
<1>2. \A e : Page(e)' = Page(e)
  BY <1>1 DEF Page
<1>3. ASSUME NEW c \in Ctxs, c \in Refreshed
      PROVE  /\ pc[c] \in {"done", "polled"} /\ offset[Page(c)] \in Slots /\ ~pending[c]
             /\ trans[offset[Page(c)]] = Page(c) /\ data[offset[Page(c)]] = Page(c)
  <2>1. c[1] \in Checked /\ valid[Page(c)] /\ ~busy[Page(c)]
    BY <1>3 DEF Refreshed, V_NB
  <2>2. pc[c] \in {"done", "polled"} /\ Page(c) \in Pages
    BY <1>1, <2>1, CheckedLive
  <2> QED BY <2>1, <2>2 DEF ReadInv, ValidHere, Readers, Reads
<1>4. \A e \in Ctxs : Reads(e)' <=> Reads(e)
  BY <1>1 DEF Reads
<1>5. \A e \in Ctxs : pending[e] => slot'[e] = slot[e]
  BY <1>1, <1>3
<1>6. Types'
  <2>1. slot' \in [Ctxs -> Slots \cup {None}]
    BY <1>1, <1>3 DEF ReadInv, Types
  <2>2. hit' \in [Ctxs -> BOOLEAN]
    BY <1>1 DEF ReadInv, Types
  <2> QED BY <1>1, <2>1, <2>2 DEF ReadInv, Types
<1>7. HasData'
  <2>1. ASSUME NEW c \in Ctxs, hit'[c] \/ pc'[c] = "polled"
        PROVE  /\ pc'[c] \in {"done", "polled"} \cup Waits
               /\ Mine(c)' /\ data'[slot'[c]] = Page(c)' /\ ~pending'[c]
    <3>1. CASE c \in Refreshed
      BY <1>1, <1>2, <1>3, <3>1 DEF Mine
    <3>2. CASE c \notin Refreshed
      BY <1>1, <1>2, <2>1, <3>2 DEF ReadInv, HasData, Mine
    <3> QED BY <3>1, <3>2
  <2> QED BY <2>1 DEF HasData
<1>8. AllThere'
  <2>1. ASSUME NEW c \in Ctxs, c[1] \in ready' PROVE hit'[c] \/ pc'[c] = "polled"
    <3>1. c[1] \in ready \/ ReadyAt(c[1])
      BY <1>1, <2>1
    <3>2. c \in RowsOf(c[1])
      BY CtxParts DEF RowsOf
    <3> QED BY <1>1, <3>1, <3>2 DEF ReadInv, AllThere, ReadyAt
  <2> QED BY <2>1 DEF AllThere
<1>9. ValidHere' /\ Readers' /\ Seen' /\ Covered' /\ Earlier'
  BY <1>1, <1>2, <1>4 DEF ReadInv, ValidHere, Readers, Seen, Covered, Earlier
<1>10. Sent'
  <2>1. \A e \in Ctxs : pc[e] # "send"
    BY <1>1 DEF ReadInv, PinInv, Placed, Submitting
  <2> QED BY <1>1, <1>2, <1>5, <2>1 DEF ReadInv, Sent, Mine
<1>11. Pollers'
  BY <1>1, <1>2, <1>5 DEF ReadInv, Pollers
<1>12. Commands'
  BY <1>1, <1>2, <1>5 DEF ReadInv, Commands, Awaits
<1>13. Entries'
  BY <1>1, <1>2, <1>5 DEF ReadInv, Entries, Awaits
<1>14. Lookups'
  BY <1>1 DEF ReadInv, Lookups
<1> QED BY <1>6, <1>7, <1>8, <1>9, <1>10, <1>11, <1>12, <1>13, <1>14 DEF Rest

LEMMA RowsOfIn == ASSUME NEW r \in Reqs PROVE RowsOf(r) = {c \in Ctxs : c[1] = r}
BY DEF RowsOf, Ctxs

LEMMA SubmitEndRest ==
  ASSUME ReadInv, OneSsd, SubmitEnd
  PROVE  Rest'
<1> DEFINE r == Len(asked)
<1>1. /\ kernel = "submit" /\ kernel' = "none"
      /\ UNCHANGED <<valid, busy, offset, trans, data, cidLocked, flying, cq, pc, hit, slot, cid, pending>>
      /\ UNCHANGED <<asked, queue, ready>>
  BY DEF SubmitEnd, pageVars, slotVars, ctxVars
<1>2. PICK last \in [Cids -> RowsOf(r)] :
         /\ \A k \in Cids : Registrants(r, k) # {} => last[k] \in Registrants(r, k)
         /\ lookup' = [lookup EXCEPT ![0] = [k \in Cids |-> Registered(r, k, last)]]
  BY DEF SubmitEnd
<1>3. r \in Reqs
  BY <1>1, SizesAssumption DEF ReadInv, PinInv, Queued, Reqs
<1> HIDE DEF r
<1>4. 0 \in Devs /\ lookup \in [Devs -> [Cids -> Ctxs \cup {None}]] /\ cid \in [Ctxs -> Cids]
  BY OnlyDev DEF ReadInv, Types
<1>5. RowsOf(r) = {c \in Ctxs : c[1] = r}
  BY <1>3, RowsOfIn
<1>6. \A k \in Cids : lookup'[0][k] = IF Registrants(r, k) = {} THEN lookup[0][k] ELSE last[k]
  BY <1>2, <1>4 DEF Registered
<1>7. lookup' \in [Devs -> [Cids -> Ctxs \cup {None}]]
  <2>1. \A k \in Cids : Registered(r, k, last) \in Ctxs \cup {None}
    BY <1>2, <1>4, <1>5 DEF Registered
  <2> QED BY <1>2, <1>4, <2>1
<1>8. ASSUME NEW c \in Ctxs, pending[c] PROVE lookup'[0][cid[c]] = c
  <2>1. cid[c] \in Cids /\ ~hit[c]
    BY <1>4, <1>8 DEF ReadInv, HasData
  <2>2. \A e \in Registrants(r, cid[c]) : e = c
    BY <1>5, <1>8 DEF Registrants, ReadInv, Sent
  <2>3. CASE c[1] = r
    <3>1. c \in Registrants(r, cid[c])
      BY <1>5, <1>8, <2>1, <2>3 DEF Registrants
    <3> QED BY <1>2, <1>6, <2>1, <2>2, <3>1
  <2>4. CASE c[1] # r
    <3>1. Registrants(r, cid[c]) = {}
      BY <1>5, <2>2, <2>4 DEF Registrants
    <3>2. lookup[0][cid[c]] = c
      BY <1>8, <2>4 DEF ReadInv, Lookups, r
    <3> QED BY <1>6, <2>1, <3>1, <3>2
  <2> QED BY <2>3, <2>4
<1>9. \A e : Page(e)' = Page(e)
  BY <1>1 DEF Page
<1>10. \A e \in Ctxs : Reads(e)' <=> Reads(e)
  BY <1>1 DEF Reads
<1>11. Types'
  BY <1>1, <1>7 DEF ReadInv, Types
<1>12. HasData' /\ AllThere' /\ ValidHere' /\ Readers'
  BY <1>1, <1>9, <1>10 DEF ReadInv, HasData, AllThere, ValidHere, Readers, Mine
<1>13. Sent' /\ Seen' /\ Covered'
  BY <1>1, <1>9 DEF ReadInv, Sent, Seen, Covered, Mine
<1>14. Earlier' /\ Pollers'
  BY <1>1, <1>9, <1>10 DEF ReadInv, Earlier, Pollers
<1>15. Commands' /\ Entries'
  BY <1>1, <1>9 DEF ReadInv, Commands, Entries, Awaits
<1>16. Lookups'
  BY <1>1, <1>8 DEF Lookups
<1> QED BY <1>11, <1>12, <1>13, <1>14, <1>15, <1>16 DEF Rest

\* A poll kernel or a service kernel starts; a poll kernel ends.
LEMMA KernelRest ==
  ASSUME ReadInv, TryLaunch \/ WindowLaunch \/ PollEnd
  PROVE  Rest'
<1>1. /\ kernel # "submit"
      /\ UNCHANGED <<valid, busy, offset, trans, data, cidLocked, flying, cq, lookup, pc, hit, slot, cid, pending>>
      /\ UNCHANGED <<asked, queue>>
  BY DEF TryLaunch, WindowLaunch, PollEnd, Waiting, pageVars, slotVars, qpVars, ctxVars
<1>2. \A e : Page(e)' = Page(e)
  BY <1>1 DEF Page
<1>3. \A e \in Ctxs : Reads(e)' <=> Reads(e)
  BY <1>1 DEF Reads
<1>4. Types'
  BY <1>1 DEF ReadInv, Types
<1>5. HasData' /\ ValidHere' /\ Readers'
  BY <1>1, <1>2, <1>3 DEF ReadInv, HasData, ValidHere, Readers, Mine
<1>6. AllThere'
  <2>1. CASE ready' = ready
    BY <1>1, <2>1 DEF ReadInv, AllThere
  <2>2. CASE PollEnd
    <3>1. ready' = ready \cup {Head(queue)} /\ \A c \in RowsOf(Head(queue)) : pc[c] = "polled"
      BY <2>2 DEF PollEnd
    <3>2. \A c \in Ctxs : c \in RowsOf(c[1])
      BY CtxParts DEF RowsOf
    <3> QED BY <1>1, <3>1, <3>2 DEF ReadInv, AllThere
  <2> QED BY <2>1, <2>2 DEF TryLaunch, WindowLaunch
<1>7. Sent' /\ Seen' /\ Covered'
  BY <1>1, <1>2 DEF ReadInv, Sent, Seen, Covered, Mine
<1>8. Earlier' /\ Pollers'
  BY <1>1, <1>2, <1>3 DEF ReadInv, Earlier, Pollers
<1>9. Commands' /\ Entries'
  BY <1>1, <1>2 DEF ReadInv, Commands, Entries, Awaits
<1>10. Lookups'
  BY <1>1 DEF ReadInv, Lookups
<1> QED BY <1>4, <1>5, <1>6, <1>7, <1>8, <1>9, <1>10 DEF Rest

LEMMA PollLaunchRest ==
  ASSUME ReadInv, PollLaunch
  PROVE  Rest'
<1> DEFINE r == Head(queue)
<1>1. /\ kernel = "none" /\ r \notin ready /\ queue # <<>> /\ kernel' = "poll"
      /\ \A c \in Ctxs : pc'[c] = IF c[1] = r THEN "wait" ELSE pc[c]
      /\ UNCHANGED <<valid, busy, offset, trans, data, cidLocked, flying, cq, lookup, hit, slot, cid, pending>>
      /\ UNCHANGED <<asked, queue, ready>>
  BY DEF PollLaunch, Waiting, pageVars, slotVars, qpVars
<1>2. r \in Front .. Len(asked)
  BY <1>1, FrontIsHead DEF ReadInv, PinInv
<1>3. ASSUME NEW c \in Ctxs, c[1] = r PROVE pc[c] \in {"done", "polled"}
  <2>1. pc[c] \in Labels \ {"idle"} /\ pc[c] \notin Submitting /\ pc[c] \notin Waits
    BY <1>1, <1>2, <1>3 DEF ReadInv, PinInv, Placed
  <2> QED BY <2>1 DEF Labels
<1> HIDE DEF r
<1>4. \A e : Page(e)' = Page(e)
  BY <1>1 DEF Page
<1>5. \A e \in Ctxs : Reads(e)' <=> Reads(e)
  BY <1>1, <1>3 DEF Reads
<1>6. \A e \in Ctxs : (pc'[e] \in After <=> pc[e] \in After) /\ (pc'[e] = "dequeue" <=> pc[e] = "dequeue")
  BY <1>1, <1>3 DEF After, Waits
<1>7. Types'
  BY <1>1 DEF ReadInv, Types
<1>8. HasData'
  BY <1>1, <1>4 DEF ReadInv, HasData, Mine, Waits
<1>9. AllThere'
  BY <1>1 DEF ReadInv, AllThere
<1>10. ValidHere' /\ Readers'
  BY <1>1, <1>4, <1>5 DEF ReadInv, ValidHere, Readers
<1>11. Sent'
  BY <1>1, <1>4 DEF ReadInv, Sent, Mine, Waits
<1>12. Seen'
  BY <1>1, <1>4 DEF ReadInv, Seen
<1>13. Covered' /\ Earlier'
  BY <1>1, <1>4, <1>5, <1>6 DEF ReadInv, Covered, Earlier
<1>14. Pollers'
  BY <1>1, <1>4 DEF ReadInv, Pollers
<1>15. Commands'
  BY <1>1, <1>4, <1>6 DEF ReadInv, Commands, Awaits
<1>16. Entries'
  BY <1>1, <1>4, <1>6 DEF ReadInv, Entries, Awaits
<1>17. Lookups'
  BY <1>1 DEF ReadInv, Lookups
<1> QED BY <1>7, <1>8, <1>9, <1>10, <1>11, <1>12, <1>13, <1>14, <1>15, <1>16, <1>17 DEF Rest

\* The rows of a request that is fetched have stopped reading.
LEMMA GetRest ==
  ASSUME ReadInv, Get
  PROVE  Rest'
<1> DEFINE r == Head(queue)
<1>1. /\ kernel = "none" /\ r \in ready /\ ready' = ready \ {r}
      /\ pc' = [c \in Ctxs |-> IF c[1] = r THEN "idle" ELSE pc[c]]
      /\ hit' = [c \in Ctxs |-> c[1] # r /\ hit[c]]
      /\ slot' = [c \in Ctxs |-> IF c[1] = r THEN None ELSE slot[c]]
      /\ cid' = [c \in Ctxs |-> IF c[1] = r THEN 0 ELSE cid[c]]
      /\ UNCHANGED <<valid, busy, offset, trans, data, cidLocked, flying, cq, lookup, pending, asked, kernel>>
  BY DEF Get, slotVars, qpVars
<1> HIDE DEF r
<1>2. \A c \in Ctxs : /\ pc'[c] = IF c[1] = r THEN "idle" ELSE pc[c]
                      /\ hit'[c] <=> c[1] # r /\ hit[c]
                      /\ c[1] # r => slot'[c] = slot[c] /\ cid'[c] = cid[c]
  BY <1>1
<1>3. \A c \in Ctxs : c[1] = r => ~pending[c] /\ pc[c] \in {"done", "polled"} \cup Waits
  BY <1>1 DEF ReadInv, AllThere, HasData
<1>4. \A e : Page(e)' = Page(e)
  BY <1>1 DEF Page
<1>5. \A e \in Ctxs : Reads(e)' <=> Reads(e)
  BY <1>1, <1>2, <1>3 DEF Reads, Waits
<1>6. \A e \in Ctxs : pending[e] => pc'[e] = pc[e] /\ slot'[e] = slot[e] /\ cid'[e] = cid[e]
  BY <1>2, <1>3
<1>7. Types'
  <2>1. 0 \in Cids
    BY SizesAssumption DEF Cids
  <2>2. cid' \in [Ctxs -> Cids] /\ slot' \in [Ctxs -> Slots \cup {None}]
    BY <1>1, <2>1 DEF ReadInv, Types
  <2>3. hit' \in [Ctxs -> BOOLEAN]
    BY <1>1
  <2> QED BY <1>1, <2>2, <2>3 DEF ReadInv, Types
<1>8. HasData'
  BY <1>1, <1>2, <1>4 DEF ReadInv, HasData, Mine
<1>9. AllThere'
  BY <1>1, <1>2 DEF ReadInv, AllThere
<1>10. ValidHere' /\ Readers'
  BY <1>1, <1>4, <1>5 DEF ReadInv, ValidHere, Readers
<1>11. Sent'
  <2>1. \A e \in Ctxs : pc[e] # "send"
    BY <1>1 DEF ReadInv, PinInv, Placed, Submitting
  <2> QED BY <1>1, <1>2, <1>4, <1>6, <2>1 DEF ReadInv, Sent, Mine
<1>12. Seen' /\ Covered'
  BY <1>1, <1>2, <1>4 DEF ReadInv, Seen, Covered, After, Waits
<1>13. Earlier'
  BY <1>1, <1>2, <1>4, <1>5 DEF ReadInv, Earlier, After, Waits
<1>14. Pollers'
  BY <1>1, <1>2, <1>4 DEF ReadInv, Pollers
<1>15. Commands'
  BY <1>1, <1>4, <1>6 DEF ReadInv, Commands, Awaits
<1>16. Entries'
  BY <1>1, <1>4, <1>6 DEF ReadInv, Entries, Awaits
<1>17. Lookups'
  BY <1>1, <1>6 DEF ReadInv, Lookups
<1> QED BY <1>7, <1>8, <1>9, <1>10, <1>11, <1>12, <1>13, <1>14, <1>15, <1>16, <1>17 DEF Rest

LEMMA SubmitLaunchRest ==
  ASSUME ReadInv, SubmitLaunch
  PROVE  Rest'
<1> DEFINE r == Len(asked) + 1
<1>1. PICK b \in Batches : asked' = Append(asked, b)
  BY DEF SubmitLaunch
<1>2. /\ kernel = "none" /\ kernel' = "submit"
      /\ pc' = [c \in Ctxs |-> IF c[1] = r THEN "acquire" ELSE pc[c]]
      /\ UNCHANGED <<valid, busy, offset, trans, data, cidLocked, flying, cq, lookup, hit, slot, cid, pending, ready>>
  BY DEF SubmitLaunch, pageVars, slotVars, qpVars
<1>3. asked \in Seq([1 .. Rows -> Pages]) /\ Len(asked) \in Nat /\ b \in [1 .. Rows -> Pages]
  BY BatchesAssumption DEF ReadInv, PinInv, Queued
<1>4. /\ Len(asked') = r /\ asked'[r] = b
      /\ \A i \in 1 .. Len(asked) : asked'[i] = asked[i]
  BY <1>1, <1>3, AppendProperties
<1>5. \A c \in Ctxs : pc'[c] = IF c[1] = r THEN "acquire" ELSE pc[c]
  BY <1>2
<1>6. ASSUME NEW c \in Ctxs, c[1] = r PROVE pc[c] = "idle" /\ ~hit[c] /\ ~pending[c] /\ c[1] \notin ready
  <2>1. pc[c] = "idle"
    BY <1>3, <1>6 DEF ReadInv, PinInv, Placed
  <2> QED BY <2>1 DEF ReadInv, HasData, Sent, AllThere, Waits
<1>7. ASSUME NEW c \in Ctxs, pc[c] # "idle" PROVE Page(c)' = Page(c) /\ c[1] # r
  <2>1. c[1] \in 1 .. Len(asked)
    BY <1>7, LivePage DEF ReadInv, PinInv
  <2> QED BY <1>3, <1>4, <2>1 DEF Page
<1>8. \A c \in Ctxs : Reads(c) \/ hit[c] \/ pc[c] \in After => pc[c] # "idle"
  BY ReadsLive
<1> HIDE DEF r
<1>9. \A e \in Ctxs : Reads(e)' <=> Reads(e)
  BY <1>2, <1>5, <1>6 DEF Reads
<1>10. \A e \in Ctxs : pc'[e] \notin {"acquire", "idle"} => pc'[e] = pc[e] /\ pc[e] # "idle"
  BY <1>5
<1>11. \A e \in Ctxs : pending[e] => pc'[e] = pc[e] /\ pc[e] # "idle"
  BY <1>5, <1>6, <1>8 DEF Reads
<1>12. Types'
  <2>1. ASSUME NEW i \in 1 .. Len(asked') PROVE asked'[i] \in Batches
    <3>1. i = r \/ i \in 1 .. Len(asked)
      BY <1>3, <1>4 DEF r
    <3> QED BY <1>4, <3>1 DEF ReadInv, Types
  <2> QED BY <1>2, <2>1 DEF ReadInv, Types
<1>13. HasData'
  <2>1. ASSUME NEW c \in Ctxs, hit'[c] \/ pc'[c] = "polled"
        PROVE  /\ pc'[c] \in {"done", "polled"} \cup Waits
               /\ Mine(c)' /\ data'[slot'[c]] = Page(c)' /\ ~pending'[c]
    <3>1. (hit[c] \/ pc[c] = "polled") /\ pc'[c] = pc[c] /\ pc[c] # "idle"
      BY <1>2, <1>5, <1>6, <1>8, <1>10, <2>1
    <3> QED BY <1>2, <1>7, <3>1 DEF ReadInv, HasData, Mine
  <2> QED BY <2>1 DEF HasData
<1>14. AllThere'
  BY <1>2, <1>5, <1>6 DEF ReadInv, AllThere
<1>15. ValidHere'
  BY <1>2 DEF ReadInv, ValidHere
<1>16. Readers'
  <2>1. \A c \in Ctxs : Reads(c) => Page(c)' = Page(c)
    BY <1>7, <1>8
  <2> QED BY <1>2, <1>9, <2>1 DEF ReadInv, Readers
<1>17. Sent'
  <2>1. \A e \in Ctxs : pc'[e] = "send" \/ pending'[e] => (pc[e] = "send" \/ pending[e]) /\ Page(e)' = Page(e)
    BY <1>2, <1>7, <1>10, <1>11
  <2>2. \A e \in Ctxs : pc'[e] = "send" \/ pending'[e] => Mine(e)' /\ offset'[Page(e)'] = slot'[e]
    BY <1>2, <2>1 DEF ReadInv, Sent, Mine
  <2> QED BY <1>2, <1>11, <2>2 DEF ReadInv, Sent
<1>18. Seen' /\ Covered'
  BY <1>2, <1>7, <1>10 DEF ReadInv, Seen, Covered, After, Waits
<1>19. Earlier'
  <2>1. \A e \in Ctxs : Reads(e) \/ pc[e] \in After => Page(e)' = Page(e)
    BY <1>7, <1>8
  <2>2. \A e \in Ctxs : pc'[e] \in After => pc[e] \in After
    BY <1>10 DEF After, Waits
  <2> QED BY <1>9, <2>1, <2>2 DEF ReadInv, Earlier
<1>20. Pollers'
  BY <1>2, <1>7, <1>10 DEF ReadInv, Pollers
<1>21. Commands'
  BY <1>2, <1>7, <1>11 DEF ReadInv, Commands, Awaits
<1>22. Entries'
  BY <1>2, <1>7, <1>11 DEF ReadInv, Entries, Awaits
<1>23. Lookups'
  <2>1. \A e \in Ctxs : pending[e] => e[1] # r
    BY <1>7, <1>11
  <2> QED BY <1>2, <2>1 DEF ReadInv, Lookups
<1> QED BY <1>12, <1>13, <1>14, <1>15, <1>16, <1>17, <1>18, <1>19, <1>20, <1>21, <1>22, <1>23 DEF Rest

LEMMA InitRest == ASSUME OneSsd, Init PROVE Rest
<1>1. Devs = {0} /\ 0 \in Cids
  BY OnlyDev, SizesAssumption DEF Cids
<1>2. Types
  BY <1>1 DEF Init, Types
<1>3. HasData /\ AllThere /\ ValidHere /\ Readers /\ Sent
  BY <1>1 DEF Init, HasData, AllThere, ValidHere, Readers, Sent, Reads
<1>4. Seen /\ Covered /\ Earlier /\ Pollers
  BY DEF Init, Seen, Covered, Earlier, Pollers, After, Waits
<1>5. cq[0] = <<>>
  BY <1>1 DEF Init
<1>6. Commands /\ Entries /\ Lookups
  BY <1>5 DEF Init, Commands, Entries, Lookups
<1> QED BY <1>2, <1>3, <1>4, <1>6 DEF Rest

\* A row that only moves on, or takes a slot.
LEMMA RowMovesRest ==
  ASSUME ReadInv, DistinctRows, NEW c \in Ctxs,
         Acquire(c) \/ Look(c) \/ Hit(c) \/ Follow(c) \/ WaitDone(c) \/ WaitBusy(c) \/ WaitCas(c)
  PROVE  Rest'
<1>1. /\ slot \in [Ctxs -> Slots \cup {None}] /\ hit \in [Ctxs -> BOOLEAN] /\ offset \in [Pages -> Slots \cup {None}]
  BY DEF ReadInv, Types
<1>2. CASE Acquire(c)
  BY <1>2, RowPc DEF Acquire, Goto, slotVars, qpVars, hostVars
<1>3. CASE Look(c)
  BY <1>3, RowPc DEF Look, Goto, pageVars, slotVars, qpVars, hostVars
<1>4. CASE Hit(c)
  <2>1. /\ pc[c] = "hit" /\ hit' = [hit EXCEPT ![c] = TRUE] /\ slot' = [slot EXCEPT ![c] = offset[Page(c)]]
        /\ pc' = [pc EXCEPT ![c] = "done"]
        /\ UNCHANGED <<valid, busy, offset, trans, data, cidLocked, flying, cq, lookup, cid, pending>>
        /\ UNCHANGED <<asked, queue, ready, kernel>>
    BY <1>4 DEF Hit, Goto, pageVars, slotVars, qpVars, hostVars
  <2>2. Page(c) \in Pages /\ valid[Page(c)]
    BY <2>1, ReadsLive DEF Submitting, ReadInv, Seen
  <2>3. /\ offset[Page(c)] \in Slots /\ trans[offset[Page(c)]] = Page(c) /\ data[offset[Page(c)]] = Page(c)
        /\ ~Reads(c)
    BY <2>2 DEF ReadInv, ValidHere, Readers
  <2> QED BY <2>1, <2>3, RowTakes
<1>5. CASE Follow(c)
  <2>1. /\ pc[c] = "follow" /\ hit' = hit /\ slot' = [slot EXCEPT ![c] = offset[Page(c)]]
        /\ offset[Page(c)] # None /\ trans[offset[Page(c)]] = Page(c)
        /\ pc' = [pc EXCEPT ![c] = "done"]
        /\ UNCHANGED <<valid, busy, offset, trans, data, cidLocked, flying, cq, lookup, cid, pending>>
        /\ UNCHANGED <<asked, queue, ready, kernel>>
    BY <1>5 DEF Follow, Goto, pageVars, slotVars, qpVars, hostVars
  <2>2. offset[Page(c)] \in Slots
    BY <1>1, <2>1, ReadsLive DEF Submitting
  <2>3. ~hit[c] /\ ~Reads(c)
    BY <2>1 DEF ReadInv, HasData, Sent, Reads, Waits
  <2>4. hit' = [hit EXCEPT ![c] = FALSE]
    BY <1>1, <2>1, <2>3
  <2> QED BY <2>1, <2>2, <2>3, <2>4, RowTakes
<1>6. CASE WaitDone(c)
  <2> DEFINE s == IF hit[c] THEN slot[c] ELSE offset[Page(c)]
  <2>1. /\ pc[c] = "wait" /\ hit' = hit /\ slot' = [slot EXCEPT ![c] = s]
        /\ hit[c] \/ (valid[Page(c)] /\ ~busy[Page(c)])
        /\ pc' = [pc EXCEPT ![c] = "polled"]
        /\ UNCHANGED <<valid, busy, offset, trans, data, cidLocked, flying, cq, lookup, cid, pending>>
        /\ UNCHANGED <<asked, queue, ready, kernel>>
    BY <1>1, <1>6 DEF WaitDone, Goto, slotVars, qpVars, hostVars, V_NB
  <2>2. Page(c) \in Pages /\ pc[c] \notin {"slot", "send"}
    BY <2>1, ReadsLive DEF After, Waits
  <2>3. s \in Slots /\ trans[s] = Page(c) /\ data[s] = Page(c) /\ ~Reads(c)
    <3>1. CASE hit[c]
      BY <2>2, <3>1 DEF ReadInv, HasData, Mine, Reads
    <3>2. CASE ~hit[c]
      BY <2>1, <2>2, <3>2 DEF ReadInv, ValidHere, Readers
    <3> QED BY <3>1, <3>2
  <2>4. hit[c] \in BOOLEAN /\ hit' = [hit EXCEPT ![c] = hit[c]]
    BY <1>1, <2>1
  <2> HIDE DEF s
  <2> QED BY <2>1, <2>3, <2>4, RowTakes
<1>7. CASE WaitBusy(c)
  <2>1. pending[c]
    BY <1>7, PollerReads DEF WaitBusy, NV_B, Waits
  <2> QED BY <1>7, <2>1, RowPc DEF WaitBusy, Goto, pageVars, slotVars, qpVars, hostVars
<1>8. CASE WaitCas(c)
  <2>1. pending[c]
    BY <1>8 DEF WaitCas, ReadInv, Pollers
  <2> QED BY <1>8, <2>1, RowPc DEF WaitCas, Goto, slotVars, qpVars, hostVars
<1> QED BY <1>2, <1>3, <1>4, <1>5, <1>6, <1>7, <1>8

LEMMA ReadInvStep ==
  ASSUME OneSsd, DistinctRows, ReadInv, [Next]_vars
  PROVE  ReadInv'
<1>1. ReadInv' <=> PinInv' /\ Rest'
  BY DEF ReadInv, Rest
<1>2. PinInv'
  BY PinInvStep DEF ReadInv
<1> SUFFICES Rest'
  BY <1>1, <1>2
<1>3. CASE SubmitLaunch \/ Get
  BY <1>3, SubmitLaunchRest, GetRest
<1>4. CASE FrontPoll \/ WindowLaunch \/ KernelEnd
  <2>1. CASE TryLaunch \/ WindowLaunch \/ PollEnd
    BY <2>1, KernelRest
  <2>2. CASE PollLaunch
    BY <2>2, PollLaunchRest
  <2>3. CASE SubmitEnd
    BY <2>3, SubmitEndRest
  <2>4. CASE ServiceEnd
    BY <2>4, ServiceEndRest
  <2> QED BY <1>4, <2>1, <2>2, <2>3, <2>4 DEF FrontPoll, KernelEnd
<1>5. ASSUME NEW c \in Ctxs, Row(c) PROVE Rest'
  <2>1. CASE Acquire(c) \/ Look(c) \/ Hit(c) \/ Follow(c) \/ WaitDone(c) \/ WaitBusy(c) \/ WaitCas(c)
    BY <2>1, RowMovesRest
  <2>2. CASE Claim(c)
    BY <2>2, ClaimRest
  <2>3. CASE FindSlot(c)
    BY <2>3, FindSlotRest
  <2>4. CASE SubmitRead(c)
    BY <2>4, SubmitReadRest
  <2>5. CASE Poll(c)
    BY <2>5, PollRest
  <2>6. CASE Publish(c)
    BY <2>6, PublishRest
  <2> QED BY <1>5, <2>1, <2>2, <2>3, <2>4, <2>5, <2>6 DEF Row, SubmitRow, PollRow
<1>6. ASSUME NEW d \in Devs, DevComplete(d) \/ ServiceEvent(d) PROVE Rest'
  BY <1>6, DevCompleteRest, ServiceEventRest
<1>7. CASE UNCHANGED vars
  <2>1. UNCHANGED <<valid, busy, offset, trans, data, cidLocked, flying, cq, lookup, pc, hit, slot, cid, pending>>
    BY <1>7 DEF vars, pageVars, slotVars, qpVars, ctxVars
  <2>2. UNCHANGED <<asked, queue, ready, kernel>>
    BY <1>7 DEF vars, hostVars
  <2>3. \A e : (Page(e)' = Page(e)) /\ (Mine(e)' <=> Mine(e)) /\ (Reads(e)' <=> Reads(e))
    BY <2>1, <2>2 DEF Page, Mine, Reads
  <2>4. Types' /\ HasData' /\ AllThere' /\ ValidHere'
    BY <2>1, <2>2, <2>3 DEF ReadInv, Types, HasData, AllThere, ValidHere
  <2>5. Readers' /\ Sent' /\ Seen' /\ Covered'
    BY <2>1, <2>2, <2>3 DEF ReadInv, Readers, Sent, Seen, Covered
  <2>6. Earlier' /\ Pollers'
    BY <2>1, <2>3 DEF ReadInv, Earlier, Pollers
  <2>7. Commands' /\ Entries' /\ Lookups'
    BY <2>1, <2>2, <2>3 DEF ReadInv, Commands, Entries, Lookups, Awaits
  <2> QED BY <2>4, <2>5, <2>6, <2>7 DEF Rest
<1> QED BY <1>3, <1>4, <1>5, <1>6, <1>7 DEF Next

LEMMA ReadInvariant ==
  ASSUME OneSsd, DistinctRows
  PROVE  Spec => []ReadInv
<1>1. Init => ReadInv
  BY InitPins, InitRest DEF ReadInv, Rest
<1>2. ReadInv /\ [Next]_vars => ReadInv'
  BY ReadInvStep
<1> QED BY <1>1, <1>2, PTL DEF Spec

-----------------------------------------------------------------------------
(***************************************************************************)
(* What the invariant gives.                                               *)
(***************************************************************************)
\* With one SSD and distinct pages in a batch, a row that polls in
\* acquire_page_wait_async polls for the command of its own page, so the
\* exception of the following properties never applies.
THEOREM PollersNeverStray ==
  ASSUME OneSsd, DistinctRows
  PROVE  Spec => []~strayed
<1>1. ASSUME ReadInv, ~strayed, [Next]_vars PROVE ~strayed'
  <2>1. ASSUME NEW c \in Ctxs, Poll(c) PROVE ~strayed'
    <3>1. pc[c] = "poll" /\ pc[c] # "idle" /\ pending[c]
      BY <1>1, <2>1 DEF Poll, ReadInv, Pollers
    <3>2. ~Strays(c)
      BY <3>1 DEF Strays
    <3> QED BY <1>1, <2>1, <3>2 DEF Poll
  <2>2. ASSUME NEW c \in Ctxs, Row(c), ~Poll(c) PROVE UNCHANGED strayed
    <3>1. CASE SubmitRow(c)
      BY <3>1 DEF SubmitRow, Acquire, Look, Hit, Claim, FindSlot, SubmitRead, Follow, qpVars
    <3>2. CASE PollRow(c)
      BY <2>2, <3>2 DEF PollRow, WaitDone, WaitBusy, WaitCas, Publish, qpVars
    <3> QED BY <2>2, <3>1, <3>2 DEF Row
  <2>3. CASE SubmitLaunch \/ Get \/ FrontPoll \/ WindowLaunch \/ KernelEnd
    BY <1>1, <2>3 DEF SubmitLaunch, Get, FrontPoll, TryLaunch, PollLaunch, WindowLaunch, KernelEnd, SubmitEnd,
                ServiceEnd, PollEnd, qpVars
  <2>4. ASSUME NEW d \in Devs, DevComplete(d) \/ ServiceEvent(d) PROVE UNCHANGED strayed
    BY <2>4 DEF DevComplete, ServiceEvent
  <2>5. CASE UNCHANGED vars
    BY <1>1, <2>5 DEF vars, qpVars
  <2> QED BY <1>1, <2>1, <2>2, <2>3, <2>4, <2>5 DEF Next
<1>2. Init => ~strayed
  BY DEF Init
<1> QED BY <1>1, <1>2, ReadInvariant, PTL DEF Spec

\* With one SSD and distinct pages in a batch, a row with isHit has its page,
\* with the page's data, in the slot it will copy from, whichever row, kernel
\* and poll path brought it, as debug.md says of the results.
THEOREM HitsHaveData ==
  ASSUME OneSsd, DistinctRows
  PROVE  Spec => [](HitMeansData /\ HitsHavePages)
<1>1. ReadInv => HitMeansData /\ HitsHavePages
  BY NoneApart DEF ReadInv, HasData, HitMeansData, HitsHavePages, Mine
<1> QED BY <1>1, ReadInvariant, PTL

\* Under the same assumptions, find_slot never gives a slot away while an SSD
\* still writes to it.
THEOREM DmaStaysInSlot ==
  ASSUME OneSsd, DistinctRows
  PROVE  Spec => []DmaLandsInOwnSlot
<1>1. ReadInv => DmaLandsInOwnSlot
  BY DEF ReadInv, Commands, Sent, Mine, Awaits, DmaLandsInOwnSlot
<1> QED BY <1>1, ReadInvariant, PTL

\* Under the same assumptions, outside the submit kernel,
\* d_registered_ctx_lookup leads from every command and every completion to
\* the live context that waits for it.
THEOREM LookupsFindOwners ==
  ASSUME OneSsd, DistinctRows
  PROVE  Spec => []LookupFindsOwner
<1>1. ASSUME ReadInv PROVE LookupFindsOwner
  <2> SUFFICES ASSUME kernel # "submit", NEW x \in Outstanding
               PROVE  LET c == lookup[x[1]][x[2]] IN
                      c # None /\ Live(c) /\ pending[c] /\ cid[c] = x[2] /\ Dev(Page(c)) = x[1]
    BY DEF LookupFindsOwner
  <2>1. x[1] = 0 /\ \E c \in Ctxs : Awaits(c, x[2])
    <3>1. CASE \E f \in flying : x = <<f.dev, f.cid>>
      <4>1. PICK f \in flying : x = <<f.dev, f.cid>>
        BY <3>1
      <4>2. f.dev = 0
        BY <1>1, OnlyDev DEF ReadInv, Types
      <4> QED BY <1>1, <4>1, <4>2 DEF ReadInv, Commands
    <3>2. CASE \E d \in Devs : \E i \in DOMAIN cq[d] : x = <<d, cq[d][i].cid>>
      <4>1. PICK d \in Devs : \E i \in DOMAIN cq[d] : x = <<d, cq[d][i].cid>>
        BY <3>2
      <4>2. PICK i \in DOMAIN cq[d] : x = <<d, cq[d][i].cid>>
        BY <4>1
      <4>3. d = 0 /\ 0 \in Devs
        BY OnlyDev
      <4>4. cq[0] \in Seq([cid : Cids, marked : BOOLEAN])
        BY <1>1, <4>3 DEF ReadInv, Types
      <4>5. i \in 1 .. Len(cq[0])
        BY <4>3, <4>4
      <4> QED BY <1>1, <4>2, <4>3, <4>5 DEF ReadInv, Entries
    <3> QED BY <3>1, <3>2 DEF Outstanding
  <2>2. PICK c \in Ctxs : Awaits(c, x[2])
    BY <2>1
  <2>3. pending[c] /\ cid[c] = x[2] /\ lookup[0][x[2]] = c
    BY <1>1, <2>2 DEF Awaits, ReadInv, Lookups
  <2>4. Live(c) /\ Page(c) \in Pages
    BY <1>1, <2>3, ReadsLive DEF Live, Reads
  <2>5. c # None /\ Dev(Page(c)) = x[1] /\ lookup[x[1]][x[2]] = c
    BY <2>1, <2>3, <2>4, OnlyDev, NoneAssumption
  <2> QED BY <2>3, <2>4, <2>5
<1> QED BY <1>1, ReadInvariant, PTL

\* Under the same assumptions, however many rows of the outstanding requests
\* want a page, one of them reads it (the fetch_or of BUSY in
\* acquire_page_submit_async).
THEOREM PagesAreReadOnce ==
  ASSUME OneSsd, DistinctRows
  PROVE  Spec => []OneReadPerPage
<1>1. ASSUME ReadInv PROVE OneReadPerPage
  <2> SUFFICES ASSUME NEW p \in Pages
               PROVE  Cardinality({c \in Ctxs : pc[c] \in {"slot", "send"} /\ Page(c) = p})
                        + Cardinality({f \in flying : f.page = p}) <= 1
    BY DEF OneReadPerPage
  <2> DEFINE A == {c \in Ctxs : pc[c] \in {"slot", "send"} /\ Page(c) = p}
             B == {f \in flying : f.page = p}
  <2>1. \A c, e \in A : c = e
    BY <1>1 DEF ReadInv, Readers, Reads
  <2>2. ASSUME NEW f \in B PROVE \E e \in Ctxs : Awaits(e, f.cid) /\ slot[e] = f.slot /\ Page(e) = p
    BY <1>1 DEF ReadInv, Commands
  <2>3. ASSUME NEW f \in B, NEW g \in B PROVE f = g
    <3>1. PICK c \in Ctxs : Awaits(c, f.cid) /\ slot[c] = f.slot /\ Page(c) = p
      BY <2>2
    <3>2. PICK e \in Ctxs : Awaits(e, g.cid) /\ slot[e] = g.slot /\ Page(e) = p
      BY <2>2
    <3>3. c = e
      BY <1>1, <3>1, <3>2 DEF ReadInv, Readers, Reads, Awaits
    <3>4. /\ f = [dev |-> f.dev, cid |-> f.cid, slot |-> f.slot, page |-> f.page] /\ f.dev = 0
          /\ g = [dev |-> g.dev, cid |-> g.cid, slot |-> g.slot, page |-> g.page] /\ g.dev = 0
      BY <1>1, OnlyDev DEF ReadInv, Types
    <3> QED BY <3>1, <3>2, <3>3, <3>4 DEF Awaits
  <2>4. A = {} \/ B = {}
    <3>1. ASSUME NEW c \in A, NEW f \in B PROVE FALSE
      <4>1. PICK e \in Ctxs : Awaits(e, f.cid) /\ Page(e) = p
        BY <2>2
      <4>2. e = c
        BY <1>1, <4>1 DEF ReadInv, Readers, Reads, Awaits
      <4> QED BY <1>1, <4>1, <4>2 DEF ReadInv, Sent, Awaits, Waits
    <3> QED BY <3>1
  <2> HIDE DEF A, B
  <2>5. (A = {} \/ \E x : A = {x}) /\ (B = {} \/ \E x : B = {x})
    BY <2>1, <2>3
  <2>6. (A = {} => Cardinality(A) = 0) /\ (B = {} => Cardinality(B) = 0)
    BY FS_EmptySet
  <2>7. (\A x : A = {x} => Cardinality(A) = 1) /\ (\A x : B = {x} => Cardinality(B) = 1)
    BY FS_Singleton
  <2>8. Cardinality(A) \in {0, 1} /\ Cardinality(B) \in {0, 1} /\ (Cardinality(A) = 0 \/ Cardinality(B) = 0)
    BY <2>4, <2>5, <2>6, <2>7
  <2>9. Cardinality(A) + Cardinality(B) <= 1
    BY <2>8
  <2> QED BY <2>9 DEF A, B
<1> QED BY <1>1, ReadInvariant, PTL

-----------------------------------------------------------------------------
(***************************************************************************)
(* The loader gets, in order, what it asked for.                           *)
(***************************************************************************)
\* Get copies out the pages of the request at the front.
LEMMA GetDelivers ==
  ASSUME ReadInv, Delivered, Get
  PROVE  Stream!Deliver /\ Delivered'
<1> DEFINE r == Head(queue)
           x == [i \in 1 .. Rows |-> IF slot[<<r, i>>] = None THEN None ELSE data[slot[<<r, i>>]]]
<1>1. queue # <<>> /\ r \in ready /\ got' = Append(got, x) /\ asked' = asked /\ queue' = Tail(queue)
  BY DEF Get
<1>2. r = Front /\ r \in 1 .. Len(asked) /\ Len(asked) \in Nat
  BY <1>1, FrontIsHead DEF ReadInv, PinInv, Queued
<1>3. asked[r] \in [1 .. Rows -> Pages]
  BY <1>2, ElementOfSeq DEF ReadInv, PinInv, Queued
<1>4. ASSUME NEW i \in 1 .. Rows PROVE x[i] = asked[r][i]
  <2>1. <<r, i>> \in Ctxs
    <3>1. r \in Reqs
      BY <1>2, SizesAssumption DEF ReadInv, PinInv, Queued, Reqs
    <3> QED BY <3>1 DEF Ctxs
  <2>2. hit[<<r, i>>] \/ pc[<<r, i>>] = "polled"
    BY <1>1, <2>1 DEF ReadInv, AllThere
  <2>3. Mine(<<r, i>>) /\ data[slot[<<r, i>>]] = Page(<<r, i>>)
    BY <2>1, <2>2 DEF ReadInv, HasData
  <2> QED BY <2>3, NoneApart DEF Mine, Page
<1>5. x = asked[r]
  BY <1>3, <1>4
<1> HIDE DEF x, r
<1>6. got \in Seq([1 .. Rows -> Pages]) /\ Len(got) = Len(asked) - Len(queue) /\ Len(queue) \in Nat /\ Len(got) \in Nat
  BY DEF Delivered, ReadInv, PinInv, Queued
<1>7. r = Len(got) + 1 /\ Len(got) < Len(asked)
  BY <1>2, <1>6 DEF Front
<1>8. Stream!Deliver
  BY <1>1, <1>5, <1>7 DEF Stream!Deliver
<1>9. got' \in Seq([1 .. Rows -> Pages]) /\ Len(got') = Len(got) + 1
  BY <1>1, <1>3, <1>5, <1>6, AppendProperties
<1>10. Len(queue') = Len(queue) - 1
  BY <1>1, HeadTailProperties DEF ReadInv, PinInv, Queued
<1> QED BY <1>1, <1>6, <1>8, <1>9, <1>10 DEF Delivered

LEMMA StreamStep ==
  ASSUME ReadInv, Delivered, [Next]_vars
  PROVE  [Stream!Next]_(Stream!vars) /\ Delivered'
<1>1. CASE Get
  BY <1>1, GetDelivers DEF Stream!Next
<1>2. CASE SubmitLaunch
  <2>1. PICK b \in Batches : asked' = Append(asked, b)
    BY <1>2 DEF SubmitLaunch
  <2>2. got' = got /\ queue' = Append(queue, Len(asked) + 1)
    BY <1>2 DEF SubmitLaunch
  <2>3. asked \in Seq([1 .. Rows -> Pages]) /\ queue \in Seq(Nat) /\ b \in [1 .. Rows -> Pages]
    BY BatchesAssumption DEF ReadInv, PinInv, Queued
  <2>4. Len(asked') = Len(asked) + 1 /\ Len(queue') = Len(queue) + 1 /\ Len(asked) \in Nat /\ Len(queue) \in Nat
    BY <2>1, <2>2, <2>3, AppendProperties
  <2>5. Delivered'
    <3>1. Len(asked') - Len(queue') = Len(asked) - Len(queue)
      BY <2>4
    <3> QED BY <2>2, <3>1 DEF Delivered
  <2> QED BY <2>1, <2>2, <2>5 DEF Stream!Next, Stream!Ask
<1>3. CASE ~Get /\ ~SubmitLaunch
  <2>1. UNCHANGED <<asked, queue, got>>
    <3>1. CASE FrontPoll \/ WindowLaunch \/ KernelEnd
      BY <3>1 DEF FrontPoll, TryLaunch, PollLaunch, WindowLaunch, KernelEnd, SubmitEnd, ServiceEnd, PollEnd
    <3>2. ASSUME NEW c \in Ctxs, SubmitRow(c) PROVE UNCHANGED hostVars
      BY <3>2 DEF SubmitRow, Acquire, Look, Hit, Claim, FindSlot, SubmitRead, Follow
    <3>3. ASSUME NEW c \in Ctxs, PollRow(c) PROVE UNCHANGED hostVars
      BY <3>3 DEF PollRow, WaitDone, WaitBusy, WaitCas, Poll, Publish
    <3>4. ASSUME NEW d \in Devs, DevComplete(d) \/ ServiceEvent(d) PROVE UNCHANGED <<asked, queue, got>>
      BY <3>4 DEF DevComplete, ServiceEvent, hostVars
    <3>5. CASE UNCHANGED vars
      BY <3>5 DEF vars, hostVars
    <3> QED BY <1>3, <3>1, <3>2, <3>3, <3>4, <3>5 DEF Next, Row, hostVars
  <2> QED BY <2>1 DEF Delivered, Stream!vars
<1> QED BY <1>1, <1>2, <1>3

\* Under the same assumptions, what the loader gets is, batch for batch in the
\* order asked, the contents of the pages of the batch: the path refines
\* FeatureStream (but for its liveness), whatever rows, polls and devices do in
\* between.
THEOREM StreamImplemented ==
  ASSUME OneSsd, DistinctRows
  PROVE  Spec => Stream!Spec
<1>1. Init => Stream!Init /\ Delivered
  BY DEF Init, Stream!Init, Delivered
<1>2. ReadInv /\ Delivered /\ [Next]_vars => [Stream!Next]_(Stream!vars) /\ Delivered'
  BY StreamStep
<1> QED BY <1>1, <1>2, ReadInvariant, PTL DEF Spec, Stream!Spec
=============================================================================
