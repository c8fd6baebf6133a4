------------------------------ MODULE AsyncRead ------------------------------
(***************************************************************************)
(* The registered asynchronous read path: a request (one row context s_ctx *)
(* per row of a batch) is submitted by one kernel and completed by later   *)
(* ones, with several requests outstanding.  The host calls are those of   *)
(* BAM_Feature_Store (gids_module/gids_nvme.cu) on BaM_IOStack             *)
(* (bam/include/bam_iostack.cuh); the kernels are in gids_kernel.cu and    *)
(* use acquire_page_submit_async, acquire_page_wait_async and the ctx      *)
(* version of find_slot of bam/include/page_cache.h.                       *)
(*                                                                         *)
(* All kernels run on the default stream and the host waits for them, so   *)
(* one kernel runs at a time; the rows of a kernel and the SSDs interleave.*)
(* Each SSD has one queue pair here.  Two parts have modules of their own: *)
(* find_slot is one step (its races are in PageCache) and a queue pair is  *)
(* a set of commands and a completion sequence (its rings are in NvmQueue),*)
(* in which an entry leaves only with all entries before it.  Reading only:*)
(* no page gets dirty.                                                     *)
(***************************************************************************)
EXTENDS Integers, Sequences, FiniteSets

CONSTANTS
  NReq,       \* requests submitted in a behaviour
  Rows,       \* rows of a request
  NPages,     \* backing pages, striped over the SSDs
  Batches,    \* what a request may ask for: [1..Rows -> pages]
  NSlots,     \* page_cache_d_t::n_pages
  Ssds,       \* n_ctrls
  NCids,      \* command identifiers of a queue pair (65536 in the code)
  Depth,      \* requests the loader keeps outstanding
  Window,     \* try_window_size
  MaxEvents,  \* completions one service kernel takes from a queue
  Loaders,    \* whose polling rules apply: "GIDS", "CIDS", or either at each turn
  None

Pages == 0 .. NPages - 1
Slots == 0 .. NSlots - 1
Devs  == 0 .. Ssds - 1
Cids  == 0 .. NCids - 1
Reqs  == 1 .. NReq
Ctxs  == Reqs \X (1 .. Rows)

ASSUME SizesAssumption ==
  {NReq, Rows, NPages, NSlots, Ssds, NCids, Depth, Window, MaxEvents} \subseteq Nat \ {0}
ASSUME BatchesAssumption == Batches \subseteq [1 .. Rows -> Pages]
ASSUME LoadersAssumption == Loaders \subseteq {"GIDS", "CIDS"}
ASSUME NoneAssumption == None \notin Int /\ None \notin Ctxs

VARIABLES
  cnt, valid, busy,            \* data_page_t::state
  polling, offset,             \* data_page_t::polling_flag, offset (None: PENDING)
  trans, data,                 \* page_translation of a slot; the page whose data it holds
  cidLocked, cidTicket,        \* identifiers in use, sq->cid_ticket, per SSD
  flying, cq,                  \* commands an SSD works on; its posted completions
  lookup,                      \* d_registered_ctx_lookup
  strayed,                     \* history: a row took a completion of another page
  pc, hit, slot, cid, pending, \* per row: isHit, page_trans, cid, has_pending_io of s_ctx
  asked,                       \* the batches registered so far
  queue, ready,                \* outstanding_queue, its READY requests
  got,                         \* history: what was delivered
  kernel, served               \* the kernel that runs; completions it took per SSD

pageVars == <<cnt, valid, busy, polling, offset>>
slotVars == <<trans, data>>
qpVars   == <<cidLocked, cidTicket, flying, cq, lookup, strayed>>
ctxVars  == <<pc, hit, slot, cid, pending>>
hostVars == <<asked, queue, ready, got, kernel, served>>
vars == <<pageVars, slotVars, qpVars, ctxVars, hostVars>>

RowsOf(r) == {r} \X (1 .. Rows)
Page(c)   == asked[c[1]][c[2]]
V_NB(p)   == valid[p] /\ ~busy[p]
NV_B(p)   == ~valid[p] /\ busy[p]

(* get_backing_ctrl_ with STRIPE.                                          *)
Dev(p) == p % Ssds

Goto(c, l) == pc' = [pc EXCEPT ![c] = l]

Init ==
  /\ cnt = [p \in Pages |-> 0]
  /\ valid = [p \in Pages |-> FALSE]
  /\ busy = [p \in Pages |-> FALSE]
  /\ polling = [p \in Pages |-> FALSE]
  /\ offset = [p \in Pages |-> None]
  /\ trans = [s \in Slots |-> None]
  /\ data = [s \in Slots |-> None]
  /\ cidLocked = [d \in Devs |-> {}]
  /\ cidTicket = [d \in Devs |-> 0]
  /\ flying = {}
  /\ cq = [d \in Devs |-> <<>>]
  /\ lookup = [d \in Devs |-> [k \in Cids |-> None]]
  /\ strayed = FALSE
  /\ pc = [c \in Ctxs |-> "idle"]
  /\ hit = [c \in Ctxs |-> FALSE]
  /\ slot = [c \in Ctxs |-> None]
  /\ cid = [c \in Ctxs |-> 0]
  /\ pending = [c \in Ctxs |-> FALSE]
  /\ asked = <<>> /\ queue = <<>> /\ ready = {} /\ got = <<>>
  /\ kernel = "none"
  /\ served = [d \in Devs |-> 0]

-----------------------------------------------------------------------------
(* read_feature_submit_async_registered_rowctx: zeroed contexts, entered   *)
(* in both queues of the stack, and the submit kernel is launched.         *)
SubmitLaunch ==
  /\ kernel = "none"
  /\ Len(asked) < NReq
  /\ Len(queue) < Depth
  /\ \E b \in Batches : asked' = Append(asked, b)
  /\ queue' = Append(queue, Len(asked) + 1)
  /\ pc' = [c \in Ctxs |-> IF c[1] = Len(asked) + 1 THEN "acquire" ELSE pc[c]]
  /\ kernel' = "submit"
  /\ UNCHANGED <<pageVars, slotVars, qpVars, hit, slot, cid, pending, ready, got, served>>

(* acquire_page_submit_async switches on the state it has read.            *)
Case(p) ==
  IF V_NB(p) THEN "hit" ELSE IF NV_B(p) THEN "follow"
  ELSE IF busy[p] THEN "look" ELSE "claim"

(* The reference is taken by the same fetch_add that reads the state ...   *)
Acquire(c) ==
  /\ pc[c] = "acquire"
  /\ cnt' = [cnt EXCEPT ![Page(c)] = @ + 1]
  /\ Goto(c, Case(Page(c)))
  /\ UNCHANGED <<valid, busy, polling, offset, slotVars, qpVars, hit, slot, cid, pending, hostVars>>

(* ... and a row that could do nothing with that reads it again.           *)
Look(c) ==
  /\ pc[c] = "look"
  /\ Goto(c, Case(Page(c)))
  /\ UNCHANGED <<pageVars, slotVars, qpVars, hit, slot, cid, pending, hostVars>>

(* V_NB: the page is there.                                                *)
Hit(c) ==
  /\ pc[c] = "hit"
  /\ hit' = [hit EXCEPT ![c] = TRUE]
  /\ slot' = [slot EXCEPT ![c] = offset[Page(c)]]
  /\ Goto(c, "done")
  /\ UNCHANGED <<pageVars, slotVars, qpVars, cid, pending, hostVars>>

(* NV_NB: the row whose fetch_or finds BUSY unset is the one that reads    *)
(* the page.  The mutant does not look at the old value.                   *)
MutClaims(p) == TRUE

Claims(p) == ~busy[p]

(* It opens a new poll cycle and hides the stale slot number.              *)
Claim(c) ==
  LET p == Page(c) IN
  /\ pc[c] = "claim"
  /\ busy' = [busy EXCEPT ![p] = TRUE]
  /\ polling' = [polling EXCEPT ![p] = @ /\ ~Claims(p)]
  /\ offset' = [offset EXCEPT ![p] = IF Claims(p) THEN None ELSE @]
  /\ Goto(c, IF Claims(p) THEN "slot" ELSE "look")
  /\ UNCHANGED <<cnt, valid, slotVars, qpVars, hit, slot, cid, pending, hostVars>>

(* find_slot takes a slot that was never used or whose page nobody refers  *)
(* to; which one the shared page_ticket comes to first is left open.  The  *)
(* mutants forget to look at the references, or at anything.               *)
MutTakable(s) == trans[s] # None => ~busy[trans[s]]

MutTakableAny(s) == TRUE

Takable(s) == trans[s] # None => (cnt[trans[s]] = 0 /\ ~busy[trans[s]])

(* The page that was in the slot loses it, and offset shows the new one.   *)
FindSlot(c) ==
  /\ pc[c] = "slot"
  /\ \E s \in Slots :
       /\ Takable(s)
       /\ valid' = [q \in Pages |-> valid[q] /\ q # trans[s]]
       /\ trans' = [trans EXCEPT ![s] = Page(c)]
       /\ slot' = [slot EXCEPT ![c] = s]
       /\ offset' = [offset EXCEPT ![Page(c)] = s]
  /\ Goto(c, "send")
  /\ UNCHANGED <<cnt, busy, polling, data, qpVars, hit, cid, pending, hostVars>>

(* read_data_submit_async: get_cid takes the first free identifier from    *)
(* the ticket on, sq_enqueue gives the command to the SSD of the page.     *)
FreeCid(d, k) ==
  /\ k \notin cidLocked[d]
  /\ \A j \in Cids \ cidLocked[d] : (k - cidTicket[d]) % NCids <= (j - cidTicket[d]) % NCids

SubmitRead(c) ==
  LET d == Dev(Page(c)) IN
  /\ pc[c] = "send"
  /\ \E k \in Cids :
       /\ FreeCid(d, k)
       /\ cidLocked' = [cidLocked EXCEPT ![d] = @ \cup {k}]
       /\ cidTicket' = [cidTicket EXCEPT ![d] = (k + 1) % NCids]
       /\ flying' = flying \cup {[dev |-> d, cid |-> k, slot |-> slot[c], page |-> Page(c)]}
       /\ cid' = [cid EXCEPT ![c] = k]
  /\ pending' = [pending EXCEPT ![c] = TRUE]
  /\ Goto(c, "done")
  /\ UNCHANGED <<pageVars, slotVars, cq, lookup, strayed, hit, slot, hostVars>>

(* NV_B: another row reads the page; wait for its slot and issue nothing.  *)
(* The identifier of this context stays 0.                                 *)
Follow(c) ==
  LET p == Page(c) IN
  /\ pc[c] = "follow"
  /\ offset[p] # None
  /\ trans[offset[p]] = p
  /\ slot' = [slot EXCEPT ![c] = offset[p]]
  /\ Goto(c, "done")
  /\ UNCHANGED <<pageVars, slotVars, qpVars, hit, cid, pending, hostVars>>

(* register_registered_ctx_lookup_kernel, run after the submit kernel: the *)
(* rows with a command of their own enter the table.  The queue index is   *)
(* computed from ctx.ctrl, which submit sets to 0 for every page.  Rows    *)
(* that meet in one entry overwrite each other.  The mutant keeps an entry *)
(* that is there.                                                          *)
Registrants(r, k) == {c \in RowsOf(r) : ~hit[c] /\ pending[c] /\ cid[c] = k}

MutRegistered(r, k, last) ==
  IF Registrants(r, k) = {} \/ lookup[0][k] # None THEN lookup[0][k] ELSE last[k]

Registered(r, k, last) ==
  IF Registrants(r, k) = {} THEN lookup[0][k] ELSE last[k]

SubmitEnd ==
  LET r == Len(asked) IN
  /\ kernel = "submit"
  /\ \A c \in RowsOf(r) : pc[c] = "done"
  /\ \E last \in [Cids -> RowsOf(r)] :
       /\ \A k \in Cids : Registrants(r, k) # {} => last[k] \in Registrants(r, k)
       /\ lookup' = [lookup EXCEPT ![0] = [k \in Cids |-> Registered(r, k, last)]]
  /\ kernel' = "none"
  /\ UNCHANGED <<pageVars, slotVars, cidLocked, cidTicket, flying, cq, strayed, ctxVars, asked,
                 queue, ready, got, served>>

-----------------------------------------------------------------------------
(* An SSD (external) finishes one of its commands, in any order: the page  *)
(* is in the slot and the completion is posted.                            *)
DevComplete(d) ==
  \E f \in flying :
    /\ f.dev = d
    /\ flying' = flying \ {f}
    /\ data' = [data EXCEPT ![f.slot] = f.page]
    /\ cq' = [cq EXCEPT ![d] = Append(@, [cid |-> f.cid, marked |-> FALSE])]
    /\ UNCHANGED <<pageVars, trans, cidLocked, cidTicket, lookup, strayed, ctxVars, hostVars>>

-----------------------------------------------------------------------------
(* The loader polls.  GIDS takes the blocking poll only for a request that *)
(* is alone and the service kernel otherwise; CIDS always takes the        *)
(* blocking poll.  Both warm up the requests behind the front.             *)
Waiting == kernel = "none" /\ queue # <<>> /\ Head(queue) \notin ready

TryLaunch ==
  /\ Waiting
  /\ "GIDS" \in Loaders /\ Len(queue) > 1
  /\ kernel' = "try"
  /\ UNCHANGED <<pageVars, slotVars, qpVars, ctxVars, asked, queue, ready, got, served>>

WindowLaunch ==
  /\ kernel = "none"
  /\ Len(queue) > 1
  /\ kernel' = "window"
  /\ UNCHANGED <<pageVars, slotVars, qpVars, ctxVars, asked, queue, ready, got, served>>

PollLaunch ==
  /\ Waiting
  /\ "CIDS" \in Loaders \/ Len(queue) = 1
  /\ kernel' = "poll"
  /\ pc' = [c \in Ctxs |-> IF c[1] = Head(queue) THEN "wait" ELSE pc[c]]
  /\ UNCHANGED <<pageVars, slotVars, qpVars, hit, slot, cid, pending, asked, queue, ready, got, served>>

-----------------------------------------------------------------------------
(* finalize_registered_ctx_completion, for the context c that the table    *)
(* gave: a page that is being read becomes valid, a page that is valid     *)
(* only gives its slot to the context.                                     *)
Finalizes(c) == c # None /\ pc[c] # "idle" /\ ~hit[c] /\ (V_NB(Page(c)) \/ NV_B(Page(c)))

(* service_registered_cq_window_kernel, the thread of SSD d: it dequeues   *)
(* the entry at the head of the completion queue, frees its identifier and *)
(* finalizes the context that is registered for it.                        *)
ServiceEvent(d) ==
  LET k == Head(cq[d]).cid
      c == lookup[d][k]
      f == Finalizes(c)
      p == Page(c)
  IN
  /\ kernel \in {"try", "window"}
  /\ served[d] < MaxEvents
  /\ cq[d] # <<>>
  /\ cq' = [cq EXCEPT ![d] = Tail(@)]
  /\ cidLocked' = [cidLocked EXCEPT ![d] = @ \ {k}]
  /\ lookup' = [lookup EXCEPT ![d] = [@ EXCEPT ![k] = None]]
  /\ served' = [served EXCEPT ![d] = @ + 1]
  /\ IF f
       THEN /\ slot' = [slot EXCEPT ![c] = IF valid[p] THEN offset[p] ELSE @]
            /\ offset' = [offset EXCEPT ![p] = IF valid[p] THEN @ ELSE slot[c]]
            /\ valid' = [valid EXCEPT ![p] = TRUE]
            /\ busy' = [busy EXCEPT ![p] = FALSE]
            /\ polling' = [polling EXCEPT ![p] = FALSE]
            /\ hit' = [hit EXCEPT ![c] = TRUE]
            /\ pending' = [pending EXCEPT ![c] = FALSE]
       ELSE UNCHANGED <<slot, offset, valid, busy, polling, hit, pending>>
  /\ UNCHANGED <<cnt, slotVars, cidTicket, flying, strayed, pc, cid, asked, queue, ready, got,
                 kernel>>

(* The requests whose readiness is looked at after the service kernel:     *)
(* service_registered_try_poll takes the front, its window variant the     *)
(* ones behind.                                                            *)
Checked ==
  IF kernel = "try" THEN {Head(queue)}
  ELSE {queue[i] : i \in {j \in DOMAIN queue : 2 <= j /\ j <= Window + 1}} \ ready

(* check_registered_request_ready_kernel with                              *)
(* refresh_registered_ctx_from_valid_page: a row whose page some other row *)
(* has brought takes over its slot.                                        *)
Refreshed ==
  {c \in Checked \X (1 .. Rows) : ~hit[c] /\ V_NB(Page(c)) /\ offset[Page(c)] # None}

(* registered_request_ready_at: no row is left.  The mutant is content     *)
(* with one row.                                                           *)
MutReadyAt(r) == \E c \in RowsOf(r) : hit[c] \/ c \in Refreshed

ReadyAt(r) == \A c \in RowsOf(r) : hit[c] \/ c \in Refreshed

(* The threads of the service kernel have found their queues empty or used *)
(* up their budget; the host looks at the requests.                        *)
ServiceEnd ==
  /\ kernel \in {"try", "window"}
  /\ \A d \in Devs : cq[d] = <<>> \/ served[d] = MaxEvents
  /\ slot' = [c \in Ctxs |-> IF c \in Refreshed THEN offset[Page(c)] ELSE slot[c]]
  /\ hit' = [c \in Ctxs |-> hit[c] \/ c \in Refreshed]
  /\ polling' = [p \in Pages |-> polling[p] /\ \A c \in Refreshed : Page(c) # p]
  /\ ready' = ready \cup {r \in Checked : ReadyAt(r)}
  /\ served' = [d \in Devs |-> 0]
  /\ kernel' = "none"
  /\ UNCHANGED <<cnt, valid, busy, offset, slotVars, qpVars, pc, cid, pending, asked, queue, got>>

-----------------------------------------------------------------------------
(* The poll kernel, acquire_page_wait_async: a row that is hit already, or *)
(* finds its page valid, is through ...                                    *)
WaitDone(c) ==
  LET p == Page(c) IN
  /\ pc[c] = "wait"
  /\ hit[c] \/ V_NB(p)
  /\ slot' = [slot EXCEPT ![c] = IF hit[c] THEN @ ELSE offset[p]]
  /\ polling' = [polling EXCEPT ![p] = @ /\ hit[c]]
  /\ Goto(c, "polled")
  /\ UNCHANGED <<cnt, valid, busy, offset, slotVars, qpVars, hit, cid, pending, hostVars>>

(* ... one that finds it being read tries to become its poller ...         *)
WaitBusy(c) ==
  /\ pc[c] = "wait"
  /\ ~hit[c] /\ NV_B(Page(c))
  /\ Goto(c, "cas")
  /\ UNCHANGED <<pageVars, slotVars, qpVars, hit, slot, cid, pending, hostVars>>

WaitCas(c) ==
  LET p == Page(c) IN
  /\ pc[c] = "cas"
  /\ polling' = [polling EXCEPT ![p] = TRUE]
  /\ Goto(c, IF polling[p] THEN "wait" ELSE "poll")
  /\ UNCHANGED <<cnt, valid, busy, offset, slotVars, qpVars, hit, slot, cid, pending, hostVars>>

(* ... and polls for the identifier in its context.  cq_dequeue marks the  *)
(* entry; the head moves over the marked entries in front.  (An entry that *)
(* is marked is held by its pos_lock.)                                     *)
Unmarked(q) == {i \in DOMAIN q : ~q[i].marked}

MovedHead(q) ==
  IF Unmarked(q) = {} THEN <<>>
  ELSE SubSeq(q, CHOOSE i \in Unmarked(q) : \A j \in Unmarked(q) : i <= j, Len(q))

(* A follower has no command of its own and polls for the 0 of its zeroed  *)
(* context, whoever's command that is.                                     *)
Strays(c) ==
  ~\E x \in Ctxs : pc[x] # "idle" /\ pending[x] /\ cid[x] = cid[c] /\ Page(x) = Page(c)

Poll(c) ==
  LET d == Dev(Page(c)) IN
  /\ pc[c] = "poll"
  /\ \E i \in Unmarked(cq[d]) :
       /\ cq[d][i].cid = cid[c]
       /\ cq' = [cq EXCEPT ![d] = MovedHead([@ EXCEPT ![i] = [cid |-> cid[c], marked |-> TRUE]])]
  /\ strayed' = (strayed \/ Strays(c))
  /\ Goto(c, "dequeue")
  /\ UNCHANGED <<pageVars, slotVars, cidLocked, cidTicket, flying, lookup, hit, slot, cid, pending,
                 hostVars>>

(* The head has passed the entry: put_cid, and the page becomes valid by   *)
(* the XOR of both flags.                                                  *)
Publish(c) ==
  LET p == Page(c)
      d == Dev(p)
  IN
  /\ pc[c] = "dequeue"
  /\ \A i \in DOMAIN cq[d] : cq[d][i].cid # cid[c]
  /\ cidLocked' = [cidLocked EXCEPT ![d] = @ \ {cid[c]}]
  /\ pending' = [pending EXCEPT ![c] = FALSE]
  /\ offset' = [offset EXCEPT ![p] = slot[c]]
  /\ valid' = [valid EXCEPT ![p] = ~@]
  /\ busy' = [busy EXCEPT ![p] = ~@]
  /\ polling' = [polling EXCEPT ![p] = FALSE]
  /\ hit' = [hit EXCEPT ![c] = TRUE]
  /\ Goto(c, "polled")
  /\ UNCHANGED <<cnt, slotVars, cidTicket, flying, cq, lookup, strayed, slot, cid, hostVars>>

(* service_registered_poll_compatible: after the kernel mark_front_ready.  *)
PollEnd ==
  /\ kernel = "poll"
  /\ \A c \in RowsOf(Head(queue)) : pc[c] = "polled"
  /\ ready' = ready \cup {Head(queue)}
  /\ kernel' = "none"
  /\ UNCHANGED <<pageVars, slotVars, qpVars, ctxVars, asked, queue, got, served>>

-----------------------------------------------------------------------------
(* release_page of the rows of a request.  The mutant releases nothing.    *)
MutReleasedNot(r, p) == cnt[p]

Released(r, p) == cnt[p] - Cardinality({c \in RowsOf(r) : Page(c) = p})

(* read_feature_get_feature_light_registered_rowctx: the slots are copied  *)
(* out and released, mark_front_consumed, cudaFree, pop_ctxs.              *)
Get ==
  LET r == Head(queue) IN
  /\ kernel = "none"
  /\ queue # <<>> /\ r \in ready
  /\ got' = Append(got, [i \in 1 .. Rows |-> IF slot[<<r, i>>] = None THEN None ELSE data[slot[<<r, i>>]]])
  /\ cnt' = [p \in Pages |-> Released(r, p)]
  /\ queue' = Tail(queue)
  /\ ready' = ready \ {r}
  /\ pc' = [c \in Ctxs |-> IF c[1] = r THEN "idle" ELSE pc[c]]
  /\ hit' = [c \in Ctxs |-> c[1] # r /\ hit[c]]
  /\ slot' = [c \in Ctxs |-> IF c[1] = r THEN None ELSE slot[c]]
  /\ cid' = [c \in Ctxs |-> IF c[1] = r THEN 0 ELSE cid[c]]
  /\ UNCHANGED <<valid, busy, polling, offset, slotVars, qpVars, pending, asked, kernel, served>>

-----------------------------------------------------------------------------
SubmitRow(c) ==
  \/ Acquire(c) \/ Look(c) \/ Hit(c) \/ Claim(c) \/ FindSlot(c) \/ SubmitRead(c) \/ Follow(c)

PollRow(c) == WaitDone(c) \/ WaitBusy(c) \/ WaitCas(c) \/ Poll(c) \/ Publish(c)

Row(c) == SubmitRow(c) \/ PollRow(c)

KernelEnd == SubmitEnd \/ ServiceEnd \/ PollEnd

FrontPoll == TryLaunch \/ PollLaunch

Next ==
  \/ SubmitLaunch \/ FrontPoll \/ WindowLaunch \/ Get \/ KernelEnd
  \/ \E c \in Ctxs : Row(c)
  \/ \E d \in Devs : DevComplete(d) \/ ServiceEvent(d)

Spec == Init /\ [][Next]_vars

(* Threads of a running kernel are scheduled, kernels end and devices work.*)
(* The loader is one loop: it polls the front until it is ready, then gets *)
(* it, whatever warm-up it does in between, so both get their turn although*)
(* the service kernels disable them again and again.                       *)
Fairness ==
  /\ \A c \in Ctxs : WF_vars(Row(c))
  /\ \A d \in Devs : WF_vars(DevComplete(d)) /\ WF_vars(ServiceEvent(d))
  /\ WF_vars(KernelEnd)
  /\ SF_vars(FrontPoll) /\ SF_vars(Get)

FairSpec == Spec /\ Fairness

-----------------------------------------------------------------------------
Live(c) == pc[c] # "idle"

(* Commands an SSD has, and completions nobody has dequeued.               *)
Outstanding ==
  {<<f.dev, f.cid>> : f \in flying}
    \cup UNION {{<<d, cq[d][i].cid>> : i \in DOMAIN cq[d]} : d \in Devs}

(* What HitMeansData says without its exception: "asynchronous submit/wait *)
(* results equal those of the synchronous read_feature_kernel" (debug.md). *)
HitsHavePages ==
  \A c \in Ctxs : (Live(c) /\ hit[c]) =>
    slot[c] # None /\ trans[slot[c]] = Page(c) /\ data[slot[c]] = Page(c)

(* A row whose context says isHit has its page: the slot it will copy from *)
(* is assigned to the page and the SSD has written the page's data there,  *)
(* whichever row, kernel and poll path brought it, until a row that follows*)
(* another row's read has polled for the identifier of a third row's       *)
(* command (acquire_page_wait_async).                                      *)
HitMeansData == strayed \/ HitsHavePages

(* A slot that an SSD still writes to is the slot of the page it reads:    *)
(* find_slot never gives it away under the transfer, with the same         *)
(* exception.                                                              *)
DmaLandsInOwnSlot ==
  strayed \/ \A f \in flying : trans[f.slot] = f.page /\ offset[f.page] = f.slot

(* When no submit kernel runs, the table leads from every command that is  *)
(* under way or completed to the context that waits for it: never to a     *)
(* context that was freed by Get, or to a newer user of the identifier.    *)
(* The same exception: a page published without its data is given back     *)
(* before its read is done.                                                *)
LookupFindsOwner ==
  (kernel # "submit" /\ ~strayed) =>
    \A x \in Outstanding :
      LET c == lookup[x[1]][x[2]] IN
      c # None /\ Live(c) /\ pending[c] /\ cid[c] = x[2] /\ Dev(Page(c)) = x[1]

(* The count of a page is the number of contexts that hold it, so a page   *)
(* is pinned from submit to get and a loader that has got everything pins  *)
(* no slot.                                                                *)
PinsAreRequests ==
  \A p \in Pages :
    cnt[p] = Cardinality({c \in Ctxs : pc[c] \notin {"idle", "acquire"} /\ Page(c) = p})

(* However many rows of however many requests want a page at once, one of  *)
(* them reads it: "some thread has submitted the command already, only     *)
(* wait" (acquire_page_submit_async, case NV_B); the same exception.       *)
OneReadPerPage ==
  strayed \/ \A p \in Pages :
    Cardinality({c \in Ctxs : pc[c] \in {"slot", "send"} /\ Page(c) = p})
      + Cardinality({f \in flying : f.page = p}) <= 1

(* A batch that is submitted is delivered, also when the front is polled   *)
(* while later requests are outstanding ("this path takes the page actively*)
(* from SUBMITTED to READY; try_poll alone gets stuck easily when          *)
(* outstanding > 1", CIDS.py).                                             *)
EveryRequestDelivered == \A r \in Reqs : (Len(asked) >= r) ~> (Len(got) >= r)

(* The loader gets, in order, the contents of what it asked for, and gets  *)
(* it eventually: by the rules of GIDS and with pages that differ in a     *)
(* batch, so that neither the head of line nor a follower is in the way.   *)
Stream == INSTANCE FeatureStream WITH asked <- asked, got <- got

ImplementsStream == Stream!FairSpec
=============================================================================
