-------------------------------- MODULE Loader --------------------------------
(***************************************************************************)
(* The training iterators of the GIDS and CIDS loaders (GIDS.py, CIDS.py)   *)
(* over the queue of outstanding requests of BaM_IOStack.                   *)
(*                                                                         *)
(*   "async"     _PrefetchingIter_async                                     *)
(*   "single"    _PrefetchingIter_async_registered_try_service, one request *)
(*               per batch                                                  *)
(*   "split"     the same iterator, Split requests per batch                *)
(*   "pipeline"  _PrefetchingIter_async_sample_io_pipeline (sampler thread)  *)
(*   "cids"      _PrefetchingIter_async_registered_try_service_cids         *)
(*   "sync"      _PrefetchingIter with the window buffer                    *)
(*   "accum"     the same with the storage access accumulator               *)
(*                                                                         *)
(* A call of the iterator is a sequence of steps, it.todo, that the table   *)
(* Warmup (the constructor) or NextCall (__next__) starts and that loops     *)
(* extend.  A step touches the stack once, so the SSDs (Complete) and the    *)
(* sampler thread interleave with the calls wherever the program lets them. *)
(* A feature row is the pair <<batch, position>> it belongs to.             *)
(***************************************************************************)
EXTENDS Naturals, Sequences, SequencesExt, FiniteSets

CONSTANTS Modes,      \* the iterators to explore
          Depths,     \* values of prefetch_depth
          Budgets,    \* values of max_registered_outstanding_ios, 0 = none
          Split,      \* submit_commands_per_batch, registered_split
          Sizes,      \* rows of a batch
          EpochLen,   \* batches of an epoch
          Epochs,     \* iterators made over one loader object
          QSize,      \* sample_io_sampled_queue_size
          WbSize,     \* wb_size of the window buffer
          Required,   \* required_accesses of the accumulator
          MaxCpu,     \* bound on prev_cpu_access
          TryWindow   \* registered_try_window_size

Registered == {"single", "split", "cids"}
Budgeted == {"single", "split"}
Synchronous == {"sync", "accum"}

ASSUME LoaderAssumption ==
    /\ Modes \subseteq Registered \cup Synchronous \cup {"async", "pipeline"}
    /\ Depths \subseteq Nat \ {0}
    /\ Budgets \subseteq Nat
    /\ Sizes \subseteq Nat \ {0}
    /\ {Split, EpochLen, Epochs, QSize, TryWindow} \subseteq Nat \ {0}
    /\ {WbSize, Required, MaxCpu} \subseteq Nat

VARIABLES
    cfg,     \* what the user chose: mode, depth, budget, and the batch sizes
    stack,   \* BaM_IOStack: outstanding_queue with the context queue
    nextId,  \* BaM_IOStack: next_request_id
    it,      \* the iterator object
    smp,     \* the sampler thread and its sampled_queue
    wb,      \* the loader's window_buffer, return_torch_buffer and counters
    drawn,   \* batches the samplers' iterators have produced
    epoch,   \* iterators made so far
    due,     \* history: batches drawn by the live iterator and not returned
    got,     \* history: the last batch returned, and the one that was due
    stale    \* history: an iterator started over requests of an earlier one

vars == <<cfg, stack, nextId, it, smp, wb, drawn, epoch, due, got, stale>>

\* The sum of the first k numbers of s: of as many things each.
SumUpTo(s, k) == Cardinality(UNION {{i} \X (1..s[i]) : i \in 1..k})
MinOf(a, b) == IF a < b THEN a ELSE b
CeilDiv(a, b) == (a + b - 1) \div b

(***************************************************************************)
(* Batches and requests                                                    *)
(***************************************************************************)
RowsOf(b) == cfg.rows[((b - 1) % EpochLen) + 1]

\* Mutant: the remainder of the division is dropped.
MutSplitSizes(n) == [i \in 1..MinOf(Split, n) |-> n \div MinOf(Split, n)]

\* _split_ranges: Split nearly equal ranges, the first ones a row longer.
SplitSizes(n) ==
    LET k == MinOf(Split, n)
    IN [i \in 1..k |-> n \div k + (IF i <= n % k THEN 1 ELSE 0)]

\* CIDS _split_batch: ranges of ceil(n / Split) rows, the last one shorter.
ChunkSizes(n) ==
    LET c == CeilDiv(n, MinOf(Split, n))
    IN [i \in 1..CeilDiv(n, c) |-> MinOf(c, n - (i - 1) * c)]

PartsOf(n) == CASE cfg.mode = "split" -> SplitSizes(n)
                [] cfg.mode = "cids" -> ChunkSizes(n)
                [] OTHER -> <<n>>

\* An entry of prefetch_queue: a batch with the requests submitted for it
\* (ids), how many of them were fetched (materialized_micro_count), how many
\* consumed, and the return tensor.
NewItem(b) ==
    LET n == RowsOf(b)
    IN [batch |-> b, parts |-> PartsOf(n), ids |-> <<>>, mat |-> 0, used |-> 0,
        polled |-> FALSE,
        rows |-> IF cfg.mode = "cids" THEN <<>> ELSE [i \in 1..n |-> <<0, 0>>]]

Full(item) == Len(item.ids) = Len(item.parts)
OwnRows(b) == [i \in 1..RowsOf(b) |-> <<b, i>>]

\* The request register_outstanding pushes for part k of a batch.
Request(item, k, id) ==
    [id |-> id, batch |-> item.batch, first |-> SumUpTo(item.parts, k - 1),
     n |-> item.parts[k], ready |-> FALSE, done |-> FALSE]

\* What the get kernel copies: the rows of the front request's contexts, as
\* many as the caller (n) or the request's own metadata asks for.
Contents(req, n) == [i \in 1..n |-> <<req.batch, req.first + i>>]

(***************************************************************************)
(* The iterator object                                                     *)
(***************************************************************************)
Warmup == [async    |-> <<"submit", "poll", "fill">>,
           single   |-> <<"submit">>,
           split    |-> <<"submit", "ensure", "fill">>,
           cids     |-> <<"fill">>,
           pipeline |-> <<"block", "poll", "get", "nowait">>,
           sync     |-> <<>>,
           accum    |-> <<>>]

\* __next__ of each iterator; the window buffer is filled once per loader.
NextCall ==
    CASE cfg.mode = "async" -> <<"poll", "get", "poll", "fill", "return">>
      [] cfg.mode = "single" -> <<"poll", "service", "get", "fill", "return">>
      [] cfg.mode = "split" -> <<"fill", "drain", "ensure", "fill", "drain",
                                 "micro", "pop", "fill", "drain", "return">>
      [] cfg.mode = "cids" -> <<"service", "take", "sub", "fill", "return">>
      [] cfg.mode = "pipeline" ->
             IF it.current = <<>> THEN <<"block", "poll", "get", "hand", "nowait", "return">>
             ELSE <<"hand", "nowait", "return">>
      [] OTHER -> IF wb.init THEN <<"wb", "read", "return">>
                  ELSE [i \in 1..WbSize |-> "wb"] \o <<"init", "wb", "read", "return">>

NewIter(mode) == [queue |-> <<>>, pend |-> <<>>, current |-> <<>>, hand |-> <<>>,
                  exhausted |-> FALSE, ios |-> 0, todo |-> Warmup[mode], out |-> "ok"]

NewSampler == [queue |-> <<>>, held |-> <<>>, ended |-> FALSE, exc |-> FALSE]

Init ==
    /\ cfg \in [mode : Modes, depth : Depths, budget : Budgets,
                rows : [1..EpochLen -> Sizes]]
    /\ cfg.mode \in Budgeted \/ cfg.budget = 0
    /\ stack = <<>> /\ nextId = 1
    /\ it = NewIter(cfg.mode)
    /\ smp = NewSampler
    /\ wb = [window |-> <<>>, tensors |-> <<>>, init |-> FALSE, iter |-> 0, cpu |-> 0]
    /\ drawn = 0 /\ epoch = 1
    /\ due = <<>> /\ got = [want |-> 0, batch |-> 0, rows |-> <<>>]
    /\ stale = FALSE

At(step) == it.todo # <<>> /\ Head(it.todo) = step
Rest == Tail(it.todo)
Goto(steps) == it' = [it EXCEPT !.todo = steps]
Before(step, steps) == <<step>> \o steps

HasMore == drawn < epoch * EpochLen
Draw == drawn' = drawn + 1 /\ due' = Append(due, drawn + 1)
NoDraw == UNCHANGED <<drawn, due>>

(***************************************************************************)
(* Submitting                                                              *)
(***************************************************************************)
\* pending_batch / pending_split_item: a batch drawn and not fully submitted.
Pending == IF it.pend # <<>> THEN it.pend
           ELSE IF it.queue # <<>> /\ ~Full(Last(it.queue)) THEN <<Last(it.queue)>>
           ELSE <<>>

Candidate == IF Pending # <<>> THEN Head(Pending) ELSE NewItem(drawn + 1)
CanDraw == Pending # <<>> \/ HasMore

\* Mutant: a request that just fills the budget is refused.
MutFitsStrict(n) == cfg.budget = 0 \/ it.ios = 0 \/ it.ios + n < cfg.budget

\* Mutant: the new request is not counted.
MutFits(n) == cfg.budget = 0 \/ it.ios <= cfg.budget

\* _can_submit_ios
Fits(n) == cfg.budget = 0 \/ it.ios = 0 \/ it.ios + n <= cfg.budget

CanSubmit == CanDraw /\ Fits(Candidate.parts[Len(Candidate.ids) + 1])

\* CIDS submits all parts of a batch, the others one request at a time.
Submitted(left) ==
    LET c == Candidate
        done == Len(c.ids)
        k == IF cfg.mode = "cids" THEN Len(c.parts) ELSE 1
        item == [c EXCEPT !.ids = @ \o [j \in 1..k |-> nextId + j - 1]]
    IN /\ stack' = stack \o [j \in 1..k |-> Request(c, done + j, nextId + j - 1)]
       /\ nextId' = nextId + k
       /\ it' = [it EXCEPT
                   !.queue = IF done = 0 THEN Append(@, item) ELSE Front(@) \o <<item>>,
                   !.pend = <<>>,
                   !.ios = IF cfg.mode \in Budgeted THEN @ + c.parts[done + 1] ELSE 0,
                   !.todo = left]
       /\ IF Pending = <<>> THEN Draw ELSE NoDraw

\* Mutant: the batch that does not fit is not kept.
MutRefused(left, out) ==
    /\ it' = [it EXCEPT !.exhausted = @ \/ ~CanDraw, !.todo = left, !.out = out]
    /\ IF CanDraw /\ Pending = <<>> THEN Draw ELSE NoDraw
    /\ UNCHANGED <<stack, nextId>>

\* StopIteration sets exhausted; a batch over the budget stays pending.
Refused(left, out) ==
    /\ it' = [it EXCEPT
                !.exhausted = @ \/ ~CanDraw,
                !.pend = IF CanDraw /\ Candidate.ids = <<>> THEN <<Candidate>> ELSE @,
                !.todo = left, !.out = out]
    /\ IF CanDraw /\ Pending = <<>> THEN Draw ELSE NoDraw
    /\ UNCHANGED <<stack, nextId>>

Submit == /\ At("submit")
          /\ IF CanSubmit THEN Submitted(Rest) ELSE Refused(Rest, "ok")
          /\ UNCHANGED <<cfg, smp, wb, epoch, got, stale>>

\* _fill_prefetch_queue: split also completes the item it has begun.
WantsMore == /\ ~it.exhausted
             /\ \/ Len(it.queue) < cfg.depth
                \/ cfg.mode = "split" /\ Pending # <<>>

Fill == /\ At("fill")
        /\ \/ ~WantsMore /\ Goto(Rest) /\ NoDraw /\ UNCHANGED <<stack, nextId>>
           \/ WantsMore /\ CanSubmit /\ Submitted(it.todo)
           \/ WantsMore /\ ~CanSubmit /\ Refused(Rest, "ok")
        /\ UNCHANGED <<cfg, smp, wb, epoch, got, stale>>

\* _ensure_front_logical_item_fully_submitted raises when the budget blocks.
FrontComplete == it.queue = <<>> \/ Full(it.queue[1])
Ensure == /\ At("ensure")
          /\ \/ FrontComplete /\ Goto(Rest) /\ NoDraw /\ UNCHANGED <<stack, nextId>>
             \/ ~FrontComplete /\ CanSubmit /\ Submitted(it.todo)
             \/ ~FrontComplete /\ ~CanSubmit /\ Refused(<<>>, "error")
          /\ UNCHANGED <<cfg, smp, wb, epoch, got, stale>>

(***************************************************************************)
(* Polling                                                                 *)
(***************************************************************************)
ReadyFront == stack # <<>> /\ stack[1].ready

\* Mutant: the last request of the item is awaited.
MutExpected == LET item == IF cfg.mode = "cids" THEN it.hand[1] ELSE it.queue[1]
               IN Last(item.ids)

\* The request the iterator is waiting for.
Expected == CASE cfg.mode = "split" -> it.queue[1].ids[it.queue[1].used + 1]
              [] cfg.mode = "cids" -> it.hand[1].ids[it.hand[1].mat + 1]
              [] OTHER -> it.queue[1].ids[1]

FrontIsExpected(s) == s # <<>> /\ s[1].ready /\ s[1].id = Expected

\* mark_front_ready when the SSDs have answered
Tried(s) == IF s # <<>> /\ s[1].done THEN [s EXCEPT ![1].ready = TRUE] ELSE s

\* service_registered_try_poll_window_skip_front, behind the guards of
\* _service_prefetch_nonblocking
Serviced(s) ==
    IF Len(s) > 1 /\ (cfg.mode = "split" \/ Len(it.queue) > 1)
    THEN [i \in DOMAIN s |-> [s[i] EXCEPT
              !.ready = @ \/ (i \in 2..(1 + TryWindow) /\ s[i].done)]]
    ELSE s

\* read_feature_single_page_single_thread_poll waits for the front contexts,
\* whichever batch they belong to.
PollUnregistered ==
    /\ At("poll") /\ cfg.mode \notin Registered
    /\ IF it.queue = <<>> \/ it.queue[1].polled
       THEN Goto(Rest)
       ELSE /\ stack[1].done
            /\ it' = [it EXCEPT !.queue[1].polled = TRUE, !.todo = Rest]
    /\ UNCHANGED <<cfg, stack, nextId, smp, wb, drawn, epoch, due, got, stale>>

\* _poll_front_request.  With one request outstanding the blocking poll is
\* called once and its answer is not compared; with more, the try loop runs
\* until the ready front is the expected request, servicing now and then.
PollTryService ==
    /\ At("poll") /\ cfg.mode \in Budgeted
    /\ \/ FrontIsExpected(stack) /\ Goto(Rest) /\ UNCHANGED stack
       \/ /\ ~FrontIsExpected(stack) /\ Len(stack) <= 1
          /\ stack[1].done
          /\ stack' = Tried(stack) /\ Goto(Rest)
       \/ /\ ~FrontIsExpected(stack) /\ Len(stack) > 1
          /\ \E serviced \in BOOLEAN :
                LET s == Tried(stack)
                IN IF FrontIsExpected(s)
                   THEN ~serviced /\ stack' = s /\ Goto(Rest)
                   ELSE stack' = (IF serviced THEN Serviced(s) ELSE s) /\ UNCHANGED it
    /\ UNCHANGED <<cfg, nextId, smp, wb, drawn, epoch, due, got, stale>>

\* CIDS _poll_request_ready: the compatible poll blocks on the front.
PollCids ==
    /\ At("poll") /\ cfg.mode = "cids"
    /\ \/ FrontIsExpected(stack) /\ Goto(Rest) /\ UNCHANGED stack
       \/ /\ ~FrontIsExpected(stack)
          /\ stack[1].done
          /\ \E serviced \in BOOLEAN :
                stack' = IF serviced THEN Serviced(Tried(stack)) ELSE Tried(stack)
          /\ IF FrontIsExpected(stack') THEN Goto(Rest) ELSE UNCHANGED it
    /\ UNCHANGED <<cfg, nextId, smp, wb, drawn, epoch, due, got, stale>>

Service == /\ At("service")
           /\ stack' = Serviced(stack) /\ Goto(Rest)
           /\ UNCHANGED <<cfg, nextId, smp, wb, drawn, epoch, due, got, stale>>

(***************************************************************************)
(* Fetching: every get pops the front of the stack (pop_ctxs)               *)
(***************************************************************************)
\* fetch_feature_get_feature_light reads with the caller's index,
\* ..._registered_rowctx with the index the request was registered with.
Get ==
    /\ At("get")
    /\ IF it.queue = <<>>
       THEN Goto(Rest) /\ UNCHANGED stack
       ELSE LET item == Head(it.queue)
                n == IF cfg.mode = "single" THEN stack[1].n ELSE RowsOf(item.batch)
                full == [item EXCEPT !.rows = Contents(stack[1], n), !.mat = 1]
            IN /\ stack' = Tail(stack)
               /\ it' = [it EXCEPT
                    !.queue = Tail(@),
                    !.hand = IF cfg.mode = "pipeline" THEN @ ELSE <<full>>,
                    !.current = IF cfg.mode = "pipeline" THEN <<full>> ELSE @,
                    !.ios = IF @ < item.parts[1] THEN 0 ELSE @ - item.parts[1],
                    !.todo = Rest]
    /\ UNCHANGED <<cfg, nextId, smp, wb, drawn, epoch, due, got, stale>>

\* Mutant: the part is copied and not counted as materialized.
MutWithPart(item) == [item EXCEPT !.rows = Contents(stack[1], stack[1].n)]

\* _materialize_split_micro: the part is copied into its slice.
WithPart(item) ==
    LET k == item.mat + 1
        first == SumUpTo(item.parts, k - 1)
        part == Contents(stack[1], stack[1].n)
    IN [item EXCEPT !.mat = k,
            !.rows = [i \in DOMAIN @ |->
                         IF i \in (first + 1)..(first + item.parts[k])
                         THEN part[i - first] ELSE @[i]]]

Materialized(i) ==
    [it EXCEPT !.queue[i] = WithPart(@),
               !.ios = LET n == it.queue[i].parts[it.queue[i].mat + 1]
                       IN IF @ < n THEN 0 ELSE @ - n]

\* _front_pending_split_request
PendingParts == {i \in DOMAIN it.queue : it.queue[i].mat < Len(it.queue[i].ids)}
FrontPending == CHOOSE i \in PendingParts : \A j \in PendingParts : i <= j

\* _drain_ready_front_split_prefix
Drainable == /\ PendingParts # {} /\ ReadyFront
             /\ LET item == it.queue[FrontPending]
                IN stack[1].id = item.ids[item.mat + 1]

Drain == /\ At("drain")
         /\ \/ ~Drainable /\ Goto(Rest) /\ UNCHANGED stack
            \/ Drainable /\ it' = Materialized(FrontPending) /\ stack' = Tail(stack)
         /\ UNCHANGED <<cfg, nextId, smp, wb, drawn, epoch, due, got, stale>>

\* The loop of _consume_front_split: a cached part is used at once, another
\* is polled and fetched; between two parts the queue is filled and drained.
Between(item, left) ==
    IF item.used + 1 < Len(item.parts) THEN Before("fill", Before("drain", left)) ELSE left

Micro ==
    LET item == it.queue[1]
    IN /\ At("micro")
       /\ \/ item.used = Len(item.parts) /\ Goto(Rest)
          \/ /\ item.used < item.mat
             /\ it' = [it EXCEPT !.queue[1].used = @ + 1,
                                 !.todo = Between(item, @)]
          \/ /\ item.used = item.mat /\ item.used < Len(item.parts)
             /\ Goto(Before("poll", Before("mat", it.todo)))
       /\ UNCHANGED <<cfg, stack, nextId, smp, wb, drawn, epoch, due, got, stale>>

MatFront ==
    /\ At("mat")
    /\ it' = [Materialized(1) EXCEPT !.queue[1].used = @ + 1,
                                     !.todo = Between(it.queue[1], Rest)]
    /\ stack' = Tail(stack)
    /\ UNCHANGED <<cfg, nextId, smp, wb, drawn, epoch, due, got, stale>>

\* Both loops hold the front item: split pops it last, CIDS first.
PopFront ==
    /\ At("pop") \/ At("take")
    /\ it' = [it EXCEPT !.queue = Tail(@), !.hand = <<Head(it.queue)>>, !.todo = Rest]
    /\ UNCHANGED <<cfg, stack, nextId, smp, wb, drawn, epoch, due, got, stale>>

\* CIDS: one sub-request at a time, concatenated by _merge_return_batches.
SubBatch ==
    /\ At("sub")
    /\ Goto(IF Full(it.hand[1]) /\ it.hand[1].mat = Len(it.hand[1].ids) THEN Rest
            ELSE Before("poll", Before("cat", Before("service", Before("fill", it.todo)))))
    /\ UNCHANGED <<cfg, stack, nextId, smp, wb, drawn, epoch, due, got, stale>>

Concat ==
    /\ At("cat")
    /\ it' = [it EXCEPT !.hand[1].rows = @ \o Contents(stack[1], stack[1].n),
                        !.hand[1].mat = @ + 1, !.todo = Rest]
    /\ stack' = Tail(stack)
    /\ UNCHANGED <<cfg, nextId, smp, wb, drawn, epoch, due, got, stale>>

(***************************************************************************)
(* The pipeline iterator and its sampler thread                             *)
(***************************************************************************)
Sentinel == 0

\* _sampler_loop: next(dataloader_it) yields, ends or throws ...
SamplerNext ==
    /\ cfg.mode = "pipeline" /\ ~smp.ended /\ smp.held = <<>>
    /\ \/ HasMore /\ smp' = [smp EXCEPT !.held = <<drawn + 1>>] /\ Draw
       \/ ~HasMore /\ smp' = [smp EXCEPT !.held = <<Sentinel>>, !.ended = TRUE] /\ NoDraw
       \/ /\ smp' = [smp EXCEPT !.held = <<Sentinel>>, !.ended = TRUE, !.exc = TRUE]
          /\ NoDraw
    /\ UNCHANGED <<cfg, stack, nextId, it, wb, epoch, got, stale>>

\* ... and put waits for room.
SamplerPut ==
    /\ smp.held # <<>> /\ Len(smp.queue) < QSize
    /\ smp' = [smp EXCEPT !.queue = @ \o smp.held, !.held = <<>>]
    /\ UNCHANGED <<cfg, stack, nextId, it, wb, drawn, epoch, due, got, stale>>

\* _submit_prefetch_blocking and ..._nonblocking: the sentinel ends the
\* epoch or raises the sampler's exception in the training thread.
TakeSampled ==
    LET b == Head(smp.queue)
        item == [NewItem(b) EXCEPT !.ids = <<nextId>>]
    IN /\ smp.queue # <<>>
       /\ smp' = [smp EXCEPT !.queue = Tail(@)]
       /\ IF b = Sentinel
          THEN /\ it' = [it EXCEPT !.exhausted = TRUE,
                                   !.hand = IF smp.exc THEN <<>> ELSE @,
                                   !.todo = IF smp.exc THEN <<>> ELSE Rest,
                                   !.out = IF smp.exc THEN "error" ELSE @]
               /\ UNCHANGED <<stack, nextId>>
          ELSE /\ it' = [it EXCEPT !.queue = <<item>>, !.todo = Rest]
               /\ stack' = Append(stack, Request(item, 1, nextId))
               /\ nextId' = nextId + 1

SubmitSampled ==
    LET idle == it.exhausted \/ it.queue # <<>>
    IN /\ At("block") \/ At("nowait")
       /\ \/ ~idle /\ TakeSampled
          \/ /\ idle \/ (At("nowait") /\ smp.queue = <<>>)
             /\ Goto(Rest) /\ UNCHANGED <<stack, nextId, smp>>
       /\ UNCHANGED <<cfg, wb, drawn, epoch, due, got, stale>>

\* __next__ takes current_batch, or raises StopIteration when there is none.
Hand ==
    /\ At("hand")
    /\ it' = IF it.current = <<>>
             THEN [it EXCEPT !.todo = <<>>, !.out = "stop"]
             ELSE [it EXCEPT !.hand = it.current, !.current = <<>>, !.todo = Rest]
    /\ UNCHANGED <<cfg, stack, nextId, smp, wb, drawn, epoch, due, got, stale>>

(***************************************************************************)
(* fetch_feature: the window buffer and the accumulator                     *)
(***************************************************************************)
\* A batch is drawn into the window; StopIteration leaves the call.
Window(left) ==
    \/ /\ HasMore /\ Draw
       /\ wb' = [wb EXCEPT !.window = Append(@, drawn + 1)]
       /\ Goto(left)
    \/ /\ ~HasMore /\ NoDraw
       /\ it' = [it EXCEPT !.todo = <<>>, !.out = "stop"]
       /\ UNCHANGED wb

FillWindow == /\ At("wb") /\ Window(Rest)
              /\ UNCHANGED <<cfg, stack, nextId, smp, epoch, got, stale>>

WindowFilled == /\ At("init") /\ Goto(Rest)
                /\ wb' = [wb EXCEPT !.init = TRUE]
                /\ UNCHANGED <<cfg, stack, nextId, smp, drawn, epoch, due, got, stale>>

\* The head of the window with its tensor, read now or by an earlier merge.
Handed(rows) == [it EXCEPT !.hand = <<[NewItem(Head(wb.window)) EXCEPT !.rows = rows]>>,
                           !.todo = Rest]

Read ==
    /\ At("read")
    /\ \/ /\ cfg.mode = "sync"
          /\ it' = Handed(OwnRows(Head(wb.window)))
          /\ wb' = [wb EXCEPT !.window = Tail(@)]
       \/ /\ cfg.mode = "accum" /\ wb.tensors # <<>>
          /\ it' = Handed(Head(wb.tensors))
          /\ wb' = [wb EXCEPT !.window = Tail(@), !.tensors = Tail(@)]
       \/ /\ cfg.mode = "accum" /\ wb.tensors = <<>>
          /\ Goto(Before("acc", it.todo))
          /\ wb' = [wb EXCEPT !.iter = 0]
    /\ UNCHANGED <<cfg, stack, nextId, smp, drawn, epoch, due, got, stale>>

\* Batches are added until their accesses exceed what the SSDs need, then
\* read_feature_merged reads them all.
Accesses == SumUpTo([i \in DOMAIN wb.window |-> RowsOf(wb.window[i])], wb.iter)
Enough == wb.iter > 0 /\ Accesses > Required + wb.iter * wb.cpu

Accumulate ==
    /\ At("acc")
    /\ \/ ~Enough /\ wb.iter >= Len(wb.window) /\ Window(it.todo)
       \/ /\ ~Enough /\ wb.iter < Len(wb.window) /\ NoDraw
          /\ wb' = [wb EXCEPT !.iter = @ + 1] /\ UNCHANGED it
       \/ /\ Enough /\ NoDraw
          /\ \E c \in 0..MaxCpu :
                wb' = [wb EXCEPT !.cpu = c,
                         !.tensors = [i \in 1..wb.iter |-> OwnRows(wb.window[i])]]
          /\ Goto(Rest)
    /\ UNCHANGED <<cfg, stack, nextId, smp, epoch, got, stale>>

(***************************************************************************)
(* The training loop                                                       *)
(***************************************************************************)
Return ==
    /\ At("return")
    /\ got' = [want |-> Head(due), batch |-> it.hand[1].batch, rows |-> it.hand[1].rows]
    /\ due' = Tail(due)
    /\ it' = [it EXCEPT !.hand = <<>>, !.todo = Rest]
    /\ UNCHANGED <<cfg, stack, nextId, smp, wb, drawn, epoch, stale>>

Prefetching == cfg.mode \notin Synchronous \cup {"pipeline"}
\* Mutant: StopIteration as soon as the sampler has ended.
MutFinished == Prefetching /\ it.exhausted

Finished == Prefetching /\ it.queue = <<>> /\ it.exhausted

Call == /\ it.todo = <<>> /\ it.out = "ok"
        /\ it' = IF Finished THEN [it EXCEPT !.out = "stop"]
                 ELSE [it EXCEPT !.todo = NextCall]
        /\ UNCHANGED <<cfg, stack, nextId, smp, wb, drawn, epoch, due, got, stale>>

\* iter(dataloader) makes a new iterator over the same loader object: after
\* StopIteration, or when the training loop breaks out of an epoch.  What
\* the old one left in the stack and in the window buffer stays.
NewEpoch ==
    /\ it.todo = <<>> /\ it.out \in {"ok", "stop"} /\ epoch < Epochs
    /\ epoch' = epoch + 1 /\ drawn' = epoch * EpochLen
    /\ it' = NewIter(cfg.mode) /\ smp' = NewSampler
    /\ due' = IF cfg.mode \in Synchronous THEN due ELSE <<>>
    /\ stale' = (stale \/ stack # <<>>)
    /\ UNCHANGED <<cfg, stack, nextId, wb, got>>

\* The SSDs answer outstanding requests in any order.
Complete == /\ \E i \in DOMAIN stack : /\ ~stack[i].done
                                       /\ stack' = [stack EXCEPT ![i].done = TRUE]
            /\ UNCHANGED <<cfg, nextId, it, smp, wb, drawn, epoch, due, got, stale>>

\* Training is over: the last epoch has ended or a call has raised.
Over == /\ it.todo = <<>>
        /\ it.out = "error" \/ (it.out = "stop" /\ epoch = Epochs)
        /\ UNCHANGED vars

IterStep == Submit \/ Fill \/ Ensure \/ PollUnregistered \/ PollTryService \/ PollCids
            \/ Service \/ Get \/ Drain \/ Micro \/ MatFront \/ PopFront \/ SubBatch
            \/ Concat \/ SubmitSampled \/ Hand \/ FillWindow \/ WindowFilled \/ Read
            \/ Accumulate \/ Return

Next == IterStep \/ Call \/ NewEpoch \/ SamplerNext \/ SamplerPut \/ Complete \/ Over

\* A call in progress runs, the SSDs answer, the sampler thread is scheduled;
\* nothing obliges the training loop to make another call.
Spec == Init /\ [][Next]_vars
FairSpec == /\ Spec
            /\ WF_vars(IterStep) /\ WF_vars(Complete)
            /\ WF_vars(SamplerNext) /\ WF_vars(SamplerPut)

(***************************************************************************)
(* Properties                                                              *)
(***************************************************************************)
InHand == it.hand \o it.queue
Unfetched(item) == {item.ids[k] : k \in (item.mat + 1)..Len(item.ids)}

\* The requests of the items are in the order of their identifiers.
Numbered(items) ==
    \A i, j \in DOMAIN items :
        \A a \in DOMAIN items[i].ids, b \in DOMAIN items[j].ids :
            i < j \/ (i = j /\ a < b) => items[i].ids[a] < items[j].ids[b]

\* prefetch_queue and outstanding_queue stay in step: the stack holds, in
\* order, the requests of the iterator's items that were not fetched yet, and
\* a get finds the request it is for at the front, answered (the C++ side
\* would throw or hand out another batch's rows).
InStep ==
    /\ Numbered(InHand)
    /\ \A i, j \in DOMAIN stack : i < j => stack[i].id < stack[j].id
    /\ stale \/ {stack[i].id : i \in DOMAIN stack}
                  = UNION {Unfetched(InHand[i]) : i \in DOMAIN InHand}
    /\ cfg.mode \in Registered /\ (At("get") \/ At("mat") \/ At("cat"))
         => FrontIsExpected(stack)
    /\ At("get") /\ it.queue # <<>> => stack[1].done

\* Every __next__ returns the batch that was due with exactly its own rows,
\* in the batch's order, whatever the order the SSDs answered in and however
\* the batch was split; unless an earlier iterator left requests behind.
ReturnsOwn == stale \/ got.want = 0
              \/ (got.batch = got.want /\ got.rows = OwnRows(got.want))

\* No batch the sampler produced is dropped or duplicated between the queues:
\* pending_batch, prefetch_queue, current_batch, sampled_queue, the window.
BatchesOf(s) == [i \in DOMAIN s |-> s[i].batch]
Sampled == LET s == smp.queue \o smp.held
           IN IF s # <<>> /\ Last(s) = Sentinel THEN Front(s) ELSE s
NoBatchLost ==
    it.out = "error" \/
    due = BatchesOf(it.hand)
          \o (IF cfg.mode \in Synchronous THEN wb.window
              ELSE BatchesOf(it.current) \o BatchesOf(it.queue) \o BatchesOf(it.pend)
                   \o Sampled)

\* Outside the window buffer, StopIteration comes only when the sampler has
\* ended and every batch of the epoch was returned.
EpochComplete == it.out = "stop" /\ cfg.mode \notin Synchronous
                 => due = <<>> /\ ~HasMore

\* outstanding_io_count is the number of rows outstanding in the stack and
\* respects max_registered_outstanding_ios, but for one request on its own;
\* no iterator prefetches more than prefetch_depth batches.
OutstandingRows == UNION {{stack[i].id} \X (1..stack[i].n) : i \in DOMAIN stack}
BudgetKept ==
    /\ Len(it.queue) <= cfg.depth
    /\ cfg.mode \in Budgeted /\ ~stale =>
          /\ it.ios = Cardinality(OutstandingRows)
          /\ cfg.budget = 0 \/ it.ios <= cfg.budget \/ Len(stack) = 1

\* The RuntimeError of _ensure_front_logical_item_fully_submitted is raised
\* only for a batch larger than the budget: the rows of earlier batches that
\* are still outstanding never cause it.
RaisesOnlyOversize ==
    it.out = "error" => smp.exc \/ RowsOf(it.queue[1].batch) > cfg.budget

\* A call of the constructor or of __next__ returns or raises: no poll waits
\* for a request that will not come to the front, no thread waits for ever on
\* sampled_queue.
NextReturns == (it.todo # <<>> /\ ~stale) ~> (it.todo = <<>>)

\* What debug.md says of the asynchronous path: its results are those of the
\* synchronous read.  Also in the epoch after one the training loop left with
\* a break, as the training scripts do.
AsyncEqualsSync == got.want = 0 \/ got.rows = OwnRows(got.batch)
=============================================================================
