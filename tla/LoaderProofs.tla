---------------------------- MODULE LoaderProofs ----------------------------
(***************************************************************************)
(* Proofs about Loader: the steps of each iterator, and of all of them,    *)
(* keep the invariant of LoaderLemmas; the safety properties follow.       *)
(***************************************************************************)
EXTENDS LoaderLemmas

(***************************************************************************)
(* The pipeline iterator                                                   *)
(***************************************************************************)
LEMMA PipelinePrograms ==
    /\ \A t \in {<<"block", "poll", "get", "nowait">>, <<"poll", "get", "nowait">>,
                 <<"get", "nowait">>, <<"nowait">>,
                 <<"block", "poll", "get", "hand", "nowait", "return">>,
                 <<"poll", "get", "hand", "nowait", "return">>,
                 <<"get", "hand", "nowait", "return">>, <<"hand", "nowait", "return">>} :
         t \in WarmTodo("pipeline") \cup PreTodo("pipeline") /\ t \in Seq(StepNames)
    /\ \A t \in {<<"nowait", "return">>, <<"return">>} :
         t \in PostTodo("pipeline") /\ t \in Seq(StepNames)
    /\ <<>> \in Seq(StepNames)
<1>1. /\ WarmTodo("pipeline") = {<<"block", "poll", "get", "nowait">>, <<"poll", "get", "nowait">>,
                                 <<"get", "nowait">>, <<"nowait">>}
      /\ PreTodo("pipeline") = {<<"block", "poll", "get", "hand", "nowait", "return">>,
                                <<"poll", "get", "hand", "nowait", "return">>,
                                <<"get", "hand", "nowait", "return">>,
                                <<"hand", "nowait", "return">>}
      /\ PostTodo("pipeline") = {<<"nowait", "return">>, <<"return">>}
  BY DEF WarmTodo, PreTodo, PostTodo
<1>2. /\ <<"block", "poll", "get", "nowait">> \in Seq(StepNames)
      /\ <<"poll", "get", "nowait">> \in Seq(StepNames)
      /\ <<"get", "nowait">> \in Seq(StepNames) /\ <<"nowait">> \in Seq(StepNames)
      /\ <<"block", "poll", "get", "hand", "nowait", "return">> \in Seq(StepNames)
      /\ <<"poll", "get", "hand", "nowait", "return">> \in Seq(StepNames)
      /\ <<"get", "hand", "nowait", "return">> \in Seq(StepNames)
      /\ <<"hand", "nowait", "return">> \in Seq(StepNames)
      /\ <<"nowait", "return">> \in Seq(StepNames) /\ <<"return">> \in Seq(StepNames)
      /\ <<>> \in Seq(StepNames)
  BY DEF StepNames
<1> QED BY <1>1, <1>2, Zenon

\* Where the iterator is, and what it goes to.
PipelineAt(current, queue, exhausted) ==
    \/ /\ At("block") /\ current = <<>>
       /\ Rest = <<"poll", "get", "nowait">> \/ Rest = <<"poll", "get", "hand", "nowait", "return">>
    \/ /\ At("poll") /\ current = <<>> /\ Supplied
       /\ Rest = <<"get", "nowait">> \/ Rest = <<"get", "hand", "nowait", "return">>
    \/ /\ At("get") /\ current = <<>> /\ Supplied /\ (queue # <<>> => queue[1].polled)
       /\ Rest = <<"nowait">> \/ Rest = <<"hand", "nowait", "return">>
    \/ At("nowait") /\ Rest = <<>>
    \/ /\ At("hand") /\ (current # <<>> \/ (queue = <<>> /\ exhausted))
       /\ Rest = <<"nowait", "return">>

LEMMA PipelineLabels ==
    ASSUME LoaderInv, cfg.mode = "pipeline"
    PROVE \/ it.todo = <<>> /\ it.hand = <<>>
          \/ /\ it.out = "ok" /\ it.hand = <<>> /\ it.todo # <<>>
             /\ PipelineAt(it.current, it.queue, it.exhausted)
          \/ /\ it.out = "ok" /\ Len(it.hand) = 1 /\ it.todo # <<>>
             /\ (At("nowait") /\ Rest = <<"return">>) \/ (At("return") /\ Rest = <<>>)
<1>1. PipelinePhase
  BY DEF LoaderInv, PipelineInv
<1>2. CASE /\ it.todo \in WarmTodo("pipeline") \cup PreTodo("pipeline")
           /\ it.out = "ok" /\ it.hand = <<>>
           /\ At("block") \/ At("poll") \/ At("get") => it.current = <<>>
           /\ At("poll") \/ At("get") => Supplied
           /\ At("get") /\ it.queue # <<>> => it.queue[1].polled
           /\ At("hand") => it.current # <<>> \/ (it.queue = <<>> /\ it.exhausted)
  <2> DEFINE t == it.todo
  <2>1. t # <<>> /\
       (\/ /\ Head(t) = "block"
           /\ Tail(t) = <<"poll", "get", "nowait">> \/ Tail(t) = <<"poll", "get", "hand", "nowait", "return">>
        \/ /\ Head(t) = "poll"
           /\ Tail(t) = <<"get", "nowait">> \/ Tail(t) = <<"get", "hand", "nowait", "return">>
        \/ /\ Head(t) = "get"
           /\ Tail(t) = <<"nowait">> \/ Tail(t) = <<"hand", "nowait", "return">>
        \/ Head(t) = "nowait" /\ Tail(t) = <<>>
        \/ Head(t) = "hand" /\ Tail(t) = <<"nowait", "return">>)
    BY <1>2, PipelineStepsWarm, PipelineStepsPre, Zenon
  <2>2. At(Head(t)) /\ Rest = Tail(t)
    BY <2>1 DEF At, Rest
  <2> QED BY <1>2, <2>1, <2>2, Zenon DEF PipelineAt
<1>3. CASE it.todo \in PostTodo("pipeline") /\ it.out = "ok" /\ Len(it.hand) = 1
  <2> DEFINE t == it.todo
  <2>1. t # <<>> /\ (\/ Head(t) = "nowait" /\ Tail(t) = <<"return">>
                     \/ Head(t) = "return" /\ Tail(t) = <<>>)
    BY <1>3, PipelineStepsPost, Zenon
  <2>2. At(Head(t)) /\ Rest = Tail(t)
    BY <2>1 DEF At, Rest
  <2> QED BY <1>3, <2>1, <2>2, Zenon
<1> QED BY <1>1, <1>2, <1>3, Zenon DEF PipelinePhase

LEMMA PipelineFacts ==
    ASSUME LoaderInv, cfg.mode = "pipeline"
    PROVE /\ cfg.mode \in Queued /\ cfg.mode \in OnePart
          /\ PipelinePhase /\ Sampler
          /\ it.pend = <<>> /\ Len(it.queue) <= 1 /\ Len(it.current) <= 1
          /\ it.out # "error" => PipelineDue
          /\ it.out = "stop" => it.exhausted /\ it.current = <<>>
          /\ it.out = "error" => smp.exc
<1>1. PipelineInv
  BY Zenon DEF LoaderInv
<1> QED BY <1>1 DEF PipelineInv, Queued, OnePart

LEMMA PipelineNext ==
    ASSUME cfg' = cfg, cfg.mode = "pipeline", TypeOK', Numbering', QueueInv', ReturnsOwn',
           PipelinePhase', Sampler', it'.pend = <<>>, Len(it'.queue) <= 1, Len(it'.current) <= 1,
           it'.out # "error" => PipelineDue',
           it'.out = "stop" => it'.exhausted /\ it'.current = <<>>,
           it'.out = "error" => smp'.exc
    PROVE LoaderInv'
<1>1. PipelineInv'
  BY DEF PipelineInv
<1>2. ~(cfg.mode \in Prefetched)'
  BY DEF Prefetched
<1>3. PrefetchInv'
  BY <1>2, Zenon DEF PrefetchInv
<1>4. cfg.mode \in Queued
  BY DEF Queued
<1> QED BY <1>1, <1>3, <1>4, QueuedNext, Zenon

LEMMA PipelineDueSame ==
    ASSUME PipelineDue, it'.hand = it.hand, it'.current = it.current, it'.queue = it.queue,
           it'.exhausted = it.exhausted, smp' = smp, due' = due
    PROVE PipelineDue'
  BY Zenon DEF PipelineDue

LEMMA SamplerSame ==
    ASSUME Sampler, it'.queue = it.queue, it'.exhausted = it.exhausted, smp' = smp,
           drawn' = drawn, epoch' = epoch, it'.out = it.out \/ it'.out = "error"
                                           \/ ~(it.exhausted /\ smp.exc)
    PROVE Sampler'
  BY DEF Sampler, HasMore

\* A step that only moves on.
PipelineMoves(t, o) ==
    /\ it' = [it EXCEPT !.todo = t, !.out = o] /\ t \in Seq(StepNames)
    /\ UNCHANGED <<cfg, stack, nextId, smp, wb, drawn, epoch, due, got, stale>>
    /\ PipelinePhase' /\ it.out = "ok"
    /\ o = "ok" \/ (o = "stop" /\ it.exhausted /\ it.current = <<>>)

LEMMA PipelineMoved ==
    ASSUME LoaderInv, cfg.mode = "pipeline", NEW t, NEW o, PipelineMoves(t, o)
    PROVE LoaderInv'
<1>1. /\ TypeOK /\ Numbering /\ QueueInv /\ ReturnsOwn /\ cfg.mode \in Queued
      /\ PipelinePhase /\ Sampler
      /\ it.pend = <<>> /\ Len(it.queue) <= 1 /\ Len(it.current) <= 1
      /\ it.out # "error" => PipelineDue
  BY PipelineFacts, QueuedFacts
<1>2. it \in Iterator
  BY <1>1, QueuedFacts
<1>3. /\ cfg' = cfg /\ stack' = stack /\ nextId' = nextId /\ smp' = smp /\ wb' = wb
      /\ drawn' = drawn /\ epoch' = epoch /\ due' = due /\ got' = got /\ stale' = stale
  BY DEF PipelineMoves
<1>4. /\ it' = [it EXCEPT !.todo = t, !.out = o] /\ t \in Seq(StepNames)
      /\ o \in {"ok", "stop"} /\ it.out = "ok" /\ (o = "stop" => it.exhausted /\ it.current = <<>>)
  BY DEF PipelineMoves
<1>5. /\ it'.queue = it.queue /\ it'.pend = it.pend /\ it'.current = it.current
      /\ it'.hand = it.hand /\ it'.exhausted = it.exhausted /\ it'.ios = it.ios
      /\ it'.out = o
  BY <1>2, <1>4 DEF Iterator
<1>6. it' \in Iterator
  BY <1>2, <1>4 DEF Iterator
<1>7. TypeOK'
  BY <1>1, <1>3, <1>6 DEF TypeOK
<1>8. SameRequests /\ SameItems
  BY <1>1, <1>3, <1>5, StackSame DEF SameItems
<1>9. QueueInv' /\ Numbering'
  BY <1>1, <1>8, QueueSame
<1>10. Sampler'
  <2>1. it.exhausted /\ smp.exc => it.out = "error"
    BY <1>1, Zenon DEF Sampler
  <2>2. ~(it.exhausted /\ smp.exc)
    BY <1>4, <2>1
  <2> QED BY <1>1, <1>3, <1>5, <2>2, SamplerSame, Zenon
<1>11. PipelineDue'
  <2>1. PipelineDue
    BY <1>1, <1>4
  <2> QED BY <1>3, <1>5, <2>1, PipelineDueSame, Zenon
<1>12. ReturnsOwn'
  BY <1>1, <1>3, SameReturns
<1>13. PipelinePhase'
  BY DEF PipelineMoves
<1> QED BY <1>1, <1>3, <1>4, <1>5, <1>7, <1>9, <1>10, <1>11, <1>12, <1>13, PipelineNext

LEMMA PipelineActions ==
    ASSUME LoaderInv, cfg.mode = "pipeline", Next
    PROVE PollUnregistered \/ Get \/ SubmitSampled \/ Hand \/ Return
          \/ SamplerNext \/ SamplerPut \/ Call \/ NewEpoch \/ Complete \/ Over
<1>1. \/ At("block") \/ At("poll") \/ At("get") \/ At("nowait") \/ At("hand") \/ At("return")
      \/ it.todo = <<>>
  BY PipelineLabels, Zenon DEF PipelineAt
<1>2. ~At("submit") /\ ~At("fill") /\ ~At("ensure") /\ ~At("service")
      /\ ~At("drain") /\ ~At("micro") /\ ~At("mat") /\ ~At("pop") /\ ~At("take")
      /\ ~At("sub") /\ ~At("cat") /\ ~At("wb") /\ ~At("init") /\ ~At("read") /\ ~At("acc")
  BY <1>1 DEF At
<1>3. ~(cfg.mode \in Budgeted) /\ cfg.mode # "cids"
  BY DEF Budgeted
<1>4. IterStep => PollUnregistered \/ Get \/ SubmitSampled \/ Hand \/ Return
  BY <1>2, <1>3, ActionSteps, Zenon DEF IterStep
<1> QED BY <1>4, Zenon DEF Next

LEMMA PipelineHeads ==
    /\ \A t \in {<<"block", "poll", "get", "nowait">>,
                 <<"block", "poll", "get", "hand", "nowait", "return">>} :
         t # <<>> /\ Head(t) = "block"
    /\ \A t \in {<<"poll", "get", "nowait">>, <<"poll", "get", "hand", "nowait", "return">>} :
         t # <<>> /\ Head(t) = "poll"
    /\ \A t \in {<<"get", "nowait">>, <<"get", "hand", "nowait", "return">>} :
         t # <<>> /\ Head(t) = "get"
    /\ <<"nowait">> # <<>> /\ Head(<<"nowait">>) = "nowait"
    /\ <<"hand", "nowait", "return">> # <<>> /\ Head(<<"hand", "nowait", "return">>) = "hand"
  OBVIOUS

\* The phases, by the step the iterator goes to.
LEMMA PhaseRest == ASSUME it'.todo = <<>>, it'.hand = <<>> PROVE PipelinePhase'
  BY DEF PipelinePhase

LEMMA PhasePost ==
    ASSUME it'.todo \in {<<"nowait", "return">>, <<"return">>}, it'.out = "ok", Len(it'.hand) = 1
    PROVE PipelinePhase'
  BY PipelinePrograms, Zenon DEF PipelinePhase

LEMMA PhasePoll ==
    ASSUME it'.todo \in {<<"poll", "get", "nowait">>, <<"poll", "get", "hand", "nowait", "return">>},
           it'.out = "ok", it'.hand = <<>>, it'.current = <<>>, it'.queue # <<>> \/ it'.exhausted
    PROVE PipelinePhase'
<1>1. it'.todo \in WarmTodo("pipeline") \cup PreTodo("pipeline")
  BY PipelinePrograms, Zenon
<1>2. Head(it'.todo) = "poll"
  BY PipelineHeads, Zenon
<1>3. ~At("get")' /\ ~At("hand")'
  BY <1>2 DEF At
<1>4. Supplied'
  BY DEF Supplied
<1> QED BY <1>1, <1>3, <1>4, Zenon DEF PipelinePhase

LEMMA PhaseGet ==
    ASSUME it'.todo \in {<<"get", "nowait">>, <<"get", "hand", "nowait", "return">>},
           it'.out = "ok", it'.hand = <<>>, it'.current = <<>>, it'.queue # <<>> \/ it'.exhausted,
           it'.queue # <<>> => it'.queue[1].polled
    PROVE PipelinePhase'
<1>1. it'.todo \in WarmTodo("pipeline") \cup PreTodo("pipeline")
  BY PipelinePrograms, Zenon
<1>2. Head(it'.todo) = "get"
  BY PipelineHeads, Zenon
<1>3. ~At("hand")'
  BY <1>2 DEF At
<1>4. Supplied'
  BY DEF Supplied
<1> QED BY <1>1, <1>3, <1>4, Zenon DEF PipelinePhase

LEMMA PhaseHand ==
    ASSUME it'.todo \in {<<"nowait">>, <<"hand", "nowait", "return">>},
           it'.out = "ok", it'.hand = <<>>,
           it'.current # <<>> \/ (it'.queue = <<>> /\ it'.exhausted)
    PROVE PipelinePhase'
<1>1. it'.todo \in WarmTodo("pipeline") \cup PreTodo("pipeline")
  BY PipelinePrograms, Zenon
<1>2. Head(it'.todo) = "nowait" \/ Head(it'.todo) = "hand"
  BY PipelineHeads, Zenon
<1>3. ~At("block")' /\ ~At("poll")' /\ ~At("get")'
  BY <1>2 DEF At
<1> QED BY <1>1, <1>3, Zenon DEF PipelinePhase

LEMMA PhaseBlock ==
    ASSUME it'.todo \in {<<"block", "poll", "get", "nowait">>,
                         <<"block", "poll", "get", "hand", "nowait", "return">>},
           it'.out = "ok", it'.hand = <<>>, it'.current = <<>>
    PROVE PipelinePhase'
<1>1. it'.todo \in WarmTodo("pipeline") \cup PreTodo("pipeline")
  BY PipelinePrograms, Zenon
<1>2. Head(it'.todo) = "block"
  BY PipelineHeads, Zenon
<1>3. ~At("poll")' /\ ~At("get")' /\ ~At("hand")'
  BY <1>2 DEF At
<1> QED BY <1>1, <1>3, Zenon DEF PipelinePhase

\* Where a step is, one at a time.
LEMMA PipelineIs ==
    ASSUME LoaderInv, cfg.mode = "pipeline"
    PROVE /\ it.todo # <<>> => it.out = "ok"
          /\ it.todo = <<>> => it.hand = <<>>
          /\ At("block") => /\ it.hand = <<>> /\ it.current = <<>>
                            /\ Rest \in {<<"poll", "get", "nowait">>,
                                         <<"poll", "get", "hand", "nowait", "return">>}
          /\ At("poll") => /\ it.hand = <<>> /\ it.current = <<>> /\ Supplied
                           /\ Rest \in {<<"get", "nowait">>, <<"get", "hand", "nowait", "return">>}
          /\ At("get") => /\ it.hand = <<>> /\ it.current = <<>> /\ Supplied
                          /\ it.queue # <<>> => it.queue[1].polled
                          /\ Rest \in {<<"nowait">>, <<"hand", "nowait", "return">>}
          /\ At("nowait") => \/ it.hand = <<>> /\ Rest = <<>>
                             \/ Len(it.hand) = 1 /\ Rest = <<"return">>
          /\ At("hand") => /\ it.hand = <<>> /\ Rest = <<"nowait", "return">>
                           /\ it.current # <<>> \/ (it.queue = <<>> /\ it.exhausted)
          /\ At("return") => Len(it.hand) = 1 /\ Rest = <<>>
<1>1. CASE it.todo = <<>> /\ it.hand = <<>>
  BY <1>1 DEF At
<1>2. CASE /\ it.out = "ok" /\ it.hand = <<>> /\ it.todo # <<>>
           /\ PipelineAt(it.current, it.queue, it.exhausted)
  <2>1. ~At("return")
    BY <1>2 DEF PipelineAt, At
  <2>2. \A a, b : At(a) /\ At(b) => a = b
    BY DEF At
  <2>3. Rest # <<"return">>  \/ ~At("nowait")
    BY <1>2, <2>2 DEF PipelineAt
  <2>4. CASE At("block")
    BY <1>2, <2>2, <2>4 DEF PipelineAt
  <2>5. CASE At("poll")
    BY <1>2, <2>2, <2>5 DEF PipelineAt
  <2>6. CASE At("get")
    BY <1>2, <2>2, <2>6 DEF PipelineAt
  <2>7. CASE At("nowait")
    BY <1>2, <2>2, <2>7 DEF PipelineAt
  <2>8. CASE At("hand")
    BY <1>2, <2>2, <2>8 DEF PipelineAt
  <2> QED BY <1>2, <2>4, <2>5, <2>6, <2>7, <2>8 DEF PipelineAt
<1>3. CASE /\ it.out = "ok" /\ Len(it.hand) = 1 /\ it.todo # <<>>
           /\ (At("nowait") /\ Rest = <<"return">>) \/ (At("return") /\ Rest = <<>>)
  <2>1. ~At("block") /\ ~At("poll") /\ ~At("get") /\ ~At("hand")
    BY <1>3 DEF At
  <2>2. At("nowait") => ~At("return")
    BY DEF At
  <2> QED BY <1>3, <2>1, <2>2
<1> QED BY <1>1, <1>2, <1>3, PipelineLabels, Zenon

LEMMA PipelineGoes ==
    ASSUME LoaderInv, cfg.mode = "pipeline", it.out = "ok", Goto(Rest), PipelinePhase',
           Rest \in Seq(StepNames),
           UNCHANGED <<cfg, stack, nextId, smp, wb, drawn, epoch, due, got, stale>>
    PROVE LoaderInv'
<1>1. it \in Iterator
  BY QueuedFacts, PipelineFacts
<1>2. it' = [it EXCEPT !.todo = Rest, !.out = "ok"]
  BY <1>1 DEF Goto, Iterator
<1> QED BY <1>2, PipelineMoved, Zenon DEF PipelineMoves

LEMMA RestIs ==
    ASSUME it \in Iterator, it.todo # <<>> PROVE Rest \in Seq(StepNames)
  BY DEF Iterator, Rest

LEMMA PipelineIdles ==
    ASSUME LoaderInv, cfg.mode = "pipeline", At("block") \/ At("nowait"), Goto(Rest),
           it.exhausted \/ it.queue # <<>> \/ At("nowait"),
           UNCHANGED <<cfg, stack, nextId, smp, wb, drawn, epoch, due, got, stale>>
    PROVE LoaderInv'
<1>1. it \in Iterator
  BY QueuedFacts, PipelineFacts
<1>2. it.todo # <<>>
  BY DEF At
<1>3. Rest \in Seq(StepNames)
  BY <1>1, <1>2, RestIs
<1>4. /\ it'.todo = Rest /\ it'.queue = it.queue /\ it'.current = it.current
      /\ it'.hand = it.hand /\ it'.exhausted = it.exhausted /\ it'.out = it.out
  BY <1>1, <1>3, GotoIs
<1>5. it.out = "ok"
  BY <1>2, PipelineIs
<1>6. CASE At("block")
  <2>1. ~At("nowait")
    BY <1>6 DEF At
  <2>2. PipelinePhase'
    BY <1>4, <1>5, <1>6, <2>1, PipelineIs, PhasePoll, Zenon
  <2> QED BY <1>3, <1>5, <2>2, PipelineGoes
<1>7. CASE At("nowait")
  <2>1. CASE it.hand = <<>> /\ Rest = <<>>
    BY <1>3, <1>4, <1>5, <2>1, PhaseRest, PipelineGoes, Zenon
  <2>2. CASE Len(it.hand) = 1 /\ Rest = <<"return">>
    <3>1. PipelinePhase'
      BY <1>4, <1>5, <2>2, PhasePost
    <3> QED BY <1>3, <1>5, <3>1, PipelineGoes
  <2> QED BY <1>7, <2>1, <2>2, PipelineIs
<1> QED BY <1>6, <1>7

LEMMA DueTouched ==
    ASSUME NEW h, NEW c, NEW q, NEW s, NEW e, NEW f, NEW d, NEW r, DueOf(h, c, q, s, e, f, d),
           Len(r) = Len(q), \A i \in 1..Len(q) : r[i].batch = q[i].batch
    PROVE DueOf(h, c, r, s, e, f, d)
  BY DEF DueOf

LEMMA PipelinePolls ==
    ASSUME LoaderInv, cfg.mode = "pipeline", PollUnregistered
    PROVE LoaderInv'
<1>1. /\ TypeOK /\ Numbering /\ QueueInv /\ ReturnsOwn /\ Items
      /\ PipelinePhase /\ Sampler
      /\ it.pend = <<>> /\ Len(it.queue) <= 1 /\ Len(it.current) <= 1
      /\ it.out # "error" => PipelineDue
  BY PipelineFacts, QueuedFacts
<1>2. it \in Iterator
  BY QueuedFacts, PipelineFacts
<1>3. At("poll")
  BY DEF PollUnregistered
<1>4. it.todo # <<>> /\ it.out = "ok"
  BY <1>3, PipelineIs DEF At
<1>5. /\ cfg' = cfg /\ stack' = stack /\ nextId' = nextId /\ smp' = smp /\ wb' = wb
      /\ drawn' = drawn /\ epoch' = epoch /\ due' = due /\ got' = got /\ stale' = stale
  BY DEF PollUnregistered
<1>6. /\ it.hand = <<>> /\ it.current = <<>> /\ Supplied
      /\ Rest \in {<<"get", "nowait">>, <<"get", "hand", "nowait", "return">>}
  BY <1>3, PipelineIs
<1>7. Rest \in Seq(StepNames)
  BY <1>2, <1>4, RestIs
<1>8. CASE it.queue = <<>> \/ it.queue[1].polled
  <2>1. Goto(Rest)
    BY <1>8 DEF PollUnregistered
  <2>2. /\ it'.todo = Rest /\ it'.queue = it.queue /\ it'.current = it.current
        /\ it'.hand = it.hand /\ it'.exhausted = it.exhausted /\ it'.out = it.out
    BY <1>2, <1>7, <2>1, GotoIs
  <2>3. PipelinePhase'
    BY <1>4, <1>6, <1>8, <2>2, PhaseGet, Zenon DEF Supplied
  <2> QED BY <1>4, <1>5, <1>7, <2>1, <2>3, PipelineGoes
<1>9. CASE ~(it.queue = <<>> \/ it.queue[1].polled)
  <2>1. stack[1].done /\ it' = [it EXCEPT !.queue[1].polled = TRUE, !.todo = Rest]
    BY <1>9 DEF PollUnregistered
  <2>2. it.queue \in Seq(Item) /\ 1 \in 1..Len(it.queue) /\ it.queue[1] \in Item
    BY <1>2, <1>9 DEF Iterator
  <2> DEFINE y == [it.queue[1] EXCEPT !.polled = TRUE]
  <2>3. /\ y \in Item /\ Keeps(y, it.queue[1]) /\ y.mat = it.queue[1].mat
        /\ y.rows = it.queue[1].rows /\ y.used = it.queue[1].used /\ y.polled = TRUE
    BY <2>2 DEF Item, Keeps
  <2>4. it' = [it EXCEPT !.queue = [it.queue EXCEPT ![1] = y], !.todo = Rest]
    BY <1>2, <2>1, <2>2 DEF Iterator
  <2>5. y \in Item
    BY <2>3
  <2> HIDE DEF y
  <2>6. /\ it'.queue = [it.queue EXCEPT ![1] = y] /\ it'.pend = it.pend
        /\ it'.current = it.current /\ it'.todo = Rest
        /\ it'.hand = it.hand /\ it'.exhausted = it.exhausted /\ it'.ios = it.ios
        /\ it'.out = it.out
    BY <1>2, <2>4 DEF Iterator
  <2>7. /\ it'.queue \in Seq(Item) /\ Len(it'.queue) = Len(it.queue) /\ it'.queue[1] = y
        /\ it'.queue # <<>>
    BY <2>2, <2>5, <2>6
  <2>8. it' \in Iterator
    BY <1>2, <1>7, <2>4, <2>6, <2>7 DEF Iterator
  <2>9. TypeOK'
    BY <1>1, <1>5, <2>8 DEF TypeOK
  <2>10. y.used <= y.mat
    BY <1>1, <2>2, <2>3 DEF Items, ItemOK
  <2>11. Touched(1, y)
    BY <1>5, <2>1, <2>2, <2>3, <2>6, <2>10 DEF Touched, Queued
  <2>12. QueueInv' /\ Numbering'
    BY <1>1, <2>9, <2>11, QueueTouched
  <2>13. PipelineDue'
    <3>1. PipelineDue
      BY <1>1, <1>4
    <3>2. y.batch = it.queue[1].batch
      BY <2>3 DEF Keeps
    <3>3. \A i \in 1..Len(it.queue) : it'.queue[i].batch = it.queue[i].batch
      BY <2>2, <2>6, <3>2
    <3>4. DueOf(it.hand, it.current, it'.queue, smp.queue, smp.held,
                smp.ended /\ ~it.exhausted, due)
      BY <2>7, <3>1, <3>3, DueTouched DEF PipelineDue
    <3> QED BY <1>5, <2>6, <3>4, Zenon DEF PipelineDue
  <2>14. Sampler'
    <3>1. ~it.exhausted
      BY <1>1, <1>9 DEF Sampler
    <3> QED BY <1>1, <1>5, <2>6, <3>1 DEF Sampler, HasMore
  <2>15. PipelinePhase'
    BY <1>4, <1>6, <2>3, <2>6, <2>7, PhaseGet, Zenon
  <2>16. ReturnsOwn'
    BY <1>1, <1>5, SameReturns
  <2> QED BY <1>1, <1>4, <1>5, <2>6, <2>7, <2>9, <2>12, <2>13, <2>14, <2>15, <2>16, PipelineNext
<1> QED BY <1>8, <1>9

\* What the get kernel copies when the front request is the batch's own.
LEMMA GetsOwn ==
    ASSUME NEW r, NEW b, r.batch = b, r.first = 0, RowsOf(b) \in Nat
    PROVE Contents(r, RowsOf(b)) = OwnRows(b)
  BY DEF Contents, OwnRows

LEMMA ContentsIs ==
    ASSUME NEW r \in Outstanding, NEW n \in Nat
    PROVE /\ Contents(r, n) \in Seq(Nat \X Nat) /\ Len(Contents(r, n)) = n
          /\ \A i \in 1..n : Contents(r, n)[i] = <<r.batch, r.first + i>>
<1>1. r.batch \in Nat /\ r.first \in Nat
  BY DEF Outstanding
<1> QED BY <1>1 DEF Contents

LEMMA GottenIs ==
    ASSUME TypeOK, Numbering, QueueInv, cfg.mode \in OnePart, Get, it.queue # <<>>,
           cfg.mode = "single" => FrontIsExpected(stack),
           it.hand = <<>>, it.current = <<>>
    PROVE \E y : /\ Gotten(y) /\ TypeOK' /\ it'.todo = Rest /\ it'.pend = it.pend
                 /\ it'.exhausted = it.exhausted /\ it'.out = it.out
                 /\ smp' = smp /\ drawn' = drawn /\ epoch' = epoch /\ due' = due /\ got' = got
<1>1. it \in Iterator /\ stack \in Seq(Outstanding)
  BY DEF TypeOK
<1>2. /\ cfg' = cfg /\ nextId' = nextId /\ smp' = smp /\ wb' = wb
      /\ drawn' = drawn /\ epoch' = epoch /\ due' = due /\ got' = got /\ stale' = stale
  BY DEF Get
<1>3. it.queue \in Seq(Item) /\ it.todo \in Seq(StepNames) /\ it.ios \in Nat
  BY <1>1 DEF Iterator
<1> DEFINE item == Head(it.queue)
           n == IF cfg.mode = "single" THEN stack[1].n ELSE RowsOf(item.batch)
           full == [item EXCEPT !.rows = Contents(stack[1], n), !.mat = 1]
           left == IF it.ios < item.parts[1] THEN 0 ELSE it.ios - item.parts[1]
<1>4. /\ stack' = Tail(stack)
      /\ it' = [it EXCEPT
                  !.queue = Tail(it.queue),
                  !.hand = IF cfg.mode = "pipeline" THEN it.hand ELSE <<full>>,
                  !.current = IF cfg.mode = "pipeline" THEN <<full>> ELSE it.current,
                  !.ios = left,
                  !.todo = Rest]
  BY <1>1 DEF Get, Iterator
<1>5. Items
  BY DEF QueueInv, OnePart, Queued, Prefetched
<1>6. /\ 1 \in 1..Len(it.queue) /\ 1 \in 1..Len(stack)
      /\ Matched => /\ it.queue[1].ids[1] = Base
                    /\ stack[1].batch = it.queue[1].batch
                    /\ stack[1].n = it.queue[1].parts[1]
                    /\ stack[1].first = 0
  BY OneFront
<1>7. item = it.queue[1]
  BY <1>3, <1>6
<1>8. /\ item \in Item /\ item.parts = <<RowsOf(item.batch)>> /\ item.used = 0
  BY <1>5, <1>6, <1>7, OneRequest
<1> HIDE DEF item
<1>9. stack[1] \in Outstanding
  BY <1>1, <1>6
<1>10. RowsOf(item.batch) \in Nat /\ item.parts[1] = RowsOf(item.batch)
  <2>1. item.parts \in Seq(Nat \ {0}) /\ item.batch \in Nat \ {0}
    BY <1>8 DEF Item
  <2> DEFINE m == RowsOf(item.batch)
  <2>2. item.parts = <<m>>
    BY <1>8
  <2> HIDE DEF m
  <2>3. m \in Nat /\ item.parts[1] = m
    BY <2>1, <2>2
  <2> QED BY <2>3 DEF m
<1>11. n \in Nat
  <2>1. stack[1].n \in Nat
    BY <1>9 DEF Outstanding
  <2> QED BY <1>10, <2>1
<1>12. Contents(stack[1], n) \in Seq(Nat \X Nat)
  BY <1>9, <1>11, ContentsIs
<1>13. Matched => Contents(stack[1], n) = OwnRows(item.batch)
  <2>1. Matched => n = RowsOf(item.batch)
    BY <1>6, <1>7, <1>10
  <2> QED BY <1>6, <1>7, <1>10, <2>1, GetsOwn
<1> HIDE DEF n
<1>14. /\ full \in Item /\ Keeps(full, item) /\ full.mat = 1 /\ full.used = 0
       /\ full.rows = Contents(stack[1], n) /\ full.batch = item.batch
  <2> DEFINE z == Contents(stack[1], n)
  <2>1. z \in Seq(Nat \X Nat)
    BY <1>12
  <2> HIDE DEF z
  <2>2. full = [item EXCEPT !.rows = z, !.mat = 1]
    BY DEF z
  <2>3. /\ full \in Item /\ Keeps(full, item) /\ full.mat = 1 /\ full.used = 0
        /\ full.rows = z /\ full.batch = item.batch
    BY <1>8, <2>1, <2>2 DEF Item, Keeps
  <2> QED BY <2>3 DEF z
<1> HIDE DEF full
<1>15. left \in Nat
  BY <1>3, <1>10
<1>16. full \in Item /\ <<full>> \in Seq(Item) /\ Tail(it.queue) \in Seq(Item)
  BY <1>3, <1>6, <1>14
<1>17. Rest \in Seq(StepNames)
  <2>1. it.todo # <<>>
    BY DEF Get, At
  <2> QED BY <1>1, <2>1, RestIs
<1>l. left = IF it.ios < it.queue[1].parts[1] THEN 0 ELSE it.ios - it.queue[1].parts[1]
  BY <1>7
<1> HIDE DEF left
<1>18. /\ it'.queue = Tail(it.queue) /\ it'.ios = left /\ it'.todo = Rest /\ it'.pend = it.pend
       /\ it'.exhausted = it.exhausted /\ it'.out = it.out
       /\ it'.hand = IF cfg.mode = "pipeline" THEN it.hand ELSE <<full>>
       /\ it'.current = IF cfg.mode = "pipeline" THEN <<full>> ELSE it.current
  BY <1>1, <1>4 DEF Iterator
<1>19. it' \in Iterator
  BY <1>1, <1>4, <1>15, <1>16, <1>17 DEF Iterator
<1>20. stack' \in Seq(Outstanding)
  BY <1>1, <1>4, <1>6
<1>21. TypeOK'
  BY <1>2, <1>19, <1>20 DEF TypeOK
<1>22. Gotten(full)
  <2>1. Matched => full.rows = OwnRows(full.batch)
    BY <1>13, <1>14
  <2> QED BY <1>2, <1>4, <1>7, <1>14, <1>18, <1>l, <2>1 DEF Gotten
<1> QED BY <1>2, <1>18, <1>21, <1>22

LEMMA OneTail ==
    ASSUME NEW S, NEW q \in Seq(S), Len(q) = 1
    PROVE Tail(q) = <<>> /\ q = <<q[1]>>
<1>1. Tail(q) \in Seq(S) /\ Len(Tail(q)) = 0
  BY HeadTailProperties, EmptySeq
<1>2. Tail(q) = <<>>
  BY <1>1, EmptySeq
<1> QED BY <1>2

LEMMA DueGot ==
    ASSUME NEW q, NEW s, NEW e, NEW f, NEW d, NEW y, DueOf(<<>>, <<>>, q, s, e, f, d),
           Len(q) = 1, y.batch = q[1].batch, Len(s) \in Nat
    PROVE DueOf(<<>>, <<y>>, <<>>, s, e, f, d)
  BY DEF DueOf

LEMMA PipelineGets ==
    ASSUME LoaderInv, cfg.mode = "pipeline", Get
    PROVE LoaderInv'
<1>1. /\ TypeOK /\ Numbering /\ QueueInv /\ ReturnsOwn /\ cfg.mode \in OnePart
      /\ PipelinePhase /\ Sampler
      /\ it.pend = <<>> /\ Len(it.queue) <= 1 /\ Len(it.current) <= 1
      /\ it.out # "error" => PipelineDue
  BY PipelineFacts, QueuedFacts
<1>2. it \in Iterator
  BY QueuedFacts, PipelineFacts
<1>3. At("get")
  BY DEF Get
<1>4. it.todo # <<>> /\ it.out = "ok"
  BY <1>3, PipelineIs DEF At
<1>6. /\ it.hand = <<>> /\ it.current = <<>> /\ Supplied
      /\ Rest \in {<<"nowait">>, <<"hand", "nowait", "return">>}
  BY <1>3, PipelineIs
<1>7. Rest \in Seq(StepNames)
  BY <1>2, <1>4, RestIs
<1>8. CASE it.queue = <<>>
  <2>1. Goto(Rest) /\ stack' = stack
    BY <1>8 DEF Get
  <2>2. /\ it'.todo = Rest /\ it'.queue = it.queue /\ it'.current = it.current
        /\ it'.hand = it.hand /\ it'.exhausted = it.exhausted /\ it'.out = it.out
    BY <1>2, <1>7, <2>1, GotoIs
  <2>3. PipelinePhase'
    BY <1>4, <1>6, <1>8, <2>2, PhaseHand, Zenon DEF Supplied
  <2>4. UNCHANGED <<cfg, stack, nextId, smp, wb, drawn, epoch, due, got, stale>>
    BY <2>1 DEF Get
  <2> QED BY <1>4, <1>7, <2>1, <2>3, <2>4, PipelineGoes
<1>9. CASE it.queue # <<>>
  <2>1. PICK y : /\ Gotten(y) /\ TypeOK' /\ it'.todo = Rest /\ it'.pend = it.pend
                 /\ it'.exhausted = it.exhausted /\ it'.out = it.out
                 /\ smp' = smp /\ drawn' = drawn /\ epoch' = epoch /\ due' = due /\ got' = got
    BY <1>1, <1>6, <1>9, GottenIs
  <2>2. QueueInv' /\ Numbering'
    BY <1>1, <2>1, QueueGot
  <2>3. /\ it'.queue = Tail(it.queue) /\ it'.hand = <<>> /\ it'.current = <<y>>
        /\ cfg' = cfg /\ stale' = stale /\ y.batch = it.queue[1].batch
    BY <1>6, <2>1 DEF Gotten, Keeps
  <2>4. Len(it.queue) = 1 /\ it'.queue = <<>>
    <3>1. it.queue \in Seq(Item)
      BY <1>2 DEF Iterator
    <3>2. Len(it.queue) = 1
      <4>1. Len(it.queue) <= 1
        BY <1>1
      <4>2. Len(it.queue) \in Nat /\ Len(it.queue) # 0
        BY <1>9, <3>1, LenIs
      <4> DEFINE n == Len(it.queue)
      <4>3. n <= 1 /\ n \in Nat /\ n # 0
        BY <4>1, <4>2
      <4> HIDE DEF n
      <4>4. n = 1
        BY <4>3
      <4> QED BY <4>4 DEF n
    <3>3. Tail(it.queue) = <<>>
      BY <3>1, <3>2, OneTail
    <3> QED BY <2>3, <3>2, <3>3
  <2>5. ~it.exhausted
    BY <1>1, <1>9 DEF Sampler
  <2>6. Sampler'
    BY <1>1, <2>1, <2>4, <2>5 DEF Sampler, HasMore
  <2>7. PipelineDue'
    <3>1. smp.queue \in Seq(Nat)
      BY <1>1 DEF TypeOK, SamplerThread
    <3>2. DueOf(<<>>, <<>>, it.queue, smp.queue, smp.held, smp.ended /\ ~it.exhausted, due)
      BY <1>1, <1>4, <1>6 DEF PipelineDue
    <3>3. DueOf(<<>>, <<y>>, <<>>, smp.queue, smp.held, smp.ended /\ ~it.exhausted, due)
      BY <2>3, <2>4, <3>1, <3>2, DueGot
    <3> QED BY <2>1, <2>3, <2>4, <3>3, Zenon DEF PipelineDue
  <2>8. PipelinePhase'
    <3>1. it'.current # <<>>
      BY <2>3
    <3> QED BY <1>4, <1>6, <2>1, <2>3, <3>1, PhaseHand, Zenon
  <2>9. ReturnsOwn'
    BY <1>1, <2>1, <2>3, SameReturns
  <2>10. Len(it'.queue) <= 1 /\ Len(it'.current) <= 1
    <3>1. Len(it'.queue) = 0 /\ Len(it'.current) = 1
      BY <2>3, <2>4
    <3> QED BY <3>1
  <2> QED BY <1>1, <1>4, <2>1, <2>2, <2>3, <2>6, <2>7, <2>8, <2>9, <2>10, PipelineNext
<1> QED BY <1>8, <1>9

\* A batch that was drawn and not submitted.
LEMMA FreshOK ==
    ASSUME TypeOK, NEW b \in Nat \ {0}
    PROVE /\ ItemOK(NewItem(b)) /\ RowsOK(NewItem(b))
          /\ Len(NewItem(b).ids) = 0 /\ Len(NewItem(b).parts) >= 1
          /\ Len(NewItem(b).parts) \in Nat
<1> DEFINE x == NewItem(b)
<1>1. /\ x \in Item /\ x.batch = b /\ x.parts = PartsOf(RowsOf(b)) /\ x.ids = <<>>
      /\ x.mat = 0 /\ x.used = 0
      /\ cfg.mode = "cids" => x.rows = <<>>
      /\ cfg.mode # "cids" => Len(x.rows) = RowsOf(b)
  BY Fresh
<1>2. /\ PartsOf(RowsOf(b)) \in Seq(Nat \ {0}) /\ Len(PartsOf(RowsOf(b))) >= 1
  BY BatchParts
<1> HIDE DEF x
<1>3. Len(x.ids) = 0 /\ Len(x.parts) >= 1 /\ Len(x.parts) \in Nat
  BY <1>1, <1>2
<1>4. SumUpTo(x.parts, x.mat) = 0
  BY <1>1, SumZero
<1>5. ItemOK(x)
  <2>1. \A k \in 1..Len(x.ids) : FALSE
    BY <1>3
  <2>2. Len(x.ids) <= Len(x.parts) /\ x.mat <= Len(x.ids) /\ x.used <= x.mat
    BY <1>1, <1>3
  <2> QED BY <1>1, <2>1, <2>2 DEF ItemOK
<1>6. RowsOK(x)
  <2>1. \A r \in 1..SumUpTo(x.parts, x.mat) : FALSE
    BY <1>4
  <2>2. cfg.mode = "cids" => Len(x.rows) = 0
    BY <1>1
  <2> QED BY <1>1, <1>4, <2>1, <2>2 DEF RowsOK
<1> QED BY <1>3, <1>5, <1>6 DEF x

LEMMA RequestIs ==
    ASSUME NEW x \in Item, TypeOK, ItemOK(x), NEW k \in 1..Len(x.parts), NEW id \in Nat
    PROVE Request(x, k, id) \in Outstanding
<1>1. /\ x.batch \in Nat \ {0} /\ x.parts \in Seq(Nat \ {0}) /\ x.parts = PartsOf(RowsOf(x.batch))
  BY DEF Item, ItemOK
<1>2. x.parts[k] \in Nat \ {0} /\ k - 1 \in Nat /\ k - 1 <= Len(x.parts)
  BY <1>1
<1>3. SumUpTo(x.parts, k - 1) \in Nat
  BY <1>1, <1>2, PartSums
<1> QED BY <1>1, <1>2, <1>3 DEF Request, Outstanding

\* The pipeline iterator takes a sampled batch and submits it.
LEMMA SampledSubmission ==
    ASSUME TypeOK, Numbering, cfg.mode = "pipeline", Len(it.queue) = 0, it.ios = 0,
           NEW b \in Nat \ {0}, NEW y, y = [NewItem(b) EXCEPT !.ids = <<nextId>>],
           it'.queue = <<y>>, stack' = Append(stack, Request(y, 1, nextId)),
           nextId' = nextId + 1, it'.hand = it.hand, it'.current = it.current,
           it'.ios = it.ios, cfg' = cfg, stale' = stale
    PROVE /\ Submission(NewItem(b), y, 1, 1) /\ y \in Item /\ y.batch = b
          /\ stack' \in Seq(Outstanding)
<1> DEFINE x == NewItem(b)
<1>1. /\ x \in Item /\ x.batch = b /\ x.ids = <<>> /\ x.mat = 0 /\ x.used = 0 /\ x.polled = FALSE
  BY Fresh
<1>2. ItemOK(x) /\ RowsOK(x) /\ Len(x.ids) = 0 /\ Len(x.parts) >= 1 /\ Len(x.parts) \in Nat
  BY FreshOK
<1>3. y = [x EXCEPT !.ids = <<nextId>>]
  OBVIOUS
<1> HIDE DEF x
<1>4. nextId \in Nat /\ stack \in Seq(Outstanding)
  BY DEF TypeOK
<1>5. <<nextId>> \in Seq(Nat)
  BY <1>4
<1>6. /\ y \in Item /\ y.batch = b /\ y.parts = x.parts /\ y.mat = 0 /\ y.used = 0
      /\ y.polled = FALSE /\ y.rows = x.rows /\ y.ids = <<nextId>>
  BY <1>1, <1>3, <1>5 DEF Item
<1>7. Request(y, 1, nextId) = Request(x, 1, nextId)
  BY <1>1, <1>6 DEF Request
<1> DEFINE r == Request(x, 1, nextId)
<1>8. r \in Outstanding
  <2>1. 1 \in 1..Len(x.parts)
    BY <1>2
  <2> QED BY <1>1, <1>2, <1>4, <2>1, RequestIs
<1>9. stack' = Append(stack, r)
  BY <1>7
<1>10. r = Request(x, Len(x.ids) + 1, nextId + 1 - 1)
  BY <1>2, <1>4
<1> HIDE DEF r
<1>11. /\ stack' \in Seq(Outstanding) /\ Len(stack') = Len(stack) + 1
       /\ \A j \in 1..Len(stack) : stack'[j] = stack[j]
       /\ stack'[Len(stack) + 1] = r
  BY <1>4, <1>8, <1>9, AppendIs
<1>12. Len(it'.queue) = 1 /\ it'.queue[1] = y
  BY OneIs
<1>13. Len(y.ids) = 1 /\ y.ids[1] = nextId
  BY <1>4, <1>6
<1>14. ~(cfg.mode \in Budgeted) /\ cfg.mode # "split"
  BY DEF Budgeted
<1>15. \A j \in 1..1 : j = 1
  OBVIOUS
<1>16. \A j \in 1..1 : stack'[Len(stack) + j] = Request(x, Len(x.ids) + j, nextId + j - 1)
  BY <1>10, <1>11, <1>15, Zenon
<1>17. \A j \in 1..1 : y.ids[Len(x.ids) + j] = nextId + j - 1
  BY <1>2, <1>4, <1>13, <1>15
<1>18. /\ 1 \in Nat \ {0} /\ Len(x.ids) + 1 <= Len(x.parts) /\ 1 = Len(it.queue) + 1
       /\ Len(y.ids) = Len(x.ids) + 1 /\ 1 \in Nat
  BY <1>2, <1>13
<1>19. /\ \A i \in 1..(1 - 1) : it'.queue[i] = it.queue[i]
       /\ \A j \in 1..Len(x.ids) : y.ids[j] = x.ids[j]
  BY <1>2
<1>20. Submission(x, y, 1, 1)
  BY <1>1, <1>2, <1>6, <1>11, <1>12, <1>14, <1>16, <1>17, <1>18, <1>19, Zenon DEF Submission
<1> QED BY <1>6, <1>11, <1>20 DEF x

LEMMA DueTaken ==
    ASSUME NEW h, NEW c, NEW s, NEW e, NEW f, NEW d, NEW y, DueOf(h, c, <<>>, s, e, f, d),
           Len(h) \in Nat, Len(c) \in Nat, s \in Seq(Nat), s # <<>>, y.batch = s[1],
           s[1] # Sentinel
    PROVE DueOf(h, c, <<y>>, Tail(s), e, f, d)
<1>1. /\ Len(s) \in Nat /\ Len(s) >= 1 /\ Len(Tail(s)) = Len(s) - 1
      /\ \A i \in 1..(Len(s) - 1) : Tail(s)[i] = s[i + 1]
  BY TailIs
<1> DEFINE t == Tail(s)
           m == Len(s)
           hl == Len(h)
           cl == Len(c)
           el == Len(e)
<1>2. /\ Len(d) = hl + cl + 0 + m + el - (IF f THEN 1 ELSE 0)
      /\ \A i \in 1..hl : d[i] = h[i].batch
      /\ \A i \in 1..cl : d[hl + i] = c[i].batch
      /\ \A i \in 1..m : s[i] # Sentinel => d[hl + cl + 0 + i] = s[i]
      /\ \A i \in 1..el : e[i] # Sentinel => d[hl + cl + 0 + m + i] = e[i]
  <2>1. Len(<<>>) = 0
    OBVIOUS
  <2> QED BY <2>1 DEF DueOf
<1>3. hl \in Nat /\ cl \in Nat
  OBVIOUS
<1>4. m \in Nat /\ m >= 1 /\ Len(t) = m - 1 /\ \A i \in 1..(m - 1) : t[i] = s[i + 1]
  BY <1>1
<1> HIDE DEF t, m, hl, cl
<1>5. d[hl + cl + 1] = s[1]
  BY <1>2, <1>3, <1>4
<1>6. \A i \in 1..(m - 1) : t[i] # Sentinel => d[hl + cl + 1 + i] = t[i]
  <2> TAKE i \in 1..(m - 1)
  <2> HAVE t[i] # Sentinel
  <2>1. i + 1 \in 1..m /\ t[i] = s[i + 1] /\ hl + cl + 0 + (i + 1) = hl + cl + 1 + i
    BY <1>3, <1>4
  <2> QED BY <1>2, <2>1
<1>7. hl + cl + 0 + m = hl + cl + 1 + (m - 1)
  BY <1>3, <1>4
<1>8. Len(<<y>>) = 1 /\ <<y>>[1] = y
  OBVIOUS
<1>9. \A i \in 1..1 : i = 1
  OBVIOUS
<1> DEFINE v == <<y>>
<1>10. Len(v) = 1 /\ \A i \in 1..1 : v[i].batch = s[1]
  BY <1>8, <1>9
<1> HIDE DEF v
<1>11. DueOf(h, c, v, t, e, f, d)
  <2>1. Len(d) = hl + cl + 1 + (m - 1) + el - (IF f THEN 1 ELSE 0)
    BY <1>2, <1>7
  <2>2. \A i \in 1..1 : d[hl + cl + i] = v[i].batch
    BY <1>5, <1>9, <1>10
  <2>3. \A i \in 1..el : e[i] # Sentinel => d[hl + cl + 1 + (m - 1) + i] = e[i]
    BY <1>2, <1>7
  <2>4. Len(v) = 1 /\ Len(t) = m - 1 /\ hl = Len(h) /\ cl = Len(c) /\ el = Len(e)
    BY <1>4, <1>10 DEF hl, cl
  <2> HIDE DEF el
  <2> QED BY <1>2, <1>6, <2>1, <2>2, <2>3, <2>4, Zenon DEF DueOf
<1> QED BY <1>11 DEF v, t

LEMMA DueEnded ==
    ASSUME NEW h, NEW c, NEW s, NEW e, NEW d, DueOf(h, c, <<>>, s, e, TRUE, d),
           Len(h) \in Nat, Len(c) \in Nat, Len(s) = 1, e = <<>>
    PROVE DueOf(h, c, <<>>, <<>>, e, FALSE, d)
<1>1. Len(<<>>) = 0 /\ 1..0 = {}
  OBVIOUS
<1> DEFINE hl == Len(h)
           cl == Len(c)
<1>2. /\ Len(d) = hl + cl + 0 + 1 + 0 - 1
      /\ \A i \in 1..hl : d[i] = h[i].batch
      /\ \A i \in 1..cl : d[hl + i] = c[i].batch
  BY <1>1 DEF DueOf
<1>3. hl + cl + 0 + 1 + 0 - 1 = hl + cl + 0 + 0 + 0 - 0
  OBVIOUS
<1>4. \A i \in 1..0 : FALSE
  BY <1>1
<1> QED BY <1>1, <1>2, <1>3, <1>4 DEF DueOf

\* The sentinel is taken: the epoch has ended or the sampler has raised.
LEMMA SentinelTaken ==
    ASSUME LoaderInv, cfg.mode = "pipeline", SubmitSampled, TakeSampled, Head(smp.queue) = Sentinel,
           ~it.exhausted, it.queue = <<>>
    PROVE LoaderInv'
<1>1. /\ TypeOK /\ Numbering /\ QueueInv /\ ReturnsOwn /\ Items /\ cfg.mode \in Queued
      /\ PipelinePhase /\ Sampler
      /\ it.pend = <<>> /\ Len(it.queue) <= 1 /\ Len(it.current) <= 1
      /\ it.out # "error" => PipelineDue
  BY PipelineFacts, QueuedFacts
<1>2. it \in Iterator /\ smp \in SamplerThread
  BY QueuedFacts, PipelineFacts
<1>3. At("block") \/ At("nowait")
  BY DEF SubmitSampled
<1>4. it.todo # <<>> /\ it.out = "ok"
  BY <1>3, PipelineIs DEF At
<1>5. /\ cfg' = cfg /\ wb' = wb /\ drawn' = drawn /\ epoch' = epoch /\ due' = due /\ got' = got
      /\ stale' = stale
  BY DEF SubmitSampled
<1>6. Rest \in Seq(StepNames)
  BY <1>2, <1>4, RestIs
<1>7. /\ smp.queue # <<>> /\ smp' = [smp EXCEPT !.queue = Tail(smp.queue)]
      /\ it' = [it EXCEPT !.exhausted = TRUE,
                          !.hand = IF smp.exc THEN <<>> ELSE it.hand,
                          !.todo = IF smp.exc THEN <<>> ELSE Rest,
                          !.out = IF smp.exc THEN "error" ELSE it.out]
      /\ stack' = stack /\ nextId' = nextId
  BY <1>2 DEF TakeSampled, Iterator, SamplerThread
<1>8. /\ smp.queue \in Seq(Nat) /\ smp.held \in Seq(Nat) /\ smp.exc \in BOOLEAN
      /\ smp.ended \in BOOLEAN
  BY <1>2 DEF SamplerThread
<1>9. Len(smp.queue) \in Nat /\ 1 \in 1..Len(smp.queue) /\ smp.queue[1] = Sentinel
  BY <1>7, <1>8
<1>10. smp.ended /\ smp.held = <<>> /\ Len(smp.queue) = 1
  BY <1>1, <1>9 DEF Sampler
<1>11. Tail(smp.queue) = <<>>
  BY <1>8, <1>10, OneTail
<1>12. /\ smp'.queue = <<>> /\ smp'.held = <<>> /\ smp'.ended /\ smp'.exc = smp.exc
       /\ smp' \in SamplerThread
  <2>1. <<>> \in Seq(Nat)
    OBVIOUS
  <2> QED BY <1>2, <1>7, <1>8, <1>10, <1>11, <2>1 DEF SamplerThread
<1>13. /\ it'.queue = it.queue /\ it'.pend = it.pend /\ it'.current = it.current
       /\ it'.ios = it.ios /\ it'.exhausted = TRUE
       /\ it'.hand = (IF smp.exc THEN <<>> ELSE it.hand)
       /\ it'.todo = (IF smp.exc THEN <<>> ELSE Rest)
       /\ it'.out = (IF smp.exc THEN "error" ELSE it.out)
  BY <1>2, <1>7 DEF Iterator
<1>14. it' \in Iterator
  <2>1. <<>> \in Seq(StepNames) /\ <<>> \in Seq(Item)
    OBVIOUS
  <2> QED BY <1>2, <1>6, <1>7, <2>1 DEF Iterator
<1>15. TypeOK'
  BY <1>1, <1>5, <1>7, <1>12, <1>14 DEF TypeOK
<1>16. ReturnsOwn'
  BY <1>1, <1>5, SameReturns
<1>17. Sampler'
  <2>1. \A i \in 1..Len(smp'.queue) : FALSE
    BY <1>12
  <2>2. \A i \in 1..Len(smp'.held) : FALSE
    BY <1>12
  <2>3. smp.ended => smp.exc \/ ~HasMore
    BY <1>1 DEF Sampler
  <2>4. HasMore' = HasMore
    BY <1>5 DEF HasMore
  <2>5. Len(smp'.held) <= 1
    BY <1>12
  <2> QED BY <1>10, <1>12, <1>13, <2>1, <2>2, <2>3, <2>4, <2>5 DEF Sampler
<1>18. CASE smp.exc
  <2>1. it'.hand = <<>> /\ it'.todo = <<>> /\ it'.out = "error"
    BY <1>13, <1>18
  <2>2. \A i \in 1..Len(it.hand) : it.hand[i].mat = Len(it.hand[i].ids)
    BY <1>1 DEF Items
  <2>3. Passed
    BY <1>5, <1>7, <1>13, <2>1, <2>2 DEF Passed
  <2>4. QueueInv' /\ Numbering'
    BY <1>1, <1>15, <2>3, QueuePassed
  <2>5. PipelinePhase'
    BY <2>1, PhaseRest
  <2> QED BY <1>1, <1>5, <1>12, <1>13, <1>15, <1>16, <1>17, <1>18, <2>1, <2>4, <2>5, PipelineNext
<1>19. CASE ~smp.exc
  <2>1. it'.hand = it.hand /\ it'.todo = Rest /\ it'.out = "ok"
    BY <1>4, <1>13, <1>19
  <2>2. SameRequests /\ SameItems
    BY <1>1, <1>5, <1>7, <1>13, <2>1, StackSame DEF SameItems
  <2>3. QueueInv' /\ Numbering'
    BY <1>1, <2>2, QueueSame
  <2>4. PipelinePhase'
    <3>1. CASE At("block")
      BY <1>13, <2>1, <3>1, PipelineIs, PhasePoll
    <3>2. CASE At("nowait")
      <4>1. CASE it.hand = <<>> /\ Rest = <<>>
        BY <2>1, <4>1, PhaseRest
      <4>2. CASE Len(it.hand) = 1 /\ Rest = <<"return">>
        BY <2>1, <4>2, PhasePost
      <4> QED BY <3>2, <4>1, <4>2, PipelineIs
    <3> QED BY <1>3, <3>1, <3>2
  <2>5. PipelineDue'
    <3>1. (smp.ended /\ ~it.exhausted) = TRUE
      BY <1>10
    <3>2. DueOf(it.hand, it.current, <<>>, smp.queue, smp.held, TRUE, due)
      BY <1>1, <1>4, <3>1, Zenon DEF PipelineDue
    <3>3. Len(it.hand) \in Nat /\ Len(it.current) \in Nat
      BY <1>2 DEF Iterator
    <3>4. DueOf(it.hand, it.current, <<>>, <<>>, smp.held, FALSE, due)
      BY <1>10, <3>2, <3>3, DueEnded
    <3>5. (smp'.ended /\ ~it'.exhausted) = FALSE
      BY <1>13
    <3> QED BY <1>5, <1>10, <1>12, <1>13, <2>1, <3>4, <3>5, Zenon DEF PipelineDue
  <2> QED BY <1>1, <1>5, <1>13, <1>15, <1>16, <1>17, <2>1, <2>3, <2>4, <2>5, PipelineNext
<1> QED BY <1>8, <1>18, <1>19

\* A batch is taken and submitted.
LEMMA BatchTaken ==
    ASSUME LoaderInv, cfg.mode = "pipeline", SubmitSampled, TakeSampled, Head(smp.queue) # Sentinel,
           ~it.exhausted, it.queue = <<>>
    PROVE LoaderInv'
<1>1. /\ TypeOK /\ Numbering /\ QueueInv /\ ReturnsOwn /\ Ios /\ cfg.mode \in Queued
      /\ PipelinePhase /\ Sampler
      /\ it.pend = <<>> /\ Len(it.queue) <= 1 /\ Len(it.current) <= 1
      /\ it.out # "error" => PipelineDue
  BY PipelineFacts, QueuedFacts
<1>2. it \in Iterator /\ smp \in SamplerThread
  BY QueuedFacts, PipelineFacts
<1>3. At("block") \/ At("nowait")
  BY DEF SubmitSampled
<1>4. it.todo # <<>> /\ it.out = "ok"
  BY <1>3, PipelineIs DEF At
<1>5. /\ cfg' = cfg /\ wb' = wb /\ drawn' = drawn /\ epoch' = epoch /\ due' = due /\ got' = got
      /\ stale' = stale
  BY DEF SubmitSampled
<1>6. Rest \in Seq(StepNames)
  BY <1>2, <1>4, RestIs
<1> DEFINE b == Head(smp.queue)
           y == [NewItem(b) EXCEPT !.ids = <<nextId>>]
<1>7. /\ smp.queue # <<>> /\ smp' = [smp EXCEPT !.queue = Tail(smp.queue)]
      /\ it' = [it EXCEPT !.queue = <<y>>, !.todo = Rest]
      /\ stack' = Append(stack, Request(y, 1, nextId))
      /\ nextId' = nextId + 1
  BY <1>2 DEF TakeSampled, SamplerThread
<1>8. /\ smp.queue \in Seq(Nat) /\ smp.held \in Seq(Nat) /\ smp.exc \in BOOLEAN
      /\ smp.ended \in BOOLEAN
  BY <1>2 DEF SamplerThread
<1>9. /\ Len(smp.queue) \in Nat /\ 1 \in 1..Len(smp.queue) /\ smp.queue[1] = b /\ b \in Nat \ {0}
      /\ Tail(smp.queue) \in Seq(Nat) /\ Len(Tail(smp.queue)) = Len(smp.queue) - 1
      /\ \A i \in 1..(Len(smp.queue) - 1) : Tail(smp.queue)[i] = smp.queue[i + 1]
  <2>1. b # 0
    BY DEF Sentinel
  <2> QED BY <1>7, <1>8, <2>1, TailIs
<1>10. y = [NewItem(b) EXCEPT !.ids = <<nextId>>]
  OBVIOUS
<1> HIDE DEF y
<1>11. /\ it'.queue = <<y>> /\ it'.pend = it.pend /\ it'.current = it.current
       /\ it'.ios = it.ios /\ it'.exhausted = it.exhausted
       /\ it'.hand = it.hand /\ it'.todo = Rest /\ it'.out = it.out
  BY <1>2, <1>7 DEF Iterator
<1>12. Len(it.queue) = 0 /\ it.ios = 0
  BY <1>1 DEF Ios, Budgeted
<1>13. /\ Submission(NewItem(b), y, 1, 1) /\ y \in Item /\ y.batch = b
       /\ stack' \in Seq(Outstanding)
  <2> HIDE DEF b
  <2> QED BY <1>1, <1>5, <1>7, <1>9, <1>10, <1>11, <1>12, SampledSubmission
<1>14. QueueInv' /\ Numbering'
  BY <1>1, <1>13, QueueSubmitted
<1>15. <<y>> \in Seq(Item)
  BY <1>13
<1>16. it' \in Iterator
  BY <1>2, <1>6, <1>7, <1>15 DEF Iterator
<1>17. /\ smp'.queue = Tail(smp.queue) /\ smp'.held = smp.held /\ smp'.ended = smp.ended
       /\ smp'.exc = smp.exc /\ smp' \in SamplerThread
  BY <1>2, <1>7, <1>9 DEF SamplerThread
<1>18. TypeOK'
  <2>1. nextId' \in Nat
    BY <1>1, <1>7 DEF TypeOK
  <2> QED BY <1>1, <1>5, <1>13, <1>16, <1>17, <2>1 DEF TypeOK
<1>19. ReturnsOwn'
  BY <1>1, <1>5, SameReturns
<1>20. Sampler'
  <2> DEFINE m == Len(smp.queue)
             t == Tail(smp.queue)
  <2>1. /\ m \in Nat /\ m >= 1 /\ Len(t) = m - 1 /\ \A i \in 1..(m - 1) : t[i] = smp.queue[i + 1]
        /\ t \in Seq(Nat) /\ (t = <<>> <=> m = 1)
    <3>1. /\ m \in Nat /\ m >= 1 /\ Len(t) = m - 1 /\ t \in Seq(Nat)
          /\ \A i \in 1..(m - 1) : t[i] = smp.queue[i + 1]
      BY <1>9
    <3> HIDE DEF t, m
    <3>2. t = <<>> <=> Len(t) = 0
      BY <3>1, LenIs, Zenon
    <3> QED BY <3>1, <3>2
  <2>2. \A i \in 1..m : smp.queue[i] = Sentinel <=> smp.ended /\ smp.held = <<>> /\ i = m
    BY <1>1 DEF Sampler
  <2>3. m = 1 => ~(smp.ended /\ smp.held = <<>>)
    BY <1>9, <2>1, <2>2
  <2>4. smp'.queue = t
    BY <1>17
  <2> HIDE DEF m, t
  <2>5. \A i \in 1..Len(t) : t[i] = Sentinel <=> smp.ended /\ smp.held = <<>> /\ i = Len(t)
    <3> TAKE i \in 1..Len(t)
    <3>1. i + 1 \in 1..m /\ t[i] = smp.queue[i + 1] /\ (i + 1 = m <=> i = Len(t))
      BY <2>1
    <3> QED BY <2>2, <3>1
  <2>6. Sampler => /\ Len(smp.held) <= 1
                   /\ \A i \in 1..Len(smp.held) : smp.held[i] = Sentinel <=> smp.ended
                   /\ smp.ended => smp.exc \/ ~HasMore
    BY DEF Sampler
  <2>7. HasMore' = HasMore
    BY <1>5 DEF HasMore
  <2>8. ~it'.exhausted /\ (t = <<>> => ~(smp.ended /\ smp.held = <<>>))
    BY <1>11, <2>1, <2>3
  <2> QED BY <1>1, <1>17, <2>4, <2>5, <2>6, <2>7, <2>8 DEF Sampler
<1>21. PipelinePhase'
  <2>0. it'.queue # <<>> /\ it'.out = "ok"
    BY <1>4, <1>11
  <2>1. CASE At("block")
    BY <1>11, <2>0, <2>1, PipelineIs, PhasePoll
  <2>2. CASE At("nowait")
    <3>1. CASE it.hand = <<>> /\ Rest = <<>>
      BY <1>11, <3>1, PhaseRest
    <3>2. CASE Len(it.hand) = 1 /\ Rest = <<"return">>
      BY <1>11, <2>0, <3>2, PhasePost
    <3> QED BY <2>2, <3>1, <3>2, PipelineIs
  <2> QED BY <1>3, <2>1, <2>2
<1>22. PipelineDue'
  <2>1. DueOf(it.hand, it.current, <<>>, smp.queue, smp.held, smp.ended /\ ~it.exhausted, due)
    BY <1>1, <1>4 DEF PipelineDue
  <2>2. Len(it.hand) \in Nat /\ Len(it.current) \in Nat
    BY <1>2 DEF Iterator
  <2>3. y.batch = smp.queue[1] /\ smp.queue[1] # Sentinel
    BY <1>9, <1>13
  <2> HIDE DEF b
  <2>4. DueOf(it.hand, it.current, <<y>>, Tail(smp.queue), smp.held,
              smp.ended /\ ~it.exhausted, due)
    BY <1>7, <1>8, <2>1, <2>2, <2>3, DueTaken
  <2> QED BY <1>5, <1>11, <1>17, <2>4, Zenon DEF PipelineDue
<1>23. Len(it'.queue) <= 1 /\ Len(it'.current) <= 1
  <2>1. Len(it'.queue) = 1
    BY <1>11
  <2> QED BY <1>1, <1>11, <2>1
<1> QED BY <1>1, <1>4, <1>5, <1>11, <1>14, <1>18, <1>19, <1>20, <1>21, <1>22, <1>23, PipelineNext

LEMMA PipelineSubmits ==
    ASSUME LoaderInv, cfg.mode = "pipeline", SubmitSampled
    PROVE LoaderInv'
<1>1. CASE ~(it.exhausted \/ it.queue # <<>>) /\ TakeSampled
  BY <1>1, SentinelTaken, BatchTaken
<1>2. CASE /\ (it.exhausted \/ it.queue # <<>>) \/ (At("nowait") /\ smp.queue = <<>>)
           /\ Goto(Rest) /\ UNCHANGED <<stack, nextId, smp>>
  <2>1. /\ At("block") \/ At("nowait")
        /\ UNCHANGED <<cfg, stack, nextId, smp, wb, drawn, epoch, due, got, stale>>
    BY <1>2 DEF SubmitSampled
  <2> QED BY <1>2, <2>1, PipelineIdles
<1> QED BY <1>1, <1>2 DEF SubmitSampled

\* __next__ returns the batch that is due, with its rows.
LEMMA Returned ==
    ASSUME TypeOK, Return, Len(it.hand) = 1, Len(due) >= 1, due[1] = it.hand[1].batch,
           ~stale => OwnBatch(it.hand[1])
    PROVE /\ TypeOK' /\ ReturnsOwn' /\ due' = Tail(due)
          /\ it'.queue = it.queue /\ it'.pend = it.pend /\ it'.current = it.current
          /\ it'.exhausted = it.exhausted /\ it'.ios = it.ios /\ it'.out = it.out
          /\ it'.hand = <<>> /\ it'.todo = Rest
          /\ cfg' = cfg /\ stack' = stack /\ nextId' = nextId /\ smp' = smp /\ wb' = wb
          /\ drawn' = drawn /\ epoch' = epoch /\ stale' = stale
<1>1. it \in Iterator /\ due \in Seq(Nat \ {0})
  BY DEF TypeOK
<1>2. /\ cfg' = cfg /\ stack' = stack /\ nextId' = nextId /\ smp' = smp /\ wb' = wb
      /\ drawn' = drawn /\ epoch' = epoch /\ stale' = stale
      /\ it.todo # <<>>
  BY DEF Return, At
<1>3. /\ due' = Tail(due) /\ it' = [it EXCEPT !.hand = <<>>, !.todo = Rest]
      /\ got' = [want |-> Head(due), batch |-> it.hand[1].batch, rows |-> it.hand[1].rows]
  BY DEF Return
<1>4. Rest \in Seq(StepNames)
  BY <1>1, <1>2, RestIs
<1>5. <<>> \in Seq(Item)
  OBVIOUS
<1>6. it' \in Iterator
  BY <1>1, <1>3, <1>4, <1>5 DEF Iterator
<1>7. /\ it'.queue = it.queue /\ it'.pend = it.pend /\ it'.current = it.current
      /\ it'.exhausted = it.exhausted /\ it'.ios = it.ios /\ it'.out = it.out
      /\ it'.hand = <<>> /\ it'.todo = Rest
  BY <1>1, <1>3 DEF Iterator
<1>8. due' \in Seq(Nat \ {0}) /\ Head(due) = due[1]
  BY <1>1, <1>3
<1>9. TypeOK'
  BY <1>2, <1>6, <1>8 DEF TypeOK
<1>10. ReturnsOwn'
  <2>1. got'.want = it.hand[1].batch /\ got'.batch = it.hand[1].batch /\ got'.rows = it.hand[1].rows
    BY <1>3, <1>8
  <2>2. ~stale => it.hand[1].rows = OwnRows(it.hand[1].batch)
    BY DEF OwnBatch
  <2>3. \A b : OwnRows(b)' = OwnRows(b)
    BY <1>2 DEF OwnRows, RowsOf
  <2> QED BY <1>2, <2>1, <2>2, <2>3 DEF ReturnsOwn
<1> QED BY <1>2, <1>3, <1>7, <1>9, <1>10

\* The sentinel, while it is on its way, is the last thing sampled.
LEMMA SentinelLast ==
    ASSUME Sampler, smp \in SamplerThread
    PROVE LET z == IF smp.ended /\ ~it.exhausted THEN 1 ELSE 0
          IN /\ \A i \in 1..Len(smp.queue) :
                  smp.queue[i] # Sentinel => i + z <= Len(smp.queue) + Len(smp.held)
             /\ \A i \in 1..Len(smp.held) :
                  smp.held[i] # Sentinel => i + z <= Len(smp.held)
<1> DEFINE z == IF smp.ended /\ ~it.exhausted THEN 1 ELSE 0
           sl == Len(smp.queue)
           el == Len(smp.held)
<1>1. /\ sl \in Nat /\ el \in Nat /\ (smp.held = <<>> <=> el = 0)
  BY LenIs DEF SamplerThread
<1>2. /\ \A i \in 1..sl : smp.queue[i] = Sentinel <=> smp.ended /\ smp.held = <<>> /\ i = sl
      /\ \A i \in 1..el : smp.held[i] = Sentinel <=> smp.ended
  BY DEF Sampler
<1>3. z \in 0..1 /\ (z = 1 => smp.ended)
  OBVIOUS
<1> HIDE DEF z, sl, el
<1>4. ASSUME NEW i \in 1..sl, smp.queue[i] # Sentinel PROVE i + z <= sl + el
  <2>1. CASE z = 0
    BY <1>1, <2>1
  <2>2. CASE z = 1 /\ el = 0
    <3>1. i # sl
      BY <1>1, <1>2, <1>3, <1>4, <2>2
    <3> QED BY <1>1, <2>2, <3>1
  <2>3. CASE z = 1 /\ el # 0
    BY <1>1, <2>3
  <2> QED BY <1>3, <2>1, <2>2, <2>3
<1>5. ASSUME NEW i \in 1..el, smp.held[i] # Sentinel PROVE i + z <= el
  <2>1. z = 0
    BY <1>2, <1>3, <1>5
  <2> QED BY <1>1, <2>1
<1> QED BY <1>4, <1>5 DEF z, sl, el

LEMMA DueReturned ==
    ASSUME NEW h, NEW c, NEW q, NEW s, NEW e, NEW f, NEW d \in Seq(Nat \ {0}),
           DueOf(h, c, q, s, e, f, d),
           Len(h) = 1, Len(c) \in Nat, Len(q) \in Nat, Len(s) \in Nat, Len(e) \in Nat, d # <<>>,
           \A i \in 1..Len(s) : s[i] # Sentinel => i + (IF f THEN 1 ELSE 0) <= Len(s) + Len(e),
           \A i \in 1..Len(e) : e[i] # Sentinel => i + (IF f THEN 1 ELSE 0) <= Len(e),
           1 + Len(c) + Len(q) <= Len(d)
    PROVE DueOf(<<>>, c, q, s, e, f, Tail(d))
<1> DEFINE cl == Len(c)
           ql == Len(q)
           sl == Len(s)
           el == Len(e)
           t == Tail(d)
           l == Len(d)
           z == IF f THEN 1 ELSE 0
<1>1. l \in Nat /\ Len(t) = l - 1 /\ \A i \in 1..(l - 1) : t[i] = d[i + 1]
  BY TailIs
<1>2. /\ l = 1 + cl + ql + sl + el - z
      /\ \A i \in 1..cl : d[1 + i] = c[i].batch
      /\ \A i \in 1..ql : d[1 + cl + i] = q[i].batch
      /\ \A i \in 1..sl : s[i] # Sentinel => d[1 + cl + ql + i] = s[i]
      /\ \A i \in 1..el : e[i] # Sentinel => d[1 + cl + ql + sl + i] = e[i]
  BY DEF DueOf
<1>3. /\ cl \in Nat /\ ql \in Nat /\ sl \in Nat /\ el \in Nat /\ z \in 0..1
      /\ \A i \in 1..sl : s[i] # Sentinel => i + z <= sl + el
      /\ \A i \in 1..el : e[i] # Sentinel => i + z <= el
      /\ 1 + cl + ql <= l
  OBVIOUS
<1> HIDE DEF cl, ql, sl, el, z, t, l
<1>n. cl \in Nat /\ ql \in Nat /\ l \in Nat /\ 1 + cl + ql <= l
  BY <1>1, <1>3
<1>4. Len(t) = 0 + cl + ql + sl + el - z
  BY <1>1, <1>2, <1>3
<1>5. \A i \in 1..cl : t[0 + i] = c[i].batch
  <2> TAKE i \in 1..cl
  <2>1. 0 + i \in 1..(l - 1) /\ (0 + i) + 1 = 1 + i
    BY <1>n
  <2> QED BY <1>1, <1>2, <2>1
<1>6. \A i \in 1..ql : t[0 + cl + i] = q[i].batch
  <2> TAKE i \in 1..ql
  <2>1. 0 + cl + i \in 1..(l - 1) /\ (0 + cl + i) + 1 = 1 + cl + i
    BY <1>n
  <2> QED BY <1>1, <1>2, <2>1
<1>7. \A i \in 1..sl : s[i] # Sentinel => t[0 + cl + ql + i] = s[i]
  <2> TAKE i \in 1..sl
  <2> HAVE s[i] # Sentinel
  <2>1. i + z <= sl + el
    BY <1>3
  <2>m. /\ l \in Nat /\ l = 1 + cl + ql + sl + el - z /\ cl \in Nat /\ ql \in Nat
        /\ sl \in Nat /\ el \in Nat /\ z \in 0..1
    BY <1>1, <1>2, <1>3
  <2>2. 0 + cl + ql + i \in 1..(l - 1) /\ (0 + cl + ql + i) + 1 = 1 + cl + ql + i
    BY <2>1, <2>m
  <2>3. d[1 + cl + ql + i] = s[i]
    BY <1>2
  <2> QED BY <1>1, <2>2, <2>3
<1>8. \A i \in 1..el : e[i] # Sentinel => t[0 + cl + ql + sl + i] = e[i]
  <2> TAKE i \in 1..el
  <2> HAVE e[i] # Sentinel
  <2>1. i + z <= el
    BY <1>3
  <2>m. /\ l \in Nat /\ l = 1 + cl + ql + sl + el - z /\ cl \in Nat /\ ql \in Nat
        /\ sl \in Nat /\ el \in Nat /\ z \in 0..1
    BY <1>1, <1>2, <1>3
  <2>n. i \in Nat /\ i >= 1 /\ i + z <= el
    BY <2>1, <2>m
  <2>o. l - 1 = cl + ql + sl + (el - z) /\ i <= el - z
    BY <2>m, <2>n
  <2>2. 0 + cl + ql + sl + i \in 1..(l - 1) /\ (0 + cl + ql + sl + i) + 1 = 1 + cl + ql + sl + i
    BY <2>m, <2>n, <2>o
  <2>3. d[1 + cl + ql + sl + i] = e[i]
    BY <1>2
  <2> QED BY <1>1, <2>2, <2>3
<1> DEFINE w == <<>>
<1>9. Len(w) = 0 /\ \A i \in 1..0 : FALSE
  OBVIOUS
<1> HIDE DEF w
<1>10. \A i \in 1..Len(w) : FALSE
  BY <1>9
<1>11. cl = Len(c) /\ ql = Len(q) /\ sl = Len(s) /\ el = Len(e) /\ z = IF f THEN 1 ELSE 0
  BY DEF cl, ql, sl, el, z
<1>12. DueOf(w, c, q, s, e, f, t)
  BY <1>4, <1>5, <1>6, <1>7, <1>8, <1>9, <1>10, <1>11, Zenon DEF DueOf
<1> QED BY <1>12 DEF w, t

LEMMA DueHanded ==
    ASSUME NEW c, NEW q, NEW s, NEW e, NEW f, NEW d, DueOf(<<>>, c, q, s, e, f, d), Len(c) \in Nat
    PROVE DueOf(c, <<>>, q, s, e, f, d)
<1> DEFINE cl == Len(c)
           w == <<>>
<1>1. Len(w) = 0 /\ (\A i \in 1..0 : FALSE) /\ cl \in Nat
  OBVIOUS
<1>2. 0 + cl = cl + 0
  BY <1>1
<1>3. \A i \in 1..cl : 0 + i = i
  BY <1>1
<1> HIDE DEF w, cl
<1>4. DueOf(w, c, q, s, e, f, d)
  BY DEF w
<1>5. cl = Len(c)
  BY DEF cl
<1>6. /\ Len(d) = 0 + cl + Len(q) + Len(s) + Len(e) - (IF f THEN 1 ELSE 0)
      /\ \A i \in 1..cl : d[0 + i] = c[i].batch
      /\ \A i \in 1..Len(q) : d[0 + cl + i] = q[i].batch
      /\ \A i \in 1..Len(s) : s[i] # Sentinel => d[0 + cl + Len(q) + i] = s[i]
      /\ \A i \in 1..Len(e) : e[i] # Sentinel => d[0 + cl + Len(q) + Len(s) + i] = e[i]
  BY <1>1, <1>4, <1>5, Zenon DEF DueOf
<1>7. \A i \in 1..cl : d[i] = c[i].batch
  BY <1>3, <1>6, Zenon
<1>8. DueOf(c, w, q, s, e, f, d)
  <2>1. /\ Len(d) = cl + 0 + Len(q) + Len(s) + Len(e) - (IF f THEN 1 ELSE 0)
        /\ \A i \in 1..Len(q) : d[cl + 0 + i] = q[i].batch
        /\ \A i \in 1..Len(s) : s[i] # Sentinel => d[cl + 0 + Len(q) + i] = s[i]
        /\ \A i \in 1..Len(e) : e[i] # Sentinel => d[cl + 0 + Len(q) + Len(s) + i] = e[i]
    BY <1>2, <1>6, Zenon
  <2>2. \A i \in 1..Len(w) : FALSE
    BY <1>1
  <2> QED BY <1>1, <1>5, <1>7, <2>1, <2>2, Zenon DEF DueOf
<1> QED BY <1>8 DEF w

LEMMA PipelineHands ==
    ASSUME LoaderInv, cfg.mode = "pipeline", Hand
    PROVE LoaderInv'
<1>1. /\ TypeOK /\ Numbering /\ QueueInv /\ ReturnsOwn /\ Items /\ cfg.mode \in Queued
      /\ PipelinePhase /\ Sampler
      /\ it.pend = <<>> /\ Len(it.queue) <= 1 /\ Len(it.current) <= 1
      /\ it.out # "error" => PipelineDue
  BY PipelineFacts, QueuedFacts
<1>2. it \in Iterator
  BY QueuedFacts, PipelineFacts
<1>3. At("hand")
  BY DEF Hand
<1>4. it.todo # <<>> /\ it.out = "ok"
  BY <1>3, PipelineIs DEF At
<1>5. /\ cfg' = cfg /\ stack' = stack /\ nextId' = nextId /\ smp' = smp /\ wb' = wb
      /\ drawn' = drawn /\ epoch' = epoch /\ due' = due /\ got' = got /\ stale' = stale
  BY DEF Hand
<1>6. /\ it.hand = <<>> /\ Rest = <<"nowait", "return">>
      /\ it.current # <<>> \/ (it.queue = <<>> /\ it.exhausted)
  BY <1>3, PipelineIs
<1>7. CASE it.current = <<>>
  <2>1. it' = [it EXCEPT !.todo = <<>>, !.out = "stop"]
    BY <1>7 DEF Hand
  <2>2. it'.todo = <<>> /\ it'.hand = <<>>
    BY <1>2, <1>6, <2>1 DEF Iterator
  <2>3. PipelinePhase' /\ <<>> \in Seq(StepNames)
    BY <2>2, PhaseRest
  <2>4. PipelineMoves(<<>>, "stop")
    BY <1>4, <1>5, <1>6, <1>7, <2>1, <2>3 DEF PipelineMoves
  <2> QED BY <2>4, PipelineMoved
<1>8. CASE it.current # <<>>
  <2>1. it' = [it EXCEPT !.hand = it.current, !.current = <<>>, !.todo = Rest]
    BY <1>8 DEF Hand
  <2>2. it.current \in Seq(Item) /\ Len(it.current) \in Nat /\ Len(it.current) = 1
    <3> DEFINE n == Len(it.current)
    <3>1. it.current \in Seq(Item)
      BY <1>2 DEF Iterator
    <3>2. n \in Nat /\ n # 0 /\ n <= 1
      BY <1>1, <1>8, <3>1, LenIs
    <3> HIDE DEF n
    <3>3. n = 1
      BY <3>2
    <3> QED BY <3>1, <3>3 DEF n
  <2>3. Rest \in Seq(StepNames) /\ <<>> \in Seq(Item)
    BY <1>2, <1>4, RestIs
  <2>4. /\ it'.queue = it.queue /\ it'.pend = it.pend /\ it'.current = <<>>
        /\ it'.hand = it.current /\ it'.exhausted = it.exhausted /\ it'.ios = it.ios
        /\ it'.out = it.out /\ it'.todo = Rest
    BY <1>2, <2>1 DEF Iterator
  <2>5. it' \in Iterator
    BY <1>2, <2>1, <2>2, <2>3 DEF Iterator
  <2>6. TypeOK'
    BY <1>1, <1>5, <2>5 DEF TypeOK
  <2>7. \A i \in 1..Len(it.hand) : FALSE
    BY <1>6
  <2>8. Passed
    BY <1>5, <2>4, <2>7 DEF Passed
  <2>9. QueueInv' /\ Numbering'
    BY <1>1, <2>6, <2>8, QueuePassed
  <2>10. PipelinePhase'
    BY <1>4, <1>6, <2>2, <2>4, PhasePost
  <2>11. Sampler'
    BY <1>1, <1>5, <2>4, SamplerSame, Zenon
  <2>12. PipelineDue'
    <3>1. DueOf(<<>>, it.current, it.queue, smp.queue, smp.held, smp.ended /\ ~it.exhausted, due)
      BY <1>1, <1>4, <1>6 DEF PipelineDue
    <3>2. DueOf(it.current, <<>>, it.queue, smp.queue, smp.held, smp.ended /\ ~it.exhausted, due)
      BY <2>2, <3>1, DueHanded
    <3> QED BY <1>5, <2>4, <3>2, Zenon DEF PipelineDue
  <2>13. ReturnsOwn'
    BY <1>1, <1>5, SameReturns
  <2>14. Len(it'.current) <= 1
    <3>1. Len(it'.current) = 0
      BY <2>4
    <3> QED BY <3>1
  <2> QED BY <1>1, <1>4, <1>5, <2>4, <2>6, <2>9, <2>10, <2>11, <2>12, <2>13, <2>14, PipelineNext
<1> QED BY <1>7, <1>8

LEMMA PipelineReturns ==
    ASSUME LoaderInv, cfg.mode = "pipeline", Return
    PROVE LoaderInv'
<1>1. /\ TypeOK /\ Numbering /\ QueueInv /\ ReturnsOwn /\ Items /\ Fetched1 /\ cfg.mode \in Queued
      /\ cfg.mode \in OnePart /\ PipelinePhase /\ Sampler
      /\ it.pend = <<>> /\ Len(it.queue) <= 1 /\ Len(it.current) <= 1
      /\ it.out # "error" => PipelineDue
  BY PipelineFacts, QueuedFacts
<1>2. it \in Iterator /\ smp \in SamplerThread /\ due \in Seq(Nat \ {0})
  BY QueuedFacts, PipelineFacts
<1>3. At("return")
  BY DEF Return
<1>4. it.todo # <<>> /\ it.out = "ok" /\ Len(it.hand) = 1 /\ Rest = <<>>
  BY <1>3, PipelineIs DEF At
<1> DEFINE z == IF smp.ended /\ ~it.exhausted THEN 1 ELSE 0
           cl == Len(it.current)
           ql == Len(it.queue)
           sl == Len(smp.queue)
           el == Len(smp.held)
<1>5. /\ cl \in Nat /\ ql \in Nat /\ sl \in Nat /\ el \in Nat
      /\ (sl = 0 <=> smp.queue = <<>>) /\ (el = 0 <=> smp.held = <<>>)
  <2>1. /\ it.current \in Seq(Item) /\ it.queue \in Seq(Item)
        /\ smp.queue \in Seq(Nat) /\ smp.held \in Seq(Nat)
    BY <1>2 DEF Iterator, SamplerThread
  <2> QED BY <2>1, LenIs
<1>6. DueOf(it.hand, it.current, it.queue, smp.queue, smp.held, smp.ended /\ ~it.exhausted, due)
  BY <1>1, <1>4 DEF PipelineDue
<1>7. /\ Len(due) = 1 + cl + ql + sl + el - z
      /\ \A i \in 1..1 : due[i] = it.hand[i].batch
  BY <1>4, <1>6 DEF DueOf
<1>8. z \in 0..1 /\ (z = 1 => sl + el >= 1)
  <2>1. it.exhausted <=> smp.ended /\ smp.queue = <<>> /\ smp.held = <<>>
    BY <1>1 DEF Sampler
  <2>2. z = 1 => sl # 0 \/ el # 0
    BY <1>5, <2>1
  <2>3. z \in 0..1
    OBVIOUS
  <2> HIDE DEF z, sl, el
  <2> QED BY <1>5, <2>2, <2>3
<1>9. 1 + cl + ql <= Len(due) /\ Len(due) >= 1
  <2> HIDE DEF z, cl, ql, sl, el
  <2> QED BY <1>5, <1>7, <1>8
<1>10. due[1] = it.hand[1].batch
  BY <1>7
<1>11. due # <<>>
  BY <1>9
<1>12. ~stale => OwnBatch(it.hand[1])
  <2>1. 1 \in 1..Len(it.hand)
    BY <1>4
  <2> QED BY <1>1, <2>1 DEF Fetched1
<1>13. /\ TypeOK' /\ ReturnsOwn' /\ due' = Tail(due)
       /\ it'.queue = it.queue /\ it'.pend = it.pend /\ it'.current = it.current
       /\ it'.exhausted = it.exhausted /\ it'.ios = it.ios /\ it'.out = it.out
       /\ it'.hand = <<>> /\ it'.todo = Rest
       /\ cfg' = cfg /\ stack' = stack /\ nextId' = nextId /\ smp' = smp /\ wb' = wb
       /\ drawn' = drawn /\ epoch' = epoch /\ stale' = stale
  BY <1>1, <1>4, <1>9, <1>10, <1>12, Returned
<1>14. QueueInv' /\ Numbering'
  <2>1. \A i \in 1..Len(it.hand) : it.hand[i].mat = Len(it.hand[i].ids)
    BY <1>1 DEF Items
  <2>2. Passed
    BY <1>13, <2>1 DEF Passed
  <2> QED BY <1>1, <1>13, <2>2, QueuePassed
<1>15. PipelinePhase'
  BY <1>4, <1>13, PhaseRest
<1>16. Sampler'
  BY <1>1, <1>13, SamplerSame, Zenon
<1>17. PipelineDue'
  <2>1. /\ \A i \in 1..Len(smp.queue) :
             smp.queue[i] # Sentinel => i + z <= Len(smp.queue) + Len(smp.held)
        /\ \A i \in 1..Len(smp.held) : smp.held[i] # Sentinel => i + z <= Len(smp.held)
    BY <1>1, <1>2, SentinelLast
  <2>2. DueOf(<<>>, it.current, it.queue, smp.queue, smp.held, smp.ended /\ ~it.exhausted, Tail(due))
    BY <1>2, <1>4, <1>5, <1>6, <1>9, <1>11, <2>1, DueReturned
  <2> QED BY <1>13, <2>2, Zenon DEF PipelineDue
<1> QED BY <1>1, <1>4, <1>13, <1>14, <1>15, <1>16, <1>17, PipelineNext

LEMMA DueDrawn ==
    ASSUME NEW h, NEW c, NEW q, NEW s, NEW d \in Seq(Nat \ {0}), NEW b \in Nat \ {0},
           DueOf(h, c, q, s, <<>>, FALSE, d),
           Len(h) \in Nat, Len(c) \in Nat, Len(q) \in Nat, Len(s) \in Nat
    PROVE DueOf(h, c, q, s, <<b>>, FALSE, Append(d, b))
<1> DEFINE hl == Len(h)
           cl == Len(c)
           ql == Len(q)
           sl == Len(s)
           l == Len(d)
           t == Append(d, b)
           w == <<b>>
<1>1. /\ l \in Nat /\ Len(t) = l + 1 /\ (\A i \in 1..l : t[i] = d[i]) /\ t[l + 1] = b
  BY AppendIs
<1>2. Len(w) = 1 /\ \A i \in 1..1 : w[i] = b
  OBVIOUS
<1>3. /\ l = hl + cl + ql + sl + 0 - 0
      /\ \A i \in 1..hl : d[i] = h[i].batch
      /\ \A i \in 1..cl : d[hl + i] = c[i].batch
      /\ \A i \in 1..ql : d[hl + cl + i] = q[i].batch
      /\ \A i \in 1..sl : s[i] # Sentinel => d[hl + cl + ql + i] = s[i]
  <2>1. Len(<<>>) = 0
    OBVIOUS
  <2> QED BY <2>1 DEF DueOf
<1>4. hl \in Nat /\ cl \in Nat /\ ql \in Nat /\ sl \in Nat
  OBVIOUS
<1>5. hl = Len(h) /\ cl = Len(c) /\ ql = Len(q) /\ sl = Len(s)
  OBVIOUS
<1> HIDE DEF hl, cl, ql, sl, l, t, w
<1>6. l = hl + cl + ql + sl
  BY <1>3, <1>4
<1>7. \A i \in 1..hl : i \in 1..l
  BY <1>4, <1>6
<1>8. \A i \in 1..cl : hl + i \in 1..l
  BY <1>4, <1>6
<1>9. \A i \in 1..ql : hl + cl + i \in 1..l
  BY <1>4, <1>6
<1>10. \A i \in 1..sl : hl + cl + ql + i \in 1..l
  BY <1>4, <1>6
<1>11. /\ \A i \in 1..hl : t[i] = h[i].batch
       /\ \A i \in 1..cl : t[hl + i] = c[i].batch
       /\ \A i \in 1..ql : t[hl + cl + i] = q[i].batch
       /\ \A i \in 1..sl : s[i] # Sentinel => t[hl + cl + ql + i] = s[i]
  BY <1>1, <1>3, <1>7, <1>8, <1>9, <1>10, Zenon
<1>12. Len(t) = hl + cl + ql + sl + 1 - 0
  BY <1>1, <1>4, <1>6
<1>13. \A i \in 1..1 : t[hl + cl + ql + sl + i] = w[i]
  BY <1>1, <1>2, <1>6
<1>14. DueOf(h, c, q, s, w, FALSE, t)
  BY <1>2, <1>5, <1>11, <1>12, <1>13, Zenon DEF DueOf
<1> QED BY <1>14 DEF w, t

LEMMA DueEnds ==
    ASSUME NEW h, NEW c, NEW q, NEW s, NEW d, DueOf(h, c, q, s, <<>>, FALSE, d),
           Len(h) \in Nat, Len(c) \in Nat, Len(q) \in Nat, Len(s) \in Nat
    PROVE DueOf(h, c, q, s, <<Sentinel>>, TRUE, d)
<1> DEFINE w == <<Sentinel>>
           l == Len(h) + Len(c) + Len(q) + Len(s)
<1>1. Len(w) = 1 /\ \A i \in 1..1 : w[i] = Sentinel
  OBVIOUS
<1>2. Len(<<>>) = 0 /\ l \in Nat
  OBVIOUS
<1>3. l + 0 - 0 = l + 1 - 1
  BY <1>2
<1>4. /\ Len(d) = l + 0 - 0
      /\ \A i \in 1..Len(h) : d[i] = h[i].batch
      /\ \A i \in 1..Len(c) : d[Len(h) + i] = c[i].batch
      /\ \A i \in 1..Len(q) : d[Len(h) + Len(c) + i] = q[i].batch
      /\ \A i \in 1..Len(s) : s[i] # Sentinel => d[Len(h) + Len(c) + Len(q) + i] = s[i]
  BY <1>2 DEF DueOf
<1>5. Len(d) = l + 1 - 1
  BY <1>3, <1>4
<1> HIDE DEF w
<1>6. DueOf(h, c, q, s, w, TRUE, d)
  BY <1>1, <1>4, <1>5, Zenon DEF DueOf
<1> QED BY <1>6 DEF w

LEMMA DuePut ==
    ASSUME NEW h, NEW c, NEW q, NEW s \in Seq(Nat), NEW e \in Seq(Nat), NEW f, NEW d,
           DueOf(h, c, q, s, e, f, d),
           Len(h) \in Nat, Len(c) \in Nat, Len(q) \in Nat
    PROVE DueOf(h, c, q, s \o e, <<>>, f, d)
<1> DEFINE k == Len(h) + Len(c) + Len(q)
           sl == Len(s)
           el == Len(e)
           t == s \o e
           w == <<>>
           z == IF f THEN 1 ELSE 0
<1>1. /\ t \in Seq(Nat) /\ Len(t) = sl + el
      /\ \A i \in 1..(sl + el) : t[i] = IF i <= sl THEN s[i] ELSE e[i - sl]
  BY ConcatIs, Zenon
<1>2. k \in Nat /\ sl \in Nat /\ el \in Nat
  OBVIOUS
<1>3. Len(w) = 0 /\ \A i \in 1..0 : FALSE
  OBVIOUS
<1>4. /\ Len(d) = k + sl + el - z
      /\ \A i \in 1..Len(h) : d[i] = h[i].batch
      /\ \A i \in 1..Len(c) : d[Len(h) + i] = c[i].batch
      /\ \A i \in 1..Len(q) : d[Len(h) + Len(c) + i] = q[i].batch
      /\ \A i \in 1..sl : s[i] # Sentinel => d[k + i] = s[i]
      /\ \A i \in 1..el : e[i] # Sentinel => d[k + sl + i] = e[i]
  BY DEF DueOf
<1>5. k = Len(h) + Len(c) + Len(q) /\ z \in 0..1 /\ z = IF f THEN 1 ELSE 0
  OBVIOUS
<1> HIDE DEF k, sl, el, t, w, z
<1>6. \A i \in 1..(sl + el) : t[i] # Sentinel => d[k + i] = t[i]
  <2> TAKE i \in 1..(sl + el)
  <2> HAVE t[i] # Sentinel
  <2>1. CASE i <= sl
    <3>1. i \in 1..sl /\ t[i] = s[i]
      BY <1>1, <1>2, <2>1
    <3> QED BY <1>4, <3>1
  <2>2. CASE i > sl
    <3>1. i - sl \in 1..el /\ k + sl + (i - sl) = k + i /\ t[i] = e[i - sl]
      BY <1>1, <1>2, <2>2
    <3> QED BY <1>4, <3>1
  <2> QED BY <1>2, <2>1, <2>2
<1>7. Len(d) = k + (sl + el) + 0 - z
  BY <1>2, <1>4, <1>5
<1>8. \A i \in 1..Len(w) : FALSE
  BY <1>3
<1>9. DueOf(h, c, q, t, w, f, d)
  BY <1>1, <1>3, <1>4, <1>5, <1>6, <1>7, <1>8, Zenon DEF DueOf
<1> QED BY <1>9 DEF t, w

\* The sampler thread's steps leave the iterator alone.
LEMMA SamplerSteps ==
    ASSUME LoaderInv, cfg.mode = "pipeline", smp' \in SamplerThread, Sampler',
           it.out # "error" => PipelineDue', smp.exc => smp'.exc,
           drawn' \in Nat, due' \in Seq(Nat \ {0}),
           UNCHANGED <<cfg, stack, nextId, it, wb, epoch, got, stale>>
    PROVE LoaderInv'
<1>1. /\ TypeOK /\ Numbering /\ QueueInv /\ ReturnsOwn /\ cfg.mode \in Queued
      /\ PipelinePhase /\ Sampler
      /\ it.pend = <<>> /\ Len(it.queue) <= 1 /\ Len(it.current) <= 1
      /\ it.out = "stop" => it.exhausted /\ it.current = <<>>
      /\ it.out = "error" => smp.exc
  BY PipelineFacts, QueuedFacts
<1>2. /\ cfg' = cfg /\ stack' = stack /\ nextId' = nextId /\ it' = it /\ wb' = wb
      /\ epoch' = epoch /\ got' = got /\ stale' = stale
  OBVIOUS
<1>3. TypeOK'
  BY <1>1, <1>2 DEF TypeOK
<1>4. SameRequests /\ SameItems
  BY <1>1, <1>2, StackSame DEF SameItems
<1>5. QueueInv' /\ Numbering'
  BY <1>1, <1>4, QueueSame
<1>6. ReturnsOwn'
  BY <1>1, <1>2, SameReturns
<1>7. PipelinePhase'
  BY <1>1, <1>2, Zenon DEF PipelinePhase, At, Supplied
<1> QED BY <1>1, <1>2, <1>3, <1>5, <1>6, <1>7, PipelineNext

LEMMA PipelineSamples ==
    ASSUME LoaderInv, cfg.mode = "pipeline", SamplerNext
    PROVE LoaderInv'
<1>1. /\ TypeOK /\ Sampler /\ (it.out # "error" => PipelineDue)
  BY PipelineFacts, QueuedFacts
<1>2. /\ it \in Iterator /\ smp \in SamplerThread /\ drawn \in Nat /\ due \in Seq(Nat \ {0})
  BY QueuedFacts, PipelineFacts
<1>3. /\ ~smp.ended /\ smp.held = <<>>
      /\ UNCHANGED <<cfg, stack, nextId, it, wb, epoch, got, stale>>
  BY DEF SamplerNext
<1>4. it' = it /\ epoch' = epoch
  BY <1>3
<1>5. /\ Len(it.hand) \in Nat /\ Len(it.current) \in Nat /\ Len(it.queue) \in Nat
      /\ Len(smp.queue) \in Nat /\ smp.queue \in Seq(Nat)
  BY <1>2, LenIs DEF Iterator, SamplerThread
<1>6. /\ ~it.exhausted
      /\ \A i \in 1..Len(smp.queue) : smp.queue[i] # Sentinel
  BY <1>1, <1>3 DEF Sampler
<1>7. it.out # "error" =>
        DueOf(it.hand, it.current, it.queue, smp.queue, <<>>, FALSE, due)
  <2>1. (smp.ended /\ ~it.exhausted) = FALSE
    BY <1>3
  <2> QED BY <1>1, <1>3, <2>1, Zenon DEF PipelineDue
<1>8. CASE HasMore /\ smp' = [smp EXCEPT !.held = <<drawn + 1>>] /\ Draw
  <2> DEFINE b == drawn + 1
  <2>1. b \in Nat \ {0} /\ drawn' = b /\ due' = Append(due, b)
    BY <1>2, <1>8 DEF Draw
  <2>2. smp' = [smp EXCEPT !.held = <<b>>]
    BY <1>8
  <2> HIDE DEF b
  <2>3. <<b>> \in Seq(Nat) /\ Len(<<b>>) = 1 /\ <<b>>[1] = b /\ b # Sentinel
    BY <2>1 DEF Sentinel
  <2>4. /\ smp'.queue = smp.queue /\ smp'.held = <<b>> /\ smp'.ended = smp.ended
        /\ smp'.exc = smp.exc /\ smp' \in SamplerThread
    BY <1>2, <2>2, <2>3 DEF SamplerThread
  <2>5. drawn' \in Nat /\ due' \in Seq(Nat \ {0})
    BY <1>2, <2>1
  <2>6. Sampler'
    <3>1. \A i \in 1..Len(smp'.held) : smp'.held[i] # Sentinel
      BY <2>3, <2>4
    <3>2. Len(smp'.held) <= 1 /\ smp'.held # <<>>
      BY <2>3, <2>4
    <3> QED BY <1>3, <1>4, <1>6, <2>4, <3>1, <3>2 DEF Sampler
  <2>7. it.out # "error" => PipelineDue'
    <3> HAVE it.out # "error"
    <3>1. DueOf(it.hand, it.current, it.queue, smp.queue, <<b>>, FALSE, Append(due, b))
      BY <1>2, <1>5, <1>7, <2>1, DueDrawn
    <3>2. (smp'.ended /\ ~it'.exhausted) = FALSE
      BY <1>3, <2>4
    <3> QED BY <1>4, <2>1, <2>4, <3>1, <3>2, Zenon DEF PipelineDue
  <2> QED BY <1>3, <2>4, <2>5, <2>6, <2>7, SamplerSteps
<1>9. ASSUME NEW x \in BOOLEAN, x \/ ~HasMore, smp.exc => x, NoDraw,
             smp' = [smp EXCEPT !.held = <<Sentinel>>, !.ended = TRUE, !.exc = x]
      PROVE LoaderInv'
  <2>1. drawn' = drawn /\ due' = due
    BY <1>9 DEF NoDraw
  <2>2. <<Sentinel>> \in Seq(Nat) /\ Len(<<Sentinel>>) = 1 /\ <<Sentinel>>[1] = Sentinel
    BY DEF Sentinel
  <2>3. /\ smp'.queue = smp.queue /\ smp'.held = <<Sentinel>> /\ smp'.ended = TRUE
        /\ smp'.exc = x /\ smp' \in SamplerThread
    BY <1>2, <1>9, <2>2 DEF SamplerThread
  <2>4. Sampler'
    <3>1. Len(smp'.held) <= 1 /\ smp'.held # <<>>
          /\ \A i \in 1..Len(smp'.held) : smp'.held[i] = Sentinel
      BY <2>2, <2>3
    <3>2. x \/ ~HasMore'
      BY <1>4, <1>9, <2>1 DEF HasMore
    <3>3. ~it'.exhausted /\ smp'.ended
      BY <1>4, <1>6, <2>3
    <3>4. \A i \in 1..Len(smp'.queue) : smp'.queue[i] # Sentinel
      BY <1>6, <2>3
    <3>5. smp'.exc \/ ~HasMore'
      BY <2>3, <3>2
    <3> QED BY <3>1, <3>3, <3>4, <3>5, Zenon DEF Sampler
  <2>5. it.out # "error" => PipelineDue'
    <3> HAVE it.out # "error"
    <3>1. DueOf(it.hand, it.current, it.queue, smp.queue, <<Sentinel>>, TRUE, due)
      BY <1>5, <1>7, DueEnds
    <3>2. (smp'.ended /\ ~it'.exhausted) = TRUE
      BY <1>4, <1>6, <2>3
    <3> QED BY <1>4, <2>1, <2>3, <3>1, <3>2, Zenon DEF PipelineDue
  <2>6. smp.exc => smp'.exc
    BY <1>9, <2>3
  <2> QED BY <1>2, <1>3, <2>1, <2>3, <2>4, <2>5, <2>6, SamplerSteps
<1>10. CASE ~HasMore /\ smp' = [smp EXCEPT !.held = <<Sentinel>>, !.ended = TRUE] /\ NoDraw
  <2>1. /\ smp.exc \in BOOLEAN
        /\ smp' = [smp EXCEPT !.held = <<Sentinel>>, !.ended = TRUE, !.exc = smp.exc]
    BY <1>2, <1>10 DEF SamplerThread
  <2> QED BY <1>9, <1>10, <2>1
<1>11. CASE /\ smp' = [smp EXCEPT !.held = <<Sentinel>>, !.ended = TRUE, !.exc = TRUE]
            /\ NoDraw
  BY <1>9, <1>11
<1> QED BY <1>8, <1>10, <1>11 DEF SamplerNext

LEMMA PipelinePuts ==
    ASSUME LoaderInv, cfg.mode = "pipeline", SamplerPut
    PROVE LoaderInv'
<1>1. /\ TypeOK /\ Sampler /\ (it.out # "error" => PipelineDue)
  BY PipelineFacts, QueuedFacts
<1>2. /\ it \in Iterator /\ smp \in SamplerThread /\ drawn \in Nat /\ due \in Seq(Nat \ {0})
  BY QueuedFacts, PipelineFacts
<1>3. /\ smp.held # <<>> /\ smp' = [smp EXCEPT !.queue = smp.queue \o smp.held, !.held = <<>>]
      /\ UNCHANGED <<cfg, stack, nextId, it, wb, epoch, got, stale>>
      /\ drawn' = drawn /\ due' = due
  BY <1>2 DEF SamplerPut, SamplerThread
<1>4. it' = it /\ epoch' = epoch
  BY <1>3
<1>5. /\ Len(it.hand) \in Nat /\ Len(it.current) \in Nat /\ Len(it.queue) \in Nat
      /\ smp.queue \in Seq(Nat) /\ smp.held \in Seq(Nat)
  BY <1>2, LenIs DEF Iterator, SamplerThread
<1> DEFINE t == smp.queue \o smp.held
           sl == Len(smp.queue)
           el == Len(smp.held)
<1>6. /\ t \in Seq(Nat) /\ Len(t) = sl + el
      /\ \A i \in 1..(sl + el) : t[i] = IF i <= sl THEN smp.queue[i] ELSE smp.held[i - sl]
  BY <1>5, ConcatIs, Zenon
<1>7. sl \in Nat /\ el = 1
  <2>1. el \in Nat /\ el # 0 /\ el <= 1 /\ sl \in Nat
    BY <1>1, <1>3, <1>5, LenIs DEF Sampler
  <2> HIDE DEF el
  <2> QED BY <2>1
<1>8. smp' = [smp EXCEPT !.queue = t, !.held = <<>>]
  BY <1>3
<1>9. DueOf(it.hand, it.current, it.queue, smp.queue, smp.held, smp.ended /\ ~it.exhausted, due)
      => DueOf(it.hand, it.current, it.queue, t, <<>>, smp.ended /\ ~it.exhausted, due)
  BY <1>5, DuePut
<1> HIDE DEF t
<1>10. <<>> \in Seq(Nat) /\ Len(<<>>) = 0
  OBVIOUS
<1>11. /\ smp'.queue = t /\ smp'.held = <<>> /\ smp'.ended = smp.ended
       /\ smp'.exc = smp.exc /\ smp' \in SamplerThread
  BY <1>2, <1>6, <1>8, <1>10 DEF SamplerThread
<1>12. /\ \A i \in 1..sl : smp.queue[i] # Sentinel
       /\ smp.held[1] = Sentinel <=> smp.ended
       /\ ~it.exhausted
       /\ smp.ended => smp.exc \/ ~HasMore
  BY <1>1, <1>3, <1>7 DEF Sampler
<1>13. Sampler'
  <2>1. \A i \in 1..Len(t) : t[i] = Sentinel <=> smp.ended /\ i = Len(t)
    <3> HIDE DEF sl, el
    <3> TAKE i \in 1..Len(t)
    <3>1. Len(t) = sl + 1
      BY <1>6, <1>7
    <3>2. CASE i = sl + 1
      <4>1. t[i] = smp.held[1]
        BY <1>6, <1>7, <3>1, <3>2
      <4> QED BY <1>12, <3>1, <3>2, <4>1
    <3>3. CASE i <= sl
      <4>1. i \in 1..sl /\ t[i] = smp.queue[i] /\ i # sl + 1
        BY <1>6, <1>7, <3>1, <3>3
      <4> QED BY <1>12, <3>1, <4>1
    <3> QED BY <1>7, <3>1, <3>2, <3>3
  <2>2. t # <<>>
    <3>1. Len(t) # 0
      BY <1>6, <1>7
    <3> QED BY <3>1
  <2>3. HasMore' = HasMore
    BY <1>3, <1>4 DEF HasMore
  <2>4. \A i \in 1..Len(smp'.queue) :
           smp'.queue[i] = Sentinel <=> smp'.ended /\ smp'.held = <<>> /\ i = Len(smp'.queue)
    BY <1>11, <2>1
  <2>5. Len(smp'.held) <= 1 /\ \A i \in 1..Len(smp'.held) : FALSE
    BY <1>10, <1>11
  <2>6. ~it'.exhausted
    BY <1>4, <1>12
  <2> QED BY <1>11, <1>12, <2>2, <2>3, <2>4, <2>5, <2>6, Zenon DEF Sampler
<1>14. it.out # "error" => PipelineDue'
  BY <1>1, <1>3, <1>4, <1>9, <1>11, Zenon DEF PipelineDue
<1>15. drawn' \in Nat /\ due' \in Seq(Nat \ {0})
  BY <1>2, <1>3
<1> QED BY <1>3, <1>11, <1>13, <1>14, <1>15, SamplerSteps

LEMMA PipelineCalls ==
    ASSUME LoaderInv, cfg.mode = "pipeline", Call
    PROVE LoaderInv'
<1>1. it \in Iterator
  BY QueuedFacts, PipelineFacts
<1>2. it.todo = <<>> /\ it.out = "ok" /\ it.hand = <<>>
  BY PipelineIs DEF Call
<1>3. ~Finished
  BY DEF Finished, Prefetching, Synchronous
<1>4. it' = [it EXCEPT !.todo = NextCall]
  BY <1>3 DEF Call
<1>5. NextCall = IF it.current = <<>> THEN <<"block", "poll", "get", "hand", "nowait", "return">>
                 ELSE <<"hand", "nowait", "return">>
  BY DEF NextCall
<1>6. NextCall \in Seq(StepNames)
  BY <1>5, PipelinePrograms
<1> DEFINE t == NextCall
<1> HIDE DEF t
<1>7. /\ it'.todo = t /\ it'.queue = it.queue /\ it'.current = it.current
      /\ it'.hand = it.hand /\ it'.exhausted = it.exhausted /\ it'.out = it.out
  BY <1>1, <1>4 DEF t, Iterator
<1>8. PipelinePhase'
  <2>1. CASE it.current = <<>>
    BY <1>2, <1>5, <1>7, <2>1, PhaseBlock DEF t
  <2>2. CASE it.current # <<>>
    BY <1>2, <1>5, <1>7, <2>2, PhaseHand DEF t
  <2> QED BY <2>1, <2>2
<1>9. it' = [it EXCEPT !.todo = t, !.out = "ok"]
  BY <1>1, <1>2, <1>4 DEF t, Iterator
<1>10. UNCHANGED <<cfg, stack, nextId, smp, wb, drawn, epoch, due, got, stale>>
  BY DEF Call
<1>11. PipelineMoves(t, "ok")
  BY <1>2, <1>6, <1>8, <1>9, <1>10 DEF PipelineMoves, t
<1> QED BY <1>11, PipelineMoved

\* A new iterator over the same loader.
LEMMA WarmupIs ==
    /\ Warmup["async"] = <<"submit", "poll", "fill">>
    /\ Warmup["single"] = <<"submit">>
    /\ Warmup["split"] = <<"submit", "ensure", "fill">>
    /\ Warmup["cids"] = <<"fill">>
    /\ Warmup["pipeline"] = <<"block", "poll", "get", "nowait">>
    /\ \A m \in Queued : Warmup[m] \in Seq(StepNames)
<1>1. /\ Warmup["async"] = <<"submit", "poll", "fill">>
      /\ Warmup["single"] = <<"submit">>
      /\ Warmup["split"] = <<"submit", "ensure", "fill">>
      /\ Warmup["cids"] = <<"fill">>
      /\ Warmup["pipeline"] = <<"block", "poll", "get", "nowait">>
  BY DEF Warmup
<1>2. /\ <<"submit", "poll", "fill">> \in Seq(StepNames)
      /\ <<"submit">> \in Seq(StepNames)
      /\ <<"submit", "ensure", "fill">> \in Seq(StepNames)
      /\ <<"fill">> \in Seq(StepNames)
      /\ <<"block", "poll", "get", "nowait">> \in Seq(StepNames)
  BY DEF StepNames
<1> QED BY <1>1, <1>2, Zenon DEF Queued, Prefetched

LEMMA IterIs ==
    ASSUME NEW m, Warmup[m] \in Seq(StepNames)
    PROVE /\ NewIter(m) \in Iterator
          /\ NewIter(m).queue = <<>> /\ NewIter(m).pend = <<>> /\ NewIter(m).current = <<>>
          /\ NewIter(m).hand = <<>> /\ NewIter(m).exhausted = FALSE /\ NewIter(m).ios = 0
          /\ NewIter(m).todo = Warmup[m] /\ NewIter(m).out = "ok"
<1> DEFINE w == Warmup[m]
<1>1. /\ w \in Seq(StepNames) /\ <<>> \in Seq(Item)
  OBVIOUS
<1>2. NewIter(m) = [queue |-> <<>>, pend |-> <<>>, current |-> <<>>, hand |-> <<>>,
                    exhausted |-> FALSE, ios |-> 0, todo |-> w, out |-> "ok"]
  BY DEF NewIter
<1> HIDE DEF w
<1>3. /\ NewIter(m) \in Iterator
      /\ NewIter(m).queue = <<>> /\ NewIter(m).pend = <<>> /\ NewIter(m).current = <<>>
      /\ NewIter(m).hand = <<>> /\ NewIter(m).exhausted = FALSE /\ NewIter(m).ios = 0
      /\ NewIter(m).todo = w /\ NewIter(m).out = "ok"
  BY <1>1, <1>2 DEF Iterator
<1> QED BY <1>3 DEF w

LEMMA SamplerIs ==
    /\ NewSampler \in SamplerThread
    /\ NewSampler.queue = <<>> /\ NewSampler.held = <<>>
    /\ NewSampler.ended = FALSE /\ NewSampler.exc = FALSE
<1>1. <<>> \in Seq(Nat)
  OBVIOUS
<1> QED BY <1>1 DEF NewSampler, SamplerThread

LEMMA NewEpochIs ==
    ASSUME TypeOK, Numbering, QueueInv, ReturnsOwn, cfg.mode \in Queued, NewEpoch
    PROVE /\ TypeOK' /\ Numbering' /\ QueueInv' /\ ReturnsOwn' /\ cfg' = cfg
          /\ it'.queue = <<>> /\ it'.pend = <<>> /\ it'.current = <<>> /\ it'.hand = <<>>
          /\ it'.exhausted = FALSE /\ it'.todo = Warmup[cfg.mode] /\ it'.out = "ok"
          /\ smp' = NewSampler /\ due' = <<>>
<1>1. /\ epoch' = epoch + 1 /\ drawn' = epoch * EpochLen
      /\ it' = NewIter(cfg.mode) /\ smp' = NewSampler
      /\ stale' = (stale \/ stack # <<>>)
      /\ cfg' = cfg /\ stack' = stack /\ nextId' = nextId /\ wb' = wb /\ got' = got
  BY DEF NewEpoch
<1>2. due' = <<>>
  BY DEF NewEpoch, Synchronous, Queued, Prefetched
<1>3. Warmup[cfg.mode] \in Seq(StepNames)
  BY WarmupIs
<1>4. /\ it' \in Iterator
      /\ it'.queue = <<>> /\ it'.pend = <<>> /\ it'.current = <<>> /\ it'.hand = <<>>
      /\ it'.exhausted = FALSE /\ it'.ios = 0
      /\ it'.todo = Warmup[cfg.mode] /\ it'.out = "ok"
  BY <1>1, <1>3, IterIs
<1>5. smp' \in SamplerThread
  BY <1>1, SamplerIs
<1>6. EpochLen \in Nat
  BY LoaderAssumption
<1>7. drawn' \in Nat /\ epoch' \in Nat
  BY <1>1, <1>6 DEF TypeOK
<1>8. due' \in Seq(Nat \ {0}) /\ stale' \in BOOLEAN
  BY <1>1, <1>2 DEF TypeOK
<1>9. TypeOK'
  BY <1>1, <1>4, <1>5, <1>7, <1>8 DEF TypeOK
<1>10. Renewed
  BY <1>1, <1>4 DEF Renewed
<1>11. ReturnsOwn'
  BY <1>1, SameReturns
<1> QED BY <1>1, <1>2, <1>4, <1>9, <1>10, <1>11, QueueRenewed

LEMMA DueNone == DueOf(<<>>, <<>>, <<>>, <<>>, <<>>, FALSE, <<>>)
<1>1. Len(<<>>) = 0 /\ \A i \in 1..0 : FALSE
  OBVIOUS
<1>2. 0 = 0 + 0 + 0 + 0 + 0 - 0
  OBVIOUS
<1> QED BY <1>1, <1>2 DEF DueOf

LEMMA PipelineRenews ==
    ASSUME LoaderInv, cfg.mode = "pipeline", NewEpoch
    PROVE LoaderInv'
<1>1. /\ TypeOK' /\ Numbering' /\ QueueInv' /\ ReturnsOwn' /\ cfg' = cfg
      /\ it'.queue = <<>> /\ it'.pend = <<>> /\ it'.current = <<>> /\ it'.hand = <<>>
      /\ it'.exhausted = FALSE /\ it'.todo = <<"block", "poll", "get", "nowait">>
      /\ it'.out = "ok" /\ smp' = NewSampler /\ due' = <<>>
  BY NewEpochIs, PipelineFacts, QueuedFacts, WarmupIs
<1>2. /\ smp'.queue = <<>> /\ smp'.held = <<>> /\ smp'.ended = FALSE /\ smp'.exc = FALSE
  BY <1>1, SamplerIs
<1>3. PipelinePhase'
  BY <1>1, PhaseBlock
<1>4. Sampler'
  <2>1. Len(<<>>) = 0 /\ \A i \in 1..0 : FALSE
    OBVIOUS
  <2> QED BY <1>1, <1>2, <2>1 DEF Sampler
<1>5. PipelineDue'
  <2>1. (smp'.ended /\ ~it'.exhausted) = FALSE
    BY <1>2
  <2> QED BY <1>1, <1>2, <2>1, DueNone, Zenon DEF PipelineDue
<1>6. Len(it'.queue) <= 1 /\ Len(it'.current) <= 1
  <2>1. Len(it'.queue) = 0 /\ Len(it'.current) = 0
    BY <1>1
  <2> QED BY <2>1
<1> QED BY <1>1, <1>3, <1>4, <1>5, <1>6, PipelineNext

LEMMA PipelineAnswers ==
    ASSUME LoaderInv, cfg.mode = "pipeline", Complete
    PROVE LoaderInv'
<1>1. /\ TypeOK /\ Numbering /\ QueueInv /\ ReturnsOwn /\ cfg.mode \in Queued
      /\ PipelinePhase /\ Sampler
      /\ it.pend = <<>> /\ Len(it.queue) <= 1 /\ Len(it.current) <= 1
      /\ it.out # "error" => PipelineDue
      /\ it.out = "stop" => it.exhausted /\ it.current = <<>>
      /\ it.out = "error" => smp.exc
  BY PipelineFacts, QueuedFacts
<1>2. /\ cfg' = cfg /\ nextId' = nextId /\ it' = it /\ smp' = smp /\ wb' = wb
      /\ drawn' = drawn /\ epoch' = epoch /\ due' = due /\ got' = got /\ stale' = stale
  BY DEF Complete
<1>3. SameRequests /\ stack' \in Seq(Outstanding)
  BY <1>1, Answered
<1>4. TypeOK'
  BY <1>1, <1>2, <1>3 DEF TypeOK
<1>5. SameItems
  BY <1>2 DEF SameItems
<1>6. QueueInv' /\ Numbering'
  BY <1>1, <1>3, <1>5, QueueSame
<1>7. ReturnsOwn'
  BY <1>1, <1>2, SameReturns
<1>8. PipelinePhase'
  BY <1>1, <1>2, Zenon DEF PipelinePhase, At, Supplied
<1>9. Sampler'
  BY <1>1, <1>2, SamplerSame, Zenon
<1>10. it.out # "error" => PipelineDue'
  BY <1>1, <1>2, Zenon DEF PipelineDue
<1> QED BY <1>1, <1>2, <1>4, <1>6, <1>7, <1>8, <1>9, <1>10, PipelineNext

LEMMA PipelineStep ==
    ASSUME LoaderInv, cfg.mode = "pipeline", Next
    PROVE LoaderInv'
<1>1. Over => UNCHANGED vars
  BY DEF Over
<1> QED BY <1>1, PipelineActions, PipelinePolls, PipelineGets, PipelineSubmits, PipelineHands,
           PipelineReturns, PipelineSamples, PipelinePuts, PipelineCalls, PipelineRenews,
           PipelineAnswers, Unchanged, Zenon

(***************************************************************************)
(* The iterators with a prefetch_queue of several batches                  *)
(***************************************************************************)
LEMMA PrefetchFacts ==
    ASSUME LoaderInv, cfg.mode \in Prefetched
    PROVE /\ cfg.mode \in Queued /\ cfg.mode # "pipeline"
          /\ PrefetchPhase /\ Complete1 /\ Exhausted
          /\ it.out # "error" => PrefetchDue
          /\ PrefetchStop /\ PrefetchError
          /\ it.current = <<>> /\ smp = NewSampler
<1>1. PrefetchInv
  BY Zenon DEF LoaderInv
<1> QED BY <1>1 DEF PrefetchInv, Queued, Prefetched

LEMMA PrefetchNext ==
    ASSUME cfg' = cfg, cfg.mode \in Prefetched, TypeOK', Numbering', QueueInv', ReturnsOwn',
           PrefetchPhase', Complete1', Exhausted', it'.out # "error" => PrefetchDue',
           PrefetchStop', PrefetchError', it'.current = <<>>, smp' = NewSampler
    PROVE LoaderInv'
<1>1. PrefetchInv'
  BY Zenon DEF PrefetchInv
<1>2. ~(cfg.mode = "pipeline")'
  BY DEF Prefetched
<1>3. PipelineInv'
  BY <1>2, Zenon DEF PipelineInv
<1>4. cfg.mode \in Queued
  BY DEF Queued
<1> QED BY <1>1, <1>3, <1>4, QueuedNext, Zenon

SameQueues ==
    /\ it'.queue = it.queue /\ it'.pend = it.pend /\ it'.hand = it.hand
    /\ it'.current = it.current /\ it'.exhausted = it.exhausted /\ it'.ios = it.ios
Elsewhere ==
    /\ cfg' = cfg /\ nextId' = nextId /\ smp' = smp /\ drawn' = drawn /\ epoch' = epoch
    /\ due' = due /\ got' = got /\ stale' = stale

LEMMA CompleteSame ==
    ASSUME Complete1, it'.queue = it.queue, it'.pend = it.pend, cfg' = cfg
    PROVE Complete1'
<1>1. \A b : NewItem(b)' = NewItem(b)
  BY DEF NewItem, RowsOf, PartsOf
<1> QED BY <1>1 DEF Complete1, Full

LEMMA ExhaustedSame ==
    ASSUME Exhausted, it'.queue = it.queue, it'.pend = it.pend, drawn' = drawn, epoch' = epoch,
           it'.exhausted = it.exhausted
    PROVE Exhausted'
  BY DEF Exhausted, HasMore, Full

LEMMA ErrorSame ==
    ASSUME PrefetchError, it'.queue = it.queue, cfg' = cfg, it'.out = "error" => it.out = "error"
    PROVE PrefetchError'
<1>1. \A b : RowsOf(b)' = RowsOf(b)
  BY DEF RowsOf
<1> QED BY <1>1 DEF PrefetchError

\* What the invariant says, but for the place in the program.
Sane ==
    /\ TypeOK /\ Numbering /\ QueueInv /\ ReturnsOwn
    /\ Complete1 /\ Exhausted
    /\ it.out # "error" => PrefetchDue
    /\ PrefetchStop /\ PrefetchError
    /\ it.current = <<>> /\ smp = NewSampler

LEMMA SaneNext ==
    ASSUME cfg' = cfg, cfg.mode \in Prefetched, Sane', PrefetchPhase'
    PROVE LoaderInv'
<1>1. /\ TypeOK' /\ Numbering' /\ QueueInv' /\ ReturnsOwn'
      /\ Complete1' /\ Exhausted'
      /\ it'.out # "error" => PrefetchDue'
      /\ PrefetchStop' /\ PrefetchError'
      /\ it'.current = <<>> /\ smp' = NewSampler
  <2>1. NewSampler' = NewSampler
    BY DEF NewSampler
  <2> QED BY <2>1 DEF Sane
<1> QED BY <1>1, PrefetchNext

LEMMA SaneFacts == ASSUME LoaderInv, cfg.mode \in Prefetched PROVE Sane
  BY PrefetchFacts, QueuedFacts DEF Sane

\* A step that only moves on, or only changes marks of requests.
LEMMA SaneMoved ==
    ASSUME LoaderInv, cfg.mode \in Prefetched, SameQueues, Elsewhere, wb' = wb,
           SameRequests, stack' \in Seq(Outstanding), it' \in Iterator,
           it'.out = it.out \/ (it'.out = "stop" /\ it.exhausted /\ it.queue = <<>>
                                /\ it.out # "error")
    PROVE Sane'
<1>1. /\ TypeOK /\ Numbering /\ QueueInv /\ ReturnsOwn /\ cfg.mode \in Queued
      /\ Complete1 /\ Exhausted
      /\ it.out # "error" => PrefetchDue
      /\ PrefetchStop /\ PrefetchError
      /\ it.current = <<>> /\ smp = NewSampler
  BY PrefetchFacts, QueuedFacts
<1>2. /\ it'.queue = it.queue /\ it'.pend = it.pend /\ it'.hand = it.hand
      /\ it'.current = it.current /\ it'.exhausted = it.exhausted /\ it'.ios = it.ios
  BY DEF SameQueues
<1>3. /\ cfg' = cfg /\ nextId' = nextId /\ smp' = smp /\ drawn' = drawn /\ epoch' = epoch
      /\ due' = due /\ got' = got /\ stale' = stale
  BY DEF Elsewhere
<1>4. TypeOK'
  BY <1>1, <1>3 DEF TypeOK
<1>5. SameItems
  BY <1>2, <1>3 DEF SameItems
<1>6. QueueInv' /\ Numbering'
  BY <1>1, <1>5, QueueSame
<1>7. ReturnsOwn'
  BY <1>1, <1>3, SameReturns
<1>8. Complete1'
  BY <1>1, <1>2, <1>3, CompleteSame
<1>9. Exhausted'
  BY <1>1, <1>2, <1>3, ExhaustedSame
<1>10. it'.out # "error" => PrefetchDue'
  BY <1>1, <1>2, <1>3, Zenon DEF PrefetchDue
<1>11. PrefetchStop'
  BY <1>1, <1>2 DEF PrefetchStop
<1>12. PrefetchError'
  BY <1>1, <1>2, <1>3, ErrorSame
<1>13. smp' = NewSampler' /\ it'.current = <<>>
  BY <1>1, <1>2, <1>3 DEF NewSampler
<1> QED BY <1>4, <1>6, <1>7, <1>8, <1>9, <1>10, <1>11, <1>12, <1>13, Zenon DEF Sane

LEMMA PrefetchMoved ==
    ASSUME LoaderInv, cfg.mode \in Prefetched, SameQueues, Elsewhere, wb' = wb,
           SameRequests, stack' \in Seq(Outstanding), it' \in Iterator, PrefetchPhase',
           it'.out = it.out \/ (it'.out = "stop" /\ it.exhausted /\ it.queue = <<>>
                                /\ it.out # "error")
    PROVE LoaderInv'
<1>1. Sane'
  BY SaneMoved
<1>2. cfg' = cfg
  BY DEF Elsewhere
<1> QED BY <1>1, <1>2, SaneNext

(***************************************************************************)
(* Which batch is submitted next                                           *)
(***************************************************************************)
AllFull == \A i \in 1..Len(it.queue) : Full(it.queue[i])

FromPending ==
    /\ Len(it.pend) = 1 /\ Pending # <<>> /\ Candidate = it.pend[1]
    /\ it.pend[1].batch \in Nat \ {0} /\ it.pend[1] = NewItem(it.pend[1].batch)
    /\ cfg.mode \in Budgeted /\ Len(it.queue) < cfg.depth /\ AllFull
FromQueue ==
    /\ it.pend = <<>> /\ it.queue # <<>> /\ Pending # <<>>
    /\ Candidate = it.queue[Len(it.queue)]
    /\ ~Full(it.queue[Len(it.queue)]) /\ cfg.mode = "split"
FromSampler ==
    /\ it.pend = <<>> /\ Pending = <<>> /\ Candidate = NewItem(drawn + 1) /\ AllFull

LEMMA LastIs ==
    \A T : \A s \in Seq(T) : s # <<>> => /\ Last(s) = s[Len(s)] /\ Len(s) \in 1..Len(s)
                                         /\ s[Len(s)] \in T
  BY DEF Last

LEMMA Candidates ==
    ASSUME it \in Iterator, Complete1
    PROVE FromPending \/ FromQueue \/ FromSampler
<1>1. it.pend \in Seq(Item) /\ it.queue \in Seq(Item)
  BY DEF Iterator
<1>2. /\ Len(it.pend) <= 1
      /\ \A i \in 1..Len(it.pend) : it.pend[i] = NewItem(it.pend[i].batch)
      /\ cfg.mode \notin Budgeted => it.pend = <<>>
      /\ \A i \in 1..Len(it.queue) : i < Len(it.queue) => Full(it.queue[i])
      /\ cfg.mode # "split" => \A i \in 1..Len(it.queue) : Full(it.queue[i])
      /\ it.pend # <<>> => /\ Len(it.queue) < cfg.depth
                           /\ \A i \in 1..Len(it.queue) : Full(it.queue[i])
  BY DEF Complete1
<1>3. CASE it.pend # <<>>
  <2> DEFINE n == Len(it.pend)
  <2>1. n \in Nat /\ n # 0 /\ n <= 1
    BY <1>1, <1>2, <1>3, LenIs
  <2> HIDE DEF n
  <2>2. n = 1
    BY <2>1
  <2>3. Len(it.pend) = 1 /\ Head(it.pend) = it.pend[1] /\ it.pend[1] \in Item
    BY <1>1, <2>2 DEF n
  <2>4. Pending = it.pend
    BY <1>3 DEF Pending
  <2>5. Candidate = it.pend[1]
    BY <1>3, <2>3, <2>4 DEF Candidate
  <2>6. it.pend[1].batch \in Nat \ {0} /\ it.pend[1] = NewItem(it.pend[1].batch)
    BY <1>2, <2>3 DEF Item
  <2> QED BY <1>2, <1>3, <2>3, <2>4, <2>5, <2>6, Zenon DEF FromPending, AllFull
<1>4. CASE it.pend = <<>> /\ it.queue # <<>> /\ ~Full(Last(it.queue))
  <2>1. Pending = <<Last(it.queue)>>
    BY <1>4 DEF Pending
  <2>2. Last(it.queue) = it.queue[Len(it.queue)] /\ Len(it.queue) \in 1..Len(it.queue)
    BY <1>1, <1>4, LastIs
  <2> DEFINE x == Last(it.queue)
  <2> HIDE DEF x
  <2>3. Pending = <<x>>
    BY <2>1 DEF x
  <2>4. Pending # <<>> /\ Candidate = x
    BY <2>3 DEF Candidate
  <2>5. cfg.mode = "split"
    BY <1>2, <1>4, <2>2
  <2> QED BY <1>4, <2>2, <2>4, <2>5 DEF x, FromQueue
<1>5. CASE it.pend = <<>> /\ ~(it.queue # <<>> /\ ~Full(Last(it.queue)))
  <2>1. Pending = <<>>
    BY <1>5 DEF Pending
  <2>2. AllFull
    <3>1. ASSUME NEW i \in 1..Len(it.queue) PROVE Full(it.queue[i])
      <4>1. it.queue # <<>> /\ Len(it.queue) \in Nat
        BY <1>1, <3>1
      <4>2. Last(it.queue) = it.queue[Len(it.queue)]
        BY <1>1, <4>1, LastIs
      <4>3. i < Len(it.queue) \/ i = Len(it.queue)
        BY <4>1
      <4> QED BY <1>2, <1>5, <4>1, <4>2, <4>3
    <3> QED BY <3>1 DEF AllFull
  <2> QED BY <1>5, <2>1, <2>2 DEF Candidate, FromSampler
<1> QED BY <1>3, <1>4, <1>5

\* What every candidate is.
LEMMA CandidateIs ==
    ASSUME TypeOK, Items, Complete1
    PROVE /\ Candidate \in Item /\ ItemOK(Candidate) /\ RowsOK(Candidate)
          /\ cfg.mode # "split" => Candidate.mat = 0
          /\ Len(Candidate.ids) \in Nat /\ Len(Candidate.parts) \in Nat
          /\ Len(Candidate.ids) < Len(Candidate.parts)
          /\ Candidate.parts[Len(Candidate.ids) + 1] \in Nat \ {0}
          /\ Candidate.ids = <<>> <=> ~FromQueue
          /\ Candidate.ids = <<>> => Candidate.polled = FALSE
<1>1. it \in Iterator /\ drawn \in Nat
  BY DEF TypeOK
<1>2. it.queue \in Seq(Item)
  BY <1>1 DEF Iterator
<1>3. ASSUME NEW b \in Nat \ {0}, Candidate = NewItem(b)
      PROVE /\ Candidate \in Item /\ ItemOK(Candidate) /\ RowsOK(Candidate)
            /\ Candidate.mat = 0 /\ Candidate.ids = <<>> /\ Candidate.polled = FALSE
            /\ Len(Candidate.ids) = 0 /\ Len(Candidate.parts) >= 1
  BY <1>3, Fresh, FreshOK
<1>4. CASE FromPending
  <2>1. ~FromQueue
    <3>1. it.pend # <<>>
      BY <1>4 DEF FromPending
    <3> QED BY <3>1 DEF FromQueue
  <2>2. it.pend[1].batch \in Nat \ {0} /\ Candidate = NewItem(it.pend[1].batch)
    BY <1>4 DEF FromPending
  <2>3. /\ Candidate \in Item /\ ItemOK(Candidate) /\ RowsOK(Candidate)
        /\ Candidate.mat = 0 /\ Candidate.ids = <<>> /\ Candidate.polled = FALSE
        /\ Len(Candidate.ids) = 0 /\ Len(Candidate.parts) >= 1
    BY <1>3, <2>2
  <2>4. Candidate.parts \in Seq(Nat \ {0})
    BY <2>3 DEF Item
  <2> QED BY <2>1, <2>3, <2>4
<1>5. CASE FromSampler
  <2>1. ~FromQueue
    BY <1>5 DEF FromQueue, FromSampler
  <2>2. drawn + 1 \in Nat \ {0} /\ Candidate = NewItem(drawn + 1)
    BY <1>1, <1>5 DEF FromSampler
  <2>3. /\ Candidate \in Item /\ ItemOK(Candidate) /\ RowsOK(Candidate)
        /\ Candidate.mat = 0 /\ Candidate.ids = <<>> /\ Candidate.polled = FALSE
        /\ Len(Candidate.ids) = 0 /\ Len(Candidate.parts) >= 1
    BY <1>3, <2>2
  <2>4. Candidate.parts \in Seq(Nat \ {0})
    BY <2>3 DEF Item
  <2> QED BY <2>1, <2>3, <2>4
<1>6. CASE FromQueue
  <2> DEFINE n == Len(it.queue)
             x == it.queue[n]
  <2>1. n \in 1..Len(it.queue) /\ x \in Item
    BY <1>2, <1>6, LastIs DEF FromQueue
  <2>2. /\ ItemOK(x) /\ RowsOK(x) /\ Len(x.ids) >= 1
        /\ ~Full(x) /\ Candidate = x /\ cfg.mode = "split"
    BY <1>6, <2>1 DEF Items, FromQueue
  <2> HIDE DEF n, x
  <2>3. x.parts \in Seq(Nat \ {0}) /\ x.ids \in Seq(Nat) /\ Len(x.ids) <= Len(x.parts)
    BY <2>1, <2>2 DEF Item, ItemOK
  <2>4. Len(x.ids) # Len(x.parts) /\ x.ids # <<>>
    BY <2>2, <2>3 DEF Full
  <2>5. Len(x.ids) < Len(x.parts) /\ x.parts[Len(x.ids) + 1] \in Nat \ {0}
    BY <2>3, <2>4
  <2> QED BY <1>6, <2>1, <2>2, <2>3, <2>4, <2>5
<1> QED BY <1>1, <1>4, <1>5, <1>6, Candidates

(***************************************************************************)
(* Submitting it                                                           *)
(***************************************************************************)
\* The identifiers the item gains.
Gains(x, k, n, y) ==
    /\ y \in Item /\ y.batch = x.batch /\ y.parts = x.parts /\ y.mat = x.mat
    /\ y.used = x.used /\ y.polled = x.polled /\ y.rows = x.rows
    /\ Len(y.ids) = Len(x.ids) + k
    /\ \A j \in 1..Len(x.ids) : y.ids[j] = x.ids[j]
    /\ \A j \in 1..k : y.ids[Len(x.ids) + j] = n + j - 1

LEMMA NewIds ==
    \A x \in Item : \A k \in Nat \ {0} : \A n \in Nat : \A y :
        y = [x EXCEPT !.ids = x.ids \o [j \in 1..k |-> n + j - 1]] => Gains(x, k, n, y)
<1> SUFFICES ASSUME NEW x \in Item, NEW k \in Nat \ {0}, NEW n \in Nat, NEW y,
                    y = [x EXCEPT !.ids = x.ids \o [j \in 1..k |-> n + j - 1]]
             PROVE Gains(x, k, n, y)
  OBVIOUS
<1> DEFINE g == [j \in 1..k |-> n + j - 1]
           s == x.ids
           t == s \o g
<1>1. \A j \in 1..k : n + j - 1 \in Nat
  OBVIOUS
<1>2. g \in Seq(Nat) /\ Len(g) = k /\ \A j \in 1..k : g[j] = n + j - 1
  BY <1>1
<1>3. s \in Seq(Nat) /\ Len(s) \in Nat
  BY DEF Item
<1> HIDE DEF g, s
<1>4. /\ t \in Seq(Nat) /\ Len(t) = Len(s) + Len(g)
      /\ \A i \in 1..(Len(s) + Len(g)) : t[i] = IF i <= Len(s) THEN s[i] ELSE g[i - Len(s)]
  BY <1>2, <1>3, ConcatIs, Zenon
<1>5. y = [x EXCEPT !.ids = t]
  BY DEF g, s
<1> HIDE DEF t
<1>6. /\ y \in Item /\ y.batch = x.batch /\ y.parts = x.parts /\ y.mat = x.mat
      /\ y.used = x.used /\ y.polled = x.polled /\ y.rows = x.rows /\ y.ids = t
  BY <1>4, <1>5 DEF Item
<1>7. Len(t) = Len(s) + k
  BY <1>2, <1>4
<1>8. \A j \in 1..Len(s) : t[j] = s[j]
  BY <1>2, <1>3, <1>4
<1>9. \A j \in 1..k : t[Len(s) + j] = n + j - 1
  <2> TAKE j \in 1..k
  <2>1. Len(s) + j \in 1..(Len(s) + Len(g)) /\ ~(Len(s) + j <= Len(s)) /\ (Len(s) + j) - Len(s) = j
    BY <1>2, <1>3
  <2> QED BY <1>2, <1>4, <2>1
<1> QED BY <1>6, <1>7, <1>8, <1>9 DEF s, Gains

\* The requests the stack gains.
LEMMA NewRequests ==
    ASSUME TypeOK, NEW x \in Item, ItemOK(x), NEW k \in Nat \ {0}, Len(x.ids) + k <= Len(x.parts),
           stack' = stack \o [j \in 1..k |-> Request(x, Len(x.ids) + j, nextId + j - 1)]
    PROVE /\ stack' \in Seq(Outstanding) /\ Len(stack') = Len(stack) + k
          /\ \A j \in 1..Len(stack) : stack'[j] = stack[j]
          /\ \A j \in 1..k : stack'[Len(stack) + j] = Request(x, Len(x.ids) + j, nextId + j - 1)
<1> DEFINE g == [j \in 1..k |-> Request(x, Len(x.ids) + j, nextId + j - 1)]
           t == stack \o g
           n == Len(stack)
<1>1. /\ stack \in Seq(Outstanding) /\ nextId \in Nat /\ n \in Nat
  BY DEF TypeOK
<1>2. x.ids \in Seq(Nat) /\ Len(x.ids) \in Nat /\ Len(x.parts) \in Nat
  BY DEF Item
<1>3. \A j \in 1..k : Len(x.ids) + j \in 1..Len(x.parts) /\ nextId + j - 1 \in Nat
  BY <1>1, <1>2
<1>4. \A j \in 1..k : Request(x, Len(x.ids) + j, nextId + j - 1) \in Outstanding
  BY <1>3, RequestIs
<1>5. /\ g \in Seq(Outstanding) /\ Len(g) = k
      /\ \A j \in 1..k : g[j] = Request(x, Len(x.ids) + j, nextId + j - 1)
  BY <1>4
<1>6. stack' = t
  OBVIOUS
<1> HIDE DEF g
<1>7. /\ t \in Seq(Outstanding) /\ Len(t) = Len(stack) + Len(g)
      /\ \A i \in 1..(Len(stack) + Len(g)) :
           t[i] = IF i <= Len(stack) THEN stack[i] ELSE g[i - Len(stack)]
  <2>1. stack \in Seq(Outstanding) /\ g \in Seq(Outstanding)
    BY <1>1, <1>5
  <2> QED BY <2>1, ConcatIs, Zenon
<1> HIDE DEF t
<1>8. /\ t \in Seq(Outstanding) /\ Len(t) = n + k
      /\ \A i \in 1..(n + k) : t[i] = IF i <= n THEN stack[i] ELSE g[i - n]
  BY <1>5, <1>7
<1> HIDE DEF n
<1>9. \A j \in 1..n : t[j] = stack[j]
  BY <1>1, <1>8
<1>10. \A j \in 1..k : t[n + j] = g[j]
  <2> TAKE j \in 1..k
  <2>1. n + j \in 1..(n + k) /\ ~(n + j <= n) /\ (n + j) - n = j
    BY <1>1
  <2> QED BY <1>8, <2>1
<1> QED BY <1>5, <1>6, <1>8, <1>9, <1>10 DEF n

\* The queue with the item: a new last element, or the last one replaced.
LongerBy(s, x, t) ==
    /\ t \in Seq(Item) /\ Len(t) = Len(s) + 1 /\ t[Len(s) + 1] = x
    /\ \A i \in 1..Len(s) : t[i] = s[i]
LastNow(s, x, t) ==
    /\ t \in Seq(Item) /\ Len(t) = Len(s) /\ t[Len(s)] = x
    /\ \A i \in 1..(Len(s) - 1) : t[i] = s[i]

LEMMA QueueAppended == \A s \in Seq(Item) : \A x \in Item : LongerBy(s, x, Append(s, x))
  BY AppendIs DEF LongerBy

LEMMA LastPut ==
    \A s \in Seq(Item) : s # <<>> => \A x \in Item : LastNow(s, x, [s EXCEPT ![Len(s)] = x])
<1> SUFFICES ASSUME NEW s \in Seq(Item), s # <<>>, NEW x \in Item
             PROVE LastNow(s, x, [s EXCEPT ![Len(s)] = x])
  OBVIOUS
<1>1. Len(s) \in Nat /\ Len(s) \in 1..Len(s)
  OBVIOUS
<1> QED BY <1>1 DEF LastNow

LEMMA QueueReplaced ==
    \A s \in Seq(Item) : s # <<>> => \A x \in Item : LastNow(s, x, Front(s) \o <<x>>)
<1> SUFFICES ASSUME NEW s \in Seq(Item), s # <<>>, NEW x \in Item
             PROVE LastNow(s, x, Front(s) \o <<x>>)
  OBVIOUS
<1>1. Front(s) \o <<x>> = [s EXCEPT ![Len(s)] = x]
  BY LastReplaced
<1>2. LastNow(s, x, [s EXCEPT ![Len(s)] = x])
  BY LastPut, Zenon
<1> QED BY <1>1, <1>2, Zenon

Submits(y, k, p, left) ==
    /\ Submission(Candidate, y, k, p) /\ y.batch = Candidate.batch
    /\ cfg.mode # "split" => Full(y)
    /\ p = (IF FromQueue THEN Len(it.queue) ELSE Len(it.queue) + 1)
    /\ it' \in Iterator /\ it'.pend = <<>> /\ it'.exhausted = it.exhausted
    /\ it'.hand = it.hand /\ it'.current = it.current
    /\ it'.todo = left /\ it'.out = it.out
    /\ stack' \in Seq(Outstanding) /\ nextId' \in Nat

LEMMA SubmittedIs ==
    ASSUME TypeOK, Numbering, Items, Complete1, Ios, cfg.mode \in Prefetched,
           CanSubmit, NEW left \in Seq(StepNames), Submitted(left), cfg' = cfg, stale' = stale
    PROVE \E y, k, p : Submits(y, k, p, left)
<1> DEFINE c == Candidate
           done == Len(c.ids)
           k == IF cfg.mode = "cids" THEN Len(c.parts) ELSE 1
           item == [c EXCEPT !.ids = c.ids \o [j \in 1..k |-> nextId + j - 1]]
           q == IF done = 0 THEN Append(it.queue, item) ELSE Front(it.queue) \o <<item>>
           ios == IF cfg.mode \in Budgeted THEN it.ios + c.parts[done + 1] ELSE 0
           p == IF FromQueue THEN Len(it.queue) ELSE Len(it.queue) + 1
<1>1. it \in Iterator /\ nextId \in Nat
  BY DEF TypeOK
<1>2. it.queue \in Seq(Item) /\ it.ios \in Nat
  BY <1>1 DEF Iterator
<1>3. /\ c \in Item /\ ItemOK(c) /\ RowsOK(c)
      /\ cfg.mode # "split" => c.mat = 0
      /\ done \in Nat /\ Len(c.parts) \in Nat /\ done < Len(c.parts)
      /\ c.parts[done + 1] \in Nat \ {0}
      /\ c.ids = <<>> <=> ~FromQueue
      /\ c.ids = <<>> => c.polled = FALSE
  BY CandidateIs
<1>4. /\ stack' = stack \o [j \in 1..k |-> Request(c, done + j, nextId + j - 1)]
      /\ nextId' = nextId + k
      /\ it' = [it EXCEPT !.queue = q, !.pend = <<>>, !.ios = ios, !.todo = left]
  <2>1. item = [c EXCEPT !.ids = @ \o [j \in 1..k |-> nextId + j - 1]]
    BY <1>3 DEF Item
  <2> QED BY <1>1, <2>1, Zenon DEF Submitted
<1>5. c.ids \in Seq(Nat) /\ (c.ids = <<>> <=> done = 0)
  <2>1. c.ids \in Seq(Nat)
    BY <1>3 DEF Item
  <2> QED BY <2>1, LenIs
<1>6. k \in Nat \ {0} /\ done + k <= Len(c.parts)
  <2>1. cfg.mode = "cids" => done = 0
    BY <1>3, <1>5 DEF FromQueue
  <2> HIDE DEF c, done
  <2> QED BY <1>3, <2>1
<1>f. /\ Fits(c.parts[done + 1])
  BY DEF CanSubmit
<1>7. item = [c EXCEPT !.ids = c.ids \o [j \in 1..k |-> nextId + j - 1]]
  OBVIOUS
<1>8. cfg.mode \in Budgeted => k = 1
  BY DEF Budgeted
<1>fq. FromQueue => /\ cfg.mode = "split" /\ it.queue # <<>> /\ c = it.queue[Len(it.queue)]
                    /\ Len(it.queue) >= 1
  <2>1. it.queue # <<>> => Len(it.queue) >= 1
    BY <1>2
  <2> QED BY <2>1 DEF FromQueue
<1> DEFINE full == cfg.mode # "split" => Len(c.parts) <= done + k
<1>9. full
  <2>1. CASE cfg.mode = "cids"
    <3>1. k = Len(c.parts) /\ k \in Nat /\ done \in Nat
      BY <1>3, <2>1
    <3> HIDE DEF k, done
    <3>2. Len(c.parts) <= done + k
      BY <3>1
    <3> QED BY <3>2
  <2>2. CASE cfg.mode \in {"async", "single"}
    <3>1. c.parts = PartsOf(RowsOf(c.batch)) /\ c.batch \in Nat \ {0}
      BY <1>3 DEF ItemOK, Item
    <3>2. PartsOf(RowsOf(c.batch)) = <<RowsOf(c.batch)>>
      BY <2>2 DEF PartsOf
    <3> DEFINE m == RowsOf(c.batch)
    <3> HIDE DEF m
    <3>3. c.parts = <<m>>
      BY <3>1, <3>2 DEF m
    <3>4. Len(c.parts) = 1
      BY <3>3
    <3> QED BY <1>3, <2>2, <3>4
  <2> QED BY <2>1, <2>2 DEF Prefetched
<1> HIDE DEF item, k, ios, c
<1>10. /\ item \in Item /\ item.batch = c.batch /\ item.parts = c.parts /\ item.mat = c.mat
       /\ item.used = c.used /\ item.polled = c.polled /\ item.rows = c.rows
       /\ Len(item.ids) = Len(c.ids) + k
       /\ \A j \in 1..Len(c.ids) : item.ids[j] = c.ids[j]
       /\ \A j \in 1..k : item.ids[Len(c.ids) + j] = nextId + j - 1
  <2>1. c \in Item /\ k \in Nat \ {0} /\ nextId \in Nat
    BY <1>1, <1>3, <1>6
  <2> HIDE DEF done
  <2>2. Gains(c, k, nextId, item)
    BY <1>7, <2>1, NewIds, Zenon
  <2> QED BY <2>2, Zenon DEF Gains
<1>11. /\ stack' \in Seq(Outstanding) /\ Len(stack') = Len(stack) + k
       /\ \A j \in 1..Len(stack) : stack'[j] = stack[j]
       /\ \A j \in 1..k : stack'[Len(stack) + j] = Request(c, Len(c.ids) + j, nextId + j - 1)
  BY <1>3, <1>4, <1>6, NewRequests
<1>12. /\ q \in Seq(Item) /\ Len(q) = p /\ q[p] = item
       /\ \A i \in 1..(p - 1) : q[i] = it.queue[i]
       /\ p \in Nat
  <2>1. Len(it.queue) \in Nat
    BY <1>2
  <2>4. it.queue \in Seq(Item) /\ item \in Item
    BY <1>2, <1>10, Zenon
  <2>2. CASE FromQueue
    <3>1. q = Front(it.queue) \o <<item>> /\ it.queue # <<>> /\ p = Len(it.queue)
      BY <1>3, <1>5, <1>fq, <2>2
    <3> HIDE DEF q, p
    <3>2. /\ q \in Seq(Item) /\ Len(q) = Len(it.queue) /\ q[Len(it.queue)] = item
          /\ \A i \in 1..(Len(it.queue) - 1) : q[i] = it.queue[i]
      <4>1. LastNow(it.queue, item, q)
        BY <2>4, <3>1, QueueReplaced, Zenon
      <4> QED BY <4>1, Zenon DEF LastNow
    <3> QED BY <2>1, <3>1, <3>2, Zenon
  <2>3. CASE ~FromQueue
    <3>1. q = Append(it.queue, item)
      BY <1>3, <1>5, <2>3
    <3>2. p = Len(it.queue) + 1
      BY <2>3
    <3> HIDE DEF q, p
    <3>3. /\ q \in Seq(Item) /\ Len(q) = Len(it.queue) + 1 /\ q[Len(it.queue) + 1] = item
          /\ \A i \in 1..Len(it.queue) : q[i] = it.queue[i]
      <4>1. LongerBy(it.queue, item, q)
        BY <2>4, <3>1, QueueAppended, Zenon
      <4> QED BY <4>1, Zenon DEF LongerBy
    <3>4. p - 1 = Len(it.queue) /\ p \in Nat
      BY <2>1, <3>2
    <3> QED BY <3>2, <3>3, <3>4, Zenon
  <2> QED BY <2>2, <2>3
<1>13. ios \in Nat
  BY <1>2, <1>3 DEF ios
<1> HIDE DEF q
<1>14. /\ it'.queue = q /\ it'.pend = <<>> /\ it'.ios = ios /\ it'.todo = left
       /\ it'.hand = it.hand /\ it'.current = it.current /\ it'.exhausted = it.exhausted
       /\ it'.out = it.out
  BY <1>1, <1>4 DEF Iterator
<1>15. it' \in Iterator
  <2>1. <<>> \in Seq(Item)
    OBVIOUS
  <2> QED BY <1>1, <1>4, <1>12, <1>13, <2>1 DEF Iterator
<1>16. \/ p = Len(it.queue) + 1 /\ c.ids = <<>> /\ c.polled = FALSE
       \/ p = Len(it.queue) /\ p >= 1 /\ c = it.queue[p] /\ cfg.mode = "split"
  BY <1>3, <1>fq
<1> HIDE DEF p
<1>17. /\ cfg.mode \notin Budgeted => it'.ios = 0
       /\ cfg.mode \in Budgeted => /\ k = 1 /\ it'.ios = it.ios + c.parts[Len(c.ids) + 1]
                                   /\ Fits(c.parts[Len(c.ids) + 1])
  BY <1>8, <1>14, <1>f DEF ios
<1>18. Submission(c, item, k, p)
  <2>1. /\ Len(it'.queue) = p /\ it'.queue[p] = item /\ p \in Nat
        /\ \A i \in 1..(p - 1) : it'.queue[i] = it.queue[i]
    BY <1>12, <1>14, Zenon
  <2>2. Len(c.ids) + k <= Len(c.parts)
    BY <1>6
  <2>3. k \in Nat \ {0} /\ nextId' = nextId + k
    BY <1>4, <1>6
  <2>4. /\ c \in Item /\ ItemOK(c) /\ RowsOK(c)
        /\ cfg.mode # "split" => c.mat = 0
    BY <1>3
  <2>5. it'.hand = it.hand /\ it'.current = it.current /\ cfg' = cfg /\ stale' = stale
    BY <1>14
  <2> HIDE DEF done, full
  <2> QED BY <1>10, <1>11, <1>16, <1>17, <2>1, <2>2, <2>3, <2>4, <2>5 DEF Submission
<1>19. cfg.mode # "split" => Full(item)
  <2>1. Len(item.ids) = done + k /\ item.parts = c.parts /\ done + k <= Len(c.parts)
    BY <1>6, <1>10
  <2>2. done \in Nat /\ k \in Nat /\ Len(c.parts) \in Nat
    BY <1>3, <1>6
  <2> HIDE DEF done
  <2> QED BY <1>9, <2>1, <2>2 DEF Full
<1>20. nextId' \in Nat
  BY <1>1, <1>4, <1>6
<1>21. p = IF FromQueue THEN Len(it.queue) ELSE Len(it.queue) + 1
  BY DEF p
<1>22. Submits(item, k, p, left)
  BY <1>10, <1>11, <1>14, <1>15, <1>18, <1>19, <1>20, <1>21, Zenon DEF Submits, c
<1> QED BY <1>22

(***************************************************************************)
(* The batches that are due                                                *)
(***************************************************************************)
LEMMA BatchesTouched ==
    ASSUME NEW h, NEW q, NEW r, NEW p, NEW d, BatchesDue(h, q, p, d),
           Len(r) = Len(q), \A i \in 1..Len(q) : r[i].batch = q[i].batch
    PROVE BatchesDue(h, r, p, d)
  BY DEF BatchesDue

LEMMA BatchesSubmitted ==
    ASSUME NEW h, NEW q, NEW r, NEW p, NEW d, BatchesDue(h, q, p, d),
           Len(h) \in Nat, Len(q) \in Nat, Len(p) = 1, Len(r) = Len(q) + 1,
           \A i \in 1..Len(q) : r[i].batch = q[i].batch, r[Len(q) + 1].batch = p[1].batch
    PROVE BatchesDue(h, r, <<>>, d)
<1> DEFINE n == Len(h)
           m == Len(q)
<1>1. /\ Len(d) = n + m + 1
      /\ \A i \in 1..n : d[i] = h[i].batch
      /\ \A i \in 1..m : d[n + i] = q[i].batch
      /\ d[n + m + 1] = p[1].batch
  BY DEF BatchesDue
<1>2. n \in Nat /\ m \in Nat /\ Len(r) = m + 1
  OBVIOUS
<1>3. /\ \A i \in 1..m : r[i].batch = q[i].batch
      /\ r[m + 1].batch = p[1].batch
  OBVIOUS
<1> HIDE DEF n, m
<1>4. \A i \in 1..(m + 1) : d[n + i] = r[i].batch
  <2> TAKE i \in 1..(m + 1)
  <2>1. i \in 1..m \/ i = m + 1
    BY <1>2
  <2>2. n + (m + 1) = n + m + 1
    BY <1>2
  <2> QED BY <1>1, <1>3, <2>1, <2>2
<1>5. Len(d) = (n + (m + 1)) + 0
  BY <1>1, <1>2
<1>6. Len(<<>>) = 0 /\ 1..0 = {}
  OBVIOUS
<1> QED BY <1>1, <1>2, <1>4, <1>5, <1>6 DEF BatchesDue, n, m

LEMMA BatchesDrawn ==
    ASSUME NEW h, NEW q, NEW p, NEW d \in Seq(Nat \ {0}), NEW b \in Nat \ {0},
           BatchesDue(h, q, <<>>, d), Len(h) \in Nat, Len(q) \in Nat,
           Len(p) = 1, p[1].batch = b
    PROVE BatchesDue(h, q, p, Append(d, b))
<1> DEFINE n == Len(h)
           m == Len(q)
           e == Append(d, b)
           l == Len(d)
<1>1. /\ l = n + m
      /\ \A i \in 1..n : d[i] = h[i].batch
      /\ \A i \in 1..m : d[n + i] = q[i].batch
  BY DEF BatchesDue
<1>2. n \in Nat /\ m \in Nat
  OBVIOUS
<1>3. Len(e) = l + 1 /\ (\A i \in 1..l : e[i] = d[i]) /\ e[l + 1] = b
  BY AppendIs
<1> HIDE DEF n, m, e, l
<1>4. /\ \A i \in 1..n : e[i] = h[i].batch
      /\ \A i \in 1..m : e[n + i] = q[i].batch
      /\ Len(e) = n + m + 1 /\ e[n + m + 1] = b
  <2>1. \A i \in 1..n : i \in 1..l
    BY <1>1, <1>2
  <2>2. \A i \in 1..m : n + i \in 1..l
    BY <1>1, <1>2
  <2> QED BY <1>1, <1>3, <2>1, <2>2
<1>5. \A i \in 1..1 : e[n + m + i] = p[i].batch
  BY <1>4
<1> QED BY <1>4, <1>5 DEF BatchesDue, n, m, e

\* Nothing can be drawn once the sampler has ended.
LEMMA CanSubmitMore ==
    ASSUME it \in Iterator, Complete1, Exhausted, CanDraw PROVE ~it.exhausted
<1> SUFFICES ASSUME it.exhausted PROVE FALSE
  OBVIOUS
<1>1. ~HasMore /\ it.pend = <<>> /\ \A i \in 1..Len(it.queue) : Full(it.queue[i])
  BY DEF Exhausted
<1>2. Pending # <<>>
  BY <1>1 DEF CanDraw
<1>3. it.queue # <<>> /\ ~Full(Last(it.queue))
  BY <1>1, <1>2 DEF Pending
<1>4. it.queue \in Seq(Item)
  BY DEF Iterator
<1>5. Last(it.queue) = it.queue[Len(it.queue)] /\ Len(it.queue) \in 1..Len(it.queue)
  BY <1>3, <1>4, LastIs
<1> QED BY <1>1, <1>3, <1>5

Room == Len(it.queue) < cfg.depth \/ Pending # <<>>

\* The facts of a submission the invariant's parts are derived from.
LEMMA SubmitsIs ==
    ASSUME TypeOK, NEW y, NEW k, NEW p, NEW left, Submits(y, k, p, left)
    PROVE /\ Submission(Candidate, y, k, p)
          /\ it' \in Iterator /\ it'.queue \in Seq(Item) /\ it.queue \in Seq(Item)
          /\ Len(it.queue) \in Nat /\ Len(it'.queue) = p /\ p \in Nat /\ it'.queue[p] = y
          /\ \A i \in 1..(p - 1) : it'.queue[i] = it.queue[i]
          /\ y \in Item /\ y.batch = Candidate.batch
          /\ cfg.mode # "split" => Full(y)
          /\ FromQueue => p = Len(it.queue)
          /\ ~FromQueue => p = Len(it.queue) + 1
          /\ it'.pend = <<>> /\ it'.exhausted = it.exhausted
          /\ it'.hand = it.hand /\ it'.current = it.current
          /\ it'.todo = left /\ it'.out = it.out
          /\ stack' \in Seq(Outstanding) /\ nextId' \in Nat /\ cfg' = cfg
<1>1. Submission(Candidate, y, k, p)
  BY DEF Submits
<1>2. /\ Len(it'.queue) = p /\ p \in Nat /\ it'.queue[p] = y
      /\ \A i \in 1..(p - 1) : it'.queue[i] = it.queue[i]
      /\ y \in Item /\ cfg' = cfg
  BY <1>1, Zenon DEF Submission
<1>3. it \in Iterator /\ it' \in Iterator
  BY DEF Submits, TypeOK
<1>4. it'.queue \in Seq(Item) /\ it.queue \in Seq(Item) /\ Len(it.queue) \in Nat
  BY <1>3 DEF Iterator
<1> QED BY <1>1, <1>2, <1>3, <1>4, Zenon DEF Submits

\* The items before the one that was submitted stay.
LEMMA SubmitsQueue ==
    ASSUME TypeOK, Complete1, NEW y, NEW k, NEW p, NEW left, Submits(y, k, p, left)
    PROVE /\ p >= 1 /\ it'.queue # <<>>
          /\ \A i \in 1..(p - 1) : /\ i \in 1..Len(it.queue) /\ it'.queue[i] = it.queue[i]
                                   /\ Full(it.queue[i])
          /\ it.queue # <<>> /\ Full(it.queue[1]) => it'.queue[1] = it.queue[1]
<1>1. /\ it'.queue \in Seq(Item) /\ it.queue \in Seq(Item)
      /\ Len(it.queue) \in Nat /\ Len(it'.queue) = p /\ p \in Nat
      /\ \A i \in 1..(p - 1) : it'.queue[i] = it.queue[i]
      /\ FromQueue => p = Len(it.queue)
      /\ ~FromQueue => p = Len(it.queue) + 1
  BY SubmitsIs
<1>2. it \in Iterator
  BY DEF TypeOK
<1>3. FromPending \/ FromQueue \/ FromSampler
  BY <1>2, Candidates
<1>4. CASE FromQueue
  <2>1. it.queue # <<>> /\ ~Full(it.queue[Len(it.queue)])
    BY <1>4 DEF FromQueue
  <2>2. \A i \in 1..Len(it.queue) : i < Len(it.queue) => Full(it.queue[i])
    BY DEF Complete1
  <2> DEFINE n == Len(it.queue)
  <2>3. n >= 1 /\ n \in Nat /\ p = n
    BY <1>1, <1>4, <2>1
  <2> HIDE DEF n
  <2>4. \A i \in 1..(p - 1) : i \in 1..n /\ i < n
    BY <2>3
  <2>5. n # 1 => 1 \in 1..(p - 1)
    BY <2>3
  <2>6. n = 1 => ~Full(it.queue[1])
    BY <2>1 DEF n
  <2>7. it'.queue # <<>>
    BY <1>1, <2>3
  <2> QED BY <1>1, <2>2, <2>3, <2>4, <2>5, <2>6, <2>7 DEF n
<1>5. CASE ~FromQueue
  <2>1. AllFull
    BY <1>3, <1>5 DEF FromPending, FromSampler
  <2> DEFINE n == Len(it.queue)
  <2>2. n \in Nat /\ p = n + 1 /\ p - 1 = n /\ (it.queue # <<>> => n >= 1)
    BY <1>1, <1>5
  <2>3. it'.queue # <<>>
    BY <1>1, <2>2
  <2> HIDE DEF n
  <2>4. \A i \in 1..(p - 1) : i \in 1..n
    BY <2>2
  <2>5. it.queue # <<>> => 1 \in 1..(p - 1)
    BY <2>2
  <2> QED BY <1>1, <2>1, <2>2, <2>3, <2>4, <2>5 DEF n, AllFull
<1> QED BY <1>4, <1>5

LEMMA SubmitsComplete ==
    ASSUME TypeOK, Complete1, Room, cfg.mode \in Prefetched,
           NEW y, NEW k, NEW p, NEW left, Submits(y, k, p, left)
    PROVE Complete1'
<1>1. /\ Len(it.queue) \in Nat /\ Len(it'.queue) = p /\ p \in Nat /\ it'.queue[p] = y
      /\ cfg.mode # "split" => Full(y)
      /\ FromQueue => p = Len(it.queue)
      /\ ~FromQueue => p = Len(it.queue) + 1
      /\ it'.pend = <<>> /\ cfg' = cfg
  BY SubmitsIs
<1>2. /\ p >= 1
      /\ \A i \in 1..(p - 1) : it'.queue[i] = it.queue[i] /\ Full(it.queue[i])
  BY SubmitsQueue
<1>3. it \in Iterator /\ cfg.depth \in Nat
  BY LoaderAssumption DEF TypeOK, Config
<1>4. FromPending \/ FromQueue \/ FromSampler
  BY <1>3, Candidates
<1>5. \A i \in 1..(p - 1) : Full(it'.queue[i])
  BY <1>2
<1>6. Len(it'.queue) <= cfg.depth
  <2>1. CASE FromQueue
    BY <1>1, <2>1 DEF Complete1
  <2>2. CASE FromPending
    <3>1. ~FromQueue /\ Len(it.queue) < cfg.depth
      BY <2>2 DEF FromPending, FromQueue
    <3> QED BY <1>1, <1>3, <3>1
  <2>3. CASE FromSampler
    <3>1. ~FromQueue /\ Len(it.queue) < cfg.depth
      BY <2>3 DEF FromSampler, FromQueue, Room
    <3> QED BY <1>1, <1>3, <3>1
  <2> QED BY <1>4, <2>1, <2>2, <2>3
<1>7. \A i \in 1..Len(it'.queue) : i < Len(it'.queue) => Full(it'.queue[i])
  BY <1>1, <1>5
<1>8. cfg.mode # "split" => \A i \in 1..Len(it'.queue) : Full(it'.queue[i])
  <2> SUFFICES ASSUME cfg.mode # "split", NEW i \in 1..Len(it'.queue) PROVE Full(it'.queue[i])
    OBVIOUS
  <2>1. i \in 1..(p - 1) \/ i = p
    BY <1>1
  <2> QED BY <1>1, <1>5, <2>1
<1>9. \A x : Full(x)' = Full(x')
  BY DEF Full
<1>10. Len(it'.pend) = 0
  BY <1>1
<1> QED BY <1>1, <1>6, <1>7, <1>8, <1>10 DEF Complete1, Full

LEMMA SubmitsDue ==
    ASSUME TypeOK, Complete1, PrefetchDue, it.hand \in Seq(Item),
           NEW y, NEW k, NEW p, NEW left, Submits(y, k, p, left),
           IF Pending = <<>> THEN Draw ELSE NoDraw
    PROVE PrefetchDue' /\ drawn' \in Nat /\ due' \in Seq(Nat \ {0})
<1>1. /\ Len(it.queue) \in Nat /\ Len(it'.queue) = p /\ p \in Nat /\ it'.queue[p] = y
      /\ \A i \in 1..(p - 1) : it'.queue[i] = it.queue[i]
      /\ y.batch = Candidate.batch
      /\ FromQueue => p = Len(it.queue)
      /\ ~FromQueue => p = Len(it.queue) + 1
      /\ it'.pend = <<>> /\ it'.hand = it.hand
  BY SubmitsIs
<1>2. it \in Iterator /\ drawn \in Nat /\ due \in Seq(Nat \ {0}) /\ Len(it.hand) \in Nat
  BY DEF TypeOK
<1>3. FromPending \/ FromQueue \/ FromSampler
  BY <1>2, Candidates
<1>4. BatchesDue(it.hand, it.queue, it.pend, due)
  BY DEF PrefetchDue
<1>5. CASE FromQueue
  <2>1. it.pend = <<>> /\ Pending # <<>> /\ Candidate = it.queue[Len(it.queue)]
    BY <1>5 DEF FromQueue
  <2>2. due' = due /\ drawn' = drawn
    BY <2>1 DEF NoDraw
  <2>3. \A i \in 1..Len(it.queue) : it'.queue[i].batch = it.queue[i].batch
    <3> TAKE i \in 1..Len(it.queue)
    <3>1. i \in 1..(p - 1) \/ i = p
      BY <1>1, <1>5
    <3>2. it'.queue[p].batch = it.queue[p].batch
      BY <1>1, <1>5, <2>1
    <3> QED BY <1>1, <3>1, <3>2
  <2>4. BatchesDue(it.hand, it'.queue, it.pend, due)
    BY <1>1, <1>4, <1>5, <2>3, BatchesTouched
  <2>5. PrefetchDue'
    BY <1>1, <2>1, <2>2, <2>4, Zenon DEF PrefetchDue
  <2> QED BY <1>2, <2>2, <2>5
<1>6. CASE ~FromQueue
  <2>1. p - 1 = Len(it.queue) /\ Len(it'.queue) = Len(it.queue) + 1
    BY <1>1, <1>6
  <2>2. \A i \in 1..Len(it.queue) : it'.queue[i].batch = it.queue[i].batch
    BY <1>1, <2>1
  <2>3. it'.queue[Len(it.queue) + 1].batch = Candidate.batch
    BY <1>1, <1>6
  <2>4. CASE FromPending
    <3>1. Len(it.pend) = 1 /\ Pending # <<>> /\ Candidate = it.pend[1]
      BY <2>4 DEF FromPending
    <3>2. due' = due /\ drawn' = drawn
      BY <3>1 DEF NoDraw
    <3>3. BatchesDue(it.hand, it'.queue, <<>>, due)
      BY <1>1, <1>2, <1>4, <2>1, <2>2, <2>3, <3>1, BatchesSubmitted
    <3>4. PrefetchDue'
      BY <1>1, <3>2, <3>3, Zenon DEF PrefetchDue
    <3> QED BY <1>2, <3>2, <3>4
  <2>5. CASE FromSampler
    <3>1. it.pend = <<>> /\ Pending = <<>> /\ Candidate = NewItem(drawn + 1)
      BY <2>5 DEF FromSampler
    <3>2. due' = Append(due, drawn + 1) /\ drawn' = drawn + 1
      BY <3>1 DEF Draw
    <3>3. drawn + 1 \in Nat \ {0}
      BY <1>2
    <3> DEFINE x == Candidate
    <3>4. x.batch = drawn + 1
      BY <3>1, <3>3, Fresh
    <3> HIDE DEF x
    <3>5. Len(<<x>>) = 1 /\ <<x>>[1] = x
      OBVIOUS
    <3>6. BatchesDue(it.hand, it.queue, <<x>>, due')
      BY <1>1, <1>2, <1>4, <3>1, <3>2, <3>3, <3>4, <3>5, BatchesDrawn
    <3>7. <<x>>[1].batch = Candidate.batch
      BY <3>5 DEF x
    <3>8. BatchesDue(it.hand, it'.queue, <<>>, due')
      BY <1>1, <1>2, <2>1, <2>2, <2>3, <3>5, <3>6, <3>7, BatchesSubmitted
    <3>9. PrefetchDue'
      BY <1>1, <3>8, Zenon DEF PrefetchDue
    <3>10. due' \in Seq(Nat \ {0}) /\ drawn' \in Nat
      BY <1>2, <3>2, <3>3
    <3> QED BY <3>9, <3>10
  <2> QED BY <1>3, <1>6, <2>4, <2>5
<1> QED BY <1>5, <1>6

SubmitSteps == /\ cfg' = cfg /\ smp' = smp /\ wb' = wb /\ epoch' = epoch
               /\ got' = got /\ stale' = stale

\* A request is submitted: all the invariant says but for the place.
LEMMA SubmittedSane ==
    ASSUME LoaderInv, cfg.mode \in Prefetched, it.out = "ok", CanSubmit, Room,
           NEW left \in Seq(StepNames), Submitted(left), SubmitSteps
    PROVE /\ Sane' /\ cfg' = cfg /\ it'.hand = it.hand /\ it'.todo = left /\ it'.out = "ok"
          /\ it'.queue # <<>>
          /\ it.queue # <<>> /\ Full(it.queue[1]) => it'.queue[1] = it.queue[1]
<1>1. /\ TypeOK /\ Numbering /\ QueueInv /\ ReturnsOwn /\ cfg.mode \in Queued
      /\ Complete1 /\ Exhausted /\ PrefetchDue /\ Items /\ Ios
      /\ it.current = <<>> /\ smp = NewSampler /\ it \in Iterator
  BY PrefetchFacts, QueuedFacts
<1>2. /\ cfg' = cfg /\ smp' = smp /\ wb' = wb /\ epoch' = epoch
      /\ got' = got /\ stale' = stale
  BY DEF SubmitSteps
<1>3. PICK y, k, p : Submits(y, k, p, left)
  BY <1>1, <1>2, SubmittedIs
<1>4. /\ Submission(Candidate, y, k, p)
      /\ it' \in Iterator
      /\ it'.pend = <<>> /\ it'.exhausted = it.exhausted
      /\ it'.hand = it.hand /\ it'.current = it.current
      /\ it'.todo = left /\ it'.out = it.out
      /\ stack' \in Seq(Outstanding) /\ nextId' \in Nat
  BY <1>1, <1>3, SubmitsIs
<1>5. /\ it'.queue # <<>>
      /\ it.queue # <<>> /\ Full(it.queue[1]) => it'.queue[1] = it.queue[1]
  BY <1>1, <1>3, SubmitsQueue
<1>6. QueueInv' /\ Numbering'
  BY <1>1, <1>4, QueueSubmitted
<1>7. Complete1'
  BY <1>1, <1>3, SubmitsComplete
<1>8. PrefetchDue' /\ drawn' \in Nat /\ due' \in Seq(Nat \ {0})
  <2>1. IF Pending = <<>> THEN Draw ELSE NoDraw
    BY DEF Submitted
  <2>2. it.hand \in Seq(Item)
    BY <1>1 DEF Iterator
  <2> QED BY <1>1, <1>3, <2>1, <2>2, SubmitsDue
<1>9. TypeOK'
  BY <1>1, <1>2, <1>4, <1>8 DEF TypeOK
<1>10. ReturnsOwn'
  BY <1>1, <1>2, SameReturns
<1>11. ~it.exhausted
  BY <1>1, CanSubmitMore DEF CanSubmit
<1>12. Exhausted'
  BY <1>4, <1>11 DEF Exhausted
<1>13. PrefetchStop' /\ PrefetchError' /\ it'.out = "ok"
  BY <1>4 DEF PrefetchStop, PrefetchError
<1>14. smp' = NewSampler' /\ it'.current = <<>>
  BY <1>1, <1>2, <1>4 DEF NewSampler
<1>15. Sane'
  BY <1>6, <1>7, <1>8, <1>9, <1>10, <1>12, <1>13, <1>14, Zenon DEF Sane
<1> QED BY <1>2, <1>4, <1>5, <1>13, <1>15

(***************************************************************************)
(* After a refusal                                                         *)
(***************************************************************************)
\* What a refused attempt leaves.
LEMMA RefusedIs ==
    ASSUME TypeOK, Items, Complete1, NEW left \in Seq(StepNames), NEW o \in {"ok", "error"},
           Refused(left, o)
    PROVE /\ it' \in Iterator /\ it'.queue = it.queue /\ it'.hand = it.hand
          /\ it'.current = it.current /\ it'.ios = it.ios
          /\ it'.exhausted = (it.exhausted \/ ~CanDraw)
          /\ it'.todo = left /\ it'.out = o
          /\ stack' = stack /\ nextId' = nextId
          /\ ~CanDraw => it'.pend = it.pend /\ drawn' = drawn /\ due' = due
          /\ FromQueue => it'.pend = it.pend /\ drawn' = drawn /\ due' = due
          /\ FromPending => it'.pend = it.pend /\ drawn' = drawn /\ due' = due
          /\ FromSampler /\ CanDraw => /\ it'.pend = <<NewItem(drawn + 1)>>
                                       /\ drawn' = drawn + 1 /\ due' = Append(due, drawn + 1)
          /\ drawn' \in Nat /\ due' \in Seq(Nat \ {0})
<1>1. it \in Iterator /\ drawn \in Nat /\ due \in Seq(Nat \ {0})
  BY DEF TypeOK
<1> DEFINE c == Candidate
           e == (it.exhausted \/ ~CanDraw)
           w == IF CanDraw /\ c.ids = <<>> THEN <<c>> ELSE it.pend
<1>2. c \in Item /\ (c.ids = <<>> <=> ~FromQueue)
  BY CandidateIs
<1>3. /\ it' = [it EXCEPT !.exhausted = e, !.pend = w, !.todo = left, !.out = o]
      /\ IF CanDraw /\ Pending = <<>> THEN Draw ELSE NoDraw
      /\ stack' = stack /\ nextId' = nextId
  BY <1>1 DEF Refused, Iterator
<1>4. e \in BOOLEAN
  BY <1>1 DEF Iterator
<1>5. w \in Seq(Item)
  <2>1. <<c>> \in Seq(Item) /\ it.pend \in Seq(Item)
    BY <1>1, <1>2 DEF Iterator
  <2> QED BY <2>1
<1>e. e = (it.exhausted \/ ~CanDraw)
  OBVIOUS
<1>w. /\ CanDraw /\ c.ids = <<>> => w = <<c>>
      /\ ~(CanDraw /\ c.ids = <<>>) => w = it.pend
  OBVIOUS
<1> HIDE DEF e, w
<1>6. /\ it'.queue = it.queue /\ it'.hand = it.hand
      /\ it'.current = it.current /\ it'.ios = it.ios
      /\ it'.exhausted = e /\ it'.todo = left /\ it'.out = o /\ it'.pend = w
  BY <1>1, <1>3 DEF Iterator
<1>7. it' \in Iterator
  BY <1>1, <1>3, <1>4, <1>5 DEF Iterator
<1>8. FromQueue => w = it.pend
  BY <1>2, <1>w
<1>9. FromPending => w = it.pend
  <2> SUFFICES ASSUME FromPending PROVE w = it.pend
    OBVIOUS
  <2>1. Len(it.pend) = 1 /\ c = it.pend[1] /\ it.pend \in Seq(Item)
    BY <1>1 DEF FromPending, Iterator
  <2>2. it.pend = <<it.pend[1]>>
    BY <2>1, OneTail
  <2> QED BY <1>w, <2>1, <2>2
<1>10. FromSampler /\ CanDraw => w = <<NewItem(drawn + 1)>>
  <2> SUFFICES ASSUME FromSampler, CanDraw PROVE w = <<NewItem(drawn + 1)>>
    OBVIOUS
  <2>1. ~FromQueue /\ c = NewItem(drawn + 1)
    BY DEF FromSampler, FromQueue
  <2> QED BY <1>2, <1>w, <2>1
<1>11. ~CanDraw \/ FromQueue \/ FromPending => drawn' = drawn /\ due' = due
  BY <1>3 DEF FromQueue, FromPending, NoDraw
<1>12. FromSampler /\ CanDraw => drawn' = drawn + 1 /\ due' = Append(due, drawn + 1)
  BY <1>3 DEF FromSampler, Draw
<1>13. drawn' \in Nat /\ due' \in Seq(Nat \ {0})
  <2>1. CASE Draw
    <3>1. drawn' = drawn + 1 /\ due' = Append(due, drawn + 1) /\ drawn + 1 \in Nat \ {0}
      BY <1>1, <2>1 DEF Draw
    <3> QED BY <1>1, <3>1
  <2>2. CASE NoDraw
    BY <1>1, <2>2 DEF NoDraw
  <2> QED BY <1>3, <2>1, <2>2
<1> HIDE DEF c
<1> QED BY <1>3, <1>6, <1>7, <1>8, <1>9, <1>10, <1>11, <1>12, <1>13, <1>e, <1>w, Zenon

\* With an empty queue the budget is free.
LEMMA EmptyFits ==
    ASSUME TypeOK, Ios, it.queue = <<>>, NEW n PROVE Fits(n)
<1>1. CASE cfg.mode \notin Budgeted
  BY <1>1 DEF TypeOK, Fits
<1>2. CASE cfg.mode \in Budgeted
  <2>1. it.ios = Cardinality(PendingRows)
    BY <1>2 DEF Ios
  <2>2. 1..Len(it.queue) = {}
    OBVIOUS
  <2>3. PendingRows = {}
    BY <2>2 DEF PendingRows
  <2>4. it.ios = 0
    BY <2>1, <2>3, FS_EmptySet
  <2> QED BY <2>4 DEF Fits
<1> QED BY <1>1, <1>2

LEMMA RefusedComplete ==
    ASSUME TypeOK, Items, Complete1, Room, ~CanSubmit, cfg' = cfg,
           NEW left \in Seq(StepNames), Refused(left, "ok")
    PROVE Complete1'
<1>1. /\ it'.queue = it.queue
      /\ ~CanDraw => it'.pend = it.pend
      /\ FromQueue => it'.pend = it.pend
      /\ FromPending => it'.pend = it.pend
      /\ FromSampler /\ CanDraw => it'.pend = <<NewItem(drawn + 1)>>
  BY RefusedIs
<1>2. it \in Iterator /\ drawn + 1 \in Nat \ {0} /\ (cfg.mode \in Budgeted \/ cfg.budget = 0)
  BY DEF TypeOK
<1>3. FromPending \/ FromQueue \/ FromSampler
  BY <1>2, Candidates
<1>4. CASE it'.pend = it.pend
  BY <1>1, <1>4, CompleteSame
<1>5. CASE FromSampler /\ CanDraw
  <2>1. it'.pend = <<NewItem(drawn + 1)>>
    BY <1>1, <1>5
  <2> DEFINE x == NewItem(drawn + 1)
  <2>2. x.batch = drawn + 1
    BY <1>2, Fresh
  <2>3. x = NewItem(x.batch)
    BY <2>2
  <2>4. \A b : NewItem(b)' = NewItem(b)
    BY DEF NewItem, RowsOf, PartsOf
  <2> HIDE DEF x
  <2>5. Len(it'.pend) = 1 /\ it'.pend[1] = x
    BY <2>1 DEF x
  <2>6. ~Fits(Candidate.parts[Len(Candidate.ids) + 1])
    BY <1>5 DEF CanSubmit
  <2>7. cfg.mode \in Budgeted
    BY <1>2, <2>6 DEF Fits
  <2>8. AllFull /\ Pending = <<>> /\ Len(it.queue) < cfg.depth
    BY <1>5 DEF FromSampler, Room
  <2>9. /\ \A i \in 1..Len(it.queue) : i < Len(it.queue) => Full(it.queue[i])
        /\ cfg.mode # "split" => \A i \in 1..Len(it.queue) : Full(it.queue[i])
        /\ Len(it.queue) <= cfg.depth
    BY DEF Complete1
  <2>10. (\A i \in 1..Len(it.pend) : it.pend[i] = NewItem(it.pend[i].batch))'
    BY <2>3, <2>4, <2>5
  <2>11. \A i \in 1..Len(it'.queue) : Full(it'.queue[i])
    BY <1>1, <2>8 DEF AllFull
  <2>12. Len(it'.pend) <= 1
    BY <2>5
  <2> QED BY <1>1, <2>7, <2>8, <2>9, <2>10, <2>11, <2>12 DEF Complete1, Full
<1> QED BY <1>1, <1>3, <1>4, <1>5

LEMMA RefusedDue ==
    ASSUME TypeOK, Items, Complete1, PrefetchDue, NEW left \in Seq(StepNames), Refused(left, "ok")
    PROVE PrefetchDue'
<1>1. /\ it'.queue = it.queue /\ it'.hand = it.hand
      /\ ~CanDraw \/ FromQueue \/ FromPending => it'.pend = it.pend /\ due' = due
      /\ FromSampler /\ CanDraw => /\ it'.pend = <<NewItem(drawn + 1)>>
                                   /\ due' = Append(due, drawn + 1)
  BY RefusedIs
<1>2. it \in Iterator /\ drawn + 1 \in Nat \ {0} /\ due \in Seq(Nat \ {0})
  BY DEF TypeOK
<1>3. FromPending \/ FromQueue \/ FromSampler
  BY <1>2, Candidates
<1>4. CASE ~CanDraw \/ FromQueue \/ FromPending
  BY <1>1, <1>4, Zenon DEF PrefetchDue
<1>5. CASE FromSampler /\ CanDraw
  <2> DEFINE x == NewItem(drawn + 1)
  <2>1. x.batch = drawn + 1
    BY <1>2, Fresh
  <2>2. it'.pend = <<x>> /\ it.pend = <<>> /\ due' = Append(due, drawn + 1)
    BY <1>1, <1>5 DEF FromSampler
  <2> HIDE DEF x
  <2>3. Len(it'.pend) = 1 /\ it'.pend[1].batch = drawn + 1
    BY <2>1, <2>2
  <2>4. BatchesDue(it.hand, it.queue, <<>>, due)
    BY <2>2, Zenon DEF PrefetchDue
  <2>5. Len(it.hand) \in Nat /\ Len(it.queue) \in Nat
    BY <1>2 DEF Iterator
  <2>6. BatchesDue(it.hand, it.queue, it'.pend, due')
    BY <1>2, <2>2, <2>3, <2>4, <2>5, BatchesDrawn
  <2> QED BY <1>1, <2>6, Zenon DEF PrefetchDue
<1> QED BY <1>3, <1>4, <1>5

\* A request that would exceed the budget, or a sampler that has ended.
LEMMA RefusedSane ==
    ASSUME LoaderInv, cfg.mode \in Prefetched, it.out = "ok", ~CanSubmit, Room,
           NEW left \in Seq(StepNames), Refused(left, "ok"), SubmitSteps
    PROVE /\ Sane' /\ cfg' = cfg /\ it'.hand = it.hand /\ it'.todo = left /\ it'.out = "ok"
          /\ it'.queue = it.queue
          /\ it'.queue # <<>> \/ it'.exhausted
<1>1. /\ TypeOK /\ Numbering /\ QueueInv /\ ReturnsOwn /\ cfg.mode \in Queued
      /\ Complete1 /\ Exhausted /\ PrefetchDue /\ Items /\ Ios
      /\ it.current = <<>> /\ smp = NewSampler /\ it \in Iterator
  BY PrefetchFacts, QueuedFacts
<1>2. /\ cfg' = cfg /\ smp' = smp /\ wb' = wb /\ epoch' = epoch
      /\ got' = got /\ stale' = stale
  BY DEF SubmitSteps
<1>3. /\ it' \in Iterator /\ it'.queue = it.queue /\ it'.hand = it.hand
      /\ it'.current = it.current /\ it'.ios = it.ios
      /\ it'.exhausted = (it.exhausted \/ ~CanDraw)
      /\ it'.todo = left /\ it'.out = "ok"
      /\ stack' = stack /\ nextId' = nextId
      /\ ~CanDraw => it'.pend = it.pend /\ drawn' = drawn /\ due' = due
      /\ drawn' \in Nat /\ due' \in Seq(Nat \ {0})
  BY <1>1, RefusedIs
<1>4. SameRequests
  BY <1>1, <1>3, StackSame
<1>5. SameItems
  BY <1>2, <1>3 DEF SameItems
<1>6. QueueInv' /\ Numbering'
  BY <1>1, <1>4, <1>5, QueueSame
<1>7. Complete1'
  BY <1>1, <1>2, RefusedComplete
<1>8. PrefetchDue'
  BY <1>1, RefusedDue
<1>9. TypeOK'
  BY <1>1, <1>2, <1>3 DEF TypeOK
<1>10. ReturnsOwn'
  BY <1>1, <1>2, SameReturns
<1>11. Exhausted'
  <2>1. CASE CanDraw
    <3>1. ~it.exhausted
      BY <1>1, <2>1, CanSubmitMore
    <3> QED BY <1>3, <2>1, <3>1 DEF Exhausted
  <2>2. CASE ~CanDraw
    <3>1. FromPending \/ FromQueue \/ FromSampler
      BY <1>1, Candidates
    <3>2. FromSampler /\ ~HasMore
      BY <2>2, <3>1 DEF CanDraw, FromPending, FromQueue
    <3>3. it.pend = <<>> /\ AllFull
      BY <3>2 DEF FromSampler
    <3> QED BY <1>2, <1>3, <2>2, <3>2, <3>3 DEF Exhausted, HasMore, AllFull, Full
  <2> QED BY <2>1, <2>2
<1>12. PrefetchStop' /\ PrefetchError'
  BY <1>3 DEF PrefetchStop, PrefetchError
<1>13. smp' = NewSampler' /\ it'.current = <<>>
  BY <1>1, <1>2, <1>3 DEF NewSampler
<1>14. it'.queue # <<>> \/ it'.exhausted
  <2> SUFFICES ASSUME it.queue = <<>> PROVE ~CanDraw
    BY <1>3
  <2>1. Fits(Candidate.parts[Len(Candidate.ids) + 1])
    BY <1>1, EmptyFits
  <2> QED BY <2>1 DEF CanSubmit
<1>15. Sane'
  BY <1>6, <1>7, <1>8, <1>9, <1>10, <1>11, <1>12, <1>13, Zenon DEF Sane
<1> QED BY <1>2, <1>3, <1>14, <1>15

\* An item has no more rows outstanding than were submitted for it.
LEMMA ItemRowsBounded ==
    ASSUME NEW x \in Item, NEW n \in Nat, n = Len(x.ids), IsFiniteSet(Cells(x.parts, n))
    PROVE IsFiniteSet(ItemRows(x)) /\ Cardinality(ItemRows(x)) <= Cardinality(Cells(x.parts, n))
<1> DEFINE C == Cells(x.parts, n)
           f == [c \in C |-> <<x.ids[c[1]], c[2]>>]
           R == {f[c] : c \in C}
<1>1. f \in Surjection(C, R)
  BY DEF Surjection
<1>0. IsFiniteSet(C)
  OBVIOUS
<1>3. ItemRows(x) \subseteq R
  <2> SUFFICES ASSUME NEW r \in ItemRows(x) PROVE r \in R
    OBVIOUS
  <2>1. PICK k \in (x.mat + 1)..Len(x.ids) : r \in {x.ids[k]} \X (1..x.parts[k])
    BY DEF ItemRows
  <2>2. k \in 1..n
    BY DEF Item
  <2>3. PICK m \in 1..x.parts[k] : r = <<x.ids[k], m>>
    BY <2>1
  <2>4. <<k, m>> \in C
    BY <2>2, <2>3 DEF Cells
  <2>5. f[<<k, m>>] = r
    BY <2>3, <2>4
  <2> HIDE DEF f, C
  <2> QED BY <2>4, <2>5
<1> HIDE DEF f, C, R
<1>2. IsFiniteSet(R) /\ Cardinality(R) <= Cardinality(C)
  BY <1>0, <1>1, FS_Surjection
<1>4. IsFiniteSet(ItemRows(x)) /\ Cardinality(ItemRows(x)) <= Cardinality(R)
  BY <1>2, <1>3, FS_Subset, Zenon
<1>5. Cardinality(ItemRows(x)) \in Nat /\ Cardinality(R) \in Nat /\ Cardinality(C) \in Nat
  BY <1>2, <1>4, FS_CardinalityType DEF C
<1> QED BY <1>2, <1>4, <1>5 DEF C

\* The one item of the queue that cannot be completed is larger than the budget.
LEMMA TooLarge ==
    ASSUME TypeOK, Items, Complete1, Ios, cfg.mode = "split", ~FrontComplete, ~CanSubmit
    PROVE /\ it.queue # <<>> /\ FromQueue /\ CanDraw
          /\ RowsOf(it.queue[1].batch) > cfg.budget
<1>1. it \in Iterator /\ it.queue \in Seq(Item) /\ cfg.budget \in Nat
  BY LoaderAssumption DEF TypeOK, Iterator, Config
<1>2. it.queue # <<>> /\ ~Full(it.queue[1])
  BY DEF FrontComplete
<1> DEFINE n == Len(it.queue)
<1>3. n = 1
  <2>1. n \in Nat /\ n >= 1
    BY <1>1, <1>2
  <2>2. \A i \in 1..n : i < n => Full(it.queue[i])
    BY DEF Complete1
  <2> HIDE DEF n
  <2> QED BY <1>2, <2>1, <2>2
<1>4. it.pend = <<>>
  BY <1>2, <1>3 DEF Complete1
<1>5. FromPending \/ FromQueue \/ FromSampler
  BY <1>1, Candidates
<1>6. ~FromPending /\ ~FromSampler
  BY <1>2, <1>3 DEF FromPending, FromSampler, AllFull
<1>7. FromQueue
  BY <1>5, <1>6
<1>8. CanDraw
  BY <1>7 DEF FromQueue, CanDraw
<1> DEFINE x == it.queue[1]
           c == x.parts[Len(x.ids) + 1]
<1>9. Candidate = x /\ x \in Item
  BY <1>1, <1>3, <1>7 DEF FromQueue
<1>10. ~Fits(c)
  BY <1>8, <1>9 DEF CanSubmit
<1>11. ItemOK(x) /\ x.batch \in Nat \ {0} /\ x.parts \in Seq(Nat \ {0}) /\ x.ids \in Seq(Nat)
  BY <1>3, <1>9 DEF Items, Item
<1>12. x.parts = PartsOf(RowsOf(x.batch)) /\ Len(x.ids) < Len(x.parts) /\ Len(x.ids) \in Nat
  BY <1>2, <1>11 DEF ItemOK, Full
<1> DEFINE k == Len(x.ids)
           s == SumUpTo(x.parts, k)
<1> HIDE DEF x
<1>13. s \in Nat /\ s + c <= RowsOf(x.batch) /\ c \in Nat \ {0} /\ RowsOf(x.batch) \in Nat
  <2>1. RowsOf(x.batch) \in Nat \ {0}
    BY <1>11, BatchRows
  <2>2. /\ s \in Nat /\ SumUpTo(x.parts, k + 1) = s + c
    BY <1>11, <1>12, PartSums
  <2>3. SumUpTo(x.parts, k + 1) <= RowsOf(x.batch)
    <3>1. k + 1 \in Nat /\ k + 1 <= Len(PartsOf(RowsOf(x.batch)))
      BY <1>11, <1>12
    <3> QED BY <1>11, <1>12, <3>1, PartSums
  <2>4. c \in Nat \ {0}
    BY <1>11, <1>12
  <2> QED BY <2>1, <2>2, <2>3, <2>4
<1>14. it.ios <= s /\ it.ios \in Nat
  <2>1. it.ios = Cardinality(PendingRows) /\ it.ios \in Nat
    BY <1>1 DEF Ios, Budgeted, Iterator
  <2>2. PendingRows = ItemRows(x)
    BY <1>3 DEF PendingRows, x
  <2>3. \A i \in 1..k : x.parts[i] \in Nat /\ x.parts[i] <= RowsOf(x.batch)
    <3>2. \A i \in 1..Len(x.parts) : x.parts[i] <= RowsOf(x.batch)
      <4>1. \A i \in 1..Len(PartsOf(RowsOf(x.batch))) :
               PartsOf(RowsOf(x.batch))[i] <= RowsOf(x.batch)
        BY <1>11, BatchParts
      <4> HIDE DEF k, s, c
      <4> QED BY <1>12, <4>1, Zenon
    <3>1. \A i \in 1..Len(x.parts) : x.parts[i] \in Nat /\ x.parts[i] <= RowsOf(x.batch)
      BY <1>11, <3>2
    <3> QED BY <1>12, <3>1
  <2>4. IsFiniteSet(Cells(x.parts, k))
    BY <1>12, <1>13, <2>3, CellsFinite
  <2>5. Cardinality(ItemRows(x)) <= Cardinality(Cells(x.parts, k))
    BY <1>9, <1>12, <2>4, ItemRowsBounded
  <2>6. Cardinality(Cells(x.parts, k)) = s
    BY Zenon DEF Cells, SumUpTo
  <2> QED BY <2>1, <2>2, <2>5, <2>6
<1>15. it.ios + c > cfg.budget
  <2>1. ~(it.ios + c <= cfg.budget)
    BY <1>10 DEF Fits
  <2> HIDE DEF c
  <2> QED BY <1>1, <1>13, <1>14, <2>1
<1> HIDE DEF s, c
<1>16. RowsOf(x.batch) > cfg.budget
  BY <1>1, <1>13, <1>14, <1>15
<1> QED BY <1>2, <1>7, <1>8, <1>16 DEF x

LEMMA DepthIs == ASSUME TypeOK PROVE cfg.depth \in Nat /\ cfg.depth >= 1
<1>1. cfg.depth \in Nat \ {0}
  BY LoaderAssumption DEF TypeOK, Config
<1> QED BY <1>1

\* A step that does nothing but move on leaves all else.
LEMMA SaneGoto ==
    ASSUME LoaderInv, cfg.mode \in Prefetched, NEW t \in Seq(StepNames), Goto(t),
           stack' = stack, nextId' = nextId, NoDraw, SubmitSteps
    PROVE /\ Sane' /\ cfg' = cfg /\ it'.todo = t /\ it'.out = it.out
          /\ it'.hand = it.hand /\ it'.queue = it.queue /\ it'.exhausted = it.exhausted
<1>1. /\ TypeOK /\ Numbering /\ it \in Iterator /\ stack \in Seq(Outstanding)
      /\ cfg.mode \in Queued
  BY PrefetchFacts, QueuedFacts
<1>2. /\ it' \in Iterator /\ it'.todo = t
      /\ it'.queue = it.queue /\ it'.pend = it.pend /\ it'.current = it.current
      /\ it'.hand = it.hand /\ it'.exhausted = it.exhausted /\ it'.ios = it.ios
      /\ it'.out = it.out
  BY <1>1, GotoIs
<1>3. SameQueues
  BY <1>2 DEF SameQueues
<1>4. Elsewhere /\ wb' = wb /\ cfg' = cfg
  BY DEF Elsewhere, SubmitSteps, NoDraw
<1>5. SameRequests
  BY <1>1, StackSame
<1>6. Sane'
  BY <1>1, <1>2, <1>3, <1>4, <1>5, SaneMoved
<1> QED BY <1>2, <1>4, <1>6

\* _fill_prefetch_queue, wherever it is called.
LEMMA FillSane ==
    ASSUME LoaderInv, cfg.mode \in Prefetched, Fill, it.out = "ok"
    PROVE /\ Sane' /\ cfg' = cfg /\ it'.hand = it.hand /\ it'.out = "ok"
          /\ it'.todo = it.todo \/ it'.todo = Rest
          /\ it'.queue # <<>> \/ it'.exhausted
          /\ it.queue # <<>> => it'.queue # <<>>
          /\ it.queue # <<>> /\ Full(it.queue[1]) => it'.queue[1] = it.queue[1]
<1>1. TypeOK /\ it \in Iterator /\ it.queue \in Seq(Item) /\ it.todo \in Seq(StepNames)
  <2>1. TypeOK /\ it \in Iterator
    BY PrefetchFacts, QueuedFacts
  <2> QED BY <2>1 DEF Iterator
<1>2. it.todo # <<>> /\ SubmitSteps
  BY DEF Fill, At, SubmitSteps
<1>3. Rest \in Seq(StepNames)
  BY <1>1, <1>2, RestIs
<1>4. CASE ~WantsMore /\ Goto(Rest) /\ NoDraw /\ stack' = stack /\ nextId' = nextId
  <2>1. /\ Sane' /\ cfg' = cfg /\ it'.todo = Rest /\ it'.out = it.out
        /\ it'.hand = it.hand /\ it'.queue = it.queue /\ it'.exhausted = it.exhausted
    BY <1>2, <1>3, <1>4, SaneGoto
  <2>2. it.queue # <<>> \/ it.exhausted
    <3> SUFFICES ASSUME it.queue = <<>> PROVE it.exhausted
      OBVIOUS
    <3>1. Len(it.queue) < cfg.depth
      <4>1. Len(it.queue) = 0 /\ cfg.depth \in Nat /\ cfg.depth >= 1
        BY <1>1, DepthIs
      <4> QED BY <4>1
    <3> QED BY <1>4, <3>1 DEF WantsMore
  <2> QED BY <2>1, <2>2
<1>5. CASE WantsMore /\ CanSubmit /\ Submitted(it.todo)
  <2>1. Room
    BY <1>5 DEF WantsMore, Room
  <2> QED BY <1>1, <1>2, <1>5, <2>1, SubmittedSane
<1>6. CASE WantsMore /\ ~CanSubmit /\ Refused(Rest, "ok")
  <2>1. Room
    BY <1>6 DEF WantsMore, Room
  <2> QED BY <1>2, <1>3, <1>6, <2>1, RefusedSane
<1> QED BY <1>4, <1>5, <1>6 DEF Fill

\* The first submission of the constructor.
LEMMA SubmitSane ==
    ASSUME LoaderInv, cfg.mode \in Prefetched, Submit, it.out = "ok", it.queue = <<>>
    PROVE /\ Sane' /\ cfg' = cfg /\ it'.hand = it.hand /\ it'.out = "ok" /\ it'.todo = Rest
          /\ it'.queue # <<>> \/ it'.exhausted
<1>1. TypeOK /\ it \in Iterator
  BY PrefetchFacts, QueuedFacts
<1>2. it.todo # <<>> /\ SubmitSteps
  BY DEF Submit, At, SubmitSteps
<1>3. Rest \in Seq(StepNames)
  BY <1>1, <1>2, RestIs
<1>4. Room
  <2>1. Len(it.queue) = 0 /\ cfg.depth \in Nat /\ cfg.depth >= 1
    BY <1>1, DepthIs
  <2> QED BY <2>1 DEF Room
<1>5. CASE CanSubmit /\ Submitted(Rest)
  BY <1>2, <1>3, <1>4, <1>5, SubmittedSane
<1>6. CASE ~CanSubmit /\ Refused(Rest, "ok")
  BY <1>2, <1>3, <1>4, <1>6, RefusedSane
<1> QED BY <1>5, <1>6 DEF Submit

\* _ensure_front_logical_item_fully_submitted
LEMMA EnsureSane ==
    ASSUME LoaderInv, cfg.mode = "split", Ensure, it.out = "ok"
    PROVE /\ Sane' /\ cfg' = cfg /\ it'.hand = it.hand
          /\ \/ it'.out = "ok" /\ it'.todo = it.todo /\ it'.queue # <<>>
             \/ /\ it'.out = "ok" /\ it'.todo = Rest /\ it'.queue = it.queue
                /\ FrontComplete /\ it'.exhausted = it.exhausted
             \/ it'.out = "error" /\ it'.todo = <<>>
<1>1. /\ TypeOK /\ Numbering /\ QueueInv /\ ReturnsOwn /\ cfg.mode \in Queued
      /\ cfg.mode \in Prefetched
      /\ Complete1 /\ Exhausted /\ Items /\ Ios
      /\ it.current = <<>> /\ smp = NewSampler /\ it \in Iterator
  <2>1. cfg.mode \in Prefetched
    BY DEF Prefetched
  <2> QED BY <2>1, PrefetchFacts, QueuedFacts
<1>2. it.todo # <<>> /\ SubmitSteps
  BY DEF Ensure, At, SubmitSteps
<1>3. Rest \in Seq(StepNames) /\ it.todo \in Seq(StepNames)
  BY <1>1, <1>2, RestIs DEF Iterator
<1>4. CASE FrontComplete /\ Goto(Rest) /\ NoDraw /\ stack' = stack /\ nextId' = nextId
  BY <1>1, <1>2, <1>3, <1>4, SaneGoto
<1>5. CASE ~FrontComplete /\ CanSubmit /\ Submitted(it.todo)
  <2>1. it.queue # <<>> /\ ~Full(it.queue[1])
    BY <1>5 DEF FrontComplete
  <2>2. FromPending \/ FromQueue \/ FromSampler
    BY <1>1, Candidates
  <2>3. ~AllFull
    <3>1. 1 \in 1..Len(it.queue)
      BY <1>1, <2>1 DEF Iterator
    <3> QED BY <2>1, <3>1 DEF AllFull
  <2>4. Room
    BY <2>2, <2>3 DEF FromPending, FromSampler, FromQueue, Room
  <2> QED BY <1>1, <1>2, <1>3, <1>5, <2>4, SubmittedSane
<1>6. CASE ~FrontComplete /\ ~CanSubmit /\ Refused(<<>>, "error")
  <2>1. /\ it.queue # <<>> /\ FromQueue /\ CanDraw
        /\ RowsOf(it.queue[1].batch) > cfg.budget
    BY <1>1, <1>6, TooLarge
  <2>2. /\ it' \in Iterator /\ it'.queue = it.queue /\ it'.hand = it.hand
        /\ it'.current = it.current /\ it'.ios = it.ios
        /\ it'.exhausted = (it.exhausted \/ ~CanDraw)
        /\ it'.todo = <<>> /\ it'.out = "error"
        /\ stack' = stack /\ nextId' = nextId
        /\ it'.pend = it.pend /\ drawn' = drawn /\ due' = due
        /\ drawn' \in Nat /\ due' \in Seq(Nat \ {0})
    <3>1. <<>> \in Seq(StepNames)
      OBVIOUS
    <3> QED BY <1>1, <1>6, <2>1, <3>1, RefusedIs
  <2>3. /\ cfg' = cfg /\ smp' = smp /\ wb' = wb /\ epoch' = epoch
        /\ got' = got /\ stale' = stale
    BY <1>2 DEF SubmitSteps
  <2>4. SameRequests
    BY <1>1, <2>2, StackSame
  <2>5. SameItems
    BY <2>2, <2>3 DEF SameItems
  <2>6. QueueInv' /\ Numbering'
    BY <1>1, <2>4, <2>5, QueueSame
  <2>7. Complete1'
    BY <1>1, <2>2, <2>3, CompleteSame
  <2>8. ~it.exhausted
    BY <1>1, <2>1, CanSubmitMore
  <2>9. Exhausted'
    BY <2>1, <2>2, <2>8 DEF Exhausted
  <2>10. TypeOK'
    BY <1>1, <2>2, <2>3 DEF TypeOK
  <2>11. ReturnsOwn'
    BY <1>1, <2>3, SameReturns
  <2>12. PrefetchStop' /\ it'.out = "error"
    BY <2>2 DEF PrefetchStop
  <2>13. PrefetchError'
    BY <2>1, <2>2, <2>3 DEF PrefetchError, RowsOf
  <2>14. smp' = NewSampler' /\ it'.current = <<>>
    BY <1>1, <2>2, <2>3 DEF NewSampler
  <2>15. Sane'
    BY <2>6, <2>7, <2>9, <2>10, <2>11, <2>12, <2>13, <2>14, Zenon DEF Sane
  <2> QED BY <2>2, <2>3, <2>15
<1> QED BY <1>4, <1>5, <1>6 DEF Ensure

(***************************************************************************)
(* The steps all these iterators have                                      *)
(***************************************************************************)
LEMMA BatchesReturned ==
    ASSUME NEW h, NEW q, NEW p, NEW d \in Seq(Nat \ {0}), BatchesDue(h, q, p, d),
           Len(h) = 1, Len(q) \in Nat, Len(p) \in Nat
    PROVE /\ Len(d) >= 1 /\ d[1] = h[1].batch
          /\ BatchesDue(<<>>, q, p, Tail(d))
<1> DEFINE m == Len(q)
           l == Len(p)
           e == Tail(d)
<1>1. /\ Len(d) = 1 + m + l
      /\ \A i \in 1..1 : d[i] = h[i].batch
      /\ \A i \in 1..m : d[1 + i] = q[i].batch
      /\ \A i \in 1..l : d[1 + m + i] = p[i].batch
  BY DEF BatchesDue
<1>2. m \in Nat /\ l \in Nat
  OBVIOUS
<1> HIDE DEF m, l
<1>3. Len(d) >= 1 /\ d # <<>>
  BY <1>1, <1>2
<1>4. Len(e) = Len(d) - 1 /\ \A i \in 1..(Len(d) - 1) : e[i] = d[i + 1]
  BY <1>3, TailIs
<1> HIDE DEF e
<1>5. Len(e) = m + l
  BY <1>1, <1>2, <1>4
<1>6. \A i \in 1..m : e[i] = q[i].batch
  <2> TAKE i \in 1..m
  <2>1. i \in 1..(Len(d) - 1) /\ i + 1 = 1 + i
    BY <1>1, <1>2
  <2> QED BY <1>1, <1>4, <2>1
<1>7. \A i \in 1..l : e[m + i] = p[i].batch
  <2> TAKE i \in 1..l
  <2>1. m + i \in 1..(Len(d) - 1) /\ (m + i) + 1 = 1 + m + i
    BY <1>1, <1>2
  <2> QED BY <1>1, <1>4, <2>1
<1>8. Len(<<>>) = 0 /\ 1..0 = {}
  OBVIOUS
<1>9. 0 + m = m /\ \A i \in 1..m : 0 + i = i
  BY <1>2
<1>10. BatchesDue(<<>>, q, p, e)
  BY <1>5, <1>6, <1>7, <1>8, <1>9 DEF BatchesDue, m, l
<1>11. d[1] = h[1].batch
  BY <1>1
<1> QED BY <1>3, <1>10, <1>11 DEF e

LEMMA ReturnSane ==
    ASSUME LoaderInv, cfg.mode \in Prefetched, Return, it.out = "ok", Len(it.hand) = 1,
           ~stale => OwnBatch(it.hand[1]), it.hand[1].mat = Len(it.hand[1].ids)
    PROVE /\ Sane' /\ cfg' = cfg /\ it'.hand = <<>> /\ it'.out = "ok" /\ it'.todo = Rest
          /\ it'.queue = it.queue /\ it'.exhausted = it.exhausted
<1>1. /\ TypeOK /\ Numbering /\ QueueInv /\ ReturnsOwn /\ cfg.mode \in Queued
      /\ Complete1 /\ Exhausted /\ PrefetchDue
      /\ PrefetchStop /\ PrefetchError
      /\ it.current = <<>> /\ smp = NewSampler /\ it \in Iterator /\ due \in Seq(Nat \ {0})
  BY PrefetchFacts, QueuedFacts
<1>2. BatchesDue(it.hand, it.queue, it.pend, due)
  BY <1>1 DEF PrefetchDue
<1>3. Len(it.queue) \in Nat /\ Len(it.pend) \in Nat
  BY <1>1 DEF Iterator
<1>4. /\ Len(due) >= 1 /\ due[1] = it.hand[1].batch
      /\ BatchesDue(<<>>, it.queue, it.pend, Tail(due))
  BY <1>1, <1>2, <1>3, BatchesReturned
<1>5. /\ TypeOK' /\ ReturnsOwn' /\ due' = Tail(due)
      /\ it'.queue = it.queue /\ it'.pend = it.pend /\ it'.current = it.current
      /\ it'.exhausted = it.exhausted /\ it'.ios = it.ios /\ it'.out = it.out
      /\ it'.hand = <<>> /\ it'.todo = Rest
      /\ cfg' = cfg /\ stack' = stack /\ nextId' = nextId /\ smp' = smp /\ wb' = wb
      /\ drawn' = drawn /\ epoch' = epoch /\ stale' = stale
  BY <1>1, <1>4, Returned
<1>6. QueueInv' /\ Numbering'
  <2>1. Passed
    BY <1>5 DEF Passed
  <2> QED BY <1>1, <1>5, <2>1, QueuePassed
<1>7. Complete1'
  BY <1>1, <1>5, CompleteSame
<1>8. Exhausted'
  BY <1>1, <1>5, ExhaustedSame
<1>9. PrefetchDue'
  BY <1>4, <1>5, Zenon DEF PrefetchDue
<1>10. PrefetchStop'
  BY <1>1, <1>5 DEF PrefetchStop
<1>11. PrefetchError'
  BY <1>1, <1>5, ErrorSame
<1>12. smp' = NewSampler' /\ it'.current = <<>>
  BY <1>1, <1>5 DEF NewSampler
<1>13. Sane'
  BY <1>5, <1>6, <1>7, <1>8, <1>9, <1>10, <1>11, <1>12, Zenon DEF Sane
<1> QED BY <1>5, <1>13

\* An answer of the SSDs changes no flag the iterators look at but done.
LEMMA PrefetchAnswers ==
    ASSUME LoaderInv, cfg.mode \in Prefetched, Complete
    PROVE LoaderInv'
<1>1. TypeOK /\ Numbering /\ it \in Iterator /\ PrefetchPhase
  BY PrefetchFacts, QueuedFacts
<1>2. /\ cfg' = cfg /\ nextId' = nextId /\ it' = it /\ smp' = smp /\ wb' = wb
      /\ drawn' = drawn /\ epoch' = epoch /\ due' = due /\ got' = got /\ stale' = stale
  BY DEF Complete
<1>3. /\ SameRequests /\ stack' \in Seq(Outstanding)
      /\ \A j \in 1..Len(stack) : stack'[j].ready = stack[j].ready
  BY <1>1, Answered
<1>4. SameQueues /\ Elsewhere
  BY <1>2 DEF SameQueues, Elsewhere
<1>5. FrontIsExpected(stack) => FrontIsExpected(stack)'
  <2> SUFFICES ASSUME FrontIsExpected(stack) PROVE FrontIsExpected(stack)'
    OBVIOUS
  <2>1. stack # <<>> /\ stack[1].ready /\ stack[1].id = Expected
    BY DEF FrontIsExpected
  <2>2. stack \in Seq(Outstanding)
    BY <1>1 DEF TypeOK
  <2>3. 1 \in 1..Len(stack)
    BY <2>1, <2>2
  <2>6. Len(stack') = Len(stack) /\ stack'[1].id = stack[1].id
    BY <1>3, <2>3 DEF SameRequests
  <2>7. stack'[1].ready
    BY <1>3, <2>1, <2>3
  <2>4. stack' # <<>> /\ stack'[1].ready /\ stack'[1].id = stack[1].id
    BY <1>3, <2>3, <2>6, <2>7
  <2>5. Expected' = Expected
    BY <1>2 DEF Expected
  <2> QED BY <2>1, <2>4, <2>5 DEF FrontIsExpected
<1>6. IdleP => IdleP'
  BY <1>2 DEF IdleP, Supplied
<1>7. WarmP => WarmP'
  BY <1>2, Zenon DEF WarmP, At
<1>8. PreP => PreP'
  BY <1>2, <1>5, Zenon DEF PreP, At, Full
<1>9. PostP => PostP'
  BY <1>2, <1>5, Zenon DEF PostP, At, Supplied
<1>10. PrefetchPhase'
  BY <1>1, <1>6, <1>7, <1>8, <1>9 DEF PrefetchPhase
<1> QED BY <1>1, <1>2, <1>3, <1>4, <1>10, PrefetchMoved

LEMMA NonEmptyPrograms ==
    ASSUME NEW m \in Prefetched
    PROVE \A t \in WarmTodo(m) \cup PreTodo(m) \cup PostTodo(m) : t # <<>>
<1>1. CASE m = "async"
  BY <1>1, AsyncStepsWarm, AsyncStepsPre, AsyncStepsPost
<1>2. CASE m = "single"
  BY <1>2, SingleStepsWarm, SingleStepsPre, SingleStepsPost
<1>3. CASE m = "split"
  BY <1>3, SplitStepsWarm, SplitStepsPre, SplitStepsSubmitted, SplitStepsPost
<1>4. CASE m = "cids"
  BY <1>4, CidsStepsWarm, CidsStepsPre, CidsStepsPart, CidsStepsPost
<1> QED BY <1>1, <1>2, <1>3, <1>4 DEF Prefetched

LEMMA Between2 ==
    ASSUME LoaderInv, cfg.mode \in Prefetched, it.todo = <<>>
    PROVE IdleP
<1>1. PrefetchPhase
  BY PrefetchFacts
<1>2. ~WarmP /\ ~PreP /\ ~PostP
  BY NonEmptyPrograms DEF WarmP, PreP, PostP
<1> QED BY <1>1, <1>2 DEF PrefetchPhase

\* __next__ of every one of these iterators.
LEMMA NextCallIs ==
    ASSUME cfg.mode \in Prefetched
    PROVE /\ NextCall \in PreTodo(cfg.mode) /\ NextCall \in Seq(StepNames)
          /\ cfg.mode = "async" => Head(NextCall) = "poll"
          /\ cfg.mode = "single" => Head(NextCall) = "poll"
          /\ cfg.mode = "split" => NextCall \notin SubmittedTodo
<1>1. CASE cfg.mode = "async"
  <2>1. NextCall = <<"poll", "get", "poll", "fill", "return">>
    BY <1>1 DEF NextCall
  <2>2. <<"poll", "get", "poll", "fill", "return">> \in Seq(StepNames)
    BY DEF StepNames
  <2> QED BY <1>1, <2>1, <2>2 DEF PreTodo
<1>2. CASE cfg.mode = "single"
  <2>1. NextCall = <<"poll", "service", "get", "fill", "return">>
    BY <1>2 DEF NextCall
  <2>2. <<"poll", "service", "get", "fill", "return">> \in Seq(StepNames)
    BY DEF StepNames
  <2> QED BY <1>2, <2>1, <2>2 DEF PreTodo
<1>3. CASE cfg.mode = "split"
  <2> DEFINE t == <<"fill", "drain", "ensure", "fill", "drain",
                    "micro", "pop", "fill", "drain", "return">>
  <2>1. NextCall = t
    BY <1>3 DEF NextCall
  <2>2. t \in Seq(StepNames)
    BY DEF StepNames
  <2>3. t \in PreTodo("split")
    BY DEF PreTodo
  <2>4. t \notin SubmittedTodo
    <3>1. Head(t) = "fill" /\ Tail(t) = <<"drain", "ensure", "fill", "drain",
                                          "micro", "pop", "fill", "drain", "return">>
      OBVIOUS
    <3>2. Head(Tail(Tail(t))) = "ensure"
      OBVIOUS
    <3> HIDE DEF t
    <3>3. ASSUME t \in SubmittedTodo PROVE FALSE
      <4>1. \/ Tail(t) = <<"drain", "micro", "pop", "fill", "drain", "return">>
            \/ Tail(t) = Before("drain", SplitLoop)
        BY <3>1, <3>3, SplitStepsSubmitted
      <4>2. Tail(<<"drain", "micro", "pop", "fill", "drain", "return">>)
              = <<"micro", "pop", "fill", "drain", "return">>
        OBVIOUS
      <4>3. Head(<<"micro", "pop", "fill", "drain", "return">>) = "micro"
        OBVIOUS
      <4>4. Tail(Before("drain", SplitLoop)) = SplitLoop /\ Head(SplitLoop) = "micro"
        BY SplitBefore
      <4>5. Head(Tail(Tail(t))) = "micro"
        BY <4>1, <4>2, <4>3, <4>4, Zenon
      <4> QED BY <3>2, <4>5
    <3> QED BY <3>3
  <2> QED BY <1>3, <2>1, <2>2, <2>3, <2>4
<1>4. CASE cfg.mode = "cids"
  <2>1. NextCall = <<"service", "take", "sub", "fill", "return">>
    BY <1>4 DEF NextCall
  <2>2. <<"service", "take", "sub", "fill", "return">> \in Seq(StepNames)
    BY DEF StepNames
  <2> QED BY <1>4, <2>1, <2>2 DEF PreTodo
<1> QED BY <1>1, <1>2, <1>3, <1>4 DEF Prefetched

LEMMA PrefetchCalls ==
    ASSUME LoaderInv, cfg.mode \in Prefetched, Call PROVE LoaderInv'
<1>1. /\ TypeOK /\ Numbering /\ it \in Iterator /\ stack \in Seq(Outstanding)
      /\ cfg.mode \in Queued
  BY PrefetchFacts, QueuedFacts
<1>2. /\ it.todo = <<>> /\ it.out = "ok"
      /\ it' = IF Finished THEN [it EXCEPT !.out = "stop"] ELSE [it EXCEPT !.todo = NextCall]
      /\ cfg' = cfg /\ stack' = stack /\ nextId' = nextId /\ smp' = smp /\ wb' = wb
      /\ drawn' = drawn /\ epoch' = epoch /\ due' = due /\ got' = got /\ stale' = stale
  BY DEF Call
<1>3. it.hand = <<>> /\ Supplied
  BY <1>2, Between2 DEF IdleP
<1>4. Elsewhere /\ SameRequests
  BY <1>1, <1>2, StackSame DEF Elsewhere
<1>5. CASE Finished
  <2>1. it.queue = <<>> /\ it.exhausted
    BY <1>5 DEF Finished
  <2>2. /\ it'.queue = it.queue /\ it'.pend = it.pend /\ it'.current = it.current
        /\ it'.hand = it.hand /\ it'.exhausted = it.exhausted /\ it'.ios = it.ios
        /\ it'.out = "stop" /\ it'.todo = <<>> /\ it' \in Iterator
    BY <1>1, <1>2, <1>5 DEF Iterator
  <2>3. SameQueues
    BY <2>2 DEF SameQueues
  <2>4. PrefetchPhase'
    BY <1>3, <2>2 DEF PrefetchPhase, IdleP
  <2> QED BY <1>1, <1>2, <1>4, <2>1, <2>2, <2>3, <2>4, PrefetchMoved
<1>6. CASE ~Finished
  <2>1. it.queue # <<>>
    BY <1>3, <1>6 DEF Finished, Prefetching, Supplied, Prefetched, Synchronous
  <2>2. /\ NextCall \in PreTodo(cfg.mode) /\ NextCall \in Seq(StepNames)
        /\ cfg.mode = "async" => Head(NextCall) = "poll"
        /\ cfg.mode = "single" => Head(NextCall) = "poll"
        /\ cfg.mode = "split" => NextCall \notin SubmittedTodo
    BY NextCallIs
  <2> DEFINE t == NextCall
  <2> HIDE DEF t
  <2>3. it' = [it EXCEPT !.todo = t]
    BY <1>2, <1>6 DEF t
  <2>4. t \in Seq(StepNames)
    BY <2>2 DEF t
  <2>5. /\ it'.queue = it.queue /\ it'.pend = it.pend /\ it'.current = it.current
        /\ it'.hand = it.hand /\ it'.exhausted = it.exhausted /\ it'.ios = it.ios
        /\ it'.out = it.out /\ it'.todo = t /\ it' \in Iterator
    BY <1>1, <2>3, <2>4 DEF Iterator
  <2>6. SameQueues
    BY <2>5 DEF SameQueues
  <2>7. PreP'
    <3>1. cfg.mode = "async" => ~At("get")'
      BY <2>2, <2>5 DEF At, t
    <3>2. cfg.mode = "single" => ~At("get")' /\ ~At("service")'
      BY <2>2, <2>5 DEF At, t
    <3> QED BY <1>2, <1>3, <2>1, <2>2, <2>5, <3>1, <3>2 DEF PreP, t
  <2> QED BY <1>1, <1>2, <1>4, <2>5, <2>6, <2>7, PrefetchMoved DEF PrefetchPhase
<1> QED BY <1>5, <1>6

LEMMA PrefetchRenews ==
    ASSUME LoaderInv, cfg.mode \in Prefetched, NewEpoch PROVE LoaderInv'
<1>1. /\ TypeOK' /\ Numbering' /\ QueueInv' /\ ReturnsOwn' /\ cfg' = cfg
      /\ it'.queue = <<>> /\ it'.pend = <<>> /\ it'.current = <<>> /\ it'.hand = <<>>
      /\ it'.exhausted = FALSE /\ it'.todo = Warmup[cfg.mode]
      /\ it'.out = "ok" /\ smp' = NewSampler /\ due' = <<>>
  BY NewEpochIs, PrefetchFacts, QueuedFacts
<1>2. cfg.depth \in Nat
  BY QueuedFacts, PrefetchFacts, DepthIs
<1>3. Len(<<>>) = 0 /\ 1..0 = {}
  OBVIOUS
<1>4. Complete1'
  BY <1>1, <1>2, <1>3 DEF Complete1
<1>5. Exhausted' /\ PrefetchStop' /\ PrefetchError'
  BY <1>1 DEF Exhausted, PrefetchStop, PrefetchError
<1>6. PrefetchDue'
  <2>1. BatchesDue(<<>>, <<>>, <<>>, <<>>)
    BY <1>3 DEF BatchesDue
  <2> QED BY <1>1, <2>1, Zenon DEF PrefetchDue
<1>7. Sane'
  BY <1>1, <1>4, <1>5, <1>6 DEF Sane, NewSampler
<1>8. WarmP'
  <2>1. Warmup[cfg.mode] \in WarmTodo(cfg.mode)
    <3>1. CASE cfg.mode = "async"
      BY <3>1, WarmupIs DEF WarmTodo
    <3>2. CASE cfg.mode = "single"
      BY <3>2, WarmupIs DEF WarmTodo
    <3>3. CASE cfg.mode = "split"
      BY <3>3, WarmupIs DEF WarmTodo
    <3>4. CASE cfg.mode = "cids"
      BY <3>4, WarmupIs DEF WarmTodo
    <3> QED BY <3>1, <3>2, <3>3, <3>4 DEF Prefetched
  <2> QED BY <1>1, <2>1 DEF WarmP
<1> QED BY <1>1, <1>7, <1>8, SaneNext DEF PrefetchPhase

(***************************************************************************)
(* Items that make progress in their places, and the front item taken      *)
(***************************************************************************)
\* The same items, with other marks, in the same places.
KeptItems ==
    /\ Len(it'.queue) = Len(it.queue)
    /\ \A i \in 1..Len(it.queue) : Keeps(it'.queue[i], it.queue[i])
    /\ Len(it'.hand) = Len(it.hand)
    /\ \A i \in 1..Len(it.hand) : it'.hand[i].batch = it.hand[i].batch

\* What no get, poll or pop touches.
Otherwise ==
    /\ it'.pend = it.pend /\ it'.exhausted = it.exhausted /\ it'.out = it.out
    /\ it'.current = it.current /\ cfg' = cfg /\ smp' = smp /\ drawn' = drawn
    /\ epoch' = epoch /\ due' = due /\ got' = got /\ stale' = stale

LEMMA KeepsFull ==
    ASSUME NEW x, NEW y, Keeps(y, x), Full(x) PROVE Full(y)
  BY DEF Keeps, Full

LEMMA BatchesKept ==
    ASSUME NEW h, NEW q, NEW g, NEW r, NEW p, NEW d, BatchesDue(h, q, p, d),
           Len(r) = Len(q), \A i \in 1..Len(q) : r[i].batch = q[i].batch,
           Len(g) = Len(h), \A i \in 1..Len(h) : g[i].batch = h[i].batch
    PROVE BatchesDue(g, r, p, d)
  BY DEF BatchesDue

LEMMA SaneKept ==
    ASSUME LoaderInv, cfg.mode \in Prefetched, KeptItems, Otherwise,
           TypeOK', QueueInv', Numbering', it.out = "ok"
    PROVE Sane'
<1>1. /\ TypeOK /\ ReturnsOwn /\ Complete1 /\ Exhausted /\ PrefetchDue
      /\ it.current = <<>> /\ smp = NewSampler /\ it \in Iterator
  BY PrefetchFacts, QueuedFacts
<1>2. /\ Len(it'.queue) = Len(it.queue)
      /\ \A i \in 1..Len(it.queue) : Keeps(it'.queue[i], it.queue[i])
      /\ Len(it'.hand) = Len(it.hand)
      /\ \A i \in 1..Len(it.hand) : it'.hand[i].batch = it.hand[i].batch
  BY DEF KeptItems
<1>3. /\ it'.pend = it.pend /\ it'.exhausted = it.exhausted /\ it'.out = it.out
      /\ it'.current = it.current /\ cfg' = cfg /\ smp' = smp /\ drawn' = drawn
      /\ epoch' = epoch /\ due' = due /\ got' = got /\ stale' = stale
  BY DEF Otherwise
<1>4. \A i \in 1..Len(it.queue) : Full(it.queue[i]) => Full(it'.queue[i])
  BY <1>2, KeepsFull, Zenon
<1>5. Complete1'
  <2>1. \A b : NewItem(b)' = NewItem(b)
    BY <1>3, Zenon DEF NewItem, RowsOf, PartsOf, SplitSizes, ChunkSizes
  <2>2. \A i : Full(it.queue[i])' <=> Full(it'.queue[i])
    BY Zenon DEF Full
  <2>3. /\ it'.pend = it.pend /\ cfg' = cfg /\ Len(it'.queue) = Len(it.queue) /\ Complete1
    BY <1>1, <1>2, <1>3
  <2> QED BY <1>4, <2>1, <2>2, <2>3, Zenon DEF Complete1
<1>6. Exhausted'
  BY <1>1, <1>2, <1>3, <1>4 DEF Exhausted, Full, HasMore
<1>7. PrefetchDue'
  <2>1. \A i \in 1..Len(it.queue) : it'.queue[i].batch = it.queue[i].batch
    BY <1>2 DEF Keeps
  <2>2. BatchesDue(it.hand, it.queue, it.pend, due)
    BY <1>1 DEF PrefetchDue
  <2>3. BatchesDue(it'.hand, it'.queue, it.pend, due)
    BY <1>2, <2>1, <2>2, BatchesKept
  <2> QED BY <1>3, <2>3, Zenon DEF PrefetchDue
<1>8. PrefetchStop' /\ PrefetchError'
  BY <1>3 DEF PrefetchStop, PrefetchError
<1>9. smp' = NewSampler' /\ it'.current = <<>>
  BY <1>1, <1>3 DEF NewSampler
<1>10. ReturnsOwn'
  BY <1>1, <1>3, SameReturns
<1> QED BY <1>5, <1>6, <1>7, <1>8, <1>9, <1>10, Zenon DEF Sane

\* The front item is taken in hand.
Taken ==
    /\ it.queue # <<>> /\ it.hand = <<>> /\ it'.queue = Tail(it.queue)
    /\ Len(it'.hand) = 1 /\ it'.hand[1].batch = it.queue[1].batch

LEMMA BatchesTaken ==
    ASSUME NEW q \in Seq(Item), NEW p, NEW d, NEW g, BatchesDue(<<>>, q, p, d), q # <<>>,
           Len(g) = 1, g[1].batch = q[1].batch, Len(p) \in Nat
    PROVE BatchesDue(g, Tail(q), p, d)
<1> DEFINE m == Len(q)
           l == Len(p)
           e == Tail(q)
<1>1. m \in Nat /\ m >= 1 /\ Len(e) = m - 1 /\ \A i \in 1..(m - 1) : e[i] = q[i + 1]
  BY TailIs
<1>2. Len(<<>>) = 0 /\ l \in Nat
  OBVIOUS
<1> HIDE DEF e
<1>3. /\ Len(d) = 0 + m + l
      /\ \A i \in 1..m : d[0 + i] = q[i].batch
      /\ \A i \in 1..l : d[0 + m + i] = p[i].batch
  BY <1>2 DEF BatchesDue
<1> HIDE DEF m, l
<1>4. \A i \in 1..m : d[i] = q[i].batch
  BY <1>1, <1>3
<1>5. \A i \in 1..(m - 1) : d[1 + i] = e[i].batch
  <2> TAKE i \in 1..(m - 1)
  <2>1. i + 1 \in 1..m /\ 1 + i = i + 1
    BY <1>1
  <2> QED BY <1>1, <1>4, <2>1
<1>6. \A i \in 1..1 : d[i] = g[i].batch
  BY <1>1, <1>4
<1>7. Len(d) = 1 + (m - 1) + l /\ 1 + (m - 1) = m
  BY <1>1, <1>2, <1>3
<1>8. \A i \in 1..l : d[m + i] = p[i].batch
  BY <1>1, <1>2, <1>3
<1> QED BY <1>1, <1>5, <1>6, <1>7, <1>8 DEF BatchesDue, l

LEMMA TailComplete ==
    ASSUME TypeOK, Complete1, Exhausted, it.queue # <<>>, it'.queue = Tail(it.queue),
           it'.pend = it.pend, it'.exhausted = it.exhausted, cfg' = cfg,
           drawn' = drawn, epoch' = epoch
    PROVE Complete1' /\ Exhausted'
<1> DEFINE m == Len(it.queue)
           e == Tail(it.queue)
<1>1. it.queue \in Seq(Item)
  BY DEF TypeOK, Iterator
<1>2. m \in Nat /\ m >= 1 /\ Len(e) = m - 1 /\ \A i \in 1..(m - 1) : e[i] = it.queue[i + 1]
  BY <1>1, TailIs
<1>3. cfg.depth \in Nat
  BY DepthIs
<1>4. it'.queue = e
  OBVIOUS
<1> HIDE DEF e
<1>5. /\ Len(it.pend) <= 1
      /\ \A i \in 1..Len(it.pend) : it.pend[i] = NewItem(it.pend[i].batch)
      /\ cfg.mode \notin Budgeted => it.pend = <<>>
      /\ \A i \in 1..m : i < m => Full(it.queue[i])
      /\ cfg.mode # "split" => \A i \in 1..m : Full(it.queue[i])
      /\ it.pend # <<>> => m < cfg.depth /\ \A i \in 1..m : Full(it.queue[i])
      /\ m <= cfg.depth
  BY DEF Complete1
<1>6. it.exhausted => ~HasMore /\ it.pend = <<>> /\ \A i \in 1..m : Full(it.queue[i])
  BY DEF Exhausted
<1> HIDE DEF m
<1>7. \A i \in 1..(m - 1) : i + 1 \in 1..m /\ e[i] = it.queue[i + 1]
  BY <1>2
<1>8. /\ \A i \in 1..(m - 1) : i < m - 1 => Full(e[i])
      /\ (\A i \in 1..m : Full(it.queue[i])) => \A i \in 1..(m - 1) : Full(e[i])
  BY <1>2, <1>5, <1>7
<1>9. (m < cfg.depth => m - 1 < cfg.depth) /\ m - 1 <= cfg.depth
  BY <1>2, <1>3, <1>5
<1>10. Len(it'.queue) = m - 1
  BY <1>2, <1>4
<1>11. \A b : NewItem(b)' = NewItem(b)
  BY DEF NewItem, RowsOf, PartsOf, SplitSizes, ChunkSizes
<1>12. (\A i \in 1..Len(it.pend) : it.pend[i] = NewItem(it.pend[i].batch))'
  BY <1>5, <1>11
<1>13. Complete1'
  BY <1>4, <1>5, <1>8, <1>9, <1>10, <1>12 DEF Complete1, Full
<1>14. Exhausted'
  BY <1>4, <1>6, <1>8, <1>10 DEF Exhausted, Full, HasMore
<1> QED BY <1>13, <1>14

LEMMA SaneTaken ==
    ASSUME LoaderInv, cfg.mode \in Prefetched, Taken, Otherwise,
           TypeOK', QueueInv', Numbering', it.out = "ok"
    PROVE Sane'
<1>1. /\ TypeOK /\ ReturnsOwn /\ Complete1 /\ Exhausted /\ PrefetchDue
      /\ it.current = <<>> /\ smp = NewSampler /\ it \in Iterator
  BY PrefetchFacts, QueuedFacts
<1>2. /\ it.queue # <<>> /\ it.hand = <<>> /\ it'.queue = Tail(it.queue)
      /\ Len(it'.hand) = 1 /\ it'.hand[1].batch = it.queue[1].batch
  BY DEF Taken
<1>3. /\ it'.pend = it.pend /\ it'.exhausted = it.exhausted /\ it'.out = it.out
      /\ it'.current = it.current /\ cfg' = cfg /\ smp' = smp /\ drawn' = drawn
      /\ epoch' = epoch /\ due' = due /\ got' = got /\ stale' = stale
  BY DEF Otherwise
<1>4. Complete1' /\ Exhausted'
  BY <1>1, <1>2, <1>3, TailComplete
<1>5. PrefetchDue'
  <2>1. BatchesDue(<<>>, it.queue, it.pend, due)
    BY <1>1, <1>2 DEF PrefetchDue
  <2>2. it.queue \in Seq(Item) /\ Len(it.pend) \in Nat
    BY <1>1 DEF Iterator
  <2>3. BatchesDue(it'.hand, Tail(it.queue), it.pend, due)
    BY <1>2, <2>1, <2>2, BatchesTaken
  <2> QED BY <1>2, <1>3, <2>3, Zenon DEF PrefetchDue
<1>6. PrefetchStop' /\ PrefetchError'
  BY <1>3 DEF PrefetchStop, PrefetchError
<1>7. smp' = NewSampler' /\ it'.current = <<>>
  BY <1>1, <1>3 DEF NewSampler
<1>8. ReturnsOwn'
  BY <1>1, <1>3, SameReturns
<1> QED BY <1>4, <1>5, <1>6, <1>7, <1>8, Zenon DEF Sane

(***************************************************************************)
(* "async"                                                                 *)
(***************************************************************************)
\* Where the step goes to: between two calls, in the constructor, after the
\* batch is in hand.
LEMMA GoesIdle ==
    ASSUME cfg' = cfg, cfg.mode \in Prefetched, Sane', it'.todo = <<>>, it'.hand = <<>>,
           it'.queue # <<>> \/ it'.exhausted
    PROVE LoaderInv'
<1>1. PrefetchPhase'
  BY DEF PrefetchPhase, IdleP, Supplied
<1> QED BY <1>1, SaneNext

LEMMA GoesWarm ==
    ASSUME cfg' = cfg, cfg.mode \in Prefetched, Sane', it'.todo \in WarmTodo(cfg.mode),
           Head(it'.todo) # "submit", it'.hand = <<>>, it'.out = "ok"
    PROVE LoaderInv'
<1>1. PrefetchPhase'
  BY DEF PrefetchPhase, WarmP, At
<1> QED BY <1>1, SaneNext

LEMMA GoesPost ==
    ASSUME cfg' = cfg, cfg.mode \in Prefetched \ {"cids"}, Sane', it'.todo \in PostTodo(cfg.mode),
           Len(it'.hand) = 1, it'.out = "ok",
           Head(it'.todo) \in {"return", "drain"} => it'.queue # <<>> \/ it'.exhausted
    PROVE LoaderInv'
<1>1. PrefetchPhase'
  BY DEF PrefetchPhase, PostP, At, Supplied
<1> QED BY <1>1, SaneNext

LEMMA AsyncPrograms ==
    /\ <<"poll", "fill">> \in WarmTodo("async") /\ Head(<<"poll", "fill">>) = "poll"
    /\ <<"fill">> \in WarmTodo("async") /\ Head(<<"fill">>) = "fill"
    /\ <<"get", "poll", "fill", "return">> \in PreTodo("async")
    /\ Head(<<"get", "poll", "fill", "return">>) = "get"
    /\ <<"poll", "fill", "return">> \in PostTodo("async")
    /\ Head(<<"poll", "fill", "return">>) = "poll"
    /\ <<"fill", "return">> \in PostTodo("async") /\ Head(<<"fill", "return">>) = "fill"
    /\ <<"return">> \in PostTodo("async") /\ Head(<<"return">>) = "return"
  BY DEF WarmTodo, PreTodo, PostTodo

LEMMA AsyncIs ==
    ASSUME LoaderInv, cfg.mode = "async"
    PROVE /\ it.todo # <<>> => it.out = "ok"
          /\ it.todo # <<>> => \/ At("submit") \/ At("poll") \/ At("get") \/ At("fill")
                               \/ At("return")
          /\ At("submit") => it.hand = <<>> /\ it.queue = <<>> /\ Rest = <<"poll", "fill">>
          /\ At("poll") => \/ it.hand = <<>> /\ Rest = <<"fill">>
                           \/ /\ it.hand = <<>> /\ it.queue # <<>>
                              /\ Rest = <<"get", "poll", "fill", "return">>
                           \/ Len(it.hand) = 1 /\ Rest = <<"fill", "return">>
          /\ At("get") => /\ it.hand = <<>> /\ it.queue # <<>>
                          /\ Rest = <<"poll", "fill", "return">>
          /\ At("fill") => \/ it.hand = <<>> /\ Rest = <<>> /\ it.todo \in WarmTodo("async")
                           \/ /\ Len(it.hand) = 1 /\ Rest = <<"return">>
                              /\ it.todo \in PostTodo("async")
          /\ At("return") => Len(it.hand) = 1 /\ Rest = <<>> /\ Supplied
<1>1. PrefetchPhase
  BY PrefetchFacts DEF Prefetched
<1>2. CASE it.todo = <<>>
  BY <1>2 DEF At
<1>3. CASE WarmP
  <2>1. /\ it.todo \in WarmTodo("async") /\ it.out = "ok" /\ it.hand = <<>>
        /\ At("submit") => it.queue = <<>>
    BY <1>3 DEF WarmP
  <2>2. it.todo # <<>> /\ (\/ Head(it.todo) = "submit" /\ Tail(it.todo) = <<"poll", "fill">>
                           \/ Head(it.todo) = "poll" /\ Tail(it.todo) = <<"fill">>
                           \/ Head(it.todo) = "fill" /\ Tail(it.todo) = <<>>)
    BY <2>1, AsyncStepsWarm, Zenon
  <2> QED BY <2>1, <2>2 DEF At, Rest
<1>4. CASE PreP
  <2>1. it.todo \in PreTodo("async") /\ it.out = "ok" /\ it.hand = <<>> /\ it.queue # <<>>
    BY <1>4 DEF PreP
  <2>2. it.todo # <<>> /\
        (\/ Head(it.todo) = "poll" /\ Tail(it.todo) = <<"get", "poll", "fill", "return">>
         \/ Head(it.todo) = "get" /\ Tail(it.todo) = <<"poll", "fill", "return">>)
    BY <2>1, AsyncStepsPre, Zenon
  <2> QED BY <2>1, <2>2 DEF At, Rest
<1>5. CASE PostP
  <2>1. /\ it.todo \in PostTodo("async") /\ it.out = "ok" /\ Len(it.hand) = 1
        /\ At("return") => Supplied
    BY <1>5 DEF PostP
  <2>2. it.todo # <<>> /\ (\/ Head(it.todo) = "poll" /\ Tail(it.todo) = <<"fill", "return">>
                           \/ Head(it.todo) = "fill" /\ Tail(it.todo) = <<"return">>
                           \/ Head(it.todo) = "return" /\ Tail(it.todo) = <<>>)
    BY <2>1, AsyncStepsPost, Zenon
  <2> QED BY <2>1, <2>2 DEF At, Rest
<1> QED BY <1>1, <1>2, <1>3, <1>4, <1>5 DEF PrefetchPhase, IdleP

LEMMA AsyncActions ==
    ASSUME LoaderInv, cfg.mode = "async", Next
    PROVE Submit \/ PollUnregistered \/ Get \/ Fill \/ Return
          \/ Call \/ NewEpoch \/ Complete \/ Over
<1>1. it.todo # <<>> => At("submit") \/ At("poll") \/ At("get") \/ At("fill") \/ At("return")
  BY AsyncIs
<1>2. smp = NewSampler
  BY PrefetchFacts DEF Prefetched
<1>3. ~SamplerNext /\ ~SamplerPut
  BY <1>2 DEF SamplerNext, SamplerPut, NewSampler
<1>4. ~PollTryService /\ ~PollCids
  BY DEF PollTryService, PollCids, Budgeted
<1>5. \A a, b : At(a) /\ At(b) => a = b
  BY DEF At
<1>6. \A a : At(a) => a \in {"submit", "poll", "get", "fill", "return"}
  BY <1>1, <1>5 DEF At
<1>7. /\ ~At("ensure") /\ ~At("service") /\ ~At("drain") /\ ~At("micro") /\ ~At("mat")
      /\ ~At("pop") /\ ~At("take") /\ ~At("sub") /\ ~At("cat") /\ ~At("block")
      /\ ~At("nowait") /\ ~At("hand") /\ ~At("wb") /\ ~At("init") /\ ~At("read") /\ ~At("acc")
  BY <1>6
<1> QED BY <1>3, <1>4, <1>7, ActionSteps DEF Next, IterStep

LEMMA AsyncSubmits ==
    ASSUME LoaderInv, cfg.mode = "async", Submit PROVE LoaderInv'
<1>1. At("submit") /\ cfg.mode \in Prefetched
  BY DEF Submit, Prefetched
<1>2. it.hand = <<>> /\ it.queue = <<>> /\ Rest = <<"poll", "fill">> /\ it.out = "ok"
  BY <1>1, AsyncIs DEF At
<1>3. /\ Sane' /\ cfg' = cfg /\ it'.hand = it.hand /\ it'.out = "ok" /\ it'.todo = Rest
  BY <1>1, <1>2, SubmitSane
<1>4. it'.todo \in WarmTodo(cfg.mode) /\ Head(it'.todo) # "submit"
  BY <1>2, <1>3, AsyncPrograms
<1> QED BY <1>1, <1>2, <1>3, <1>4, GoesWarm

LEMMA AsyncFills ==
    ASSUME LoaderInv, cfg.mode = "async", Fill PROVE LoaderInv'
<1>1. At("fill") /\ cfg.mode \in Prefetched \ {"cids"}
  BY DEF Fill, Prefetched
<1>2. it.out = "ok" /\ Head(it.todo) = "fill"
  BY <1>1, AsyncIs DEF At
<1>3. /\ Sane' /\ cfg' = cfg /\ it'.hand = it.hand /\ it'.out = "ok"
      /\ it'.todo = it.todo \/ it'.todo = Rest
      /\ it'.queue # <<>> \/ it'.exhausted
  BY <1>1, <1>2, FillSane
<1>4. CASE it.hand = <<>> /\ Rest = <<>> /\ it.todo \in WarmTodo("async")
  <2>1. CASE it'.todo = it.todo
    BY <1>1, <1>2, <1>3, <1>4, <2>1, GoesWarm
  <2>2. CASE it'.todo = Rest
    BY <1>1, <1>3, <1>4, <2>2, GoesIdle
  <2> QED BY <1>3, <2>1, <2>2
<1>5. CASE Len(it.hand) = 1 /\ Rest = <<"return">> /\ it.todo \in PostTodo("async")
  <2>1. it'.todo \in PostTodo(cfg.mode)
    BY <1>3, <1>5, AsyncPrograms
  <2> QED BY <1>1, <1>3, <1>5, <2>1, GoesPost
<1> QED BY <1>1, <1>4, <1>5, AsyncIs

\* A poll only moves on, or marks the front item.
LEMMA PollSane ==
    ASSUME LoaderInv, cfg.mode = "async", PollUnregistered
    PROVE /\ Sane' /\ cfg' = cfg /\ it'.hand = it.hand /\ it'.out = "ok" /\ it'.todo = Rest
          /\ it.queue # <<>> => it'.queue # <<>> /\ it'.queue[1].polled
<1>1. /\ TypeOK /\ Numbering /\ QueueInv /\ Items /\ cfg.mode \in Prefetched
  BY PrefetchFacts, QueuedFacts DEF Prefetched
<1>2. it \in Iterator
  BY <1>1 DEF TypeOK
<1>3. it.todo # <<>> /\ it.out = "ok"
  BY AsyncIs DEF At, PollUnregistered
<1>4. /\ cfg' = cfg /\ stack' = stack /\ nextId' = nextId /\ smp' = smp /\ wb' = wb
      /\ drawn' = drawn /\ epoch' = epoch /\ due' = due /\ got' = got /\ stale' = stale
  BY DEF PollUnregistered
<1>5. Rest \in Seq(StepNames)
  BY <1>2, <1>3, RestIs
<1>6. CASE it.queue = <<>> \/ it.queue[1].polled
  <2>1. Goto(Rest)
    BY <1>6 DEF PollUnregistered
  <2>2. /\ it' \in Iterator /\ it'.todo = Rest
        /\ it'.queue = it.queue /\ it'.pend = it.pend /\ it'.current = it.current
        /\ it'.hand = it.hand /\ it'.exhausted = it.exhausted /\ it'.ios = it.ios
        /\ it'.out = it.out
    BY <1>2, <1>5, <2>1, GotoIs
  <2>3. SameQueues /\ Elsewhere
    BY <1>4, <2>2 DEF SameQueues, Elsewhere
  <2>4. SameRequests /\ stack' \in Seq(Outstanding)
    BY <1>1, <1>4, StackSame DEF TypeOK
  <2>5. Sane'
    BY <1>1, <1>4, <2>2, <2>3, <2>4, SaneMoved
  <2> QED BY <1>3, <1>4, <1>6, <2>2, <2>5
<1>7. CASE ~(it.queue = <<>> \/ it.queue[1].polled)
  <2>1. stack[1].done /\ it' = [it EXCEPT !.queue[1].polled = TRUE, !.todo = Rest]
    BY <1>7 DEF PollUnregistered
  <2>2. it.queue \in Seq(Item) /\ 1 \in 1..Len(it.queue) /\ it.queue[1] \in Item
    BY <1>2, <1>7 DEF Iterator
  <2> DEFINE y == [it.queue[1] EXCEPT !.polled = TRUE]
  <2>3. /\ y \in Item /\ Keeps(y, it.queue[1]) /\ y.mat = it.queue[1].mat
        /\ y.rows = it.queue[1].rows /\ y.used = it.queue[1].used /\ y.polled = TRUE
    BY <2>2 DEF Item, Keeps
  <2>4. it' = [it EXCEPT !.queue = [it.queue EXCEPT ![1] = y], !.todo = Rest]
    BY <1>2, <2>1, <2>2 DEF Iterator
  <2>5. y \in Item
    BY <2>3
  <2> HIDE DEF y
  <2>6. /\ it'.queue = [it.queue EXCEPT ![1] = y] /\ it'.pend = it.pend
        /\ it'.current = it.current /\ it'.todo = Rest
        /\ it'.hand = it.hand /\ it'.exhausted = it.exhausted /\ it'.ios = it.ios
        /\ it'.out = it.out
    BY <1>2, <2>4 DEF Iterator
  <2>7. /\ it'.queue \in Seq(Item) /\ Len(it'.queue) = Len(it.queue) /\ it'.queue[1] = y
        /\ it'.queue # <<>>
    BY <2>2, <2>5, <2>6
  <2>8. it' \in Iterator
    BY <1>2, <1>5, <2>4, <2>6, <2>7 DEF Iterator
  <2>9. TypeOK'
    BY <1>1, <1>4, <2>8 DEF TypeOK
  <2>10. y.used <= y.mat
    BY <1>1, <2>2, <2>3 DEF Items, ItemOK
  <2>11. Touched(1, y)
    BY <1>4, <2>1, <2>2, <2>3, <2>6, <2>10 DEF Touched, Queued, Prefetched
  <2>12. QueueInv' /\ Numbering'
    BY <1>1, <2>9, <2>11, QueueTouched
  <2>13. \A i \in 1..Len(it.queue) : Keeps(it'.queue[i], it.queue[i])
    BY <2>2, <2>3, <2>6 DEF Keeps
  <2>14. KeptItems
    BY <2>6, <2>7, <2>13 DEF KeptItems
  <2>15. Otherwise
    BY <1>4, <2>6 DEF Otherwise
  <2>16. Sane'
    BY <1>1, <1>3, <2>9, <2>12, <2>14, <2>15, SaneKept
  <2> QED BY <1>3, <1>4, <2>3, <2>6, <2>7, <2>16
<1> QED BY <1>6, <1>7

LEMMA AsyncPolls ==
    ASSUME LoaderInv, cfg.mode = "async", PollUnregistered PROVE LoaderInv'
<1>1. At("poll") /\ cfg.mode \in Prefetched \ {"cids"}
  BY DEF PollUnregistered, Prefetched
<1>2. /\ Sane' /\ cfg' = cfg /\ it'.hand = it.hand /\ it'.out = "ok" /\ it'.todo = Rest
      /\ it.queue # <<>> => it'.queue # <<>> /\ it'.queue[1].polled
  BY PollSane
<1>3. CASE it.hand = <<>> /\ Rest = <<"fill">>
  <2>1. it'.todo \in WarmTodo(cfg.mode) /\ Head(it'.todo) # "submit"
    BY <1>2, <1>3, AsyncPrograms
  <2> QED BY <1>1, <1>2, <1>3, <2>1, GoesWarm
<1>4. CASE it.hand = <<>> /\ it.queue # <<>> /\ Rest = <<"get", "poll", "fill", "return">>
  <2>1. it'.todo \in PreTodo(cfg.mode)
    BY <1>2, <1>4, AsyncPrograms
  <2>2. PreP'
    BY <1>2, <1>4, <2>1 DEF PreP
  <2> QED BY <1>1, <1>2, <2>2, SaneNext DEF PrefetchPhase
<1>5. CASE Len(it.hand) = 1 /\ Rest = <<"fill", "return">>
  <2>1. it'.todo \in PostTodo(cfg.mode) /\ Head(it'.todo) = "fill"
    BY <1>2, <1>5, AsyncPrograms
  <2> QED BY <1>1, <1>2, <1>5, <2>1, GoesPost
<1> QED BY <1>1, <1>3, <1>4, <1>5, AsyncIs

\* fetch_feature_get_feature_light, and the get of a registered batch.
LEMMA GetSane ==
    ASSUME LoaderInv, cfg.mode \in {"async", "single"}, Get, it.out = "ok", it.queue # <<>>,
           it.hand = <<>>, cfg.mode = "single" => FrontIsExpected(stack)
    PROVE /\ Sane' /\ cfg' = cfg /\ Len(it'.hand) = 1 /\ it'.out = "ok" /\ it'.todo = Rest
<1>1. /\ cfg.mode \in Prefetched /\ cfg.mode \in OnePart /\ cfg.mode # "pipeline"
  BY DEF Prefetched, OnePart
<1>2. TypeOK /\ Numbering /\ QueueInv /\ it.current = <<>> /\ it \in Iterator
  BY <1>1, PrefetchFacts, QueuedFacts
<1>3. PICK y : /\ Gotten(y) /\ TypeOK' /\ it'.todo = Rest /\ it'.pend = it.pend
               /\ it'.exhausted = it.exhausted /\ it'.out = it.out
               /\ smp' = smp /\ drawn' = drawn /\ epoch' = epoch /\ due' = due /\ got' = got
  BY <1>1, <1>2, GottenIs
<1>4. QueueInv' /\ Numbering'
  BY <1>2, <1>3, QueueGot
<1>5. /\ it'.queue = Tail(it.queue) /\ it'.hand = <<y>> /\ it'.current = it.current
      /\ cfg' = cfg /\ stale' = stale /\ y.batch = it.queue[1].batch
  BY <1>1, <1>3 DEF Gotten, Keeps
<1>6. Len(it'.hand) = 1 /\ it'.hand[1] = y
  BY <1>5
<1>7. Taken
  BY <1>5, <1>6 DEF Taken
<1>8. Otherwise
  BY <1>3, <1>5 DEF Otherwise
<1>9. Sane'
  BY <1>1, <1>3, <1>4, <1>7, <1>8, SaneTaken
<1> QED BY <1>3, <1>5, <1>6, <1>9

LEMMA AsyncGets ==
    ASSUME LoaderInv, cfg.mode = "async", Get PROVE LoaderInv'
<1>1. At("get") /\ cfg.mode \in Prefetched \ {"cids"}
  BY DEF Get, Prefetched
<1>2. it.hand = <<>> /\ it.queue # <<>> /\ Rest = <<"poll", "fill", "return">> /\ it.out = "ok"
  BY <1>1, AsyncIs DEF At
<1>3. Sane' /\ cfg' = cfg /\ Len(it'.hand) = 1 /\ it'.out = "ok" /\ it'.todo = Rest
  BY <1>2, GetSane
<1>4. it'.todo \in PostTodo(cfg.mode) /\ Head(it'.todo) = "poll"
  BY <1>2, <1>3, AsyncPrograms
<1> QED BY <1>1, <1>3, <1>4, GoesPost

\* The return of the iterators with one request per batch.
LEMMA OnePartReturns ==
    ASSUME LoaderInv, cfg.mode \in {"async", "single"}, Return, it.out = "ok",
           Len(it.hand) = 1, Rest = <<>>, Supplied
    PROVE LoaderInv'
<1>1. /\ cfg.mode \in Prefetched /\ cfg.mode \in OnePart /\ cfg.mode # "cids"
  BY DEF Prefetched, OnePart
<1>2. Items /\ Fetched1
  BY <1>1, PrefetchFacts, QueuedFacts
<1>3. 1 \in 1..Len(it.hand)
  OBVIOUS
<1>4. it.hand[1].mat = Len(it.hand[1].ids)
  BY <1>1, <1>2, <1>3 DEF Items
<1>5. ~stale => OwnBatch(it.hand[1])
  BY <1>1, <1>2, <1>3 DEF Fetched1
<1>6. /\ Sane' /\ cfg' = cfg /\ it'.hand = <<>> /\ it'.out = "ok" /\ it'.todo = Rest
      /\ it'.queue = it.queue /\ it'.exhausted = it.exhausted
  BY <1>1, <1>4, <1>5, ReturnSane
<1> QED BY <1>1, <1>6, GoesIdle DEF Supplied

LEMMA AsyncStep ==
    ASSUME LoaderInv, cfg.mode = "async", Next PROVE LoaderInv'
<1>1. cfg.mode \in Prefetched
  BY DEF Prefetched
<1>2. CASE Return
  BY <1>2, AsyncIs, OnePartReturns DEF Return, At
<1>3. CASE Over
  BY <1>3, Unchanged DEF Over
<1>4. CASE Submit \/ PollUnregistered \/ Get \/ Fill
  BY <1>4, AsyncSubmits, AsyncPolls, AsyncGets, AsyncFills
<1>5. CASE Call \/ NewEpoch \/ Complete
  BY <1>1, <1>5, PrefetchCalls, PrefetchRenews, PrefetchAnswers
<1> QED BY <1>2, <1>3, <1>4, <1>5, AsyncActions

(***************************************************************************)
(* Polling and servicing registered requests                               *)
(***************************************************************************)
\* The stack with more requests marked as ready.
Flagged(s) ==
    /\ s \in Seq(Outstanding) /\ Len(s) = Len(stack)
    /\ \A j \in 1..Len(stack) :
         /\ s[j].id = stack[j].id /\ s[j].batch = stack[j].batch
         /\ s[j].n = stack[j].n /\ s[j].first = stack[j].first
         /\ stack[j].done => s[j].done
         /\ s[j].ready => s[j].done
         /\ stack[j].ready => s[j].ready

LEMMA FlaggedSelf == ASSUME TypeOK, Numbering PROVE Flagged(stack)
  BY DEF Flagged, TypeOK, Numbering

LEMMA FlaggedTried ==
    ASSUME NEW s, Flagged(s) PROVE Flagged(Tried(s))
<1>1. s \in Seq(Outstanding) /\ Len(s) = Len(stack)
  BY DEF Flagged
<1>2. CASE s # <<>> /\ s[1].done
  <2> DEFINE r == [s[1] EXCEPT !.ready = TRUE]
             t == [s EXCEPT ![1] = r]
  <2>1. 1 \in 1..Len(s) /\ s[1] \in Outstanding
    BY <1>1, <1>2
  <2>2. /\ r \in Outstanding /\ r.ready = TRUE /\ r.done = s[1].done /\ r.id = s[1].id
        /\ r.batch = s[1].batch /\ r.n = s[1].n /\ r.first = s[1].first
    BY <2>1 DEF Outstanding
  <2>3. Tried(s) = t
    BY <1>2, <2>1 DEF Tried
  <2> HIDE DEF r
  <2>4. /\ t \in Seq(Outstanding) /\ Len(t) = Len(s) /\ t[1] = r
        /\ \A j \in 1..Len(s) : j # 1 => t[j] = s[j]
    BY <1>1, <2>1, <2>2
  <2> HIDE DEF t
  <2>5. \A j \in 1..Len(stack) :
           /\ t[j].id = stack[j].id /\ t[j].batch = stack[j].batch
           /\ t[j].n = stack[j].n /\ t[j].first = stack[j].first
           /\ stack[j].done => t[j].done
           /\ t[j].ready => t[j].done
           /\ stack[j].ready => t[j].ready
    <3> TAKE j \in 1..Len(stack)
    <3>1. CASE j = 1
      BY <1>2, <2>2, <2>4, <3>1 DEF Flagged
    <3>2. CASE j # 1
      BY <1>1, <2>4, <3>2 DEF Flagged
    <3> QED BY <3>1, <3>2
  <2>6. Flagged(t)
    BY <1>1, <2>4, <2>5 DEF Flagged
  <2> QED BY <2>3, <2>6
<1>3. CASE ~(s # <<>> /\ s[1].done)
  BY <1>3 DEF Tried
<1> QED BY <1>2, <1>3

LEMMA FlaggedServiced ==
    ASSUME NEW s, Flagged(s) PROVE Flagged(Serviced(s))
<1>1. s \in Seq(Outstanding) /\ Len(s) = Len(stack) /\ DOMAIN s = 1..Len(s)
  BY DEF Flagged
<1> DEFINE r(i) == [s[i] EXCEPT !.ready = @ \/ (i \in 2..(1 + TryWindow) /\ s[i].done)]
           t == [i \in DOMAIN s |-> r(i)]
<1>2. \A j \in 1..Len(s) :
        /\ r(j) \in Outstanding /\ r(j).done = s[j].done /\ r(j).id = s[j].id
        /\ r(j).batch = s[j].batch /\ r(j).n = s[j].n /\ r(j).first = s[j].first
        /\ s[j].ready => r(j).ready
        /\ r(j).ready => s[j].ready \/ s[j].done
  <2> TAKE j \in 1..Len(s)
  <2>1. s[j] \in Outstanding
    BY <1>1
  <2> QED BY <2>1 DEF Outstanding
<1>3. Serviced(s) = t \/ Serviced(s) = s
  BY DEF Serviced
<1> HIDE DEF r
<1>4. t \in Seq(Outstanding) /\ Len(t) = Len(s) /\ \A j \in 1..Len(s) : t[j] = r(j)
  BY <1>1, <1>2
<1> HIDE DEF t
<1>5. \A j \in 1..Len(stack) :
         /\ t[j].id = stack[j].id /\ t[j].batch = stack[j].batch
         /\ t[j].n = stack[j].n /\ t[j].first = stack[j].first
         /\ stack[j].done => t[j].done
         /\ t[j].ready => t[j].done
         /\ stack[j].ready => t[j].ready
  BY <1>1, <1>2, <1>4 DEF Flagged
<1>6. Flagged(t)
  BY <1>1, <1>4, <1>5 DEF Flagged
<1> QED BY <1>3, <1>6

LEMMA FlaggedIs ==
    ASSUME Flagged(stack')
    PROVE SameRequests /\ stack' \in Seq(Outstanding)
  BY DEF Flagged, SameRequests

\* What was the expected front stays it.
LEMMA FlaggedFront ==
    ASSUME TypeOK, Flagged(stack'), FrontIsExpected(stack), Expected' = Expected
    PROVE FrontIsExpected(stack)'
<1>1. stack # <<>> /\ stack[1].ready /\ stack[1].id = Expected /\ stack \in Seq(Outstanding)
  BY DEF FrontIsExpected, TypeOK
<1>2. 1 \in 1..Len(stack)
  BY <1>1
<1>3. /\ stack' \in Seq(Outstanding) /\ Len(stack') = Len(stack)
      /\ stack'[1].ready /\ stack'[1].id = stack[1].id
  BY <1>1, <1>2 DEF Flagged
<1>4. stack' # <<>>
  BY <1>2, <1>3
<1> QED BY <1>1, <1>3, <1>4 DEF FrontIsExpected

\* What the iterator waits for depends on its items only.
LEMMA ExpectedSame ==
    ASSUME it'.queue = it.queue, it'.hand = it.hand, cfg' = cfg PROVE Expected' = Expected
  BY DEF Expected

\* A blocking poll or a service, then the next step.
Services(t) ==
    /\ t \in Seq(StepNames) /\ Goto(t) /\ Flagged(stack') /\ Elsewhere /\ wb' = wb

LEMMA ServiceSane ==
    ASSUME LoaderInv, cfg.mode \in Prefetched, NEW t, Services(t), it.out = "ok"
    PROVE /\ Sane' /\ cfg' = cfg /\ SameQueues /\ it'.out = "ok" /\ it'.todo = t
<1>1. TypeOK /\ Numbering /\ it \in Iterator
  BY PrefetchFacts, QueuedFacts
<1>2. t \in Seq(StepNames) /\ Goto(t) /\ Flagged(stack') /\ Elsewhere /\ wb' = wb /\ cfg' = cfg
  BY DEF Services, Elsewhere
<1>3. /\ it' \in Iterator /\ it'.todo = t
      /\ it'.queue = it.queue /\ it'.pend = it.pend /\ it'.current = it.current
      /\ it'.hand = it.hand /\ it'.exhausted = it.exhausted /\ it'.ios = it.ios
      /\ it'.out = it.out
  BY <1>1, <1>2, GotoIs
<1>4. SameQueues
  BY <1>3 DEF SameQueues
<1>5. SameRequests /\ stack' \in Seq(Outstanding)
  BY <1>2, FlaggedIs
<1>6. Sane'
  BY <1>2, <1>3, <1>4, <1>5, SaneMoved
<1> QED BY <1>2, <1>3, <1>4, <1>6

\* The request that is awaited is in the stack.
Awaited == Expected \in Nat /\ Expected >= Base /\ Expected < nextId

LEMMA PollOne ==
    ASSUME TypeOK, Numbering, Awaited, Len(stack) <= 1, stack[1].done
    PROVE FrontIsExpected(Tried(stack))
<1>1. stack \in Seq(Outstanding) /\ Len(stack) \in Nat /\ nextId \in Nat
  BY DEF TypeOK
<1> DEFINE n == Len(stack)
           e == Expected
<1>2. /\ e \in Nat /\ e >= nextId - n /\ e < nextId /\ n \in Nat /\ n <= 1
      /\ \A j \in 1..n : stack[j].id = nextId - n + j - 1
  BY <1>1 DEF Awaited, Base, Numbering
<1> HIDE DEF e, n
<1>3. n = 1 /\ e = nextId - n
  BY <1>1, <1>2
<1>4. stack[1].id = nextId - n + 1 - 1
  BY <1>2, <1>3
<1>5. stack[1].id = e
  BY <1>1, <1>3, <1>4
<1>6. stack # <<>> /\ 1 \in 1..Len(stack) /\ stack[1] \in Outstanding
  BY <1>1, <1>3 DEF n
<1>7. Tried(stack) = [stack EXCEPT ![1].ready = TRUE]
  BY <1>6 DEF Tried
<1> DEFINE r == [stack[1] EXCEPT !.ready = TRUE]
           t == [stack EXCEPT ![1] = r]
<1>8. Tried(stack) = t
  BY <1>6, <1>7
<1>9. r \in Outstanding /\ r.ready = TRUE /\ r.id = stack[1].id
  BY <1>6 DEF Outstanding
<1> HIDE DEF r
<1>10. t \in Seq(Outstanding) /\ t[1] = r /\ Len(t) = Len(stack)
  BY <1>1, <1>6, <1>9
<1>11. t # <<>>
  BY <1>6, <1>10
<1> QED BY <1>5, <1>8, <1>9, <1>10, <1>11 DEF FrontIsExpected, e

\* Where a poll leaves off: it tries again, or the front is what it awaits.
Tries == /\ it' = it \/ (Goto(Rest) /\ FrontIsExpected(stack'))
         /\ Flagged(stack') /\ Elsewhere /\ wb' = wb

LEMMA TryService ==
    ASSUME TypeOK, Numbering, PollTryService, Awaited
    PROVE Tries
<1>1. Flagged(stack) /\ Flagged(Tried(stack)) /\ Flagged(Serviced(Tried(stack)))
  BY FlaggedSelf, FlaggedTried, FlaggedServiced
<1>2. Elsewhere /\ wb' = wb
  BY DEF PollTryService, Elsewhere
<1>3. CASE FrontIsExpected(stack) /\ Goto(Rest) /\ stack' = stack
  <2>1. FrontIsExpected(stack') /\ Flagged(stack')
    BY <1>1, <1>3, Zenon
  <2> QED BY <1>2, <1>3, <2>1 DEF Tries
<1>4. CASE Len(stack) <= 1 /\ stack[1].done /\ stack' = Tried(stack) /\ Goto(Rest)
  <2>1. FrontIsExpected(Tried(stack))
    BY <1>4, PollOne
  <2>2. FrontIsExpected(stack') /\ Flagged(stack')
    BY <1>1, <1>4, <2>1, Zenon
  <2> QED BY <1>2, <1>4, <2>2 DEF Tries
<1>5. CASE /\ FrontIsExpected(Tried(stack))
           /\ stack' = Tried(stack) /\ Goto(Rest)
  <2>1. FrontIsExpected(stack') /\ Flagged(stack')
    BY <1>1, <1>5, Zenon
  <2> QED BY <1>2, <1>5, <2>1 DEF Tries
<1>6. CASE /\ stack' = Serviced(Tried(stack)) \/ stack' = Tried(stack)
           /\ it' = it
  <2>1. Flagged(stack')
    BY <1>1, <1>6, Zenon
  <2> QED BY <1>2, <1>6, <2>1 DEF Tries
<1> QED BY <1>3, <1>4, <1>5, <1>6 DEF PollTryService

LEMMA TryCids ==
    ASSUME TypeOK, Numbering, PollCids
    PROVE Tries
<1>1. Flagged(stack) /\ Flagged(Tried(stack)) /\ Flagged(Serviced(Tried(stack)))
  BY FlaggedSelf, FlaggedTried, FlaggedServiced
<1>2. Elsewhere /\ wb' = wb
  BY DEF PollCids, Elsewhere
<1>3. CASE FrontIsExpected(stack) /\ Goto(Rest) /\ stack' = stack
  <2>1. FrontIsExpected(stack') /\ Flagged(stack')
    BY <1>1, <1>3, Zenon
  <2> QED BY <1>2, <1>3, <2>1 DEF Tries
<1>4. CASE /\ stack' = Serviced(Tried(stack)) \/ stack' = Tried(stack)
           /\ IF FrontIsExpected(stack') THEN Goto(Rest) ELSE it' = it
  <2>1. Flagged(stack')
    BY <1>1, <1>4, Zenon
  <2> QED BY <1>2, <1>4, <2>1 DEF Tries
<1> QED BY <1>3, <1>4 DEF PollCids

\* A poll that goes on leaves the invariant but for the place, one that
\* tries again leaves all of it.
LEMMA TrySane ==
    ASSUME LoaderInv, cfg.mode \in Prefetched, Tries, it.out = "ok", it.todo # <<>>,
           ~At("get"), ~At("service"), ~At("mat"), ~At("cat")
    PROVE \/ LoaderInv'
          \/ /\ Sane' /\ cfg' = cfg /\ SameQueues /\ it'.out = "ok" /\ it'.todo = Rest
             /\ FrontIsExpected(stack)'
<1>1. TypeOK /\ Numbering /\ it \in Iterator /\ PrefetchPhase
  BY PrefetchFacts, QueuedFacts
<1>2. Flagged(stack') /\ Elsewhere /\ wb' = wb
  BY DEF Tries
<1>3. CASE it' = it
  <2>1. SameQueues
    BY <1>3 DEF SameQueues
  <2>2. SameRequests /\ stack' \in Seq(Outstanding)
    BY <1>2, FlaggedIs
  <2>3. cfg' = cfg
    BY <1>2 DEF Elsewhere
  <2>4. IdleP => IdleP'
    BY <1>3 DEF IdleP, Supplied
  <2>5. WarmP => WarmP'
    BY <1>3, <2>3, Zenon DEF WarmP, At
  <2>6. PreP => PreP'
    BY <1>3, <2>3, Zenon DEF PreP, At, Full
  <2>7. PostP => PostP'
    BY <1>3, <2>3, Zenon DEF PostP, At, Supplied
  <2>8. PrefetchPhase'
    BY <1>1, <2>4, <2>5, <2>6, <2>7 DEF PrefetchPhase
  <2>9. it' \in Iterator /\ it'.out = it.out
    BY <1>1, <1>3
  <2> QED BY <1>2, <2>1, <2>2, <2>8, <2>9, PrefetchMoved
<1>4. CASE Goto(Rest) /\ FrontIsExpected(stack')
  <2>1. Rest \in Seq(StepNames)
    BY <1>1, RestIs
  <2>2. Services(Rest)
    BY <1>2, <1>4, <2>1 DEF Services
  <2> DEFINE t == Rest
  <2>3. Services(t)
    BY <2>2
  <2> HIDE DEF t
  <2>4. Sane' /\ cfg' = cfg /\ SameQueues /\ it'.out = "ok" /\ it'.todo = t
    BY <2>3, ServiceSane
  <2>5. Expected' = Expected
    BY <2>4, ExpectedSame DEF SameQueues
  <2>6. FrontIsExpected(stack)'
    BY <1>4, <2>5 DEF FrontIsExpected
  <2> QED BY <2>4, <2>6 DEF t
<1> QED BY <1>3, <1>4 DEF Tries

(***************************************************************************)
(* "single"                                                                *)
(***************************************************************************)
LEMMA SinglePrograms ==
    /\ <<"service", "get", "fill", "return">> \in PreTodo("single")
    /\ Head(<<"service", "get", "fill", "return">>) = "service"
    /\ <<"get", "fill", "return">> \in PreTodo("single")
    /\ Head(<<"get", "fill", "return">>) = "get"
    /\ <<"fill", "return">> \in PostTodo("single") /\ Head(<<"fill", "return">>) = "fill"
    /\ <<"return">> \in PostTodo("single") /\ Head(<<"return">>) = "return"
  BY DEF WarmTodo, PreTodo, PostTodo

LEMMA SingleIs ==
    ASSUME LoaderInv, cfg.mode = "single"
    PROVE /\ it.todo # <<>> => it.out = "ok"
          /\ it.todo # <<>> => \/ At("submit") \/ At("poll") \/ At("service") \/ At("get")
                               \/ At("fill") \/ At("return")
          /\ At("submit") => it.hand = <<>> /\ it.queue = <<>> /\ Rest = <<>>
          /\ At("poll") => /\ it.hand = <<>> /\ it.queue # <<>>
                           /\ Rest = <<"service", "get", "fill", "return">>
          /\ At("service") => /\ it.hand = <<>> /\ it.queue # <<>>
                              /\ FrontIsExpected(stack) /\ Rest = <<"get", "fill", "return">>
          /\ At("get") => /\ it.hand = <<>> /\ it.queue # <<>>
                          /\ FrontIsExpected(stack) /\ Rest = <<"fill", "return">>
          /\ At("fill") => /\ Len(it.hand) = 1 /\ Rest = <<"return">>
                           /\ it.todo \in PostTodo("single")
          /\ At("return") => Len(it.hand) = 1 /\ Rest = <<>> /\ Supplied
<1>1. PrefetchPhase
  BY PrefetchFacts DEF Prefetched
<1>2. CASE it.todo = <<>>
  BY <1>2 DEF At
<1>3. CASE WarmP
  <2>1. /\ it.todo \in WarmTodo("single") /\ it.out = "ok" /\ it.hand = <<>>
        /\ At("submit") => it.queue = <<>>
    BY <1>3 DEF WarmP
  <2>2. it.todo # <<>> /\ Head(it.todo) = "submit" /\ Tail(it.todo) = <<>>
    BY <2>1, SingleStepsWarm, Zenon
  <2> QED BY <2>1, <2>2 DEF At, Rest
<1>4. CASE PreP
  <2>1. /\ it.todo \in PreTodo("single") /\ it.out = "ok" /\ it.hand = <<>> /\ it.queue # <<>>
        /\ At("get") \/ At("service") => FrontIsExpected(stack)
    BY <1>4 DEF PreP
  <2>2. it.todo # <<>> /\
        (\/ Head(it.todo) = "poll" /\ Tail(it.todo) = <<"service", "get", "fill", "return">>
         \/ Head(it.todo) = "service" /\ Tail(it.todo) = <<"get", "fill", "return">>
         \/ Head(it.todo) = "get" /\ Tail(it.todo) = <<"fill", "return">>)
    BY <2>1, SingleStepsPre, Zenon
  <2> QED BY <2>1, <2>2 DEF At, Rest
<1>5. CASE PostP
  <2>1. /\ it.todo \in PostTodo("single") /\ it.out = "ok" /\ Len(it.hand) = 1
        /\ At("return") => Supplied
    BY <1>5 DEF PostP
  <2>2. it.todo # <<>> /\ (\/ Head(it.todo) = "fill" /\ Tail(it.todo) = <<"return">>
                           \/ Head(it.todo) = "return" /\ Tail(it.todo) = <<>>)
    BY <2>1, SingleStepsPost, Zenon
  <2> QED BY <2>1, <2>2 DEF At, Rest
<1> QED BY <1>1, <1>2, <1>3, <1>4, <1>5 DEF PrefetchPhase, IdleP

LEMMA SingleActions ==
    ASSUME LoaderInv, cfg.mode = "single", Next
    PROVE Submit \/ PollTryService \/ Service \/ Get \/ Fill \/ Return
          \/ Call \/ NewEpoch \/ Complete \/ Over
<1>1. it.todo # <<>> => \/ At("submit") \/ At("poll") \/ At("service") \/ At("get")
                        \/ At("fill") \/ At("return")
  BY SingleIs
<1>2. smp = NewSampler
  BY PrefetchFacts DEF Prefetched
<1>3. ~SamplerNext /\ ~SamplerPut
  BY <1>2 DEF SamplerNext, SamplerPut, NewSampler
<1>4. ~PollUnregistered /\ ~PollCids
  BY DEF PollUnregistered, PollCids, Registered
<1>5. \A a, b : At(a) /\ At(b) => a = b
  BY DEF At
<1>6. \A a : At(a) => a \in {"submit", "poll", "service", "get", "fill", "return"}
  BY <1>1, <1>5 DEF At
<1>7. /\ ~At("ensure") /\ ~At("drain") /\ ~At("micro") /\ ~At("mat")
      /\ ~At("pop") /\ ~At("take") /\ ~At("sub") /\ ~At("cat") /\ ~At("block")
      /\ ~At("nowait") /\ ~At("hand") /\ ~At("wb") /\ ~At("init") /\ ~At("read") /\ ~At("acc")
  BY <1>6
<1> QED BY <1>3, <1>4, <1>7, ActionSteps DEF Next, IterStep

\* What a batch of one request awaits is in the stack.
LEMMA SingleAwaits ==
    ASSUME LoaderInv, cfg.mode = "single", it.queue # <<>> PROVE Awaited
<1>1. TypeOK /\ Items /\ Link /\ it \in Iterator /\ cfg.mode \in OnePart
  BY PrefetchFacts, QueuedFacts DEF Prefetched, OnePart
<1>2. it.queue \in Seq(Item) /\ 1 \in 1..Len(it.queue)
  BY <1>1 DEF Iterator
<1> DEFINE x == it.queue[1]
<1>3. ItemOK(x) /\ Len(x.ids) = 1 /\ x.ids[1] \in Nat /\ x.mat = 0
  BY <1>1, <1>2, OneRequest
<1>4. Linked(x)
  BY <1>1, <1>2 DEF Link, Registered
<1>5. Expected = x.ids[1]
  BY DEF Expected
<1> HIDE DEF x
<1>6. x.ids[1] < nextId
  BY <1>3 DEF ItemOK
<1>7. x.ids[1] >= Base
  BY <1>3, <1>4 DEF Linked
<1> QED BY <1>3, <1>5, <1>6, <1>7 DEF Awaited

LEMMA SingleSubmits ==
    ASSUME LoaderInv, cfg.mode = "single", Submit PROVE LoaderInv'
<1>1. At("submit") /\ cfg.mode \in Prefetched
  BY DEF Submit, Prefetched
<1>2. it.hand = <<>> /\ it.queue = <<>> /\ Rest = <<>> /\ it.out = "ok"
  BY <1>1, SingleIs DEF At
<1>3. /\ Sane' /\ cfg' = cfg /\ it'.hand = it.hand /\ it'.out = "ok" /\ it'.todo = Rest
      /\ it'.queue # <<>> \/ it'.exhausted
  BY <1>1, <1>2, SubmitSane
<1> QED BY <1>1, <1>2, <1>3, GoesIdle

\* The front is expected after the poll, and until the get.
SinglePre ==
    /\ it'.todo \in PreTodo("single") /\ it'.out = "ok" /\ it'.hand = <<>> /\ it'.queue # <<>>
    /\ FrontIsExpected(stack)'

LEMMA GoesSingle ==
    ASSUME cfg.mode = "single", cfg' = cfg, Sane', SinglePre PROVE LoaderInv'
<1>1. cfg.mode \in Prefetched /\ cfg'.mode = "single"
  BY DEF Prefetched
<1>2. PreP'
  BY <1>1 DEF SinglePre, PreP
<1> QED BY <1>1, <1>2, SaneNext DEF PrefetchPhase

LEMMA SinglePolls ==
    ASSUME LoaderInv, cfg.mode = "single", PollTryService PROVE LoaderInv'
<1>1. At("poll") /\ cfg.mode \in Prefetched /\ it.todo # <<>>
  BY DEF PollTryService, Prefetched, At
<1>2. /\ it.hand = <<>> /\ it.queue # <<>> /\ it.out = "ok"
      /\ Rest = <<"service", "get", "fill", "return">>
  BY <1>1, SingleIs
<1>3. Tries
  BY <1>1, <1>2, SingleAwaits, TryService, PrefetchFacts, QueuedFacts
<1>4. ~At("get") /\ ~At("service") /\ ~At("mat") /\ ~At("cat")
  BY <1>1 DEF At
<1>5. CASE /\ Sane' /\ cfg' = cfg /\ SameQueues /\ it'.out = "ok" /\ it'.todo = Rest
           /\ FrontIsExpected(stack)'
  <2>1. it'.todo \in PreTodo("single")
    BY <1>2, <1>5, SinglePrograms
  <2>2. SinglePre
    BY <1>2, <1>5, <2>1 DEF SinglePre, SameQueues
  <2> QED BY <1>5, <2>2, GoesSingle
<1> QED BY <1>1, <1>2, <1>3, <1>4, <1>5, TrySane

\* Servicing the queue behind the front.
LEMMA ServiceIs ==
    ASSUME LoaderInv, cfg.mode \in Prefetched, Service
    PROVE Services(Rest) /\ At("service") /\ it.todo # <<>>
<1>1. TypeOK /\ Numbering /\ it \in Iterator
  BY PrefetchFacts, QueuedFacts
<1>2. At("service") /\ it.todo # <<>>
  BY DEF Service, At
<1>3. Rest \in Seq(StepNames)
  BY <1>1, <1>2, RestIs
<1>4. Flagged(Serviced(stack))
  BY <1>1, FlaggedSelf, FlaggedServiced
<1>5. stack' = Serviced(stack) /\ Goto(Rest) /\ Elsewhere /\ wb' = wb
  BY DEF Service, Elsewhere
<1>6. Flagged(stack')
  BY <1>4, <1>5, Zenon
<1> QED BY <1>2, <1>3, <1>5, <1>6 DEF Services

LEMMA SingleServices ==
    ASSUME LoaderInv, cfg.mode = "single", Service PROVE LoaderInv'
<1>1. Services(Rest) /\ At("service") /\ it.todo # <<>> /\ cfg.mode \in Prefetched /\ TypeOK
  BY ServiceIs, PrefetchFacts, QueuedFacts DEF Prefetched
<1>2. /\ it.hand = <<>> /\ it.queue # <<>> /\ it.out = "ok"
      /\ Rest = <<"get", "fill", "return">> /\ FrontIsExpected(stack)
  BY <1>1, SingleIs
<1> DEFINE t == Rest
<1>3. Services(t)
  BY <1>1
<1> HIDE DEF t
<1>4. Sane' /\ cfg' = cfg /\ SameQueues /\ it'.out = "ok" /\ it'.todo = t
  BY <1>1, <1>2, <1>3, ServiceSane
<1>5. Expected' = Expected
  BY <1>4, ExpectedSame DEF SameQueues
<1>6. FrontIsExpected(stack)'
  BY <1>1, <1>2, <1>5, FlaggedFront DEF Services
<1>7. it'.todo \in PreTodo("single")
  BY <1>2, <1>4, SinglePrograms DEF t
<1>8. SinglePre
  BY <1>2, <1>4, <1>6, <1>7 DEF SinglePre, SameQueues
<1> QED BY <1>4, <1>8, GoesSingle

LEMMA SingleGets ==
    ASSUME LoaderInv, cfg.mode = "single", Get PROVE LoaderInv'
<1>1. At("get") /\ cfg.mode \in Prefetched \ {"cids"}
  BY DEF Get, Prefetched
<1>2. /\ it.hand = <<>> /\ it.queue # <<>> /\ Rest = <<"fill", "return">> /\ it.out = "ok"
      /\ FrontIsExpected(stack)
  BY <1>1, SingleIs DEF At
<1>3. Sane' /\ cfg' = cfg /\ Len(it'.hand) = 1 /\ it'.out = "ok" /\ it'.todo = Rest
  BY <1>2, GetSane
<1>4. it'.todo \in PostTodo(cfg.mode) /\ Head(it'.todo) = "fill"
  BY <1>2, <1>3, SinglePrograms
<1> QED BY <1>1, <1>3, <1>4, GoesPost

LEMMA SingleFills ==
    ASSUME LoaderInv, cfg.mode = "single", Fill PROVE LoaderInv'
<1>1. At("fill") /\ cfg.mode \in Prefetched \ {"cids"}
  BY DEF Fill, Prefetched
<1>2. /\ it.out = "ok" /\ Len(it.hand) = 1 /\ Rest = <<"return">>
      /\ it.todo \in PostTodo("single")
  BY <1>1, SingleIs DEF At
<1>3. /\ Sane' /\ cfg' = cfg /\ it'.hand = it.hand /\ it'.out = "ok"
      /\ it'.todo = it.todo \/ it'.todo = Rest
      /\ it'.queue # <<>> \/ it'.exhausted
  BY <1>1, <1>2, FillSane
<1>4. it'.todo \in PostTodo(cfg.mode)
  BY <1>2, <1>3, SinglePrograms
<1> QED BY <1>1, <1>2, <1>3, <1>4, GoesPost

LEMMA SingleStep ==
    ASSUME LoaderInv, cfg.mode = "single", Next PROVE LoaderInv'
<1>1. cfg.mode \in Prefetched
  BY DEF Prefetched
<1>2. CASE Return
  BY <1>2, SingleIs, OnePartReturns DEF Return, At
<1>3. CASE Over
  BY <1>3, Unchanged DEF Over
<1>4. CASE Submit \/ PollTryService \/ Service \/ Get \/ Fill
  BY <1>4, SingleSubmits, SinglePolls, SingleServices, SingleGets, SingleFills
<1>5. CASE Call \/ NewEpoch \/ Complete
  BY <1>1, <1>5, PrefetchCalls, PrefetchRenews, PrefetchAnswers
<1> QED BY <1>2, <1>3, <1>4, <1>5, SingleActions

(***************************************************************************)
(* A batch of several requests                                             *)
(***************************************************************************)
\* Fetched part by part it is the batch.
LEMMA PartsOwn ==
    ASSUME TypeOK, cfg.mode \in InParts, NEW x \in Item, ItemOK(x), RowsOK(x), Full(x),
           x.mat = Len(x.ids)
    PROVE OwnBatch(x)
<1>1. x.batch \in Nat \ {0} /\ x.rows \in Seq(Nat \X Nat)
  BY DEF Item
<1>2. x.parts = PartsOf(RowsOf(x.batch)) /\ x.mat = Len(x.parts)
  BY DEF ItemOK, Full
<1>3. SumUpTo(x.parts, x.mat) = RowsOf(x.batch)
  BY <1>1, <1>2, BatchParts
<1>4. /\ Len(x.rows) = RowsOf(x.batch)
      /\ \A r \in 1..RowsOf(x.batch) : x.rows[r] = <<x.batch, r>>
  BY <1>3 DEF RowsOK, InParts
<1>5. /\ OwnRows(x.batch) \in Seq(Nat \X Nat)
      /\ Len(OwnRows(x.batch)) = RowsOf(x.batch)
      /\ \A i \in 1..RowsOf(x.batch) : OwnRows(x.batch)[i] = <<x.batch, i>>
  BY <1>1, Own
<1> DEFINE a == x.rows
           b == OwnRows(x.batch)
           n == RowsOf(x.batch)
<1>6. /\ a \in Seq(Nat \X Nat) /\ b \in Seq(Nat \X Nat) /\ Len(a) = n /\ Len(b) = n
      /\ \A r \in 1..n : a[r] = b[r]
  BY <1>1, <1>4, <1>5
<1> HIDE DEF a, b, n
<1>7. a = b
  BY <1>6
<1> QED BY <1>7 DEF a, b, OwnBatch

\* The front item is popped into the loop's hands.
LEMMA PopSane ==
    ASSUME LoaderInv, cfg.mode \in InParts, PopFront, it.out = "ok", it.queue # <<>>,
           it.hand = <<>>, Full(it.queue[1]),
           cfg.mode = "split" => it.queue[1].mat = Len(it.queue[1].ids)
    PROVE /\ Sane' /\ cfg' = cfg /\ it'.hand = <<it.queue[1]>> /\ it'.out = "ok"
          /\ it'.todo = Rest
<1>1. cfg.mode \in Prefetched /\ cfg.mode \in Queued
  BY DEF InParts, Prefetched, Queued
<1>2. TypeOK /\ Numbering /\ QueueInv /\ it \in Iterator
  BY <1>1, QueuedFacts
<1>3. it.todo # <<>>
  BY DEF PopFront, At
<1>4. Rest \in Seq(StepNames)
  BY <1>2, <1>3, RestIs
<1>5. it.queue \in Seq(Item) /\ Head(it.queue) = it.queue[1] /\ it.queue[1] \in Item
      /\ Tail(it.queue) \in Seq(Item)
  BY <1>2, TailIs DEF Iterator
<1> DEFINE x == it.queue[1]
<1>6. <<x>> \in Seq(Item) /\ Len(<<x>>) = 1 /\ <<x>>[1] = x
  BY <1>5
<1>7. it' = [it EXCEPT !.queue = Tail(it.queue), !.hand = <<x>>, !.todo = Rest]
  BY <1>2, <1>5 DEF PopFront, Iterator
<1>8. /\ cfg' = cfg /\ stack' = stack /\ nextId' = nextId /\ smp' = smp /\ wb' = wb
      /\ drawn' = drawn /\ epoch' = epoch /\ due' = due /\ got' = got /\ stale' = stale
  BY DEF PopFront
<1> DEFINE h == <<x>>
<1> HIDE DEF x, h
<1>9. it' = [it EXCEPT !.queue = Tail(it.queue), !.hand = h, !.todo = Rest]
      /\ h \in Seq(Item)
  BY <1>6, <1>7 DEF h
<1>10. /\ it'.queue = Tail(it.queue) /\ it'.hand = h /\ it'.todo = Rest
       /\ it'.pend = it.pend /\ it'.current = it.current /\ it'.exhausted = it.exhausted
       /\ it'.ios = it.ios /\ it'.out = it.out
  BY <1>2, <1>9 DEF Iterator
<1>11. it' \in Iterator
  BY <1>2, <1>4, <1>5, <1>9 DEF Iterator
<1>12. TypeOK'
  BY <1>2, <1>8, <1>11 DEF TypeOK
<1>13. Held
  BY <1>8, <1>10 DEF Held, h, x
<1>14. QueueInv' /\ Numbering'
  BY <1>2, <1>12, <1>13, QueueHeld
<1>15. Taken
  BY <1>6, <1>10 DEF Taken, h, x
<1>16. Otherwise
  BY <1>8, <1>10 DEF Otherwise
<1>17. Sane'
  BY <1>1, <1>12, <1>14, <1>15, <1>16, SaneTaken
<1> QED BY <1>8, <1>10, <1>17 DEF h, x

\* The return of a batch that is whole.
LEMMA InPartsReturns ==
    ASSUME LoaderInv, cfg.mode \in InParts, Return, it.out = "ok",
           Len(it.hand) = 1, Rest = <<>>, Supplied, it.hand[1].mat = Len(it.hand[1].ids)
    PROVE LoaderInv'
<1>1. cfg.mode \in Prefetched /\ cfg.mode \in Queued
  BY DEF InParts, Prefetched, Queued
<1>2. TypeOK /\ Items /\ it \in Iterator
  BY <1>1, QueuedFacts
<1>3. 1 \in 1..Len(it.hand) /\ it.hand \in Seq(Item)
  BY <1>2 DEF Iterator
<1>4. it.hand[1] \in Item /\ ItemOK(it.hand[1]) /\ RowsOK(it.hand[1]) /\ Full(it.hand[1])
  BY <1>2, <1>3 DEF Items
<1>5. OwnBatch(it.hand[1])
  BY <1>2, <1>4, PartsOwn
<1>6. /\ Sane' /\ cfg' = cfg /\ it'.hand = <<>> /\ it'.out = "ok" /\ it'.todo = Rest
      /\ it'.queue = it.queue /\ it'.exhausted = it.exhausted
  BY <1>1, <1>5, ReturnSane
<1> QED BY <1>1, <1>6, GoesIdle DEF Supplied

(***************************************************************************)
(* "cids"                                                                  *)
(***************************************************************************)
ToService == Before("service", Before("fill", CidsLoop))
ToCat == Before("cat", ToService)

LEMMA CidsPrograms ==
    /\ <<"take", "sub", "fill", "return">> \in PreTodo("cids")
    /\ {CidsLoop, Before("poll", ToCat), ToCat, ToService, Before("fill", CidsLoop)} = PartTodo
    /\ Head(CidsLoop) = "sub" /\ Head(Before("poll", ToCat)) = "poll" /\ Head(ToCat) = "cat"
    /\ Head(ToService) = "service" /\ Head(Before("fill", CidsLoop)) = "fill"
    /\ Head(<<"fill", "return">>) = "fill" /\ Head(<<"return">>) = "return"
<1>1. /\ Head(CidsLoop) = "sub" /\ Head(Before("poll", ToCat)) = "poll" /\ Head(ToCat) = "cat"
      /\ Head(ToService) = "service" /\ Head(Before("fill", CidsLoop)) = "fill"
  BY CidsBefore, Zenon DEF ToCat, ToService
<1>2. {CidsLoop, Before("poll", ToCat), ToCat, ToService, Before("fill", CidsLoop)} = PartTodo
  BY Zenon DEF ToCat, ToService, PartTodo
<1>3. <<"take", "sub", "fill", "return">> \in PreTodo("cids")
  BY DEF PreTodo
<1> QED BY <1>1, <1>2, <1>3

\* Where the loop over the parts is.
LEMMA CidsPartIs ==
    ASSUME NEW t \in PartTodo
    PROVE /\ t # <<>>
          /\ Head(t) \in {"sub", "poll", "cat", "service", "fill"}
          /\ Head(t) = "sub" => t = CidsLoop /\ Tail(t) = <<"fill", "return">>
          /\ Head(t) = "poll" => Tail(t) = ToCat
          /\ Head(t) = "cat" => Tail(t) = ToService
          /\ Head(t) = "service" => Tail(t) = Before("fill", CidsLoop)
          /\ Head(t) = "fill" => Tail(t) = CidsLoop
<1>1. t \in {CidsLoop, Before("poll", ToCat), ToCat, ToService, Before("fill", CidsLoop)}
  BY CidsPrograms
<1>2. /\ Head(CidsLoop) = "sub" /\ Head(Before("poll", ToCat)) = "poll" /\ Head(ToCat) = "cat"
      /\ Head(ToService) = "service" /\ Head(Before("fill", CidsLoop)) = "fill"
  BY CidsPrograms
<1>3. /\ CidsLoop # <<>> /\ Before("poll", ToCat) # <<>> /\ ToCat # <<>> /\ ToService # <<>>
      /\ Before("fill", CidsLoop) # <<>>
      /\ Tail(CidsLoop) = <<"fill", "return">> /\ Tail(Before("poll", ToCat)) = ToCat
      /\ Tail(ToCat) = ToService /\ Tail(ToService) = Before("fill", CidsLoop)
      /\ Tail(Before("fill", CidsLoop)) = CidsLoop
  BY CidsBefore, Zenon DEF ToCat, ToService
<1> DEFINE a == CidsLoop
           b == Before("poll", ToCat)
           c == ToCat
           d == ToService
           e == Before("fill", CidsLoop)
<1>4. /\ t \in {a, b, c, d, e}
      /\ Head(a) = "sub" /\ Head(b) = "poll" /\ Head(c) = "cat" /\ Head(d) = "service"
      /\ Head(e) = "fill"
      /\ a # <<>> /\ b # <<>> /\ c # <<>> /\ d # <<>> /\ e # <<>>
      /\ Tail(a) = <<"fill", "return">> /\ Tail(b) = c /\ Tail(c) = d /\ Tail(d) = e
      /\ Tail(e) = a
  BY <1>1, <1>2, <1>3
<1> HIDE DEF a, b, c, d, e
<1>5. /\ t # <<>>
      /\ Head(t) \in {"sub", "poll", "cat", "service", "fill"}
      /\ Head(t) = "sub" => t = a /\ Tail(t) = <<"fill", "return">>
      /\ Head(t) = "poll" => Tail(t) = c
      /\ Head(t) = "cat" => Tail(t) = d
      /\ Head(t) = "service" => Tail(t) = e
      /\ Head(t) = "fill" => Tail(t) = a
  BY <1>4
<1> QED BY <1>5 DEF a, c, d, e

LEMMA CidsIs ==
    ASSUME LoaderInv, cfg.mode = "cids"
    PROVE /\ it.todo # <<>> => it.out = "ok"
          /\ \A a : At(a) => a \in {"fill", "service", "take", "sub", "poll", "cat", "return"}
          /\ At("fill") => \/ it.hand = <<>> /\ Rest = <<>> /\ it.todo \in WarmTodo("cids")
                           \/ /\ Len(it.hand) = 1 /\ Rest = <<"return">>
                              /\ it.todo = <<"fill", "return">>
                              /\ it.hand[1].mat = Len(it.hand[1].ids)
                           \/ Len(it.hand) = 1 /\ Rest = CidsLoop /\ it.todo \in PartTodo
          /\ At("service") => \/ /\ it.hand = <<>> /\ it.queue # <<>>
                                 /\ Rest = <<"take", "sub", "fill", "return">>
                              \/ Len(it.hand) = 1 /\ Rest = Before("fill", CidsLoop)
          /\ At("take") => it.hand = <<>> /\ it.queue # <<>> /\ Rest = CidsLoop
          /\ At("sub") => Len(it.hand) = 1 /\ Rest = <<"fill", "return">> /\ it.todo = CidsLoop
          /\ At("poll") => /\ Len(it.hand) = 1 /\ it.hand[1].mat < Len(it.hand[1].ids)
                           /\ Rest = ToCat
          /\ At("cat") => /\ Len(it.hand) = 1 /\ it.hand[1].mat < Len(it.hand[1].ids)
                          /\ FrontIsExpected(stack) /\ Rest = ToService
          /\ At("return") => /\ Len(it.hand) = 1 /\ Rest = <<>> /\ Supplied
                             /\ it.hand[1].mat = Len(it.hand[1].ids)
<1>1. PrefetchPhase
  BY PrefetchFacts DEF Prefetched
<1>2. CASE it.todo = <<>>
  BY <1>2 DEF At
<1>3. CASE WarmP
  <2>1. it.todo \in WarmTodo("cids") /\ it.out = "ok" /\ it.hand = <<>>
    BY <1>3 DEF WarmP
  <2>2. it.todo # <<>> /\ Head(it.todo) = "fill" /\ Tail(it.todo) = <<>>
    BY <2>1, CidsStepsWarm, Zenon
  <2> QED BY <2>1, <2>2 DEF At, Rest
<1>4. CASE PreP
  <2>1. it.todo \in PreTodo("cids") /\ it.out = "ok" /\ it.hand = <<>> /\ it.queue # <<>>
    BY <1>4 DEF PreP
  <2>2. it.todo # <<>> /\
        (\/ Head(it.todo) = "service" /\ Tail(it.todo) = <<"take", "sub", "fill", "return">>
         \/ Head(it.todo) = "take" /\ Tail(it.todo) = CidsLoop)
    BY <2>1, CidsStepsPre, Zenon
  <2> DEFINE c == CidsLoop
  <2> HIDE DEF c
  <2>3. \/ Head(it.todo) = "service" /\ Tail(it.todo) = <<"take", "sub", "fill", "return">>
        \/ Head(it.todo) = "take" /\ Tail(it.todo) = c
    BY <2>2 DEF c
  <2>4. At("take") => Rest = c
    BY <2>3 DEF At, Rest
  <2> QED BY <2>1, <2>2, <2>4 DEF At, Rest, c
<1>5. CASE PostP
  <2>1. /\ it.todo \in PostTodo("cids") /\ it.out = "ok" /\ Len(it.hand) = 1
        /\ At("return") => Supplied
        /\ \/ /\ it.todo \in PartTodo
              /\ At("poll") \/ At("cat") => it.hand[1].mat < Len(it.hand[1].ids)
              /\ At("cat") => FrontIsExpected(stack)
           \/ /\ it.todo \in {<<"fill", "return">>, <<"return">>}
              /\ it.hand[1].mat = Len(it.hand[1].ids)
    BY <1>5 DEF PostP
  <2>2. CASE /\ it.todo \in PartTodo
             /\ At("poll") \/ At("cat") => it.hand[1].mat < Len(it.hand[1].ids)
             /\ At("cat") => FrontIsExpected(stack)
    <3>1. /\ it.todo # <<>>
          /\ Head(it.todo) \in {"sub", "poll", "cat", "service", "fill"}
          /\ Head(it.todo) = "sub" => it.todo = CidsLoop /\ Rest = <<"fill", "return">>
          /\ Head(it.todo) = "poll" => Rest = ToCat
          /\ Head(it.todo) = "cat" => Rest = ToService
          /\ Head(it.todo) = "service" => Rest = Before("fill", CidsLoop)
          /\ Head(it.todo) = "fill" => Rest = CidsLoop
      BY <2>2, CidsPartIs, Zenon DEF Rest
    <3> QED BY <2>1, <2>2, <3>1 DEF At
  <2>3. CASE /\ it.todo \in {<<"fill", "return">>, <<"return">>}
             /\ it.hand[1].mat = Len(it.hand[1].ids)
    <3>1. CASE it.todo = <<"fill", "return">>
      <4>1. Head(it.todo) = "fill" /\ Tail(it.todo) = <<"return">>
        BY <3>1
      <4> QED BY <2>1, <2>3, <3>1, <4>1 DEF At, Rest
    <3>2. CASE it.todo = <<"return">>
      <4>1. Head(it.todo) = "return" /\ Tail(it.todo) = <<>> /\ it.todo # <<>>
        BY <3>2
      <4> QED BY <2>1, <2>3, <4>1 DEF At, Rest
    <3> QED BY <2>3, <3>1, <3>2
  <2> QED BY <2>1, <2>2, <2>3
<1> QED BY <1>1, <1>2, <1>3, <1>4, <1>5 DEF PrefetchPhase, IdleP

LEMMA CidsActions ==
    ASSUME LoaderInv, cfg.mode = "cids", Next
    PROVE Fill \/ Service \/ PopFront \/ SubBatch \/ PollCids \/ Concat \/ Return
          \/ Call \/ NewEpoch \/ Complete \/ Over
<1>1. \A a : At(a) => a \in {"fill", "service", "take", "sub", "poll", "cat", "return"}
  BY CidsIs
<1>2. smp = NewSampler
  BY PrefetchFacts DEF Prefetched
<1>3. ~SamplerNext /\ ~SamplerPut
  BY <1>2 DEF SamplerNext, SamplerPut, NewSampler
<1>4. ~PollTryService /\ ~PollUnregistered
  BY DEF PollTryService, PollUnregistered, Registered, Budgeted
<1>5. /\ ~At("submit") /\ ~At("ensure") /\ ~At("get") /\ ~At("drain") /\ ~At("micro")
      /\ ~At("mat") /\ ~At("block")
      /\ ~At("nowait") /\ ~At("hand") /\ ~At("wb") /\ ~At("init") /\ ~At("read") /\ ~At("acc")
  BY <1>1
<1> QED BY <1>3, <1>4, <1>5, ActionSteps DEF Next, IterStep

LEMMA CidsPost ==
    /\ PartTodo \subseteq PostTodo("cids")
    /\ <<"fill", "return">> \in PostTodo("cids") /\ <<"return">> \in PostTodo("cids")
  BY DEF PostTodo

LEMMA GoesPart ==
    ASSUME cfg' = cfg, cfg.mode = "cids", Sane', it'.todo \in PartTodo, Len(it'.hand) = 1,
           it'.out = "ok",
           Head(it'.todo) \in {"poll", "cat"} => it'.hand[1].mat < Len(it'.hand[1].ids),
           Head(it'.todo) = "cat" => FrontIsExpected(stack)'
    PROVE LoaderInv'
<1>1. cfg.mode \in Prefetched /\ cfg'.mode = "cids"
  BY DEF Prefetched
<1>2. Head(it'.todo) \in {"sub", "poll", "cat", "service", "fill"}
  BY CidsPartIs
<1>3. ~At("return")' /\ ~At("drain")'
  BY <1>2 DEF At
<1>4. At("poll")' \/ At("cat")' => it'.hand[1].mat < Len(it'.hand[1].ids)
  BY DEF At
<1>5. At("cat")' => FrontIsExpected(stack)'
  BY DEF At
<1>6. it'.todo \in PostTodo("cids")
  BY CidsPost
<1>7. PostP'
  BY <1>1, <1>3, <1>4, <1>5, <1>6 DEF PostP
<1> QED BY <1>1, <1>7, SaneNext DEF PrefetchPhase

LEMMA GoesWhole ==
    ASSUME cfg' = cfg, cfg.mode = "cids", Sane', it'.out = "ok", Len(it'.hand) = 1,
           it'.hand[1].mat = Len(it'.hand[1].ids),
           \/ it'.todo = <<"fill", "return">>
           \/ it'.todo = <<"return">> /\ (it'.queue # <<>> \/ it'.exhausted)
    PROVE LoaderInv'
<1>1. cfg.mode \in Prefetched /\ cfg'.mode = "cids"
  BY DEF Prefetched
<1>2. it'.todo \in PostTodo("cids")
  BY CidsPost
<1>3. At("return")' \/ At("drain")' => Supplied'
  <2>1. CASE it'.todo = <<"fill", "return">>
    BY <2>1 DEF At
  <2>2. CASE it'.queue # <<>> \/ it'.exhausted
    BY <2>2 DEF Supplied
  <2> QED BY <2>1, <2>2
<1>4. PostP'
  BY <1>1, <1>2, <1>3 DEF PostP
<1> QED BY <1>1, <1>4, SaneNext DEF PrefetchPhase

LEMMA CidsFills ==
    ASSUME LoaderInv, cfg.mode = "cids", Fill PROVE LoaderInv'
<1>1. At("fill") /\ cfg.mode \in Prefetched
  BY DEF Fill, Prefetched
<1>2. it.out = "ok" /\ Head(it.todo) = "fill"
  BY <1>1, CidsIs DEF At
<1>3. /\ Sane' /\ cfg' = cfg /\ it'.hand = it.hand /\ it'.out = "ok"
      /\ it'.todo = it.todo \/ it'.todo = Rest
      /\ it'.queue # <<>> \/ it'.exhausted
  BY <1>1, <1>2, FillSane
<1>4. CASE it.hand = <<>> /\ Rest = <<>> /\ it.todo \in WarmTodo("cids")
  <2>1. CASE it'.todo = it.todo
    BY <1>1, <1>2, <1>3, <1>4, <2>1, GoesWarm
  <2>2. CASE it'.todo = Rest
    BY <1>1, <1>3, <1>4, <2>2, GoesIdle
  <2> QED BY <1>3, <2>1, <2>2
<1>5. CASE /\ Len(it.hand) = 1 /\ Rest = <<"return">>
           /\ it.todo = <<"fill", "return">> /\ it.hand[1].mat = Len(it.hand[1].ids)
  BY <1>3, <1>5, GoesWhole
<1>6. CASE Len(it.hand) = 1 /\ Rest = CidsLoop /\ it.todo \in PartTodo
  <2>1. it'.todo \in PartTodo /\ Head(it'.todo) \notin {"poll", "cat"}
    BY <1>2, <1>3, <1>6, CidsPrograms
  <2>2. Len(it'.hand) = 1
    BY <1>3, <1>6
  <2> QED BY <1>3, <2>1, <2>2, GoesPart
<1> QED BY <1>1, <1>4, <1>5, <1>6, CidsIs

LEMMA CidsServices ==
    ASSUME LoaderInv, cfg.mode = "cids", Service PROVE LoaderInv'
<1>1. Services(Rest) /\ At("service") /\ it.todo # <<>> /\ cfg.mode \in Prefetched
  BY ServiceIs DEF Prefetched
<1>2. it.out = "ok"
  BY <1>1, CidsIs
<1> DEFINE t == Rest
<1>3. Services(t)
  BY <1>1
<1> HIDE DEF t
<1>4. Sane' /\ cfg' = cfg /\ SameQueues /\ it'.out = "ok" /\ it'.todo = t
  BY <1>1, <1>2, <1>3, ServiceSane
<1>5. it'.hand = it.hand /\ it'.queue = it.queue
  BY <1>4 DEF SameQueues
<1>6. CASE it.hand = <<>> /\ it.queue # <<>> /\ Rest = <<"take", "sub", "fill", "return">>
  <2>1. it'.todo \in PreTodo("cids")
    BY <1>4, <1>6, CidsPrograms DEF t
  <2>2. PreP'
    BY <1>4, <1>5, <1>6, <2>1 DEF PreP
  <2> QED BY <1>1, <1>4, <2>2, SaneNext DEF PrefetchPhase
<1>7. CASE Len(it.hand) = 1 /\ Rest = Before("fill", CidsLoop)
  <2>1. it'.todo = Before("fill", CidsLoop)
    BY <1>4, <1>7 DEF t
  <2>2. it'.todo \in PartTodo /\ Head(it'.todo) \notin {"poll", "cat"}
    <3>1. Head(Before("fill", CidsLoop)) = "fill" /\ Before("fill", CidsLoop) \in PartTodo
      BY CidsPrograms
    <3> DEFINE b == Before("fill", CidsLoop)
    <3>2. Head(b) = "fill" /\ b \in PartTodo /\ it'.todo = b
      BY <2>1, <3>1
    <3> HIDE DEF b
    <3> QED BY <3>2
  <2>3. Len(it'.hand) = 1
    BY <1>5, <1>7
  <2> QED BY <1>4, <2>2, <2>3, GoesPart
<1> QED BY <1>1, <1>6, <1>7, CidsIs

\* Where every part of a batch was submitted before any was fetched.
LEMMA CidsFull ==
    ASSUME LoaderInv, cfg.mode = "cids"
    PROVE /\ TypeOK /\ Numbering /\ Items /\ Link /\ it \in Iterator
          /\ it.hand \in Seq(Item)
          /\ it.queue # <<>> => Full(it.queue[1])
          /\ Len(it.hand) = 1 => /\ it.hand[1] \in Item /\ Full(it.hand[1])
                                 /\ ItemOK(it.hand[1]) /\ RowsOK(it.hand[1])
                                 /\ Linked(it.hand[1])
<1>1. TypeOK /\ Numbering /\ Items /\ Link /\ it \in Iterator /\ Complete1
  BY PrefetchFacts, QueuedFacts DEF Prefetched
<1>2. it.hand \in Seq(Item) /\ it.queue \in Seq(Item)
  BY <1>1 DEF Iterator
<1>3. it.queue # <<>> => 1 \in 1..Len(it.queue)
  BY <1>2
<1>4. it.queue # <<>> => Full(it.queue[1])
  BY <1>1, <1>3 DEF Complete1
<1>5. Len(it.hand) = 1 => 1 \in 1..Len(it.hand)
  OBVIOUS
<1>6. Len(it.hand) = 1 => it.hand[1] \in Item
  BY <1>2, <1>5
<1>7. Len(it.hand) = 1 => Full(it.hand[1]) /\ ItemOK(it.hand[1]) /\ RowsOK(it.hand[1])
  BY <1>1, <1>5 DEF Items
<1>8. Len(it.hand) = 1 => Linked(it.hand[1])
  BY <1>1, <1>5 DEF Link, Registered
<1> QED BY <1>1, <1>2, <1>4, <1>6, <1>7, <1>8

LEMMA CidsTakes ==
    ASSUME LoaderInv, cfg.mode = "cids", PopFront PROVE LoaderInv'
<1>1. At("take") /\ it.todo # <<>> /\ cfg.mode \in InParts
  <2>1. At("pop") \/ At("take")
    BY DEF PopFront
  <2>2. ~At("pop")
    BY CidsIs
  <2> QED BY <2>1, <2>2 DEF At, InParts
<1>2. it.hand = <<>> /\ it.queue # <<>> /\ Rest = CidsLoop /\ it.out = "ok"
  BY <1>1, CidsIs
<1>3. Full(it.queue[1])
  BY <1>2, CidsFull
<1>4. Sane' /\ cfg' = cfg /\ it'.hand = <<it.queue[1]>> /\ it'.out = "ok" /\ it'.todo = Rest
  BY <1>1, <1>2, <1>3, PopSane
<1>5. Len(it'.hand) = 1
  BY <1>4
<1>6. it'.todo \in PartTodo /\ Head(it'.todo) \notin {"poll", "cat"}
  <2>1. it'.todo = CidsLoop
    BY <1>2, <1>4
  <2>2. Head(CidsLoop) = "sub" /\ CidsLoop \in PartTodo
    BY CidsPrograms
  <2> DEFINE b == CidsLoop
  <2>3. Head(b) = "sub" /\ b \in PartTodo /\ it'.todo = b
    BY <2>1, <2>2
  <2> HIDE DEF b
  <2> QED BY <2>3
<1> QED BY <1>4, <1>5, <1>6, GoesPart

LEMMA CidsLoops ==
    ASSUME LoaderInv, cfg.mode = "cids", SubBatch PROVE LoaderInv'
<1>1. At("sub") /\ it.todo # <<>> /\ cfg.mode \in Prefetched
  BY DEF SubBatch, At, Prefetched
<1>2. /\ Len(it.hand) = 1 /\ Rest = <<"fill", "return">> /\ it.todo = CidsLoop
      /\ it.out = "ok"
  BY <1>1, CidsIs
<1>3. TypeOK /\ Numbering /\ it \in Iterator /\ it.hand[1] \in Item /\ Full(it.hand[1])
      /\ ItemOK(it.hand[1])
  BY <1>2, CidsFull
<1> DEFINE whole == Full(it.hand[1]) /\ it.hand[1].mat = Len(it.hand[1].ids)
           t == IF whole THEN Rest ELSE Before("poll", ToCat)
<1>4. Goto(t)
  <2>1. Before("poll", Before("cat", Before("service", Before("fill", it.todo))))
          = Before("poll", ToCat)
    BY <1>2, Zenon DEF ToCat, ToService
  <2>2. Goto(IF whole THEN Rest
            ELSE Before("poll", Before("cat", Before("service", Before("fill", it.todo)))))
    BY DEF SubBatch
  <2> QED BY <2>1, <2>2, Zenon
<1>5. Rest \in Seq(StepNames)
  BY <1>1, <1>3, RestIs
<1>6. Before("poll", ToCat) \in Seq(StepNames)
  <2>1. {"sub", "fill", "service", "cat", "poll", "return"} \subseteq StepNames
    BY DEF StepNames
  <2>2. CidsLoop \in Seq(StepNames)
    BY <1>2, <1>3 DEF Iterator
  <2>3. Before("fill", CidsLoop) \in Seq(StepNames)
    BY <2>1, <2>2, PutBefore
  <2>4. ToService \in Seq(StepNames)
    BY <2>1, <2>3, PutBefore DEF ToService
  <2>5. ToCat \in Seq(StepNames)
    BY <2>1, <2>4, PutBefore DEF ToCat
  <2> QED BY <2>1, <2>5, PutBefore
<1>7. t \in Seq(StepNames)
  BY <1>5, <1>6
<1>8. Elsewhere /\ wb' = wb /\ stack' = stack
  BY DEF SubBatch, Elsewhere
<1>9. Flagged(stack')
  BY <1>3, <1>8, FlaggedSelf, Zenon
<1>10. t = IF whole THEN <<"fill", "return">> ELSE Before("poll", ToCat)
  BY <1>2
<1> HIDE DEF t
<1>11. Services(t)
  BY <1>4, <1>7, <1>8, <1>9 DEF Services
<1>12. Sane' /\ cfg' = cfg /\ SameQueues /\ it'.out = "ok" /\ it'.todo = t
  BY <1>1, <1>2, <1>11, ServiceSane
<1>13. it'.hand = it.hand
  BY <1>12 DEF SameQueues
<1>14. CASE whole
  <2>1. it'.todo = <<"fill", "return">>
    BY <1>10, <1>12, <1>14
  <2> QED BY <1>2, <1>12, <1>13, <1>14, <2>1, GoesWhole
<1>15. CASE ~whole
  <2>1. it'.todo = Before("poll", ToCat)
    BY <1>10, <1>12, <1>15
  <2>2. Before("poll", ToCat) \in PartTodo /\ Head(Before("poll", ToCat)) = "poll"
    BY CidsPrograms
  <2>3. it'.todo \in PartTodo /\ Head(it'.todo) # "cat"
    BY <2>1, <2>2
  <2>4. it.hand[1].mat < Len(it.hand[1].ids)
    <3>1. it.hand[1].mat <= Len(it.hand[1].ids) /\ it.hand[1].mat # Len(it.hand[1].ids)
      BY <1>3, <1>15 DEF ItemOK
    <3>2. it.hand[1].mat \in Nat /\ Len(it.hand[1].ids) \in Nat
      BY <1>3 DEF Item
    <3> QED BY <3>1, <3>2
  <2> QED BY <1>2, <1>12, <1>13, <2>3, <2>4, GoesPart
<1> QED BY <1>14, <1>15

LEMMA CidsPolls ==
    ASSUME LoaderInv, cfg.mode = "cids", PollCids PROVE LoaderInv'
<1>1. At("poll") /\ cfg.mode \in Prefetched /\ it.todo # <<>>
  BY DEF PollCids, Prefetched, At
<1>2. /\ Len(it.hand) = 1 /\ it.hand[1].mat < Len(it.hand[1].ids) /\ Rest = ToCat
      /\ it.out = "ok"
  BY <1>1, CidsIs
<1>3. Tries
  BY CidsFull, TryCids
<1>4. ~At("get") /\ ~At("service") /\ ~At("mat") /\ ~At("cat")
  BY <1>1 DEF At
<1>5. CASE /\ Sane' /\ cfg' = cfg /\ SameQueues /\ it'.out = "ok" /\ it'.todo = Rest
           /\ FrontIsExpected(stack)'
  <2>1. ToCat \in PartTodo /\ Head(ToCat) = "cat"
    BY CidsPrograms
  <2>2. it'.todo \in PartTodo
    BY <1>2, <1>5, <2>1
  <2>3. it'.hand = it.hand
    BY <1>5 DEF SameQueues
  <2> QED BY <1>2, <1>5, <2>2, <2>3, GoesPart
<1> QED BY <1>1, <1>2, <1>3, <1>4, <1>5, TrySane

\* _merge_return_batches
LEMMA ConcatSane ==
    ASSUME LoaderInv, cfg.mode = "cids", Concat, Len(it.hand) = 1, it.out = "ok",
           it.hand[1].mat < Len(it.hand[1].ids), FrontIsExpected(stack)
    PROVE Sane' /\ cfg' = cfg /\ Len(it'.hand) = 1 /\ it'.out = "ok" /\ it'.todo = Rest
<1>1. /\ TypeOK /\ Numbering /\ QueueInv /\ it \in Iterator /\ cfg.mode \in Prefetched
      /\ stack \in Seq(Outstanding)
  BY PrefetchFacts, QueuedFacts DEF Prefetched
<1> DEFINE x == it.hand[1]
           c == Contents(stack[1], stack[1].n)
           y == [x EXCEPT !.rows = x.rows \o c, !.mat = x.mat + 1]
<1>2. /\ x \in Item /\ Full(x) /\ ItemOK(x) /\ RowsOK(x) /\ Linked(x) /\ it.hand \in Seq(Item)
  BY CidsFull
<1>3. /\ stack # <<>> /\ stack[1].id = x.ids[x.mat + 1]
  BY DEF FrontIsExpected, Expected
<1>4. NextPart(x)
  BY <1>2, <1>3 DEF NextPart, InParts
<1>5. 1 \in 1..Len(stack) /\ stack[1] \in Outstanding
  BY <1>1, <1>3
<1>6. stack[1].n \in Nat
  BY <1>5 DEF Outstanding
<1>7. /\ c \in Seq(Nat \X Nat) /\ Len(c) = stack[1].n
      /\ \A i \in 1..stack[1].n : c[i] = <<stack[1].batch, stack[1].first + i>>
  BY <1>5, <1>6, ContentsIs
<1>8. x.rows \in Seq(Nat \X Nat) /\ x.mat \in Nat /\ Len(x.rows) \in Nat
  BY <1>2, ItemFields, Zenon
<1> HIDE DEF c
<1> DEFINE z == x.rows \o c
           n == stack[1].n
           l == Len(x.rows)
<1>10. z \in Seq(Nat \X Nat) /\ Len(z) = l + n
       /\ \A r \in 1..(l + n) : z[r] = IF r <= l THEN x.rows[r] ELSE c[r - l]
  <2>1. c \in Seq(Nat \X Nat) /\ x.rows \in Seq(Nat \X Nat) /\ Len(c) = n
    BY <1>7, <1>8
  <2> DEFINE s == x.rows
  <2>2. c \in Seq(Nat \X Nat) /\ s \in Seq(Nat \X Nat) /\ Len(c) = n /\ z = s \o c /\ l = Len(s)
    BY <2>1
  <2> HIDE DEF s, z, l, n
  <2>3. /\ s \o c \in Seq(Nat \X Nat)
        /\ Len(s \o c) = Len(s) + Len(c)
        /\ \A r \in 1..(Len(s) + Len(c)) :
               (s \o c)[r] = IF r <= Len(s) THEN s[r] ELSE c[r - Len(s)]
    BY <2>2, ConcatIs, Zenon
  <2>4. /\ z \in Seq(Nat \X Nat) /\ Len(z) = l + n
        /\ \A r \in 1..(l + n) : z[r] = IF r <= l THEN s[r] ELSE c[r - l]
    BY <2>2, <2>3, Zenon
  <2> QED BY <2>4 DEF s
<1>11. l \in Nat /\ n \in Nat /\ Len(c) = n
       /\ \A i \in 1..n : c[i] = <<stack[1].batch, stack[1].first + i>>
  BY <1>6, <1>7, <1>8
<1>9. it' = [it EXCEPT !.hand = [it.hand EXCEPT ![1] = y], !.todo = Rest]
  <2>1. it' = [it EXCEPT !.hand[1].rows = z, !.hand[1].mat = it.hand[1].mat + 1, !.todo = Rest]
    <3>1. it.hand[1].rows = x.rows
      OBVIOUS
    <3>2. 1 \in 1..Len(it.hand)
      OBVIOUS
    <3> QED BY <1>1, <1>2, <3>2 DEF Concat, c, Iterator, Item
  <2> DEFINE m == it.hand[1].mat + 1
  <2>2. 1 \in 1..Len(it.hand) /\ it.hand[1] = x /\ y = [x EXCEPT !.rows = z, !.mat = m]
    OBVIOUS
  <2>3. it' = [it EXCEPT !.hand[1].rows = z, !.hand[1].mat = m, !.todo = Rest]
    BY <2>1
  <2> DEFINE r == [x EXCEPT !.rows = z]
             g == [it.hand EXCEPT ![1] = r]
  <2> HIDE DEF m, z, x, y
  <2>4. it.hand \in Seq(Item) /\ x \in Item
    BY <1>2
  <2>5. [it.hand EXCEPT ![1].rows = z] = g
    BY <2>2
  <2>6. g[1] = r /\ y = [r EXCEPT !.mat = m]
    BY <2>2, <2>4 DEF Item
  <2>7. [g EXCEPT ![1].mat = m] = [g EXCEPT ![1] = y]
    BY <2>6
  <2>8. [g EXCEPT ![1] = y] = [it.hand EXCEPT ![1] = y]
    BY <2>2, <2>4
  <2>9. it' = [it EXCEPT !.hand = [[it.hand EXCEPT ![1].rows = z] EXCEPT ![1].mat = m], !.todo = Rest]
    <3> DEFINE g1 == [it.hand EXCEPT ![1].rows = z]
               g2 == [g1 EXCEPT ![1].mat = m]
               i1 == [it EXCEPT !.hand = g1]
    <3>1. it' = [[[it EXCEPT !.hand[1].rows = z] EXCEPT !.hand[1].mat = m] EXCEPT !.todo = Rest]
      BY <2>3
    <3>2. [it EXCEPT !.hand[1].rows = z] = i1
      OBVIOUS
    <3> HIDE DEF g1
    <3>3. i1.hand = g1
      BY <1>1 DEF Iterator
    <3>4. [i1 EXCEPT !.hand[1].mat = m] = [i1 EXCEPT !.hand = g2]
      BY <3>3
    <3> HIDE DEF g2
    <3>5. [i1 EXCEPT !.hand = g2] = [it EXCEPT !.hand = g2]
      BY <1>1 DEF Iterator
    <3>6. it' = [[it EXCEPT !.hand = g2] EXCEPT !.todo = Rest]
      BY <3>1, <3>2, <3>4, <3>5
    <3> QED BY <3>6 DEF g1, g2
  <2> QED BY <2>5, <2>7, <2>8, <2>9
<1>12. y = [x EXCEPT !.rows = z, !.mat = x.mat + 1]
  OBVIOUS
<1> HIDE DEF z, y
<1>13. /\ y \in Item /\ y.batch = x.batch /\ y.parts = x.parts /\ y.ids = x.ids
       /\ y.mat = x.mat + 1 /\ y.used = x.used /\ y.rows = z
  <2>1. x \in Item /\ x.mat \in Nat /\ z \in Seq(Nat \X Nat)
    BY <1>2, <1>8, <1>10
  <2> DEFINE m == x.mat + 1
  <2>2. x \in Item /\ m \in Nat /\ z \in Seq(Nat \X Nat) /\ y = [x EXCEPT !.rows = z, !.mat = m]
    BY <1>12, <2>1
  <2> HIDE DEF x, l, n, m
  <2>3. /\ y \in Item /\ y.batch = x.batch /\ y.parts = x.parts /\ y.ids = x.ids
        /\ y.mat = m /\ y.used = x.used /\ y.rows = z
    BY <2>2 DEF Item
  <2> QED BY <2>3 DEF m
<1> HIDE DEF x
<1>14. \A r \in 1..(l + n) : z[r] = IF r <= l THEN x.rows[r]
                                    ELSE <<stack[1].batch, stack[1].first + (r - l)>>
  <2> HIDE DEF l, n
  <2> TAKE r \in 1..(l + n)
  <2>1. CASE r <= l
    BY <1>10, <2>1
  <2>2. CASE ~(r <= l)
    <3>1. r - l \in 1..n
      BY <1>11, <2>2
    <3>2. z[r] = c[r - l]
      BY <1>10, <2>2
    <3> QED BY <1>11, <2>2, <3>1, <3>2
  <2> QED BY <2>1, <2>2
<1>15. y.used <= y.mat
  <2>1. x.used <= x.mat /\ x.used \in Nat
    BY <1>2 DEF ItemOK, Item
  <2> QED BY <1>8, <1>13, <2>1
<1>16. PartOf(y, x)
  BY <1>10, <1>13, <1>14, <1>15 DEF PartOf, Keeps
<1>17. /\ cfg' = cfg /\ stack' = Tail(stack) /\ nextId' = nextId /\ smp' = smp /\ wb' = wb
       /\ drawn' = drawn /\ epoch' = epoch /\ due' = due /\ got' = got /\ stale' = stale
  BY DEF Concat
<1>18. it.todo # <<>>
  BY DEF Concat, At
<1>19. Rest \in Seq(StepNames)
  BY <1>1, <1>18, RestIs
<1>20. /\ it'.queue = it.queue /\ it'.hand = [it.hand EXCEPT ![1] = y] /\ it'.todo = Rest
       /\ it'.pend = it.pend /\ it'.current = it.current /\ it'.exhausted = it.exhausted
       /\ it'.ios = it.ios /\ it'.out = it.out
  BY <1>1, <1>9 DEF Iterator
<1>21. it'.hand \in Seq(Item) /\ Len(it'.hand) = 1 /\ it'.hand[1] = y
  BY <1>2, <1>13, <1>20
<1>22. it' \in Iterator
  BY <1>1, <1>9, <1>19, <1>20, <1>21 DEF Iterator
<1>23. stack' \in Seq(Outstanding)
  BY <1>1, <1>3, <1>17, TailIs
<1>24. TypeOK'
  BY <1>1, <1>17, <1>22, <1>23 DEF TypeOK
<1>25. Merged(y)
  BY <1>4, <1>16, <1>17, <1>20 DEF Merged, x
<1>26. QueueInv' /\ Numbering'
  BY <1>1, <1>24, <1>25, QueueMerged
<1>27. KeptItems
  <2>1. \A i \in 1..Len(it.hand) : it'.hand[i].batch = it.hand[i].batch
    BY <1>13, <1>21 DEF x
  <2>2. \A i \in 1..Len(it.queue) : Keeps(it'.queue[i], it.queue[i])
    BY <1>20 DEF Keeps
  <2> QED BY <1>20, <1>21, <2>1, <2>2 DEF KeptItems
<1>28. Otherwise
  BY <1>17, <1>20 DEF Otherwise
<1>29. Sane'
  BY <1>1, <1>24, <1>26, <1>27, <1>28, SaneKept
<1> QED BY <1>17, <1>20, <1>21, <1>29

LEMMA CidsConcats ==
    ASSUME LoaderInv, cfg.mode = "cids", Concat PROVE LoaderInv'
<1>1. At("cat") /\ it.todo # <<>>
  BY DEF Concat, At
<1>2. /\ Len(it.hand) = 1 /\ it.hand[1].mat < Len(it.hand[1].ids) /\ Rest = ToService
      /\ it.out = "ok" /\ FrontIsExpected(stack)
  BY <1>1, CidsIs
<1>3. Sane' /\ cfg' = cfg /\ Len(it'.hand) = 1 /\ it'.out = "ok" /\ it'.todo = Rest
  BY <1>2, ConcatSane
<1>4. ToService \in PartTodo /\ Head(ToService) = "service"
  BY CidsPrograms
<1>5. it'.todo \in PartTodo /\ Head(it'.todo) \notin {"poll", "cat"}
  BY <1>2, <1>3, <1>4
<1> QED BY <1>3, <1>5, GoesPart

LEMMA CidsStep ==
    ASSUME LoaderInv, cfg.mode = "cids", Next PROVE LoaderInv'
<1>1. cfg.mode \in Prefetched /\ cfg.mode \in InParts
  BY DEF Prefetched, InParts
<1>2. CASE Return
  <2>1. At("return") /\ it.todo # <<>>
    BY <1>2 DEF Return, At
  <2> QED BY <1>1, <1>2, <2>1, CidsIs, InPartsReturns
<1>3. CASE Over
  BY <1>3, Unchanged DEF Over
<1>4. CASE Fill \/ Service \/ PopFront \/ SubBatch
  BY <1>4, CidsFills, CidsServices, CidsTakes, CidsLoops
<1>5. CASE PollCids \/ Concat
  BY <1>5, CidsPolls, CidsConcats
<1>6. CASE Call \/ NewEpoch \/ Complete
  BY <1>1, <1>6, PrefetchCalls, PrefetchRenews, PrefetchAnswers
<1> QED BY <1>2, <1>3, <1>4, <1>5, <1>6, CidsActions

(***************************************************************************)
(* "split"                                                                 *)
(***************************************************************************)
ToEnsure == <<"ensure", "fill", "drain", "micro", "pop", "fill", "drain", "return">>
ToDrain == <<"drain", "ensure", "fill", "drain", "micro", "pop", "fill", "drain", "return">>
ToFill == <<"fill", "drain", "micro", "pop", "fill", "drain", "return">>
ToPop == <<"pop", "fill", "drain", "return">>

\* Where __next__ is once the front batch is fully submitted.
LEMMA SplitSubmittedIs ==
    ASSUME NEW t \in SubmittedTodo
    PROVE /\ t # <<>>
          /\ Head(t) \in {"fill", "drain", "poll", "mat", "micro", "pop"}
          /\ Head(t) = "fill" => Tail(t) \in SubmittedTodo /\ Head(Tail(t)) = "drain"
          /\ Head(t) = "drain" => Tail(t) = SplitLoop
          /\ Head(t) = "poll" => Tail(t) = Before("mat", SplitLoop)
          /\ Head(t) = "mat" => Tail(t) = SplitLoop
          /\ Head(t) = "micro" => t = SplitLoop /\ Tail(t) = ToPop
          /\ Head(t) = "pop" => Tail(t) = <<"fill", "drain", "return">>
<1> DEFINE a == <<"drain", "micro", "pop", "fill", "drain", "return">>
           b == Before("drain", SplitLoop)
           c == SplitLoop
           d == Before("mat", SplitLoop)
           e == <<"fill", "drain", "return">>
<1>1. t # <<>> /\
       (\/ Head(t) = "fill" /\ Tail(t) = a
        \/ Head(t) = "drain" /\ Tail(t) = c
        \/ Head(t) = "fill" /\ Tail(t) = b
        \/ Head(t) = "drain" /\ Tail(t) = c
        \/ Head(t) = "poll" /\ Tail(t) = d
        \/ Head(t) = "mat" /\ Tail(t) = c
        \/ t = c /\ Head(t) = "micro" /\ Tail(t) = ToPop
        \/ Head(t) = "pop" /\ Tail(t) = e)
  BY SplitStepsSubmitted, Zenon DEF SplitLoop, ToPop
<1>2. a \in SubmittedTodo /\ b \in SubmittedTodo
  BY Zenon DEF SubmittedTodo
<1>3. Head(a) = "drain"
  OBVIOUS
<1>4. Head(b) = "drain"
  BY SplitBefore
<1> HIDE DEF a, b, c, d, e
<1>5. /\ t # <<>>
      /\ Head(t) \in {"fill", "drain", "poll", "mat", "micro", "pop"}
      /\ Head(t) = "fill" => Tail(t) \in SubmittedTodo /\ Head(Tail(t)) = "drain"
      /\ Head(t) = "drain" => Tail(t) = c
      /\ Head(t) = "poll" => Tail(t) = d
      /\ Head(t) = "mat" => Tail(t) = c
      /\ Head(t) = "micro" => t = c /\ Tail(t) = ToPop
      /\ Head(t) = "pop" => Tail(t) = e
  BY <1>1, <1>2, <1>3, <1>4
<1> QED BY <1>5 DEF c, d, e

LEMMA SplitPrograms ==
    /\ <<"ensure", "fill">> \in WarmTodo("split") /\ Head(<<"ensure", "fill">>) = "ensure"
    /\ <<"fill">> \in WarmTodo("split") /\ Head(<<"fill">>) = "fill"
    /\ ToDrain \in PreTodo("split") /\ ToDrain \notin SubmittedTodo
    /\ ToEnsure \in PreTodo("split") /\ ToEnsure \notin SubmittedTodo
    /\ SubmittedTodo \subseteq PreTodo("split")
    /\ ToFill \in SubmittedTodo /\ Head(ToFill) = "fill"
    /\ SplitLoop \in SubmittedTodo /\ Head(SplitLoop) = "micro"
    /\ Before("mat", SplitLoop) \in SubmittedTodo /\ Head(Before("mat", SplitLoop)) = "mat"
    /\ Before("poll", Before("mat", SplitLoop)) \in SubmittedTodo
    /\ Head(Before("poll", Before("mat", SplitLoop))) = "poll"
    /\ Before("fill", Before("drain", SplitLoop)) \in SubmittedTodo
    /\ Head(Before("fill", Before("drain", SplitLoop))) = "fill"
    /\ ToPop \in SubmittedTodo /\ Head(ToPop) = "pop"
    /\ <<"fill", "drain", "return">> \in PostTodo("split")
    /\ Head(<<"fill", "drain", "return">>) = "fill"
    /\ <<"drain", "return">> \in PostTodo("split") /\ Head(<<"drain", "return">>) = "drain"
    /\ <<"return">> \in PostTodo("split") /\ Head(<<"return">>) = "return"
<1>1. /\ <<"ensure", "fill">> \in WarmTodo("split") /\ Head(<<"ensure", "fill">>) = "ensure"
      /\ <<"fill">> \in WarmTodo("split") /\ Head(<<"fill">>) = "fill"
  BY DEF WarmTodo
<1>2. SubmittedTodo \subseteq PreTodo("split")
  BY Zenon DEF PreTodo
<1>3. /\ ToFill \in SubmittedTodo /\ SplitLoop \in SubmittedTodo
      /\ Before("mat", SplitLoop) \in SubmittedTodo
      /\ Before("poll", Before("mat", SplitLoop)) \in SubmittedTodo
      /\ Before("fill", Before("drain", SplitLoop)) \in SubmittedTodo
      /\ ToPop \in SubmittedTodo
  BY Zenon DEF SubmittedTodo, ToFill, ToPop
<1>4. Head(ToFill) = "fill" /\ Head(ToPop) = "pop" /\ Head(ToEnsure) = "ensure"
  BY DEF ToFill, ToPop, ToEnsure
<1>5. /\ Head(SplitLoop) = "micro" /\ Head(Before("mat", SplitLoop)) = "mat"
      /\ Head(Before("poll", Before("mat", SplitLoop))) = "poll"
      /\ Head(Before("fill", Before("drain", SplitLoop))) = "fill"
  BY SplitBefore
<1>7. ToDrain \in PreTodo("split") /\ ToEnsure \in PreTodo("split")
  BY Zenon DEF PreTodo, ToEnsure, ToDrain
<1>8. ToEnsure \notin SubmittedTodo
  BY <1>4, SplitSubmittedIs
<1>9. ToDrain \notin SubmittedTodo
  <2>1. Head(ToDrain) = "drain" /\ Tail(ToDrain) = ToEnsure
    BY DEF ToEnsure, ToDrain
  <2> DEFINE s == ToDrain
             c == SplitLoop
  <2>2. Head(s) = "drain" /\ Tail(s) = ToEnsure /\ Head(c) = "micro"
        /\ (s \in SubmittedTodo /\ Head(s) = "drain" => Tail(s) = c)
    BY <1>5, <2>1, SplitSubmittedIs
  <2> HIDE DEF s, c
  <2>3. s \notin SubmittedTodo
    BY <1>4, <2>2
  <2> QED BY <2>3 DEF s
<1>10. /\ <<"fill", "drain", "return">> \in PostTodo("split")
       /\ <<"drain", "return">> \in PostTodo("split") /\ <<"return">> \in PostTodo("split")
  BY DEF PostTodo
<1>11. /\ Head(<<"fill", "drain", "return">>) = "fill"
       /\ Head(<<"drain", "return">>) = "drain" /\ Head(<<"return">>) = "return"
  OBVIOUS
<1> QED BY <1>1, <1>2, <1>3, <1>4, <1>5, <1>7, <1>8, <1>9, <1>10, <1>11

\* The front batch is fully submitted, and the call has not popped it.
Begun == /\ it.todo \in SubmittedTodo /\ it.hand = <<>> /\ it.queue # <<>>
         /\ Full(it.queue[1])

SplitUsed == /\ it.queue[1].used = it.queue[1].mat
             /\ it.queue[1].mat < Len(it.queue[1].parts)

SplitAt ==
    /\ it.todo # <<>> => it.out = "ok"
    /\ \A a : At(a) => a \in {"submit", "ensure", "fill", "drain", "micro", "poll", "mat",
                              "pop", "return"}
    /\ At("submit") => it.hand = <<>> /\ it.queue = <<>> /\ Rest = <<"ensure", "fill">>
    /\ At("ensure") => \/ it.hand = <<>> /\ Rest = <<"fill">> /\ it.todo \in WarmTodo("split")
                       \/ /\ it.hand = <<>> /\ it.queue # <<>> /\ Rest = ToFill
                          /\ it.todo \in PreTodo("split") /\ it.todo \notin SubmittedTodo
    /\ At("fill") => \/ it.hand = <<>> /\ Rest = <<>> /\ it.todo \in WarmTodo("split")
                     \/ /\ it.hand = <<>> /\ it.queue # <<>> /\ Rest = ToDrain
                        /\ it.todo \in PreTodo("split") /\ it.todo \notin SubmittedTodo
                     \/ Begun /\ Rest \in SubmittedTodo /\ Head(Rest) = "drain"
                     \/ /\ Len(it.hand) = 1 /\ Rest = <<"drain", "return">>
                        /\ it.todo \in PostTodo("split")
    /\ At("drain") => \/ /\ it.hand = <<>> /\ it.queue # <<>> /\ Rest = ToEnsure
                         /\ it.todo \in PreTodo("split") /\ it.todo \notin SubmittedTodo
                      \/ Begun /\ Rest = SplitLoop
                      \/ /\ Len(it.hand) = 1 /\ Rest = <<"return">> /\ Supplied
                         /\ it.todo \in PostTodo("split")
    /\ At("micro") => Begun /\ it.todo = SplitLoop /\ Rest = ToPop
    /\ At("poll") => Begun /\ SplitUsed /\ Rest = Before("mat", SplitLoop)
    /\ At("mat") => Begun /\ SplitUsed /\ FrontIsExpected(stack) /\ Rest = SplitLoop
    /\ At("pop") => /\ Begun /\ it.queue[1].used = Len(it.queue[1].parts)
                    /\ Rest = <<"fill", "drain", "return">>
    /\ At("return") => Len(it.hand) = 1 /\ Rest = <<>> /\ Supplied

LEMMA SplitAtSubmitted ==
    ASSUME /\ it.todo \in SubmittedTodo /\ Full(it.queue[1])
           /\ At("poll") \/ At("mat") => /\ it.queue[1].used = it.queue[1].mat
                                         /\ it.queue[1].mat < Len(it.queue[1].parts)
           /\ At("mat") => FrontIsExpected(stack)
           /\ At("pop") => it.queue[1].used = Len(it.queue[1].parts),
           it.out = "ok", it.hand = <<>>, it.queue # <<>>
    PROVE SplitAt
<1> DEFINE r == Tail(it.todo)
           c == SplitLoop
           d == Before("mat", SplitLoop)
<1>1. /\ it.todo # <<>>
      /\ Head(it.todo) \in {"fill", "drain", "poll", "mat", "micro", "pop"}
      /\ Head(it.todo) = "fill" => r \in SubmittedTodo /\ Head(r) = "drain"
      /\ Head(it.todo) = "drain" => r = c
      /\ Head(it.todo) = "poll" => r = d
      /\ Head(it.todo) = "mat" => r = c
      /\ Head(it.todo) = "micro" => it.todo = c /\ r = ToPop
      /\ Head(it.todo) = "pop" => r = <<"fill", "drain", "return">>
  BY SplitSubmittedIs
<1>2. Rest = r
  BY DEF Rest
<1>3. Begun
  BY DEF Begun
<1> HIDE DEF r, c, d
<1>4. /\ \A a : At(a) => a = Head(it.todo)
      /\ At("fill") => Rest \in SubmittedTodo /\ Head(Rest) = "drain"
      /\ At("drain") => Rest = c
      /\ At("micro") => it.todo = c /\ Rest = ToPop
      /\ At("poll") => Rest = d
      /\ At("mat") => Rest = c
      /\ At("pop") => Rest = <<"fill", "drain", "return">>
  BY <1>1, <1>2 DEF At
<1>5. /\ \A a : At(a) => a \in {"submit", "ensure", "fill", "drain", "micro", "poll", "mat",
                                "pop", "return"}
      /\ ~At("submit") /\ ~At("ensure") /\ ~At("return")
  BY <1>1, <1>4
<1>6. At("poll") \/ At("mat") => SplitUsed
  BY DEF SplitUsed
<1>7. /\ At("fill") => Begun /\ Rest \in SubmittedTodo /\ Head(Rest) = "drain"
      /\ At("drain") => Begun /\ Rest = SplitLoop
      /\ At("micro") => Begun /\ it.todo = SplitLoop /\ Rest = ToPop
      /\ At("poll") => Begun /\ SplitUsed /\ Rest = Before("mat", SplitLoop)
      /\ At("mat") => Begun /\ SplitUsed /\ FrontIsExpected(stack) /\ Rest = SplitLoop
      /\ At("pop") => /\ Begun /\ it.queue[1].used = Len(it.queue[1].parts)
                      /\ Rest = <<"fill", "drain", "return">>
  BY <1>3, <1>4, <1>6 DEF c, d
<1> QED BY <1>5, <1>7, Zenon DEF SplitAt

LEMMA SplitIs == ASSUME LoaderInv, cfg.mode = "split" PROVE SplitAt
<1>1. PrefetchPhase
  BY PrefetchFacts DEF Prefetched
<1>2. CASE it.todo = <<>>
  BY <1>2 DEF At, SplitAt
<1>3. CASE WarmP
  <2>1. /\ it.todo \in WarmTodo("split") /\ it.out = "ok" /\ it.hand = <<>>
        /\ At("submit") => it.queue = <<>>
    BY <1>3 DEF WarmP
  <2>2. it.todo # <<>> /\
        (\/ Head(it.todo) = "submit" /\ Tail(it.todo) = <<"ensure", "fill">>
         \/ Head(it.todo) = "ensure" /\ Tail(it.todo) = <<"fill">>
         \/ Head(it.todo) = "fill" /\ Tail(it.todo) = <<>>)
    BY <2>1, SplitStepsWarm, Zenon
  <2> QED BY <2>1, <2>2 DEF At, Rest, SplitAt
<1>4. CASE PreP
  <2>1. /\ it.todo \in PreTodo("split") /\ it.out = "ok" /\ it.hand = <<>> /\ it.queue # <<>>
        /\ \/ it.todo \notin SubmittedTodo
           \/ /\ it.todo \in SubmittedTodo /\ Full(it.queue[1])
              /\ At("poll") \/ At("mat") => /\ it.queue[1].used = it.queue[1].mat
                                            /\ it.queue[1].mat < Len(it.queue[1].parts)
              /\ At("mat") => FrontIsExpected(stack)
              /\ At("pop") => it.queue[1].used = Len(it.queue[1].parts)
    BY <1>4 DEF PreP
  <2>2. CASE it.todo \notin SubmittedTodo
    <3>1. it.todo # <<>> /\
        (\/ Head(it.todo) = "fill" /\ Tail(it.todo) = ToDrain
         \/ Head(it.todo) = "drain" /\ Tail(it.todo) = ToEnsure
         \/ Head(it.todo) = "ensure" /\ Tail(it.todo) = ToFill)
      BY <2>1, <2>2, SplitStepsPre, Zenon DEF ToDrain, ToEnsure, ToFill
    <3> QED BY <2>1, <2>2, <3>1 DEF At, Rest, SplitAt
  <2>3. CASE /\ it.todo \in SubmittedTodo /\ Full(it.queue[1])
             /\ At("poll") \/ At("mat") => /\ it.queue[1].used = it.queue[1].mat
                                           /\ it.queue[1].mat < Len(it.queue[1].parts)
             /\ At("mat") => FrontIsExpected(stack)
             /\ At("pop") => it.queue[1].used = Len(it.queue[1].parts)
    BY <2>1, <2>3, SplitAtSubmitted, Zenon
  <2> QED BY <2>1, <2>2, <2>3
<1>5. CASE PostP
  <2>1. /\ it.todo \in PostTodo("split") /\ it.out = "ok" /\ Len(it.hand) = 1
        /\ At("return") \/ At("drain") => Supplied
    BY <1>5 DEF PostP
  <2>2. it.todo # <<>> /\
        (\/ Head(it.todo) = "fill" /\ Tail(it.todo) = <<"drain", "return">>
         \/ Head(it.todo) = "drain" /\ Tail(it.todo) = <<"return">>
         \/ Head(it.todo) = "return" /\ Tail(it.todo) = <<>>)
    BY <2>1, SplitStepsPost, Zenon
  <2> QED BY <2>1, <2>2 DEF At, Rest, SplitAt
<1> QED BY <1>1, <1>2, <1>3, <1>4, <1>5 DEF PrefetchPhase, IdleP

LEMMA SplitActions ==
    ASSUME LoaderInv, cfg.mode = "split", Next
    PROVE Submit \/ Ensure \/ Fill \/ Drain \/ Micro \/ PollTryService \/ MatFront \/ PopFront
          \/ Return \/ Call \/ NewEpoch \/ Complete \/ Over
<1>1. \A a : At(a) => a \in {"submit", "ensure", "fill", "drain", "micro", "poll", "mat",
                             "pop", "return"}
  BY SplitIs DEF SplitAt
<1>2. smp = NewSampler
  BY PrefetchFacts DEF Prefetched
<1>3. ~SamplerNext /\ ~SamplerPut
  BY <1>2 DEF SamplerNext, SamplerPut, NewSampler
<1>4. ~PollCids /\ ~PollUnregistered
  BY DEF PollCids, PollUnregistered, Registered
<1>5. /\ ~At("service") /\ ~At("get") /\ ~At("sub") /\ ~At("cat")
      /\ ~At("block")
      /\ ~At("nowait") /\ ~At("hand") /\ ~At("wb") /\ ~At("init") /\ ~At("read") /\ ~At("acc")
  BY <1>1
<1> QED BY <1>3, <1>4, <1>5, ActionSteps DEF Next, IterStep

\* Where the steps before, within and after the submission of the front go.
LEMMA GoesUnsubmitted ==
    ASSUME cfg' = cfg, cfg.mode = "split", Sane', it'.out = "ok", it'.hand = <<>>,
           it'.queue # <<>>, it'.todo \in PreTodo("split"), it'.todo \notin SubmittedTodo
    PROVE LoaderInv'
<1>1. cfg.mode \in Prefetched /\ cfg'.mode = "split"
  BY DEF Prefetched
<1>2. PreP'
  BY <1>1 DEF PreP
<1> QED BY <1>1, <1>2, SaneNext DEF PrefetchPhase

SubmittedNext ==
    /\ it'.todo \in SubmittedTodo /\ it'.hand = <<>> /\ it'.queue # <<>>
    /\ it'.out = "ok" /\ Full(it'.queue[1])
    /\ Head(it'.todo) \in {"poll", "mat"} => /\ it'.queue[1].used = it'.queue[1].mat
                                             /\ it'.queue[1].mat < Len(it'.queue[1].parts)
    /\ Head(it'.todo) = "mat" => FrontIsExpected(stack)'
    /\ Head(it'.todo) = "pop" => it'.queue[1].used = Len(it'.queue[1].parts)

LEMMA GoesSubmitted ==
    ASSUME cfg' = cfg, cfg.mode = "split", Sane', SubmittedNext
    PROVE LoaderInv'
<1>1. cfg.mode \in Prefetched /\ cfg'.mode = "split"
  BY DEF Prefetched
<1>2. it'.todo \in PreTodo("split")
  BY SplitPrograms DEF SubmittedNext
<1>3. /\ it'.todo \in SubmittedTodo /\ Full(it'.queue[1])
      /\ At("poll")' \/ At("mat")' => /\ it'.queue[1].used = it'.queue[1].mat
                                      /\ it'.queue[1].mat < Len(it'.queue[1].parts)
      /\ At("mat")' => FrontIsExpected(stack)'
      /\ At("pop")' => it'.queue[1].used = Len(it'.queue[1].parts)
  BY DEF SubmittedNext, At
<1>4. it'.hand = <<>> /\ it'.queue # <<>> /\ it'.out = "ok"
  BY DEF SubmittedNext
<1>5. PreP'
  BY <1>1, <1>2, <1>3, <1>4 DEF PreP, Full
<1> QED BY <1>1, <1>5, SaneNext DEF PrefetchPhase

LEMMA SplitSubmits ==
    ASSUME LoaderInv, cfg.mode = "split", Submit PROVE LoaderInv'
<1>1. At("submit") /\ cfg.mode \in Prefetched /\ it.todo # <<>>
  BY DEF Submit, Prefetched, At
<1>2. it.hand = <<>> /\ it.queue = <<>> /\ Rest = <<"ensure", "fill">> /\ it.out = "ok"
  BY <1>1, SplitIs DEF SplitAt
<1>3. /\ Sane' /\ cfg' = cfg /\ it'.hand = it.hand /\ it'.out = "ok" /\ it'.todo = Rest
  BY <1>1, <1>2, SubmitSane
<1>4. it'.todo \in WarmTodo(cfg.mode) /\ Head(it'.todo) # "submit"
  BY <1>2, <1>3, SplitPrograms
<1> QED BY <1>1, <1>2, <1>3, <1>4, GoesWarm

LEMMA SplitFills ==
    ASSUME LoaderInv, cfg.mode = "split", Fill PROVE LoaderInv'
<1>1. At("fill") /\ cfg.mode \in Prefetched \ {"cids"} /\ it.todo # <<>>
      /\ Head(it.todo) = "fill"
  BY DEF Fill, Prefetched, At
<1>2. /\ it.out = "ok"
      /\ \/ it.hand = <<>> /\ Rest = <<>> /\ it.todo \in WarmTodo("split")
         \/ /\ it.hand = <<>> /\ it.queue # <<>> /\ Rest = ToDrain
            /\ it.todo \in PreTodo("split") /\ it.todo \notin SubmittedTodo
         \/ Begun /\ Rest \in SubmittedTodo /\ Head(Rest) = "drain"
         \/ /\ Len(it.hand) = 1 /\ Rest = <<"drain", "return">>
            /\ it.todo \in PostTodo("split")
  BY <1>1, SplitIs, Zenon DEF SplitAt
<1>3. /\ Sane' /\ cfg' = cfg /\ it'.hand = it.hand /\ it'.out = "ok"
      /\ it'.todo = it.todo \/ it'.todo = Rest
      /\ it'.queue # <<>> \/ it'.exhausted
      /\ it.queue # <<>> => it'.queue # <<>>
      /\ it.queue # <<>> /\ Full(it.queue[1]) => it'.queue[1] = it.queue[1]
  BY <1>1, <1>2, FillSane
<1>4. CASE it.hand = <<>> /\ Rest = <<>> /\ it.todo \in WarmTodo("split")
  <2>1. CASE it'.todo = it.todo
    BY <1>1, <1>3, <1>4, <2>1, GoesWarm
  <2>2. CASE it'.todo = Rest
    BY <1>1, <1>3, <1>4, <2>2, GoesIdle
  <2> QED BY <1>3, <2>1, <2>2
<1>5. CASE /\ it.hand = <<>> /\ it.queue # <<>> /\ Rest = ToDrain
           /\ it.todo \in PreTodo("split") /\ it.todo \notin SubmittedTodo
  <2>1. it'.todo \in PreTodo("split") /\ it'.todo \notin SubmittedTodo
    BY <1>3, <1>5, SplitPrograms
  <2> QED BY <1>3, <1>5, <2>1, GoesUnsubmitted
<1>6. CASE Begun /\ Rest \in SubmittedTodo /\ Head(Rest) = "drain"
  <2>1. it.todo \in SubmittedTodo /\ it.hand = <<>> /\ it.queue # <<>> /\ Full(it.queue[1])
    BY <1>6 DEF Begun
  <2>2. it'.todo \in SubmittedTodo /\ Head(it'.todo) \in {"fill", "drain"}
    BY <1>1, <1>3, <1>6, <2>1
  <2>3. SubmittedNext
    BY <1>3, <2>1, <2>2 DEF SubmittedNext
  <2> QED BY <1>3, <2>3, GoesSubmitted
<1>7. CASE Len(it.hand) = 1 /\ Rest = <<"drain", "return">> /\ it.todo \in PostTodo("split")
  <2>1. it'.todo \in PostTodo(cfg.mode)
    BY <1>3, <1>7, SplitPrograms
  <2> QED BY <1>1, <1>3, <1>7, <2>1, GoesPost
<1> QED BY <1>2, <1>4, <1>5, <1>6, <1>7

LEMMA SplitEnsures ==
    ASSUME LoaderInv, cfg.mode = "split", Ensure PROVE LoaderInv'
<1>1. At("ensure") /\ cfg.mode \in Prefetched \ {"cids"} /\ it.todo # <<>>
      /\ Head(it.todo) = "ensure"
  BY DEF Ensure, Prefetched, At
<1>2. /\ it.out = "ok"
      /\ \/ it.hand = <<>> /\ Rest = <<"fill">> /\ it.todo \in WarmTodo("split")
         \/ /\ it.hand = <<>> /\ it.queue # <<>> /\ Rest = ToFill
            /\ it.todo \in PreTodo("split") /\ it.todo \notin SubmittedTodo
  BY <1>1, SplitIs, Zenon DEF SplitAt
<1>3. /\ Sane' /\ cfg' = cfg /\ it'.hand = it.hand
      /\ \/ it'.out = "ok" /\ it'.todo = it.todo /\ it'.queue # <<>>
         \/ /\ it'.out = "ok" /\ it'.todo = Rest /\ it'.queue = it.queue
            /\ FrontComplete
         \/ it'.out = "error" /\ it'.todo = <<>>
  BY <1>2, EnsureSane
<1>4. CASE it'.out = "error" /\ it'.todo = <<>>
  <2>1. it'.hand = <<>>
    BY <1>2, <1>3
  <2>2. IdleP'
    BY <1>4, <2>1 DEF IdleP
  <2> QED BY <1>1, <1>3, <2>2, SaneNext DEF PrefetchPhase
<1>5. CASE it'.out = "ok" /\ it'.todo = it.todo /\ it'.queue # <<>>
  <2>1. CASE it.hand = <<>> /\ Rest = <<"fill">> /\ it.todo \in WarmTodo("split")
    BY <1>1, <1>3, <1>5, <2>1, GoesWarm
  <2>2. CASE it.hand = <<>> /\ it.todo \in PreTodo("split") /\ it.todo \notin SubmittedTodo
    BY <1>3, <1>5, <2>2, GoesUnsubmitted
  <2> QED BY <1>2, <2>1, <2>2
<1>6. CASE it'.out = "ok" /\ it'.todo = Rest /\ it'.queue = it.queue /\ FrontComplete
  <2>1. CASE it.hand = <<>> /\ Rest = <<"fill">>
    <3>1. it'.todo \in WarmTodo(cfg.mode) /\ Head(it'.todo) # "submit"
      BY <1>6, <2>1, SplitPrograms
    <3> QED BY <1>1, <1>3, <1>6, <2>1, <3>1, GoesWarm
  <2>2. CASE it.hand = <<>> /\ it.queue # <<>> /\ Rest = ToFill
    <3>1. it'.todo \in SubmittedTodo /\ Head(it'.todo) = "fill"
      BY <1>6, <2>2, SplitPrograms
    <3>2. Full(it'.queue[1]) /\ it'.queue # <<>>
      BY <1>6, <2>2 DEF FrontComplete
    <3>3. SubmittedNext
      BY <1>3, <1>6, <2>2, <3>1, <3>2 DEF SubmittedNext
    <3> QED BY <1>3, <3>3, GoesSubmitted
  <2> QED BY <1>2, <2>1, <2>2
<1> QED BY <1>3, <1>4, <1>5, <1>6

\* _materialize_split_micro puts the part into its slice.
LEMMA WithPartIs ==
    ASSUME TypeOK, Numbering, cfg.mode = "split", NEW x, NextPart(x)
    PROVE /\ PartOf(WithPart(x), x) /\ WithPart(x).used = x.used
          /\ WithPart(x).mat = x.mat + 1 /\ WithPart(x) \in Item
<1>1. x \in Item /\ ItemOK(x) /\ stack \in Seq(Outstanding)
  BY DEF NextPart, TypeOK
<1>2. /\ 1 \in 1..Len(stack) /\ stack[1].batch = x.batch /\ stack[1].n = x.parts[x.mat + 1]
      /\ x.mat \in Nat /\ x.parts[x.mat + 1] \in Nat \ {0} /\ SumUpTo(x.parts, x.mat) \in Nat
  BY NextPartIs
<1>3. stack[1] \in Outstanding
  BY <1>1, <1>2
<1>4. x.rows \in Seq(Nat \X Nat) /\ x.used \in Nat /\ x.used <= x.mat
  BY <1>1 DEF Item, ItemOK
<1> DEFINE k == x.mat + 1
           first == SumUpTo(x.parts, x.mat)
           n == x.parts[k]
           c == Contents(stack[1], stack[1].n)
           d == stack[1].first
           rows == [i \in DOMAIN x.rows |-> IF i \in (first + 1)..(first + n)
                                            THEN c[i - first] ELSE x.rows[i]]
           y == [x EXCEPT !.mat = k, !.rows = rows]
<1>5. k - 1 = x.mat /\ k \in Nat
  <2>1. x.mat \in Nat
    BY <1>2
  <2>2. (x.mat + 1) - 1 = x.mat /\ x.mat + 1 \in Nat
    BY <2>1
  <2> QED BY <2>2, Zenon
<1>6. WithPart(x) = y
  BY <1>1, <1>5 DEF WithPart, Item
<1>7. /\ c \in Seq(Nat \X Nat) /\ Len(c) = n
      /\ \A i \in 1..n : c[i] = <<stack[1].batch, d + i>>
  <2>1. stack[1].n \in Nat
    BY <1>3 DEF Outstanding
  <2>2. /\ c \in Seq(Nat \X Nat) /\ Len(c) = stack[1].n
        /\ \A i \in 1..stack[1].n : c[i] = <<stack[1].batch, stack[1].first + i>>
    BY <1>3, <2>1, ContentsIs
  <2>3. stack[1].n = n
    BY <1>2
  <2> HIDE DEF c, n
  <2> QED BY <2>2, <2>3
<1>8. first \in Nat /\ n \in Nat
  BY <1>2
<1> HIDE DEF c, first, n
<1>9. /\ rows \in Seq(Nat \X Nat) /\ Len(rows) = Len(x.rows)
      /\ \A r \in 1..Len(x.rows) :
           rows[r] = IF r \in (first + 1)..(first + n)
                     THEN <<stack[1].batch, d + (r - first)>>
                     ELSE x.rows[r]
  <2> DEFINE s == x.rows
             m == Len(s)
  <2>1. s \in Seq(Nat \X Nat) /\ DOMAIN s = 1..m /\ m \in Nat
    BY <1>4
  <2>2. \A r \in 1..m : s[r] \in Nat \X Nat
    BY <1>4
  <2> HIDE DEF s, m
  <2> DEFINE e(r) == IF r \in (first + 1)..(first + n) THEN c[r - first] ELSE s[r]
  <2>3. \A r \in 1..m : e(r) \in Nat \X Nat
    <3> TAKE r \in 1..m
    <3>1. CASE r \in (first + 1)..(first + n)
      <4>1. r - first \in 1..n
        BY <1>8, <3>1
      <4>2. c[r - first] \in Nat \X Nat
        BY <1>7, <4>1
      <4> QED BY <3>1, <4>2
    <3>2. CASE ~(r \in (first + 1)..(first + n))
      BY <2>2, <3>2
    <3> QED BY <3>1, <3>2
  <2>4. \A r \in 1..m : e(r) = IF r \in (first + 1)..(first + n)
                               THEN <<stack[1].batch, d + (r - first)>> ELSE s[r]
    <3> TAKE r \in 1..m
    <3>1. CASE r \in (first + 1)..(first + n)
      <4>1. r - first \in 1..n
        BY <1>8, <3>1
      <4>2. c[r - first] = <<stack[1].batch, d + (r - first)>>
        BY <1>7, <4>1
      <4> QED BY <3>1, <4>2
    <3>2. CASE ~(r \in (first + 1)..(first + n))
      BY <3>2
    <3> QED BY <3>1, <3>2
  <2>5. rows = [r \in 1..m |-> e(r)]
    BY <2>1 DEF s
  <2> HIDE DEF e, rows
  <2>6. /\ rows \in Seq(Nat \X Nat) /\ Len(rows) = m
        /\ \A r \in 1..m : rows[r] = e(r)
    BY <2>1, <2>3, <2>5
  <2>7. \A r \in 1..m : rows[r] = IF r \in (first + 1)..(first + n)
                                  THEN <<stack[1].batch, d + (r - first)>> ELSE s[r]
    BY <2>4, <2>6
  <2> QED BY <2>6, <2>7 DEF s, m
<1>10. y = [x EXCEPT !.mat = k, !.rows = rows]
  OBVIOUS
<1> HIDE DEF rows, y, d
<1>11. /\ y \in Item /\ y.batch = x.batch /\ y.parts = x.parts /\ y.ids = x.ids
       /\ y.mat = k /\ y.used = x.used /\ y.rows = rows
  BY <1>1, <1>5, <1>9, <1>10 DEF Item
<1>12. y.used <= y.mat
  BY <1>2, <1>4, <1>11
<1>13. \A r \in 1..Len(x.rows) :
         y.rows[r] = IF r \in (SumUpTo(x.parts, x.mat) + 1)
                                 ..(SumUpTo(x.parts, x.mat) + x.parts[x.mat + 1])
                     THEN <<stack[1].batch, stack[1].first + (r - SumUpTo(x.parts, x.mat))>>
                     ELSE x.rows[r]
  BY <1>9, <1>11, Zenon DEF first, n, d, k
<1>14. Len(y.rows) = Len(x.rows)
  BY <1>9, <1>11
<1>15. PartOf(y, x)
  BY <1>11, <1>12, <1>13, <1>14, Zenon DEF PartOf, Keeps, k
<1> QED BY <1>6, <1>11, <1>15 DEF k

\* The item at i with its next part: what Drain and MatFront have in common,
\* whatever is used of it then.
LEMMA SplitFetched ==
    ASSUME LoaderInv, cfg.mode = "split", it.out = "ok", NEW i \in 1..Len(it.queue),
           NextPart(it.queue[i]), NEW y \in Item, PartOf(y, it.queue[i]),
           NEW t \in Seq(StepNames), NEW n \in Nat, n = stack[1].n,
           it' = [it EXCEPT !.queue = [it.queue EXCEPT ![i] = y],
                            !.ios = IF it.ios < n THEN 0 ELSE it.ios - n,
                            !.todo = t],
           stack' = Tail(stack), Elsewhere, wb' = wb
    PROVE /\ Sane' /\ cfg' = cfg /\ it'.queue = [it.queue EXCEPT ![i] = y]
          /\ it'.hand = it.hand /\ it'.out = "ok" /\ it'.todo = t
          /\ it'.exhausted = it.exhausted
<1>1. /\ TypeOK /\ Numbering /\ QueueInv /\ it \in Iterator /\ cfg.mode \in Prefetched
      /\ stack \in Seq(Outstanding)
  BY PrefetchFacts, QueuedFacts DEF Prefetched
<1>2. it.queue \in Seq(Item) /\ it.ios \in Nat /\ stack # <<>>
  BY <1>1 DEF Iterator, NextPart
<1> DEFINE q == [it.queue EXCEPT ![i] = y]
           m == IF it.ios < n THEN 0 ELSE it.ios - n
<1>3. q \in Seq(Item) /\ Len(q) = Len(it.queue) /\ q[i] = y
      /\ \A j \in 1..Len(it.queue) : j # i => q[j] = it.queue[j]
  BY <1>2
<1>4. m \in Nat
  BY <1>2
<1>5. it' = [it EXCEPT !.queue = q, !.ios = m, !.todo = t]
  OBVIOUS
<1>6. cfg' = cfg /\ nextId' = nextId /\ smp' = smp /\ drawn' = drawn /\ epoch' = epoch
      /\ due' = due /\ got' = got /\ stale' = stale /\ wb' = wb /\ stack' = Tail(stack)
  BY DEF Elsewhere
<1> HIDE DEF q, m
<1>7. /\ it'.queue = q /\ it'.ios = m /\ it'.todo = t /\ it'.pend = it.pend
      /\ it'.current = it.current /\ it'.hand = it.hand /\ it'.exhausted = it.exhausted
      /\ it'.out = it.out
  BY <1>1, <1>5 DEF Iterator
<1>8. it' \in Iterator
  BY <1>1, <1>3, <1>4, <1>5 DEF Iterator
<1>9. stack' \in Seq(Outstanding)
  BY <1>1, <1>2, <1>6, TailIs
<1>10. TypeOK'
  BY <1>1, <1>6, <1>8, <1>9 DEF TypeOK
<1>11. it'.queue = [it.queue EXCEPT ![i] = y]
       /\ it'.ios = IF it.ios < stack[1].n THEN 0 ELSE it.ios - stack[1].n
  BY <1>7 DEF q, m
<1>12. FetchedInto(i, y)
  BY <1>6, <1>7, <1>11, Zenon DEF FetchedInto
<1>13. QueueInv' /\ Numbering'
  BY <1>1, <1>10, <1>12, QueueFetchedInto
<1>14. Keeps(y, it.queue[i])
  BY DEF PartOf
<1>15. KeptItems
  <2>1. \A j \in 1..Len(it.queue) : Keeps(it'.queue[j], it.queue[j])
    <3> TAKE j \in 1..Len(it.queue)
    <3>1. CASE j = i
      BY <1>3, <1>7, <1>14, <3>1
    <3>2. CASE j # i
      BY <1>3, <1>7, <3>2 DEF Keeps
    <3> QED BY <3>1, <3>2
  <2> QED BY <1>3, <1>7, <2>1 DEF KeptItems
<1>16. Otherwise
  BY <1>6, <1>7 DEF Otherwise
<1>17. Sane'
  BY <1>1, <1>10, <1>13, <1>15, <1>16, SaneKept
<1> QED BY <1>6, <1>7, <1>11, <1>17

\* The front pending part is there when some part is pending.
LEMMA Least ==
    ASSUME NEW S \in SUBSET Nat, S # {} PROVE \E i \in S : \A j \in S : i <= j
<1>1. PICK i \in S : \A j \in S : <<j, i>> \notin OpToRel(<, Nat)
  BY WFMin, NatLessThanWellFounded, Zenon
<1>2. \A j \in S : ~(j < i)
  BY <1>1, Zenon DEF OpToRel
<1> QED BY <1>2

LEMMA FrontPendingIs ==
    ASSUME TypeOK, PendingParts # {}
    PROVE FrontPending \in 1..Len(it.queue) /\ FrontPending \in PendingParts
<1>1. it.queue \in Seq(Item)
  BY DEF TypeOK, Iterator
<1>2. DOMAIN it.queue = 1..Len(it.queue) /\ Len(it.queue) \in Nat
  BY <1>1
<1>3. PendingParts \subseteq 1..Len(it.queue)
  BY <1>2 DEF PendingParts
<1>4. PendingParts \in SUBSET Nat
  BY <1>2, <1>3
<1>5. \E i \in PendingParts : \A j \in PendingParts : i <= j
  BY <1>4, Least
<1>6. FrontPending \in PendingParts
  BY <1>5 DEF FrontPending
<1> QED BY <1>3, <1>6

\* What is at the front of the stack and an item awaits is its next part.
LEMMA SplitNextPart ==
    ASSUME LoaderInv, cfg.mode = "split", NEW i \in 1..Len(it.queue), stack # <<>>,
           it.queue[i].mat < Len(it.queue[i].ids),
           stack[1].id = it.queue[i].ids[it.queue[i].mat + 1]
    PROVE /\ NextPart(it.queue[i]) /\ it.queue[i] \in Item
          /\ stack[1].n \in Nat /\ stack[1].n = it.queue[i].parts[it.queue[i].mat + 1]
<1>1. TypeOK /\ Numbering /\ Items /\ Link /\ it \in Iterator /\ stack \in Seq(Outstanding)
  BY PrefetchFacts, QueuedFacts DEF Prefetched
<1>2. it.queue[i] \in Item
  BY <1>1 DEF Iterator
<1>3. ItemOK(it.queue[i]) /\ RowsOK(it.queue[i])
  BY <1>1 DEF Items
<1>4. Linked(it.queue[i])
  BY <1>1 DEF Link, Registered
<1>5. NextPart(it.queue[i])
  BY <1>2, <1>3, <1>4 DEF NextPart, InParts
<1>6. 1 \in 1..Len(stack) /\ stack[1].n = it.queue[i].parts[it.queue[i].mat + 1]
  BY <1>1, <1>5, NextPartIs
<1>7. 1 \in 1..Len(stack)
  BY <1>6
<1>8. stack[1] \in Outstanding
  BY <1>1, <1>7
<1>9. stack[1].n \in Nat
  BY <1>8 DEF Outstanding
<1> QED BY <1>2, <1>5, <1>6, <1>9

\* _drain_ready_front_split_prefix
LEMMA DrainSane ==
    ASSUME LoaderInv, cfg.mode = "split", Drain, it.out = "ok"
    PROVE /\ Sane' /\ cfg' = cfg /\ it'.hand = it.hand /\ it'.out = "ok"
          /\ it'.exhausted = it.exhausted /\ (it'.todo = it.todo \/ it'.todo = Rest)
          /\ it.queue # <<>> => it'.queue # <<>> /\ (Full(it.queue[1]) => Full(it'.queue[1]))
          /\ it.todo # <<>>
<1>1. TypeOK /\ Numbering /\ it \in Iterator /\ cfg.mode \in Prefetched
      /\ stack \in Seq(Outstanding)
  BY PrefetchFacts, QueuedFacts DEF Prefetched
<1>2. it.todo # <<>> /\ wb' = wb /\ Elsewhere
  BY DEF Drain, At, Elsewhere
<1>3. CASE Goto(Rest) /\ stack' = stack
  <2>1. Rest \in Seq(StepNames)
    BY <1>1, <1>2, RestIs
  <2>2. Flagged(stack')
    BY <1>1, <1>3, FlaggedSelf, Zenon
  <2> DEFINE t == Rest
  <2>3. Services(t) /\ t = Rest
    BY <1>2, <1>3, <2>1, <2>2 DEF Services
  <2> HIDE DEF t
  <2>4. Sane' /\ cfg' = cfg /\ SameQueues /\ it'.out = "ok" /\ it'.todo = t
    BY <1>1, <2>3, ServiceSane
  <2> QED BY <1>2, <2>3, <2>4 DEF SameQueues
<1>4. CASE Drainable /\ it' = Materialized(FrontPending) /\ stack' = Tail(stack)
  <2> DEFINE i == FrontPending
             x == it.queue[i]
             y == WithPart(x)
             n == x.parts[x.mat + 1]
             t == it.todo
  <2>1. PendingParts # {} /\ stack # <<>> /\ stack[1].id = x.ids[x.mat + 1]
    BY <1>4 DEF Drainable, ReadyFront
  <2>2. i \in 1..Len(it.queue) /\ x.mat < Len(x.ids)
    BY <1>1, <2>1, FrontPendingIs DEF PendingParts
  <2>3. it' = [it EXCEPT !.queue[i] = y, !.ios = IF it.ios < n THEN 0 ELSE it.ios - n]
    BY <1>1, <1>4 DEF Materialized, Iterator
  <2> HIDE DEF i, y
  <2>4. NextPart(x) /\ x \in Item /\ stack[1].n \in Nat /\ n = stack[1].n
    BY <2>1, <2>2, SplitNextPart
  <2>5. PartOf(y, x) /\ y \in Item
    BY <1>1, <2>4, WithPartIs DEF y
  <2>6. it' = [it EXCEPT !.queue = [it.queue EXCEPT ![i] = y],
                         !.ios = IF it.ios < n THEN 0 ELSE it.ios - n, !.todo = t]
    <3> HIDE DEF n, x
    <3> QED BY <1>1, <2>2, <2>3 DEF Iterator
  <2>7. t \in Seq(StepNames) /\ n \in Nat
    BY <1>1, <2>4 DEF Iterator
  <2> HIDE DEF n, t
  <2>10. NextPart(it.queue[i]) /\ PartOf(y, it.queue[i]) /\ n = stack[1].n
    BY <2>4, <2>5
  <2>11. stack' = Tail(stack) /\ y \in Item
    BY <1>4, <2>5
  <2> HIDE DEF x
  <2>8. /\ Sane' /\ cfg' = cfg /\ it'.queue = [it.queue EXCEPT ![i] = y]
        /\ it'.hand = it.hand /\ it'.out = "ok" /\ it'.todo = t
        /\ it'.exhausted = it.exhausted
    BY <1>2, <2>2, <2>6, <2>7, <2>10, <2>11, SplitFetched
  <2>9. it.queue # <<>> => it'.queue # <<>> /\ (Full(it.queue[1]) => Full(it'.queue[1]))
    <3>1. it.queue \in Seq(Item) /\ 1 \in 1..Len(it.queue) /\ Len(it'.queue) = Len(it.queue)
      BY <1>1, <2>2, <2>8 DEF Iterator
    <3>2. it'.queue # <<>>
      BY <3>1
    <3>3. CASE i = 1
      <4>1. it'.queue[1] = y /\ Keeps(y, it.queue[1])
        BY <2>8, <2>10, <3>1, <3>3 DEF PartOf
      <4> QED BY <3>2, <4>1, KeepsFull
    <3>4. CASE i # 1
      <4>1. it'.queue[1] = it.queue[1]
        BY <2>8, <3>1, <3>4
      <4> QED BY <3>2, <4>1
    <3> QED BY <3>3, <3>4
  <2> QED BY <1>2, <2>8, <2>9 DEF t
<1> QED BY <1>3, <1>4 DEF Drain

LEMMA SplitDrains ==
    ASSUME LoaderInv, cfg.mode = "split", Drain PROVE LoaderInv'
<1>1. At("drain") /\ cfg.mode \in Prefetched \ {"cids"} /\ it.todo # <<>>
      /\ Head(it.todo) = "drain"
  BY DEF Drain, Prefetched, At
<1>2. /\ it.out = "ok"
      /\ \/ /\ it.hand = <<>> /\ it.queue # <<>> /\ Rest = ToEnsure
            /\ it.todo \in PreTodo("split") /\ it.todo \notin SubmittedTodo
         \/ Begun /\ Rest = SplitLoop
         \/ /\ Len(it.hand) = 1 /\ Rest = <<"return">> /\ Supplied
            /\ it.todo \in PostTodo("split")
  BY <1>1, SplitIs, Zenon DEF SplitAt
<1>3. /\ Sane' /\ cfg' = cfg /\ it'.hand = it.hand /\ it'.out = "ok"
      /\ it'.exhausted = it.exhausted /\ (it'.todo = it.todo \/ it'.todo = Rest)
      /\ it.queue # <<>> => it'.queue # <<>> /\ (Full(it.queue[1]) => Full(it'.queue[1]))
  BY <1>2, DrainSane
<1>4. CASE /\ it.hand = <<>> /\ it.queue # <<>> /\ Rest = ToEnsure
           /\ it.todo \in PreTodo("split") /\ it.todo \notin SubmittedTodo
  <2>1. it'.todo \in PreTodo("split") /\ it'.todo \notin SubmittedTodo
    BY <1>3, <1>4, SplitPrograms
  <2> QED BY <1>3, <1>4, <2>1, GoesUnsubmitted
<1>5. CASE Begun /\ Rest = SplitLoop
  <2>1. it.todo \in SubmittedTodo /\ it.hand = <<>> /\ it.queue # <<>> /\ Full(it.queue[1])
    BY <1>5 DEF Begun
  <2>2. it'.todo \in SubmittedTodo /\ Head(it'.todo) \in {"drain", "micro"}
    <3>1. SplitLoop \in SubmittedTodo /\ Head(SplitLoop) = "micro"
      BY SplitPrograms
    <3>2. CASE it'.todo = it.todo
      BY <1>1, <2>1, <3>2
    <3>3. CASE it'.todo = Rest
      <4>1. it'.todo = SplitLoop
        BY <1>5, <3>3
      <4>2. it'.todo \in SubmittedTodo /\ Head(it'.todo) = "micro"
        BY <3>1, <4>1, Zenon
      <4> QED BY <4>2
    <3> QED BY <1>3, <3>2, <3>3
  <2>3. SubmittedNext
    BY <1>3, <2>1, <2>2 DEF SubmittedNext
  <2> QED BY <1>3, <2>3, GoesSubmitted
<1>6. CASE Len(it.hand) = 1 /\ Rest = <<"return">> /\ Supplied /\ it.todo \in PostTodo("split")
  <2>1. it'.todo \in PostTodo(cfg.mode)
    BY <1>3, <1>6, SplitPrograms
  <2>2. it'.queue # <<>> \/ it'.exhausted
    BY <1>3, <1>6, Zenon DEF Supplied
  <2> QED BY <1>1, <1>3, <1>6, <2>1, <2>2, GoesPost
<1> QED BY <1>2, <1>4, <1>5, <1>6

LEMMA BetweenIs ==
    ASSUME NEW x
    PROVE /\ Between(x, SplitLoop) \in Seq(StepNames)
          /\ Between(x, SplitLoop) \in SubmittedTodo
          /\ Head(Between(x, SplitLoop)) \in {"fill", "micro"}
<1> DEFINE a == SplitLoop
           b == Before("fill", Before("drain", SplitLoop))
<1>1. a \in SubmittedTodo /\ b \in SubmittedTodo
  BY SplitPrograms
<1>2. Head(a) = "micro" /\ Head(b) = "fill"
  BY SplitPrograms
<1>3. a \in Seq(StepNames) /\ b \in Seq(StepNames)
  BY SplitBefore
<1>4. Between(x, SplitLoop) = a \/ Between(x, SplitLoop) = b
  BY DEF Between
<1> HIDE DEF a, b
<1> QED BY <1>1, <1>2, <1>3, <1>4

LEMMA ReplacedIs ==
    ASSUME NEW S, NEW q \in Seq(S), NEW i \in 1..Len(q), NEW y \in S
    PROVE /\ [q EXCEPT ![i] = y] \in Seq(S) /\ Len([q EXCEPT ![i] = y]) = Len(q)
          /\ [q EXCEPT ![i] = y][i] = y /\ [q EXCEPT ![i] = y] # <<>>
  OBVIOUS

\* A cached part is used.
LEMMA UseSane ==
    ASSUME LoaderInv, cfg.mode = "split", it.out = "ok", it.queue # <<>>,
           it.queue[1].used < it.queue[1].mat, NEW t \in Seq(StepNames),
           it' = [it EXCEPT !.queue[1].used = it.queue[1].used + 1, !.todo = t],
           stack' = stack, Elsewhere, wb' = wb
    PROVE /\ Sane' /\ cfg' = cfg /\ it'.hand = it.hand /\ it'.out = "ok" /\ it'.todo = t
          /\ it'.queue # <<>> /\ (Full(it.queue[1]) => Full(it'.queue[1]))
<1>1. /\ TypeOK /\ Numbering /\ QueueInv /\ cfg.mode \in Prefetched /\ it \in Iterator
  BY PrefetchFacts, QueuedFacts DEF Prefetched
<1>2. it.queue \in Seq(Item) /\ 1 \in 1..Len(it.queue) /\ it.queue[1] \in Item
  BY <1>1 DEF Iterator
<1> DEFINE x == it.queue[1]
           u == x.used + 1
           y == [x EXCEPT !.used = u]
<1>3. x.used \in Nat /\ x.mat \in Nat /\ x \in Item
  BY <1>2 DEF Item
<1>4. u \in Nat /\ u <= x.mat
  BY <1>3
<1>5. it' = [it EXCEPT !.queue = [it.queue EXCEPT ![1] = y], !.todo = t]
  BY <1>1, <1>2 DEF Iterator
<1> HIDE DEF u, x
<1>6. /\ y \in Item /\ Keeps(y, x) /\ y.mat = x.mat /\ y.rows = x.rows
      /\ y.used = u /\ y.polled = x.polled
  BY <1>3, <1>4 DEF Item, Keeps
<1>7. cfg' = cfg /\ nextId' = nextId /\ smp' = smp /\ drawn' = drawn /\ epoch' = epoch
      /\ due' = due /\ got' = got /\ stale' = stale
  BY DEF Elsewhere
<1> HIDE DEF y
<1>8. /\ it'.queue = [it.queue EXCEPT ![1] = y] /\ it'.pend = it.pend
      /\ it'.current = it.current /\ it'.todo = t
      /\ it'.hand = it.hand /\ it'.exhausted = it.exhausted /\ it'.ios = it.ios
      /\ it'.out = it.out
  BY <1>1, <1>5 DEF Iterator
<1>9. /\ it'.queue \in Seq(Item) /\ Len(it'.queue) = Len(it.queue) /\ it'.queue[1] = y
      /\ it'.queue # <<>>
  <2>1. y \in Item /\ it'.queue = [it.queue EXCEPT ![1] = y]
    BY <1>6, <1>8
  <2> DEFINE q == it.queue
  <2>2. q \in Seq(Item) /\ 1 \in 1..Len(q) /\ it'.queue = [q EXCEPT ![1] = y]
    BY <1>2, <2>1
  <2> DEFINE r == [q EXCEPT ![1] = y]
  <2> HIDE DEF q
  <2>3. r \in Seq(Item) /\ Len(r) = Len(q) /\ r[1] = y /\ r # <<>>
    BY <2>1, <2>2, ReplacedIs
  <2>4. it'.queue = r
    BY <2>2
  <2> HIDE DEF r
  <2>5. it'.queue \in Seq(Item) /\ Len(it'.queue) = Len(q) /\ it'.queue[1] = y
        /\ it'.queue # <<>>
    BY <2>3, <2>4, Zenon
  <2> QED BY <2>5 DEF q
<1>10. it' \in Iterator
  BY <1>1, <1>5, <1>8, <1>9 DEF Iterator
<1>11. TypeOK'
  BY <1>1, <1>7, <1>10 DEF TypeOK
<1>12. y.used <= y.mat
  BY <1>4, <1>6
<1>13. Touched(1, y)
  <2>1. cfg.mode \in Queued \ {"cids"}
    BY DEF Queued, Prefetched
  <2>2. y \in Item /\ Keeps(y, it.queue[1]) /\ y.mat = it.queue[1].mat
        /\ y.rows = it.queue[1].rows /\ y.polled = it.queue[1].polled
    BY <1>6 DEF x
  <2> QED BY <1>2, <1>7, <1>8, <1>12, <2>1, <2>2 DEF Touched
<1>14. QueueInv' /\ Numbering'
  BY <1>1, <1>11, <1>13, QueueTouched
<1>15. \A i \in 1..Len(it.queue) : Keeps(it'.queue[i], it.queue[i])
  BY <1>2, <1>6, <1>8 DEF Keeps, x
<1>16. KeptItems
  BY <1>8, <1>9, <1>15 DEF KeptItems
<1>17. Otherwise
  BY <1>7, <1>8 DEF Otherwise
<1>18. Sane'
  BY <1>1, <1>11, <1>14, <1>16, <1>17, SaneKept
<1>19. Full(x) => Full(y)
  BY <1>6, KeepsFull
<1> QED BY <1>7, <1>8, <1>9, <1>18, <1>19 DEF x

\* The loop of _consume_front_split
LEMMA SplitLoops ==
    ASSUME LoaderInv, cfg.mode = "split", Micro PROVE LoaderInv'
<1>1. At("micro") /\ cfg.mode \in Prefetched /\ it.todo # <<>>
  BY DEF Micro, Prefetched, At
<1>2. it.out = "ok" /\ Begun /\ it.todo = SplitLoop /\ Rest = ToPop
  BY <1>1, SplitIs, Zenon DEF SplitAt
<1>3. it.hand = <<>> /\ it.queue # <<>> /\ Full(it.queue[1])
  BY <1>2 DEF Begun
<1>4. TypeOK /\ Numbering /\ it \in Iterator
  BY <1>1, PrefetchFacts, QueuedFacts
<1>5. Elsewhere /\ wb' = wb /\ stack' = stack
  BY DEF Micro, Elsewhere
<1>6. Flagged(stack')
  BY <1>4, <1>5, FlaggedSelf, Zenon
<1> DEFINE x == it.queue[1]
<1>7. CASE x.used = Len(x.parts) /\ Goto(Rest)
  <2> DEFINE t == Rest
  <2>1. t \in Seq(StepNames)
    BY <1>1, <1>4, RestIs
  <2>2. Services(t) /\ t = Rest
    BY <1>5, <1>6, <1>7, <2>1 DEF Services
  <2> HIDE DEF t
  <2>3. Sane' /\ cfg' = cfg /\ SameQueues /\ it'.out = "ok" /\ it'.todo = t
    BY <1>1, <1>2, <2>2, ServiceSane
  <2>4. it'.todo \in SubmittedTodo /\ Head(it'.todo) = "pop"
    BY <1>2, <2>2, <2>3, SplitPrograms
  <2>5. it'.queue = it.queue /\ it'.hand = it.hand
    BY <2>3 DEF SameQueues
  <2>6. SubmittedNext
    BY <1>3, <1>7, <2>3, <2>4, <2>5 DEF SubmittedNext
  <2> QED BY <2>3, <2>6, GoesSubmitted
<1>8. CASE x.used < x.mat /\ it' = [it EXCEPT !.queue[1].used = @ + 1, !.todo = Between(x, @)]
  <2> DEFINE t == Between(x, SplitLoop)
  <2>1. t \in Seq(StepNames) /\ t \in SubmittedTodo /\ Head(t) \in {"fill", "micro"}
    BY BetweenIs
  <2>2. it' = [it EXCEPT !.queue[1].used = it.queue[1].used + 1, !.todo = t]
    <3>1. it.queue \in Seq(Item) /\ 1 \in 1..Len(it.queue) /\ it.queue[1] \in Item
      BY <1>3, <1>4 DEF Iterator
    <3>2. it' = [it EXCEPT !.queue[1].used = it.queue[1].used + 1, !.todo = Between(x, it.todo)]
      BY <1>4, <1>8, <3>1 DEF Iterator, Item
    <3> QED BY <1>2, <3>2
  <2> HIDE DEF t
  <2>3. /\ Sane' /\ cfg' = cfg /\ it'.hand = it.hand /\ it'.out = "ok" /\ it'.todo = t
        /\ it'.queue # <<>> /\ (Full(it.queue[1]) => Full(it'.queue[1]))
    BY <1>2, <1>3, <1>5, <1>8, <2>1, <2>2, UseSane
  <2>4. SubmittedNext
    BY <1>3, <2>1, <2>3 DEF SubmittedNext
  <2> QED BY <2>3, <2>4, GoesSubmitted
<1>9. CASE /\ x.used = x.mat /\ x.used < Len(x.parts)
           /\ Goto(Before("poll", Before("mat", it.todo)))
  <2> DEFINE t == Before("poll", Before("mat", SplitLoop))
  <2>1. Goto(t)
    BY <1>2, <1>9, Zenon
  <2>2. t \in Seq(StepNames)
    BY SplitBefore
  <2>3. t \in SubmittedTodo /\ Head(t) = "poll"
    BY SplitPrograms
  <2> HIDE DEF t
  <2>4. Services(t)
    BY <1>5, <1>6, <2>1, <2>2 DEF Services
  <2>5. Sane' /\ cfg' = cfg /\ SameQueues /\ it'.out = "ok" /\ it'.todo = t
    BY <1>1, <1>2, <2>4, ServiceSane
  <2>6. it'.queue = it.queue /\ it'.hand = it.hand
    BY <2>5 DEF SameQueues
  <2>7. SubmittedNext
    BY <1>3, <1>9, <2>3, <2>5, <2>6 DEF SubmittedNext
  <2> QED BY <2>5, <2>7, GoesSubmitted
<1> QED BY <1>7, <1>8, <1>9, Zenon DEF Micro

\* The front item, once its submission is complete.
LEMMA SplitFront ==
    ASSUME LoaderInv, cfg.mode = "split", Begun
    PROVE /\ it.queue \in Seq(Item) /\ 1 \in 1..Len(it.queue) /\ it.queue[1] \in Item
          /\ ItemOK(it.queue[1]) /\ RowsOK(it.queue[1]) /\ Linked(it.queue[1])
          /\ Full(it.queue[1]) /\ it.hand = <<>> /\ it.queue # <<>>
          /\ it.todo \in SubmittedTodo
          /\ it.queue[1].mat \in Nat /\ it.queue[1].used \in Nat
          /\ it.queue[1].ids \in Seq(Nat) /\ Len(it.queue[1].ids) \in Nat
<1>1. TypeOK /\ Items /\ Link /\ it \in Iterator
  BY PrefetchFacts, QueuedFacts DEF Prefetched
<1>2. it.hand = <<>> /\ it.queue # <<>> /\ it.todo \in SubmittedTodo /\ Full(it.queue[1])
  BY DEF Begun
<1>3. it.queue \in Seq(Item) /\ 1 \in 1..Len(it.queue)
  BY <1>1, <1>2 DEF Iterator
<1>4. it.queue[1] \in Item
  BY <1>3
<1>5. ItemOK(it.queue[1]) /\ RowsOK(it.queue[1])
  BY <1>1, <1>3 DEF Items
<1>6. Linked(it.queue[1])
  BY <1>1, <1>3 DEF Link, Registered
<1>7. /\ it.queue[1].mat \in Nat /\ it.queue[1].used \in Nat
      /\ it.queue[1].ids \in Seq(Nat) /\ Len(it.queue[1].ids) \in Nat
  BY <1>4 DEF Item
<1> QED BY <1>2, <1>3, <1>4, <1>5, <1>6, <1>7

LEMMA SplitAwaits ==
    ASSUME LoaderInv, cfg.mode = "split", Begun, SplitUsed PROVE Awaited
<1> DEFINE x == it.queue[1]
           k == x.mat + 1
<1>1. /\ ItemOK(x) /\ Linked(x) /\ Full(x) /\ x.mat \in Nat /\ x.ids \in Seq(Nat)
      /\ Len(x.ids) \in Nat
  BY SplitFront
<1>2. x.used = x.mat /\ x.mat < Len(x.parts)
  BY DEF SplitUsed
<1>3. Expected = x.ids[k]
  BY <1>2 DEF Expected
<1> HIDE DEF x
<1>4. k \in 1..Len(x.ids) /\ k > x.mat
  BY <1>1, <1>2 DEF Full
<1> HIDE DEF k
<1>5. x.ids[k] < nextId
  BY <1>1, <1>4 DEF ItemOK
<1>6. x.ids[k] >= Base
  BY <1>1, <1>4 DEF Linked
<1>7. x.ids[k] \in Nat
  BY <1>1, <1>4
<1> QED BY <1>3, <1>5, <1>6, <1>7 DEF Awaited

LEMMA SplitPolls ==
    ASSUME LoaderInv, cfg.mode = "split", PollTryService PROVE LoaderInv'
<1>1. At("poll") /\ cfg.mode \in Prefetched /\ it.todo # <<>>
  BY DEF PollTryService, Prefetched, At
<1>2. it.out = "ok" /\ Begun /\ SplitUsed /\ Rest = Before("mat", SplitLoop)
  BY <1>1, SplitIs, Zenon DEF SplitAt
<1>3. it.hand = <<>> /\ it.queue # <<>> /\ Full(it.queue[1])
  BY <1>2 DEF Begun
<1>4. TypeOK /\ Numbering
  BY <1>1, PrefetchFacts, QueuedFacts
<1>5. Tries
  BY <1>2, <1>4, SplitAwaits, TryService
<1>6. ~At("get") /\ ~At("service") /\ ~At("mat") /\ ~At("cat")
  BY <1>1 DEF At
<1>7. CASE /\ Sane' /\ cfg' = cfg /\ SameQueues /\ it'.out = "ok" /\ it'.todo = Rest
           /\ FrontIsExpected(stack)'
  <2> DEFINE t == Before("mat", SplitLoop)
  <2>1. t \in SubmittedTodo /\ Head(t) = "mat"
    BY SplitPrograms
  <2>2. it'.todo = t
    BY <1>2, <1>7
  <2> HIDE DEF t
  <2>3. it'.queue = it.queue /\ it'.hand = it.hand
    BY <1>7 DEF SameQueues
  <2>4. SubmittedNext
    BY <1>2, <1>3, <1>7, <2>1, <2>2, <2>3 DEF SubmittedNext, SplitUsed
  <2> QED BY <1>7, <2>4, GoesSubmitted
<1> QED BY <1>1, <1>2, <1>5, <1>6, <1>7, TrySane

\* A part fetched by the loop is used at once.
LEMMA UsedPart ==
    ASSUME TypeOK, Numbering, cfg.mode = "split", NEW x, NextPart(x), x.used = x.mat, NEW y,
           y = [WithPart(x) EXCEPT !.used = WithPart(x).used + 1]
    PROVE y \in Item /\ PartOf(y, x)
<1> DEFINE z == WithPart(x)
<1>1. /\ PartOf(z, x) /\ z.used = x.used /\ z.mat = x.mat + 1 /\ z \in Item
  BY WithPartIs
<1> DEFINE u == z.used + 1
<1>2. y = [z EXCEPT !.used = u]
  OBVIOUS
<1> HIDE DEF z
<1>3. z.used \in Nat /\ u = z.mat
  BY <1>1 DEF Item
<1>4. u \in Nat
  BY <1>3
<1> HIDE DEF u
<1>5. /\ y \in Item /\ y.batch = z.batch /\ y.parts = z.parts /\ y.ids = z.ids
      /\ y.mat = z.mat /\ y.used = u /\ y.rows = z.rows
  BY <1>1, <1>2, <1>4 DEF Item
<1>6. y.used <= y.mat
  BY <1>3, <1>4, <1>5
<1>7. PartOf(y, x)
  BY <1>1, <1>5, <1>6, Zenon DEF PartOf, Keeps
<1> QED BY <1>5, <1>7

LEMMA SplitMaterializes ==
    ASSUME LoaderInv, cfg.mode = "split", MatFront PROVE LoaderInv'
<1>1. At("mat") /\ cfg.mode \in Prefetched /\ it.todo # <<>>
  BY DEF MatFront, Prefetched, At
<1>2. /\ it.out = "ok" /\ Begun /\ SplitUsed /\ FrontIsExpected(stack) /\ Rest = SplitLoop
  BY <1>1, SplitIs, Zenon DEF SplitAt
<1>3. TypeOK /\ Numbering /\ it \in Iterator
  BY <1>1, PrefetchFacts, QueuedFacts
<1> DEFINE x == it.queue[1]
           n == x.parts[x.mat + 1]
           y == [WithPart(x) EXCEPT !.used = WithPart(x).used + 1]
           t == Between(x, SplitLoop)
<1>4. /\ it.queue \in Seq(Item) /\ 1 \in 1..Len(it.queue) /\ x \in Item /\ Full(x)
      /\ it.hand = <<>> /\ it.queue # <<>> /\ x.mat \in Nat /\ Len(x.ids) \in Nat
  BY <1>2, SplitFront
<1>5. x.used = x.mat /\ x.mat < Len(x.ids)
  BY <1>2, <1>4 DEF SplitUsed, Full
<1>6. stack # <<>> /\ stack[1].id = x.ids[x.mat + 1]
  BY <1>2, <1>5 DEF FrontIsExpected, Expected
<1>7. NextPart(x) /\ stack[1].n \in Nat /\ n = stack[1].n
  BY <1>4, <1>5, <1>6, SplitNextPart
<1> HIDE DEF y
<1>8. y \in Item /\ PartOf(y, x)
  BY <1>3, <1>5, <1>7, UsedPart DEF y
<1>9. t \in Seq(StepNames) /\ t \in SubmittedTodo /\ Head(t) \in {"fill", "micro"}
  BY BetweenIs
<1>10. it' = [Materialized(1) EXCEPT !.queue[1].used = @ + 1, !.todo = t]
  BY <1>2, Zenon DEF MatFront
<1>11. stack' = Tail(stack) /\ Elsewhere /\ wb' = wb
  BY DEF MatFront, Elsewhere
<1>12. n \in Nat
  BY <1>7
<1> HIDE DEF t, n
<1>13. it' = [it EXCEPT !.queue = [it.queue EXCEPT ![1] = y],
                        !.ios = IF it.ios < n THEN 0 ELSE it.ios - n, !.todo = t]
  <2> DEFINE z == WithPart(x)
             m == IF it.ios < n THEN 0 ELSE it.ios - n
             q == [it.queue EXCEPT ![1] = z]
             i1 == [it EXCEPT !.queue = q, !.ios = m]
  <2>1. Materialized(1) = i1
    BY <1>3, <1>4 DEF Materialized, Iterator, n
  <2> HIDE DEF z, m
  <2>2. q[1] = z /\ [q EXCEPT ![1] = y] = [it.queue EXCEPT ![1] = y]
    BY <1>4
  <2>3. y = [z EXCEPT !.used = z.used + 1]
    BY DEF y, z
  <2> HIDE DEF q
  <2>4. i1.queue = q
    BY <1>3 DEF Iterator
  <2>5. it' = [i1 EXCEPT !.queue[1].used = @ + 1, !.todo = t]
    BY <1>10, <2>1
  <2>6. q[1] = z /\ it' = [i1 EXCEPT !.queue = [q EXCEPT ![1] = y], !.todo = t]
    <3> DEFINE v == z.used + 1
               g == [q EXCEPT ![1].used = v]
    <3>1. g = [q EXCEPT ![1] = y]
      BY <2>2, <2>3
    <3>2. [i1 EXCEPT !.queue[1].used = @ + 1] = [i1 EXCEPT !.queue = g]
      BY <2>2, <2>4
    <3>3. it' = [[i1 EXCEPT !.queue[1].used = @ + 1] EXCEPT !.todo = t]
      BY <2>5
    <3> QED BY <2>2, <3>1, <3>2, <3>3
  <2> DEFINE r == [it.queue EXCEPT ![1] = y]
  <2>7. it' = [i1 EXCEPT !.queue = r, !.todo = t]
    BY <2>2, <2>6
  <2> HIDE DEF r
  <2>8. it' = [it EXCEPT !.queue = r, !.ios = m, !.todo = t]
    BY <1>3, <2>7 DEF Iterator
  <2> QED BY <2>8 DEF r, m
<1>14. NextPart(it.queue[1]) /\ PartOf(y, it.queue[1]) /\ n = stack[1].n
  BY <1>7, <1>8
<1> HIDE DEF x
<1>15. /\ Sane' /\ cfg' = cfg /\ it'.queue = [it.queue EXCEPT ![1] = y]
       /\ it'.hand = it.hand /\ it'.out = "ok" /\ it'.todo = t
  <2>1. /\ 1 \in 1..Len(it.queue) /\ y \in Item /\ t \in Seq(StepNames)
        /\ it.out = "ok" /\ cfg.mode = "split"
    BY <1>2, <1>4, <1>8, <1>9
  <2> QED BY <1>11, <1>12, <1>13, <1>14, <2>1, SplitFetched, Zenon
<1>16. it'.queue[1] = y /\ it'.queue # <<>>
  <2> DEFINE q == [it.queue EXCEPT ![1] = y]
  <2>1. q[1] = y /\ q # <<>>
    BY <1>4, <1>8, ReplacedIs
  <2> HIDE DEF q
  <2> QED BY <1>15, <2>1 DEF q
<1>17. Full(y)
  BY <1>4, <1>8, KeepsFull DEF PartOf
<1>18. SubmittedNext
  BY <1>4, <1>9, <1>15, <1>16, <1>17 DEF SubmittedNext
<1> QED BY <1>15, <1>18, GoesSubmitted

LEMMA SplitPops ==
    ASSUME LoaderInv, cfg.mode = "split", PopFront PROVE LoaderInv'
<1>1. cfg.mode \in InParts /\ cfg.mode \in Prefetched \ {"cids"} /\ it.todo # <<>>
  BY DEF InParts, Prefetched, PopFront, At
<1>2. At("pop")
  <2>1. \A a : At(a) => a \in {"submit", "ensure", "fill", "drain", "micro", "poll", "mat",
                               "pop", "return"}
    BY SplitIs DEF SplitAt
  <2>2. ~At("take")
    BY <2>1
  <2> QED BY <2>2 DEF PopFront
<1>3. /\ it.out = "ok" /\ Begun /\ it.queue[1].used = Len(it.queue[1].parts)
      /\ Rest = <<"fill", "drain", "return">>
  BY <1>1, <1>2, SplitIs, Zenon DEF SplitAt
<1>4. /\ ItemOK(it.queue[1]) /\ Full(it.queue[1]) /\ it.hand = <<>> /\ it.queue # <<>>
      /\ it.queue[1].mat \in Nat /\ it.queue[1].used \in Nat /\ Len(it.queue[1].ids) \in Nat
  BY <1>3, SplitFront
<1>5. it.queue[1].mat = Len(it.queue[1].ids)
  BY <1>3, <1>4 DEF ItemOK, Full
<1>6. /\ Sane' /\ cfg' = cfg /\ it'.hand = <<it.queue[1]>> /\ it'.out = "ok"
      /\ it'.todo = Rest
  BY <1>1, <1>3, <1>4, <1>5, PopSane
<1>7. Len(it'.hand) = 1
  BY <1>6
<1>8. it'.todo \in PostTodo(cfg.mode) /\ Head(it'.todo) = "fill"
  BY <1>3, <1>6, SplitPrograms
<1> QED BY <1>1, <1>6, <1>7, <1>8, GoesPost

LEMMA SplitStep ==
    ASSUME LoaderInv, cfg.mode = "split", Next PROVE LoaderInv'
<1>1. cfg.mode \in Prefetched /\ cfg.mode \in InParts /\ cfg.mode # "cids"
  BY DEF Prefetched, InParts
<1>2. CASE Return
  <2>1. At("return") /\ it.todo # <<>>
    BY <1>2 DEF Return, At
  <2>2. it.out = "ok" /\ Len(it.hand) = 1 /\ Rest = <<>> /\ Supplied
    BY <2>1, SplitIs, Zenon DEF SplitAt
  <2>3. it.hand[1].mat = Len(it.hand[1].ids)
    <3>1. Items
      BY <1>1, PrefetchFacts, QueuedFacts
    <3>2. 1 \in 1..Len(it.hand)
      BY <2>2
    <3> QED BY <1>1, <3>1, <3>2 DEF Items
  <2> QED BY <1>1, <1>2, <2>2, <2>3, InPartsReturns
<1>3. CASE Over
  BY <1>3, Unchanged DEF Over
<1>4. CASE Submit \/ Ensure \/ Fill \/ Drain
  BY <1>4, SplitSubmits, SplitEnsures, SplitFills, SplitDrains
<1>5. CASE Micro \/ PollTryService \/ MatFront \/ PopFront
  BY <1>5, SplitLoops, SplitPolls, SplitMaterializes, SplitPops
<1>6. CASE Call \/ NewEpoch \/ Complete
  BY <1>1, <1>6, PrefetchCalls, PrefetchRenews, PrefetchAnswers
<1> QED BY <1>2, <1>3, <1>4, <1>5, <1>6, SplitActions

(***************************************************************************)
(* Every step                                                              *)
(***************************************************************************)
LEMMA LoaderStep == LoaderInv /\ [Next]_vars => LoaderInv'
<1> SUFFICES ASSUME LoaderInv, [Next]_vars PROVE LoaderInv'
  OBVIOUS
<1>1. CASE UNCHANGED vars
  BY <1>1, Unchanged
<1>2. CASE Next
  <2>1. cfg.mode \in {"sync", "accum", "async", "single", "split", "cids", "pipeline"}
    BY ModeKinds DEF LoaderInv, TypeOK, Config, Synchronous, Registered
  <2>2. CASE cfg.mode \in Synchronous
    BY <1>2, <2>2, SyncStep
  <2>3. CASE cfg.mode = "pipeline"
    BY <1>2, <2>3, PipelineStep
  <2>4. CASE cfg.mode \in Prefetched
    BY <1>2, <2>4, AsyncStep, SingleStep, SplitStep, CidsStep DEF Prefetched
  <2> QED BY <2>1, <2>2, <2>3, <2>4 DEF Synchronous, Prefetched
<1> QED BY <1>1, <1>2

(***************************************************************************)
(* The initial states                                                      *)
(***************************************************************************)
Begins == /\ it.queue = <<>> /\ it.pend = <<>> /\ it.current = <<>> /\ it.hand = <<>>
          /\ it.exhausted = FALSE /\ it.ios = 0 /\ it.out = "ok"
          /\ stack = <<>> /\ nextId = 1 /\ smp = NewSampler /\ due = <<>>
          /\ wb.window = <<>> /\ wb.tensors = <<>>

LEMMA InitIs ==
    ASSUME Init
    PROVE TypeOK /\ Begins /\ ReturnsOwn /\ it.todo = Warmup[cfg.mode]
<1>1. /\ cfg \in Config /\ (cfg.mode \in Budgeted \/ cfg.budget = 0)
      /\ stack = <<>> /\ nextId = 1 /\ it = NewIter(cfg.mode) /\ smp = NewSampler
      /\ wb = [window |-> <<>>, tensors |-> <<>>, init |-> FALSE, iter |-> 0, cpu |-> 0]
      /\ drawn = 0 /\ epoch = 1 /\ due = <<>> /\ stale = FALSE
      /\ got = [want |-> 0, batch |-> 0, rows |-> <<>>]
  BY DEF Init, Config
<1>2. cfg.mode \in Queued \cup Synchronous
  <2>1. cfg.mode \in Modes
    BY <1>1 DEF Config
  <2> QED BY <2>1, LoaderAssumption DEF Registered, Synchronous, Queued, Prefetched
<1>3. Warmup[cfg.mode] \in Seq(StepNames)
  <2>1. CASE cfg.mode \in Queued
    BY <2>1, WarmupIs
  <2>2. CASE cfg.mode \in Synchronous
    <3>1. Warmup["sync"] = <<>> /\ Warmup["accum"] = <<>> /\ <<>> \in Seq(StepNames)
      BY DEF Warmup
    <3> QED BY <2>2, <3>1, Zenon DEF Synchronous
  <2> QED BY <1>2, <2>1, <2>2
<1>4. /\ it \in Iterator
      /\ it.queue = <<>> /\ it.pend = <<>> /\ it.current = <<>>
      /\ it.hand = <<>> /\ it.exhausted = FALSE /\ it.ios = 0
      /\ it.todo = Warmup[cfg.mode] /\ it.out = "ok"
  BY <1>1, <1>3, IterIs
<1>5. smp \in SamplerThread
  BY <1>1, SamplerIs
<1>6. wb \in WindowBuffer /\ wb.window = <<>> /\ wb.tensors = <<>>
  <2>1. <<>> \in Seq(Nat \ {0}) /\ <<>> \in Seq(Seq(Nat \X Nat))
    OBVIOUS
  <2> QED BY <1>1, <2>1 DEF WindowBuffer
<1>7. /\ stack \in Seq(Outstanding) /\ nextId \in Nat /\ drawn \in Nat /\ epoch \in Nat
      /\ due \in Seq(Nat \ {0}) /\ stale \in BOOLEAN
  <2>1. <<>> \in Seq(Outstanding) /\ <<>> \in Seq(Nat \ {0})
    OBVIOUS
  <2>2. 0 \in Nat /\ 1 \in Nat /\ FALSE \in BOOLEAN
    OBVIOUS
  <2> QED BY <1>1, <2>1, <2>2, Zenon
<1>8. TypeOK
  BY <1>1, <1>4, <1>5, <1>6, <1>7 DEF TypeOK
<1>9. Begins
  BY <1>1, <1>4, <1>6 DEF Begins
<1>10. ReturnsOwn
  BY <1>1 DEF ReturnsOwn
<1> QED BY <1>4, <1>8, <1>9, <1>10

LEMMA InitQueues == ASSUME TypeOK, Begins PROVE Numbering /\ QueueInv
<1>1. /\ Len(it.queue) = 0 /\ Len(it.hand) = 0 /\ Len(it.current) = 0 /\ Len(stack) = 0
      /\ it.ios = 0 /\ nextId = 1
  BY DEF Begins
<1>2. /\ \A i \in 1..Len(it.queue) : FALSE
      /\ \A i \in 1..Len(it.hand) : FALSE
      /\ \A i \in 1..Len(it.current) : FALSE
      /\ \A j \in 1..Len(stack) : FALSE
  BY <1>1
<1>3. Numbering
  BY <1>1, <1>2 DEF Numbering
<1>4. Items /\ Order /\ Polled /\ Fetched1
  BY <1>2 DEF Items, Order, Polled, Fetched1
<1>5. Link
  BY <1>1, <1>2 DEF Link
<1>6. Cover
  BY <1>2 DEF Cover
<1>7. Ios
  <2>1. PendingRows = {}
    <3>1. PendingRows = UNION {ItemRows(it.queue[i]) : i \in 1..Len(it.queue)}
      BY DEF PendingRows
    <3> QED BY <1>2, <3>1, Zenon
  <2>2. IsFiniteSet(PendingRows) /\ Cardinality(PendingRows) = 0
    BY <2>1, FS_EmptySet
  <2>3. cfg.budget \in Nat
    <3>1. cfg.budget \in Budgets
      BY DEF TypeOK, Config
    <3> QED BY <3>1, LoaderAssumption
  <2>4. it.ios <= cfg.budget
    BY <1>1, <2>3
  <2> QED BY <1>1, <2>2, <2>4 DEF Ios
<1> QED BY <1>3, <1>4, <1>5, <1>6, <1>7 DEF QueueInv

LEMMA InitPrefetch == ASSUME TypeOK, Begins, it.todo = Warmup[cfg.mode] PROVE PrefetchInv
<1> SUFFICES ASSUME cfg.mode \in Prefetched
             PROVE /\ PrefetchPhase /\ Complete1 /\ Exhausted
                   /\ it.out # "error" => PrefetchDue
                   /\ PrefetchStop /\ PrefetchError
                   /\ it.current = <<>> /\ smp = NewSampler
  BY Zenon DEF PrefetchInv
<1>1. /\ it.queue = <<>> /\ it.pend = <<>> /\ it.current = <<>> /\ it.hand = <<>>
      /\ it.exhausted = FALSE /\ it.out = "ok" /\ smp = NewSampler /\ due = <<>>
  BY DEF Begins
<1>2. cfg.depth \in Nat
  BY DepthIs
<1>3. Len(<<>>) = 0 /\ 1..0 = {}
  OBVIOUS
<1>4. Complete1
  BY <1>1, <1>2, <1>3 DEF Complete1
<1>5. Exhausted /\ PrefetchStop /\ PrefetchError
  BY <1>1 DEF Exhausted, PrefetchStop, PrefetchError
<1>6. PrefetchDue
  <2>1. BatchesDue(<<>>, <<>>, <<>>, <<>>)
    BY <1>3 DEF BatchesDue
  <2> QED BY <1>1, <2>1, Zenon DEF PrefetchDue
<1>7. WarmP
  <2>1. Warmup[cfg.mode] \in WarmTodo(cfg.mode)
    <3>1. CASE cfg.mode = "async"
      BY <3>1, WarmupIs DEF WarmTodo
    <3>2. CASE cfg.mode = "single"
      BY <3>2, WarmupIs DEF WarmTodo
    <3>3. CASE cfg.mode = "split"
      BY <3>3, WarmupIs DEF WarmTodo
    <3>4. CASE cfg.mode = "cids"
      BY <3>4, WarmupIs DEF WarmTodo
    <3> QED BY <3>1, <3>2, <3>3, <3>4 DEF Prefetched
  <2> QED BY <1>1, <2>1 DEF WarmP
<1> QED BY <1>1, <1>4, <1>5, <1>6, <1>7 DEF PrefetchPhase

LEMMA InitPipeline == ASSUME TypeOK, Begins, it.todo = Warmup[cfg.mode] PROVE PipelineInv
<1> SUFFICES ASSUME cfg.mode = "pipeline"
             PROVE /\ PipelinePhase /\ Sampler
                   /\ it.pend = <<>> /\ Len(it.queue) <= 1 /\ Len(it.current) <= 1
                   /\ it.out # "error" => PipelineDue
                   /\ it.out = "stop" => it.exhausted /\ it.current = <<>>
                   /\ it.out = "error" => smp.exc
  BY Zenon DEF PipelineInv
<1>1. /\ it.queue = <<>> /\ it.pend = <<>> /\ it.current = <<>> /\ it.hand = <<>>
      /\ it.exhausted = FALSE /\ it.out = "ok" /\ smp = NewSampler /\ due = <<>>
  BY DEF Begins
<1>2. /\ smp.queue = <<>> /\ smp.held = <<>> /\ smp.ended = FALSE /\ smp.exc = FALSE
  BY <1>1, SamplerIs
<1>3. PipelinePhase
  <2>1. it.todo = <<"block", "poll", "get", "nowait">>
    BY WarmupIs
  <2>2. it.todo \in WarmTodo("pipeline") \cup PreTodo("pipeline") /\ Head(it.todo) = "block"
    BY <2>1, PipelinePrograms
  <2> QED BY <1>1, <2>2 DEF PipelinePhase, At
<1>4. Len(<<>>) = 0 /\ \A i \in 1..0 : FALSE
  OBVIOUS
<1>5. Sampler
  BY <1>1, <1>2, <1>4 DEF Sampler
<1>6. PipelineDue
  <2>1. (smp.ended /\ ~it.exhausted) = FALSE
    BY <1>2
  <2> QED BY <1>1, <1>2, <2>1, DueNone, Zenon DEF PipelineDue
<1>7. Len(it.queue) <= 1 /\ Len(it.current) <= 1
  <2>1. Len(it.queue) = 0 /\ Len(it.current) = 0
    BY <1>1
  <2> QED BY <2>1
<1> QED BY <1>1, <1>3, <1>5, <1>6, <1>7

LEMMA InitSync == ASSUME TypeOK, Begins, it.todo = Warmup[cfg.mode] PROVE SyncInv
<1> SUFFICES ASSUME cfg.mode \in Synchronous PROVE SyncPhase /\ SyncQuiet /\ SyncRows /\ SyncDue
  BY Zenon DEF SyncInv
<1>1. /\ it.queue = <<>> /\ it.pend = <<>> /\ it.current = <<>> /\ it.hand = <<>>
      /\ it.exhausted = FALSE /\ it.out = "ok" /\ smp = NewSampler /\ due = <<>>
      /\ wb.window = <<>> /\ wb.tensors = <<>> /\ stack = <<>>
  BY DEF Begins
<1>2. it.todo = <<>>
  <2>1. Warmup["sync"] = <<>> /\ Warmup["accum"] = <<>>
    BY DEF Warmup
  <2> QED BY <2>1, Zenon DEF Synchronous
<1>3. SyncPhase /\ SyncQuiet
  BY <1>1, <1>2 DEF SyncPhase, SyncQuiet
<1>4. Len(<<>>) = 0 /\ \A i \in 1..0 : FALSE
  OBVIOUS
<1>5. SyncRows /\ SyncDue
  BY <1>1, <1>4 DEF SyncRows, SyncDue
<1> QED BY <1>3, <1>5

LEMMA LoaderInit == Init => LoaderInv
  BY InitIs, InitQueues, InitPrefetch, InitPipeline, InitSync DEF LoaderInv

\* The inductive invariant of the training iterators holds in every state.
THEOREM LoaderInductive == Spec => []LoaderInv
<1>1. Init => LoaderInv
  BY LoaderInit
<1>2. LoaderInv /\ [Next]_vars => LoaderInv'
  BY LoaderStep
<1> QED BY <1>1, <1>2, PTL DEF Spec

(***************************************************************************)
(* What the invariant says of the iterators                                *)
(***************************************************************************)
LEMMA Modes3 ==
    ASSUME LoaderInv
    PROVE /\ \/ cfg.mode \in Synchronous
             \/ cfg.mode = "pipeline"
             \/ cfg.mode \in Prefetched
          /\ TypeOK /\ Numbering /\ ReturnsOwn
<1>1. TypeOK /\ Numbering /\ ReturnsOwn
  BY DEF LoaderInv
<1> QED BY <1>1, ModeKinds DEF Prefetched

\* A call holds one batch at most, and none when it has ended.
LEMMA HandIs ==
    ASSUME LoaderInv
    PROVE /\ it.hand = <<>> \/ Len(it.hand) = 1
          /\ it.out # "ok" => it.hand = <<>>
<1>1. CASE cfg.mode \in Synchronous
  BY <1>1, SyncFacts DEF SyncPhase
<1>2. CASE cfg.mode = "pipeline"
  BY <1>2, PipelineFacts DEF PipelinePhase
<1>3. CASE cfg.mode \in Prefetched
  <2>1. PrefetchPhase
    BY <1>3, PrefetchFacts
  <2> QED BY <2>1 DEF PrefetchPhase, IdleP, WarmP, PreP, PostP
<1> QED BY <1>1, <1>2, <1>3, Modes3

\* Every __next__ returns the batch that was due with exactly its own rows.
LEMMA ReturnsOwnHolds == LoaderInv => ReturnsOwn
  BY Modes3

\* RuntimeError is raised only for a batch larger than the budget.
LEMMA RaisesHolds == LoaderInv => RaisesOnlyOversize
<1> SUFFICES ASSUME LoaderInv PROVE RaisesOnlyOversize
  OBVIOUS
<1>1. CASE cfg.mode \in Synchronous
  BY <1>1, SyncFacts DEF SyncQuiet, RaisesOnlyOversize
<1>2. CASE cfg.mode = "pipeline"
  BY <1>2, PipelineFacts DEF RaisesOnlyOversize
<1>3. CASE cfg.mode \in Prefetched
  BY <1>3, PrefetchFacts DEF PrefetchError, RaisesOnlyOversize
<1> QED BY <1>1, <1>2, <1>3, Modes3

\* StopIteration comes when every batch of the epoch was returned.
LEMMA EpochHolds == LoaderInv => EpochComplete
<1> SUFFICES ASSUME LoaderInv, it.out = "stop", cfg.mode \notin Synchronous
             PROVE due = <<>> /\ ~HasMore
  BY DEF EpochComplete
<1>1. due \in Seq(Nat \ {0}) /\ it.hand = <<>>
  BY HandIs, Modes3 DEF TypeOK
<1>2. Len(<<>>) = 0
  OBVIOUS
<1>3. Len(due) = 0 => due = <<>>
  BY <1>1
<1>4. CASE cfg.mode = "pipeline"
  <2>1. /\ Sampler /\ PipelineDue /\ it.exhausted /\ it.current = <<>>
    BY <1>4, PipelineFacts
  <2>2. smp.ended /\ smp.queue = <<>> /\ smp.held = <<>> /\ it.queue = <<>> /\ ~smp.exc
    BY <2>1 DEF Sampler
  <2>3. ~HasMore
    BY <2>1, <2>2 DEF Sampler
  <2>4. (smp.ended /\ ~it.exhausted) = FALSE
    BY <2>1
  <2>5. DueOf(<<>>, <<>>, <<>>, <<>>, <<>>, FALSE, due)
    BY <1>1, <2>1, <2>2, <2>4, Zenon DEF PipelineDue
  <2>6. Len(due) = 0
    BY <1>2, <2>5 DEF DueOf
  <2> QED BY <1>3, <2>3, <2>6
<1>5. CASE cfg.mode \in Prefetched
  <2>1. PrefetchDue /\ it.exhausted /\ it.queue = <<>> /\ Exhausted
    BY <1>5, PrefetchFacts DEF PrefetchStop
  <2>2. ~HasMore /\ it.pend = <<>>
    BY <2>1 DEF Exhausted
  <2>3. BatchesDue(<<>>, <<>>, <<>>, due)
    BY <1>1, <2>1, <2>2, Zenon DEF PrefetchDue
  <2>4. Len(due) = 0
    BY <1>2, <2>3 DEF BatchesDue
  <2> QED BY <1>3, <2>2, <2>4
<1> QED BY <1>4, <1>5, Modes3

\* Without an abandoned iterator the rows outstanding in the stack are those
\* of the items that were not fetched.
LEMMA RowsOutstanding ==
    ASSUME LoaderInv, cfg.mode \in Budgeted, ~stale
    PROVE PendingRows = OutstandingRows
<1>1. /\ TypeOK /\ Numbering /\ Items /\ Link /\ Cover /\ stack \in Seq(Outstanding)
      /\ it \in Iterator
  BY PrefetchFacts, QueuedFacts DEF Prefetched, Budgeted
<1>2. \A r : r \in PendingRows
         <=> \E j \in 1..Len(stack) : Wanted(Base + j - 1) /\ r \in RequestRows(j)
  BY <1>1, Pendings DEF PendingMatches
<1>3. \A j \in 1..Len(stack) : Wanted(Base + j - 1)
  <2> TAKE j \in 1..Len(stack)
  <2>1. \/ \E i \in 1..Len(it.queue) : Base + j - 1 \in Unfetched(it.queue[i])
        \/ \E i \in 1..Len(it.hand) : Base + j - 1 \in Unfetched(it.hand[i])
    BY <1>1 DEF Cover
  <2>2. \A i \in 1..Len(it.hand) : Unfetched(it.hand[i]) = {}
    <3> TAKE i \in 1..Len(it.hand)
    <3>1. it.hand[i].mat = Len(it.hand[i].ids) /\ it.hand[i] \in Item
      BY <1>1 DEF Items, Budgeted, Iterator
    <3>2. Len(it.hand[i].ids) \in Nat
      BY <3>1 DEF Item
    <3>3. (Len(it.hand[i].ids) + 1)..Len(it.hand[i].ids) = {}
      BY <3>2
    <3>4. (it.hand[i].mat + 1)..Len(it.hand[i].ids) = {}
      BY <3>1, <3>3
    <3> QED BY <3>4, Zenon DEF Unfetched
  <2> QED BY <2>1, <2>2, Zenon DEF Wanted
<1>4. \A j \in 1..Len(stack) : RequestRows(j) = {stack[j].id} \X (1..stack[j].n)
  BY <1>1 DEF RequestRows, Numbering
<1>5. DOMAIN stack = 1..Len(stack)
  BY <1>1
<1>6. \A r : r \in OutstandingRows
         <=> \E j \in 1..Len(stack) : r \in {stack[j].id} \X (1..stack[j].n)
  BY <1>5, Zenon DEF OutstandingRows
<1>7. \A r : r \in PendingRows <=> r \in OutstandingRows
  <2> TAKE r
  <2>1. r \in PendingRows <=> \E j \in 1..Len(stack) : r \in RequestRows(j)
    BY <1>2, <1>3, Zenon
  <2>2. \A j \in 1..Len(stack) : r \in RequestRows(j)
                                 <=> r \in {stack[j].id} \X (1..stack[j].n)
    BY <1>4, Zenon
  <2>3. r \in OutstandingRows
         <=> \E j \in 1..Len(stack) : r \in {stack[j].id} \X (1..stack[j].n)
    BY <1>6
  <2> QED BY <2>1, <2>2, <2>3, Zenon
<1> QED BY <1>7, Zenon

\* outstanding_io_count is right, and so are the two bounds.
LEMMA BudgetHolds == LoaderInv => BudgetKept
<1> SUFFICES ASSUME LoaderInv PROVE BudgetKept
  OBVIOUS
<1>1. TypeOK /\ cfg.depth \in Nat /\ cfg.depth >= 1
  BY Modes3, DepthIs
<1>2. Len(it.queue) <= cfg.depth
  <2>1. CASE cfg.mode \in Synchronous
    <3>1. it.queue = <<>>
      BY <2>1, SyncFacts DEF SyncQuiet
    <3>2. Len(it.queue) = 0
      BY <3>1
    <3> QED BY <1>1, <3>2
  <2>2. CASE cfg.mode = "pipeline"
    <3>1. Len(it.queue) <= 1 /\ it.queue \in Seq(Item)
      BY <1>1, <2>2, PipelineFacts DEF TypeOK, Iterator
    <3>2. Len(it.queue) \in Nat
      BY <3>1
    <3> QED BY <1>1, <3>1, <3>2
  <2>3. CASE cfg.mode \in Prefetched
    BY <2>3, PrefetchFacts DEF Complete1
  <2> QED BY <2>1, <2>2, <2>3, Modes3
<1>3. ASSUME cfg.mode \in Budgeted, ~stale
      PROVE /\ it.ios = Cardinality(OutstandingRows)
            /\ cfg.budget = 0 \/ it.ios <= cfg.budget \/ Len(stack) = 1
  <2>1. Ios
    BY <1>3, PrefetchFacts, QueuedFacts DEF Prefetched, Budgeted
  <2>2. it.ios = Cardinality(PendingRows)
    BY <1>3, <2>1 DEF Ios
  <2>3. PendingRows = OutstandingRows
    BY <1>3, RowsOutstanding
  <2> QED BY <1>3, <2>1, <2>2, <2>3 DEF Ios
<1> QED BY <1>2, <1>3 DEF BudgetKept

(***************************************************************************)
(* The batches that are due                                                *)
(***************************************************************************)
LEMMA BatchesOfIs ==
    ASSUME NEW s \in Seq(Item)
    PROVE /\ BatchesOf(s) \in Seq(Nat) /\ Len(BatchesOf(s)) = Len(s)
          /\ \A i \in 1..Len(s) : BatchesOf(s)[i] = s[i].batch
<1>1. DOMAIN s = 1..Len(s) /\ Len(s) \in Nat
  OBVIOUS
<1>2. \A i \in 1..Len(s) : s[i].batch \in Nat
  <2> TAKE i \in 1..Len(s)
  <2>1. s[i] \in Item
    OBVIOUS
  <2> QED BY <2>1 DEF Item
<1>3. BatchesOf(s) = [i \in 1..Len(s) |-> s[i].batch]
  BY <1>1 DEF BatchesOf
<1> QED BY <1>1, <1>2, <1>3


LEMMA ConcatNat ==
    ASSUME NEW s \in Seq(Nat), NEW t \in Seq(Nat)
    PROVE /\ s \o t \in Seq(Nat) /\ Len(s \o t) = Len(s) + Len(t)
          /\ \A i \in 1..(Len(s) + Len(t)) :
                 (s \o t)[i] = IF i <= Len(s) THEN s[i] ELSE t[i - Len(s)]
  BY ConcatIs, Zenon

LEMMA EqualNat ==
    ASSUME NEW s \in Seq(Nat), NEW t \in Seq(Nat), Len(s) = Len(t),
           \A i \in 1..Len(s) : s[i] = t[i]
    PROVE s = t
  OBVIOUS

\* A sequence in five pieces.
Pieces(d, a, b, c, p, w) ==
    /\ {d, a, b, c, p, w} \subseteq Seq(Nat)
    /\ Len(d) = Len(a) + Len(b) + Len(c) + Len(p) + Len(w)
    /\ \A i \in 1..Len(a) : d[i] = a[i]
    /\ \A i \in 1..Len(b) : d[Len(a) + i] = b[i]
    /\ \A i \in 1..Len(c) : d[Len(a) + Len(b) + i] = c[i]
    /\ \A i \in 1..Len(p) : d[Len(a) + Len(b) + Len(c) + i] = p[i]
    /\ \A i \in 1..Len(w) : d[Len(a) + Len(b) + Len(c) + Len(p) + i] = w[i]

LEMMA Joined ==
    ASSUME NEW a, NEW b, NEW c, NEW p, NEW w, NEW d, Pieces(d, a, b, c, p, w)
    PROVE d = a \o (b \o c \o p \o w)
<1> DEFINE la == Len(a)
           lb == Len(b)
           lc == Len(c)
           lp == Len(p)
           lw == Len(w)
           x == b \o c
           y == x \o p
           z == y \o w
           e == a \o z
<1>0. /\ a \in Seq(Nat) /\ b \in Seq(Nat) /\ c \in Seq(Nat) /\ p \in Seq(Nat)
      /\ w \in Seq(Nat) /\ d \in Seq(Nat)
  BY Zenon DEF Pieces
<1>1. la \in Nat /\ lb \in Nat /\ lc \in Nat /\ lp \in Nat /\ lw \in Nat
  BY <1>0, LenIs, Zenon
<1>2. x \in Seq(Nat) /\ Len(x) = lb + lc
      /\ \A i \in 1..(lb + lc) : x[i] = IF i <= lb THEN b[i] ELSE c[i - lb]
  BY <1>0, ConcatNat, Zenon
<1> HIDE DEF x
<1>3. y \in Seq(Nat) /\ Len(y) = Len(x) + lp
      /\ \A i \in 1..(Len(x) + lp) : y[i] = IF i <= Len(x) THEN x[i] ELSE p[i - Len(x)]
  <2>1. x \in Seq(Nat) /\ p \in Seq(Nat)
    BY <1>0, <1>2
  <2> QED BY <2>1, ConcatNat, Zenon
<1> HIDE DEF y
<1>4. z \in Seq(Nat) /\ Len(z) = Len(y) + lw
      /\ \A i \in 1..(Len(y) + lw) : z[i] = IF i <= Len(y) THEN y[i] ELSE w[i - Len(y)]
  <2>1. y \in Seq(Nat) /\ w \in Seq(Nat)
    BY <1>0, <1>3
  <2> QED BY <2>1, ConcatNat, Zenon
<1> HIDE DEF z
<1>5. e \in Seq(Nat) /\ Len(e) = la + Len(z)
      /\ \A i \in 1..(la + Len(z)) : e[i] = IF i <= la THEN a[i] ELSE z[i - la]
  <2>1. z \in Seq(Nat) /\ a \in Seq(Nat)
    BY <1>0, <1>4
  <2> QED BY <2>1, ConcatNat, Zenon
<1>6. e = a \o (b \o c \o p \o w)
  BY DEF x, y, z
<1> HIDE DEF e
<1>7. /\ Len(d) = la + lb + lc + lp + lw
      /\ \A i \in 1..la : d[i] = a[i]
      /\ \A i \in 1..lb : d[la + i] = b[i]
      /\ \A i \in 1..lc : d[la + lb + i] = c[i]
      /\ \A i \in 1..lp : d[la + lb + lc + i] = p[i]
      /\ \A i \in 1..lw : d[la + lb + lc + lp + i] = w[i]
  BY DEF Pieces
<1> HIDE DEF la, lb, lc, lp, lw
<1>8. Len(x) = lb + lc /\ Len(y) = lb + lc + lp /\ Len(z) = lb + lc + lp + lw
      /\ Len(e) = la + lb + lc + lp + lw
  BY <1>1, <1>2, <1>3, <1>4, <1>5
<1>9. \A i \in 1..(lb + lc + lp + lw) : d[la + i] = z[i]
  <2> TAKE i \in 1..(lb + lc + lp + lw)
  <2>1. i \in Nat /\ i >= 1 /\ i <= lb + lc + lp + lw
    BY <1>1
  <2>2. CASE i <= lb
    <3>1. i \in 1..lb /\ i \in 1..(lb + lc) /\ i <= lb + lc /\ i <= lb + lc + lp
          /\ i \in 1..(lb + lc + lp)
      BY <1>1, <2>1, <2>2
    <3>2. z[i] = y[i] /\ y[i] = x[i] /\ x[i] = b[i]
      BY <1>2, <1>3, <1>4, <1>8, <2>2, <3>1
    <3> QED BY <1>7, <3>1, <3>2
  <2>3. CASE i > lb /\ i <= lb + lc
    <3>1. i - lb \in 1..lc /\ i \in 1..(lb + lc) /\ i <= lb + lc + lp
          /\ i \in 1..(lb + lc + lp) /\ ~(i <= lb) /\ la + lb + (i - lb) = la + i
      BY <1>1, <2>1, <2>3
    <3>2. z[i] = y[i] /\ y[i] = x[i] /\ x[i] = c[i - lb]
      BY <1>2, <1>3, <1>4, <1>8, <2>3, <3>1
    <3> QED BY <1>7, <3>1, <3>2
  <2>4. CASE i > lb + lc /\ i <= lb + lc + lp
    <3>1. i - (lb + lc) \in 1..lp /\ i \in 1..(lb + lc + lp) /\ ~(i <= lb + lc)
          /\ la + lb + lc + (i - (lb + lc)) = la + i
      BY <1>1, <2>1, <2>4
    <3>2. z[i] = y[i] /\ y[i] = p[i - (lb + lc)]
      BY <1>3, <1>4, <1>8, <2>4, <3>1
    <3>3. d[la + lb + lc + (i - (lb + lc))] = p[i - (lb + lc)]
      BY <1>7, <3>1
    <3> QED BY <3>1, <3>2, <3>3
  <2>5. CASE i > lb + lc + lp
    <3>1. i - (lb + lc + lp) \in 1..lw /\ ~(i <= lb + lc + lp)
          /\ la + lb + lc + lp + (i - (lb + lc + lp)) = la + i
      BY <1>1, <2>1, <2>5
    <3>2. z[i] = w[i - (lb + lc + lp)]
      BY <1>4, <1>8, <2>5, <3>1
    <3>3. d[la + lb + lc + lp + (i - (lb + lc + lp))] = w[i - (lb + lc + lp)]
      BY <1>7, <3>1
    <3> QED BY <3>1, <3>2, <3>3
  <2> QED BY <1>1, <2>1, <2>2, <2>3, <2>4, <2>5
<1>10. \A i \in 1..Len(d) : d[i] = e[i]
  <2> TAKE i \in 1..Len(d)
  <2>1. i \in Nat /\ i >= 1 /\ i <= la + lb + lc + lp + lw
    BY <1>1, <1>7
  <2>2. CASE i <= la
    <3>1. i \in 1..la /\ i \in 1..(la + Len(z))
      BY <1>1, <1>8, <2>1, <2>2
    <3> QED BY <1>5, <1>7, <2>2, <3>1
  <2>3. CASE i > la
    <3>1. i - la \in 1..(lb + lc + lp + lw) /\ i \in 1..(la + Len(z)) /\ ~(i <= la)
          /\ la + (i - la) = i
      BY <1>1, <1>8, <2>1, <2>3
    <3>2. d[la + (i - la)] = z[i - la]
      BY <1>9, <3>1
    <3>3. e[i] = z[i - la]
      BY <1>5, <3>1
    <3> QED BY <3>1, <3>2, <3>3
  <2> QED BY <1>1, <2>1, <2>2, <2>3
<1>11. Len(d) = Len(e) /\ d \in Seq(Nat) /\ e \in Seq(Nat)
  BY <1>0, <1>5, <1>7, <1>8
<1>12. d = e
  BY <1>10, <1>11, EqualNat, Zenon
<1> QED BY <1>6, <1>12
\* All but the last element.
LEMMA FrontIs ==
    ASSUME NEW s \in Seq(Nat), s # <<>>
    PROVE /\ Front(s) \in Seq(Nat) /\ Len(Front(s)) = Len(s) - 1
          /\ \A i \in 1..(Len(s) - 1) : Front(s)[i] = s[i]
<1>1. Len(s) \in Nat /\ Len(s) >= 1
  BY EmptySeq, LenProperties
<1>2. \A i \in 1..(Len(s) - 1) : s[i] \in Nat
  OBVIOUS
<1> DEFINE m == Len(s) - 1
           f == SubSeq(s, 1, m)
<1>3. m \in Nat /\ m + 1 = Len(s) /\ 1 \in Int /\ m \in Int
  BY <1>1
<1> HIDE DEF m
<1>4. \A i \in 1..m : s[i] \in Nat
  BY <1>3
<1>5. f \in Seq(Nat)
  BY <1>3, <1>4, SubSeqProperties
<1>6. Len(f) = IF 1 <= m THEN m - 1 + 1 ELSE 0
  BY <1>3, <1>4, SubSeqProperties
<1>7. \A i \in 1 .. m - 1 + 1 : f[i] = s[1 + i - 1]
  BY <1>3, <1>4, SubSeqProperties
<1>8. Front(s) = f
  BY DEF Front, m
<1> HIDE DEF f
<1>9. Len(f) = m /\ \A i \in 1..m : f[i] = s[i]
  BY <1>3, <1>6, <1>7
<1> QED BY <1>5, <1>8, <1>9 DEF m

\* sampled_queue and the batch the thread holds, without the sentinel.
LEMMA SampledIs ==
    ASSUME Sampler, smp \in SamplerThread
    PROVE /\ Sampled \in Seq(Nat)
          /\ Len(Sampled) = Len(smp.queue) + Len(smp.held)
                            - (IF smp.ended /\ ~it.exhausted THEN 1 ELSE 0)
          /\ \A i \in 1..Len(Sampled) :
                /\ Sampled[i] # Sentinel
                /\ Sampled[i] = IF i <= Len(smp.queue) THEN smp.queue[i]
                                ELSE smp.held[i - Len(smp.queue)]
<1> DEFINE q == smp.queue
           h == smp.held
           s == q \o h
           m == Len(smp.queue)
           n == Len(smp.held)
<1>1. q \in Seq(Nat) /\ h \in Seq(Nat)
  BY DEF SamplerThread
<1>2. m \in Nat /\ n \in Nat /\ n <= 1 /\ (q = <<>> <=> m = 0) /\ (h = <<>> <=> n = 0)
  BY <1>1 DEF Sampler
<1>3. s \in Seq(Nat) /\ Len(s) = m + n
      /\ \A i \in 1..(m + n) : s[i] = IF i <= m THEN q[i] ELSE h[i - m]
  BY <1>1, ConcatNat
<1>4. /\ \A i \in 1..m : q[i] = Sentinel <=> smp.ended /\ h = <<>> /\ i = m
      /\ \A i \in 1..n : h[i] = Sentinel <=> smp.ended
      /\ it.exhausted <=> smp.ended /\ q = <<>> /\ h = <<>>
  BY DEF Sampler
<1>5. Sampled = IF s # <<>> /\ Last(s) = Sentinel THEN Front(s) ELSE s
  BY DEF Sampled
<1> HIDE DEF q, h, s, m, n
<1>6. Last(s) = s[m + n]
  BY <1>3 DEF Last
<1>7. (s = <<>> <=> m + n = 0) /\ (s # <<>> => m + n >= 1)
  BY <1>2, <1>3, LenIs
<1>8. s # <<>> => /\ Front(s) \in Seq(Nat) /\ Len(Front(s)) = m + n - 1
                  /\ \A i \in 1..(m + n - 1) : Front(s)[i] = s[i]
  <2> HAVE s # <<>>
  <2> DEFINE f == Front(s)
  <2>1. f \in Seq(Nat) /\ Len(f) = Len(s) - 1 /\ \A i \in 1..(Len(s) - 1) : f[i] = s[i]
    BY <1>3, FrontIs, Zenon
  <2> HIDE DEF f
  <2>2. f \in Seq(Nat) /\ Len(f) = m + n - 1 /\ \A i \in 1..(m + n - 1) : f[i] = s[i]
    BY <1>2, <1>3, <2>1
  <2> QED BY <2>2, Zenon DEF f
<1>9. CASE smp.ended /\ ~it.exhausted
  <2>1. m + n >= 1 /\ s # <<>> /\ m + n \in 1..(m + n)
    BY <1>2, <1>4, <1>7, <1>9
  <2>2. s[m + n] = Sentinel
    <3>1. CASE n = 1
      <4>1. ~(m + n <= m) /\ m + n - m = 1 /\ 1 \in 1..n
        BY <1>2, <3>1
      <4>2. h[1] = Sentinel
        BY <1>4, <1>9, <4>1
      <4>3. s[m + n] = h[m + n - m]
        BY <1>2, <1>3, <2>1, <4>1
      <4> QED BY <4>1, <4>2, <4>3
    <3>2. CASE n = 0
      <4>1. m + n = m /\ m \in 1..m /\ h = <<>>
        BY <1>2, <2>1, <3>2
      <4> QED BY <1>2, <1>3, <1>4, <1>9, <2>1, <4>1
    <3> QED BY <1>2, <3>1, <3>2
  <2>3. Sampled = Front(s)
    BY <1>5, <1>6, <2>1, <2>2
  <2>4. \A i \in 1..(m + n - 1) : s[i] = q[i] /\ q[i] # Sentinel /\ i <= m
    <3> TAKE i \in 1..(m + n - 1)
    <3>1. i \in 1..m /\ i \in 1..(m + n) /\ i <= m /\ (n = 0 => i # m)
      BY <1>2
    <3> QED BY <1>2, <1>3, <1>4, <3>1
  <2>5. (IF smp.ended /\ ~it.exhausted THEN 1 ELSE 0) = 1
    BY <1>9
  <2> QED BY <1>2, <1>8, <2>1, <2>3, <2>4, <2>5 DEF q, h, m, n
<1>10. CASE ~(smp.ended /\ ~it.exhausted)
  <2>1. (IF smp.ended /\ ~it.exhausted THEN 1 ELSE 0) = 0
    BY <1>10
  <2>2. \A i \in 1..(m + n) : s[i] # Sentinel
    <3> TAKE i \in 1..(m + n)
    <3>1. ~smp.ended
      BY <1>2, <1>4, <1>10
    <3>2. CASE i <= m
      <4>1. i \in 1..m
        BY <1>2, <3>2
      <4> QED BY <1>3, <1>4, <3>1, <3>2, <4>1
    <3>3. CASE ~(i <= m)
      <4>1. i - m \in 1..n
        BY <1>2, <3>3
      <4> QED BY <1>3, <1>4, <3>1, <3>3, <4>1
    <3> QED BY <3>2, <3>3
  <2>3. Sampled = s
    <3>1. s # <<>> => m + n \in 1..(m + n)
      BY <1>2, <1>7
    <3>2. s # <<>> => Last(s) # Sentinel
      BY <1>6, <2>2, <3>1, Zenon
    <3> QED BY <1>5, <3>2, Zenon
  <2>4. /\ Sampled \in Seq(Nat) /\ Len(Sampled) = m + n
        /\ \A i \in 1..(m + n) : /\ Sampled[i] # Sentinel
                                 /\ Sampled[i] = IF i <= m THEN q[i] ELSE h[i - m]
    BY <1>3, <2>2, <2>3
  <2>5. Len(Sampled) = m + n - 0
    BY <1>2, <2>4
  <2> QED BY <2>1, <2>4, <2>5, Zenon DEF q, h, m, n
<1> QED BY <1>9, <1>10
\* A sequence in two pieces.
LEMMA Joined2 ==
    ASSUME NEW a \in Seq(Nat), NEW w \in Seq(Nat), NEW d \in Seq(Nat),
           Len(d) = Len(a) + Len(w), \A i \in 1..Len(a) : d[i] = a[i],
           \A i \in 1..Len(w) : d[Len(a) + i] = w[i]
    PROVE d = a \o w
<1> DEFINE e == a \o w
           m == Len(a)
           n == Len(w)
<1>1. e \in Seq(Nat) /\ Len(e) = m + n
      /\ \A i \in 1..(m + n) : e[i] = IF i <= m THEN a[i] ELSE w[i - m]
  BY ConcatNat, Zenon
<1>2. m \in Nat /\ n \in Nat
  OBVIOUS
<1>3. Len(d) = m + n /\ (\A i \in 1..m : d[i] = a[i]) /\ \A i \in 1..n : d[m + i] = w[i]
  OBVIOUS
<1> HIDE DEF e, m, n
<1>4. \A i \in 1..(m + n) : d[i] = e[i]
  <2> TAKE i \in 1..(m + n)
  <2>1. CASE i <= m
    <3>1. i \in 1..m
      BY <1>2, <2>1
    <3> QED BY <1>1, <1>3, <2>1, <3>1
  <2>2. CASE ~(i <= m)
    <3>1. i - m \in 1..n /\ m + (i - m) = i
      BY <1>2, <2>2
    <3>2. d[m + (i - m)] = w[i - m]
      BY <1>3, <3>1
    <3> QED BY <1>1, <2>2, <3>1, <3>2
  <2> QED BY <2>1, <2>2
<1>5. Len(d) = Len(e) /\ \A i \in 1..Len(d) : d[i] = e[i]
  BY <1>1, <1>3, <1>4
<1>6. d = e
  BY <1>1, <1>5, EqualNat, Zenon
<1> QED BY <1>6 DEF e

LEMMA NatSeq == \A s \in Seq(Nat \ {0}) : s \in Seq(Nat)
  OBVIOUS

\* No batch is dropped or duplicated between the queues.
LEMMA NoBatchLostHolds == LoaderInv => NoBatchLost
<1> SUFFICES ASSUME LoaderInv, it.out # "error" PROVE NoBatchLost
  BY DEF NoBatchLost
<1> DEFINE a == BatchesOf(it.hand)
           b == BatchesOf(it.current)
           c == BatchesOf(it.queue)
           p == BatchesOf(it.pend)
           w == wb.window
           d == due
<1>1. /\ it.hand \in Seq(Item) /\ it.current \in Seq(Item) /\ it.queue \in Seq(Item)
      /\ it.pend \in Seq(Item) /\ wb.window \in Seq(Nat \ {0}) /\ due \in Seq(Nat \ {0})
      /\ smp \in SamplerThread
  BY Modes3 DEF TypeOK, Iterator, WindowBuffer
<1>2. d \in Seq(Nat) /\ w \in Seq(Nat)
  BY <1>1, NatSeq, Zenon
<1>3. /\ a \in Seq(Nat) /\ Len(a) = Len(it.hand)
      /\ \A i \in 1..Len(it.hand) : a[i] = it.hand[i].batch
  BY <1>1, BatchesOfIs, Zenon
<1>4. /\ b \in Seq(Nat) /\ Len(b) = Len(it.current)
      /\ \A i \in 1..Len(it.current) : b[i] = it.current[i].batch
  BY <1>1, BatchesOfIs, Zenon
<1>5. /\ c \in Seq(Nat) /\ Len(c) = Len(it.queue)
      /\ \A i \in 1..Len(it.queue) : c[i] = it.queue[i].batch
  BY <1>1, BatchesOfIs, Zenon
<1>6. /\ p \in Seq(Nat) /\ Len(p) = Len(it.pend)
      /\ \A i \in 1..Len(it.pend) : p[i] = it.pend[i].batch
  BY <1>1, BatchesOfIs, Zenon
<1>7. cfg.mode \in Synchronous /\ d = a \o w => NoBatchLost
  BY DEF NoBatchLost
<1>8. cfg.mode \notin Synchronous /\ d = a \o (b \o c \o p \o Sampled) => NoBatchLost
  BY DEF NoBatchLost
<1> HIDE DEF a, b, c, p, w, d
<1>9. Len(a) \in Nat /\ Len(b) \in Nat /\ Len(c) \in Nat /\ Len(p) \in Nat /\ Len(w) \in Nat
  BY <1>2, <1>3, <1>4, <1>5, <1>6, LenIs
<1>10. CASE cfg.mode \in Synchronous
  <2>1. SyncDue
    BY <1>10, SyncFacts
  <2>2. /\ Len(d) = Len(a) + Len(w)
        /\ \A i \in 1..Len(a) : d[i] = a[i]
        /\ \A i \in 1..Len(w) : d[Len(a) + i] = w[i]
    BY <1>3, <2>1, Zenon DEF SyncDue, d, w
  <2> QED BY <1>2, <1>3, <1>7, <1>10, <2>2, Joined2
<1>11. CASE cfg.mode = "pipeline"
  <2>1. PipelineDue /\ Sampler /\ it.pend = <<>>
    BY <1>11, PipelineFacts
  <2> DEFINE g == Sampled
             q == smp.queue
             h == smp.held
             lq == Len(smp.queue)
             lh == Len(smp.held)
             z == IF smp.ended /\ ~it.exhausted THEN 1 ELSE 0
             la == Len(a)
             lb == Len(b)
             lc == Len(c)
             lp == Len(p)
             lg == Len(g)
  <2>2. /\ g \in Seq(Nat) /\ lg = lq + lh - z
        /\ \A i \in 1..lg : g[i] # Sentinel /\ g[i] = IF i <= lq THEN q[i] ELSE h[i - lq]
    BY <1>1, <2>1, SampledIs, Zenon
  <2>3. lq \in Nat /\ lh \in Nat /\ z \in 0..1 /\ lg \in Nat
    BY <1>1, <2>2 DEF SamplerThread
  <2>4. lp = 0
    BY <1>6, <2>1, EmptyIs
  <2>5. /\ Len(d) = la + lb + lc + lq + lh - z
        /\ \A i \in 1..la : d[i] = a[i]
        /\ \A i \in 1..lb : d[la + i] = b[i]
        /\ \A i \in 1..lc : d[la + lb + i] = c[i]
        /\ \A i \in 1..lq : q[i] # Sentinel => d[la + lb + lc + i] = q[i]
        /\ \A i \in 1..lh : h[i] # Sentinel => d[la + lb + lc + lq + i] = h[i]
    BY <1>3, <1>4, <1>5, <2>1, Zenon DEF PipelineDue, DueOf, d
  <2>6. la \in Nat /\ lb \in Nat /\ lc \in Nat
    BY <1>9
  <2> HIDE DEF g, q, h, lq, lh, z, la, lb, lc, lp, lg
  <2>7. Len(d) = la + lb + lc + lp + lg
    BY <2>2, <2>3, <2>4, <2>5, <2>6
  <2>8. \A i \in 1..lg : d[la + lb + lc + lp + i] = g[i]
    <3> TAKE i \in 1..lg
    <3>1. la + lb + lc + lp + i = la + lb + lc + i
      BY <2>3, <2>4, <2>6
    <3>2. g[i] # Sentinel /\ g[i] = IF i <= lq THEN q[i] ELSE h[i - lq]
      BY <2>2
    <3>3. CASE i <= lq
      <4>1. i \in 1..lq
        BY <2>3, <3>3
      <4> QED BY <2>5, <3>1, <3>2, <3>3, <4>1
    <3>4. CASE ~(i <= lq)
      <4>1. i - lq \in 1..lh /\ la + lb + lc + lq + (i - lq) = la + lb + lc + i
        BY <2>2, <2>3, <2>6, <3>4
      <4>2. h[i - lq] # Sentinel => d[la + lb + lc + lq + (i - lq)] = h[i - lq]
        BY <2>5, <4>1
      <4> QED BY <3>1, <3>2, <3>4, <4>1, <4>2
    <3> QED BY <3>3, <3>4
  <2>9. \A i \in 1..lp : d[la + lb + lc + i] = p[i]
    BY <2>4
  <2>10. Pieces(d, a, b, c, p, g)
    <3>1. {d, a, b, c, p, g} \subseteq Seq(Nat)
      BY <1>2, <1>3, <1>4, <1>5, <1>6, <2>2
    <3> QED BY <2>5, <2>7, <2>8, <2>9, <3>1, Zenon DEF Pieces, la, lb, lc, lp, lg
  <2>11. d = a \o (b \o c \o p \o g)
    BY <2>10, Joined, Zenon
  <2> QED BY <1>8, <1>11, <2>11 DEF g, Synchronous
<1>12. CASE cfg.mode \in Prefetched
  <2>1. PrefetchDue /\ it.current = <<>> /\ smp = NewSampler
    BY <1>12, PrefetchFacts
  <2>2. Sampled = <<>>
    <3>1. smp.queue = <<>> /\ smp.held = <<>>
      BY <2>1 DEF NewSampler
    <3>2. <<>> \o <<>> = <<>>
      OBVIOUS
    <3> QED BY <3>1, <3>2, Zenon DEF Sampled
  <2> DEFINE g == Sampled
             la == Len(a)
             lb == Len(b)
             lc == Len(c)
             lp == Len(p)
             lg == Len(g)
  <2>3. lb = 0 /\ lg = 0 /\ g \in Seq(Nat)
    BY <1>4, <2>1, <2>2, EmptyIs
  <2>4. /\ Len(d) = la + lc + lp
        /\ \A i \in 1..la : d[i] = a[i]
        /\ \A i \in 1..lc : d[la + i] = c[i]
        /\ \A i \in 1..lp : d[la + lc + i] = p[i]
    BY <1>3, <1>5, <1>6, <2>1, Zenon DEF PrefetchDue, BatchesDue, d
  <2>5. la \in Nat /\ lc \in Nat /\ lp \in Nat
    BY <1>9
  <2> HIDE DEF g, la, lb, lc, lp, lg
  <2>6. la + lb = la /\ 1..lb = {} /\ 1..lg = {} /\ Len(d) = la + lb + lc + lp + lg
    BY <2>3, <2>4, <2>5
  <2>7. Pieces(d, a, b, c, p, g)
    <3>1. {d, a, b, c, p, g} \subseteq Seq(Nat)
      BY <1>2, <1>3, <1>4, <1>5, <1>6, <2>3
    <3> QED BY <2>4, <2>6, <3>1, Zenon DEF Pieces, la, lb, lc, lp, lg
  <2>8. d = a \o (b \o c \o p \o g)
    BY <2>7, Joined, Zenon
  <2> QED BY <1>8, <1>12, <2>8 DEF g, Synchronous, Prefetched
<1> QED BY <1>10, <1>11, <1>12, Modes3
\* The batch in hand, if any, and after it the items of prefetch_queue.
LEMMA InHandIs ==
    ASSUME LoaderInv
    PROVE LET h == Len(it.hand)
              n == Len(it.queue)
          IN /\ h \in 0..1 /\ n \in Nat /\ DOMAIN InHand = 1..(h + n)
             /\ \A i \in 1..(h + n) : i <= h => InHand[i] = it.hand[i] /\ i \in 1..h
             /\ \A i \in 1..(h + n) : ~(i <= h) => /\ InHand[i] = it.queue[i - h]
                                                   /\ i - h \in 1..n
             /\ \A i \in 1..h : i \in 1..(h + n) /\ InHand[i] = it.hand[i]
             /\ \A i \in 1..n : h + i \in 1..(h + n) /\ InHand[h + i] = it.queue[i]
<1> DEFINE h == Len(it.hand)
           n == Len(it.queue)
           q == it.queue
           d == it.hand
           e == d \o q
<1>1. d \in Seq(Item) /\ q \in Seq(Item)
  BY Modes3 DEF TypeOK, Iterator
<1>2. /\ e \in Seq(Item) /\ Len(e) = h + n
      /\ \A i \in 1..(h + n) : e[i] = IF i <= h THEN d[i] ELSE q[i - h]
  BY <1>1, ConcatIs, Zenon
<1>3. h \in Nat /\ n \in Nat
  BY <1>1
<1>4. h = 0 \/ h = 1
  BY HandIs, EmptyIs, Zenon
<1>5. InHand = e
  BY DEF InHand
<1> HIDE DEF h, n, q, d, e
<1>6. DOMAIN e = 1..(h + n)
  BY <1>2
<1>7. \A i \in 1..(h + n) : i <= h => e[i] = d[i] /\ i \in 1..h
  BY <1>2, <1>3
<1>8. \A i \in 1..(h + n) : ~(i <= h) => e[i] = q[i - h] /\ i - h \in 1..n
  BY <1>2, <1>3
<1>9. \A i \in 1..h : i \in 1..(h + n) /\ e[i] = d[i]
  BY <1>2, <1>3
<1>10. \A i \in 1..n : h + i \in 1..(h + n) /\ e[h + i] = q[i]
  <2> TAKE i \in 1..n
  <2> DEFINE k == h + i
  <2>1. k \in 1..(h + n) /\ ~(k <= h) /\ k - h = i
    BY <1>3
  <2> HIDE DEF k
  <2>2. e[k] = q[i]
    BY <1>8, <2>1
  <2> QED BY <2>1, <2>2, Zenon DEF k
<1>11. h \in 0..1
  BY <1>4
<1> QED BY <1>3, <1>5, <1>6, <1>7, <1>8, <1>9, <1>10, <1>11, Zenon DEF h, n, q, d

LEMMA IdsDomain == \A x \in Item : DOMAIN x.ids = 1..Len(x.ids) /\ Len(x.ids) \in Nat
                                   /\ x.mat \in Nat
                                   /\ \A k \in 1..Len(x.ids) : x.ids[k] \in Nat
  BY DEF Item

\* The requests of the items are in the order of their identifiers.
LEMMA NumberedHolds == LoaderInv => Numbered(InHand)
<1> SUFFICES ASSUME LoaderInv PROVE Numbered(InHand)
  OBVIOUS
<1> DEFINE h == Len(it.hand)
           n == Len(it.queue)
           q == it.queue
           d == it.hand
           e == InHand
<1>1. /\ h \in 0..1 /\ n \in Nat /\ DOMAIN e = 1..(h + n)
      /\ \A i \in 1..(h + n) : i <= h => e[i] = d[i] /\ i \in 1..h
      /\ \A i \in 1..(h + n) : ~(i <= h) => e[i] = q[i - h] /\ i - h \in 1..n
  BY InHandIs
<1>2. /\ \A i \in 1..h : d[i] \in Item
      /\ \A i \in 1..n : q[i] \in Item
  BY Modes3, ElementIs, Zenon DEF TypeOK, Iterator
<1> HIDE DEF h, n, q, d, e
<1>3. CASE cfg.mode \in Synchronous
  <2>1. n = 0 /\ \A i \in 1..h : d[i].ids = <<>>
    BY <1>3, SyncFacts, EmptyIs, Zenon DEF SyncQuiet, SyncRows, h, n, d
  <2>2. \A i \in 1..(h + n) : DOMAIN e[i].ids = {}
    <3> TAKE i \in 1..(h + n)
    <3>1. i <= h
      BY <1>1, <2>1
    <3>2. e[i].ids = <<>>
      BY <1>1, <2>1, <3>1
    <3>3. DOMAIN <<>> = {}
      OBVIOUS
    <3> QED BY <3>2, <3>3
  <2> QED BY <1>1, <2>2, Zenon DEF Numbered, e
<1>4. CASE cfg.mode \in Queued
  <2>1. /\ \A i \in 1..n : ItemOK(q[i])
        /\ \A i \in 1..h : ItemOK(d[i])
        /\ \A i, j \in 1..n : i < j =>
             \A a \in 1..Len(q[i].ids) : \A b \in 1..Len(q[j].ids) : q[i].ids[a] < q[j].ids[b]
        /\ \A i \in 1..h : \A j \in 1..n :
             \A a \in 1..Len(d[i].ids) : \A b \in 1..Len(q[j].ids) : d[i].ids[a] < q[j].ids[b]
    BY <1>4, QueuedFacts, Zenon DEF Items, Order, h, n, q, d
  <2>2. ASSUME NEW i \in 1..(h + n), NEW j \in 1..(h + n),
               NEW a \in DOMAIN e[i].ids, NEW b \in DOMAIN e[j].ids,
               i < j \/ (i = j /\ a < b)
        PROVE e[i].ids[a] < e[j].ids[b]
    <3>1. CASE i <= h /\ j <= h
      <4>1. e[i] = d[i] /\ e[j] = d[j] /\ i \in 1..h /\ j \in 1..h
        BY <1>1, <3>1
      <4>2. i = j
        BY <1>1, <4>1
      <4>3. a < b
        BY <2>2, <4>2, <1>1
      <4>4. a \in 1..Len(d[i].ids) /\ b \in 1..Len(d[i].ids)
        BY <1>2, <4>1, <4>2, IdsDomain
      <4>5. \A k, m \in 1..Len(d[i].ids) : k < m => d[i].ids[k] < d[i].ids[m]
        BY <2>1, <4>1 DEF ItemOK
      <4> QED BY <4>1, <4>2, <4>3, <4>4, <4>5, Zenon
    <3>2. CASE i <= h /\ ~(j <= h)
      <4>1. e[i] = d[i] /\ e[j] = q[j - h] /\ i \in 1..h /\ j - h \in 1..n
        BY <1>1, <3>2
      <4>2. a \in 1..Len(d[i].ids) /\ b \in 1..Len(q[j - h].ids)
        BY <1>2, <4>1, IdsDomain
      <4> QED BY <2>1, <4>1, <4>2, Zenon
    <3>3. CASE ~(i <= h) /\ j <= h
      BY <1>1, <2>2, <3>3
    <3>4. CASE ~(i <= h) /\ ~(j <= h)
      <4>1. e[i] = q[i - h] /\ e[j] = q[j - h] /\ i - h \in 1..n /\ j - h \in 1..n
        BY <1>1, <3>4
      <4>2. a \in 1..Len(q[i - h].ids) /\ b \in 1..Len(q[j - h].ids)
        BY <1>2, <4>1, IdsDomain
      <4>3. CASE i < j
        <5>1. i - h < j - h
          BY <1>1, <4>3
        <5> QED BY <2>1, <4>1, <4>2, <5>1, Zenon
      <4>4. CASE i = j
        <5>1. a < b
          BY <1>1, <2>2, <4>4
        <5>2. \A k, m \in 1..Len(q[i - h].ids) : k < m => q[i - h].ids[k] < q[i - h].ids[m]
          BY <2>1, <4>1 DEF ItemOK
        <5> QED BY <4>1, <4>2, <4>4, <5>1, <5>2, Zenon
      <4> QED BY <2>2, <4>3, <4>4
    <3> QED BY <3>1, <3>2, <3>3, <3>4
  <2> QED BY <1>1, <2>2, Zenon DEF Numbered, e
<1> QED BY <1>3, <1>4, Modes3 DEF Queued
\* Without an abandoned iterator the stack holds the requests of the items
\* that were not fetched yet.
LEMMA StackHolds ==
    ASSUME LoaderInv, ~stale
    PROVE {stack[i].id : i \in DOMAIN stack} = UNION {Unfetched(InHand[i]) : i \in DOMAIN InHand}
<1> DEFINE h == Len(it.hand)
           n == Len(it.queue)
           q == it.queue
           d == it.hand
           e == InHand
<1>1. /\ h \in 0..1 /\ n \in Nat /\ DOMAIN e = 1..(h + n)
      /\ \A i \in 1..(h + n) : i <= h => e[i] = d[i] /\ i \in 1..h
      /\ \A i \in 1..(h + n) : ~(i <= h) => e[i] = q[i - h] /\ i - h \in 1..n
      /\ \A i \in 1..h : i \in 1..(h + n) /\ e[i] = d[i]
      /\ \A i \in 1..n : h + i \in 1..(h + n) /\ e[h + i] = q[i]
  BY InHandIs
<1>2. /\ \A i \in 1..h : d[i] \in Item
      /\ \A i \in 1..n : q[i] \in Item
      /\ TypeOK /\ Numbering /\ stack \in Seq(Outstanding)
  BY Modes3, ElementIs, Zenon DEF TypeOK, Iterator
<1>3. DOMAIN stack = 1..Len(stack) /\ \A j \in 1..Len(stack) : stack[j].id = Base + j - 1
  BY <1>2 DEF Numbering
<1>4. \A id : id \in {stack[i].id : i \in DOMAIN stack}
              <=> \E j \in 1..Len(stack) : id = Base + j - 1
  BY <1>3, Zenon
<1> HIDE DEF h, n, q, d, e
<1>5. \A id : id \in UNION {Unfetched(e[i]) : i \in DOMAIN e}
              <=> \/ \E i \in 1..n : id \in Unfetched(q[i])
                  \/ \E i \in 1..h : id \in Unfetched(d[i])
  <2> TAKE id
  <2>1. id \in UNION {Unfetched(e[i]) : i \in DOMAIN e}
        <=> \E i \in 1..(h + n) : id \in Unfetched(e[i])
    BY <1>1, Zenon
  <2>2. ASSUME NEW i \in 1..(h + n), id \in Unfetched(e[i])
        PROVE \/ \E k \in 1..n : id \in Unfetched(q[k])
              \/ \E k \in 1..h : id \in Unfetched(d[k])
    BY <1>1, <2>2, Zenon
  <2>3. ASSUME NEW k \in 1..n, id \in Unfetched(q[k])
        PROVE \E i \in 1..(h + n) : id \in Unfetched(e[i])
    BY <1>1, <2>3, Zenon
  <2>4. ASSUME NEW k \in 1..h, id \in Unfetched(d[k])
        PROVE \E i \in 1..(h + n) : id \in Unfetched(e[i])
    BY <1>1, <2>4, Zenon
  <2> QED BY <2>1, <2>2, <2>3, <2>4, Zenon
<1>6. CASE cfg.mode \in Synchronous
  <2>1. n = 0 /\ Len(stack) = 0 /\ \A i \in 1..h : d[i].ids = <<>>
    BY <1>6, SyncFacts, EmptyIs, Zenon DEF SyncQuiet, SyncRows, h, n, d
  <2>2. \A i \in 1..h : Unfetched(d[i]) = {}
    <3> TAKE i \in 1..h
    <3>1. d[i].ids = <<>> /\ d[i].mat \in Nat
      BY <1>2, <2>1 DEF Item
    <3>2. (d[i].mat + 1)..Len(d[i].ids) = {}
      BY <3>1
    <3> QED BY <3>2, Zenon DEF Unfetched
  <2>3. 1..n = {} /\ 1..Len(stack) = {}
    BY <2>1
  <2> QED BY <1>4, <1>5, <2>2, <2>3, Zenon DEF e
<1>7. CASE cfg.mode \in Queued
  <2>1. /\ \A i \in 1..n : ItemOK(q[i]) /\ Linked(q[i])
        /\ \A i \in 1..h : ItemOK(d[i]) /\ Linked(d[i])
        /\ \A j \in 1..Len(stack) :
               \/ \E i \in 1..n : Base + j - 1 \in Unfetched(q[i])
               \/ \E i \in 1..h : Base + j - 1 \in Unfetched(d[i])
    BY <1>7, QueuedFacts, Zenon DEF Items, Link, Cover, h, n, q, d
  <2>2. ASSUME NEW x \in Item, ItemOK(x), Linked(x), NEW id \in Unfetched(x)
        PROVE \E j \in 1..Len(stack) : id = Base + j - 1
    <3>1. PICK k \in (x.mat + 1)..Len(x.ids) : id = x.ids[k]
      BY Zenon DEF Unfetched
    <3>2. k \in 1..Len(x.ids) /\ k > x.mat /\ id \in Nat
      BY <3>1, IdsDomain
    <3>3. id >= Base /\ id < nextId
      BY <2>2, <3>1, <3>2 DEF Linked, ItemOK
    <3>4. id - Base + 1 \in 1..Len(stack) /\ Base \in Nat
      BY <1>2, <3>2, <3>3, InStack
    <3>5. id = Base + (id - Base + 1) - 1
      BY <3>2, <3>4
    <3> QED BY <3>4, <3>5, Zenon
  <2>3. ASSUME NEW id, NEW i \in 1..n, id \in Unfetched(q[i])
        PROVE \E j \in 1..Len(stack) : id = Base + j - 1
    BY <1>2, <2>1, <2>2, <2>3, Zenon
  <2>4. ASSUME NEW id, NEW i \in 1..h, id \in Unfetched(d[i])
        PROVE \E j \in 1..Len(stack) : id = Base + j - 1
    BY <1>2, <2>1, <2>2, <2>4, Zenon
  <2>5. ASSUME NEW id, NEW j \in 1..Len(stack), id = Base + j - 1
        PROVE \/ \E i \in 1..n : id \in Unfetched(q[i])
              \/ \E i \in 1..h : id \in Unfetched(d[i])
    BY <2>1, <2>5, Zenon
  <2>6. \A id : id \in {stack[i].id : i \in DOMAIN stack}
                <=> id \in UNION {Unfetched(e[i]) : i \in DOMAIN e}
    BY <1>4, <1>5, <2>3, <2>4, <2>5, Zenon
  <2> QED BY <2>6, Zenon DEF e
<1> QED BY <1>6, <1>7, Modes3 DEF Queued
\* A get finds the request it is for at the front, answered.
LEMMA FrontHolds ==
    ASSUME LoaderInv, cfg.mode \in Registered, At("get") \/ At("mat") \/ At("cat")
    PROVE FrontIsExpected(stack)
<1>1. CASE cfg.mode = "single"
  <2>1. it.todo # <<>>
    BY DEF At
  <2>2. At("get")
    BY <1>1, <2>1, SingleIs, AtOne
  <2> QED BY <1>1, <2>2, SingleIs
<1>2. CASE cfg.mode = "split"
  <2>1. At("mat")
    BY <1>2, SplitIs DEF SplitAt
  <2> QED BY <1>2, <2>1, SplitIs DEF SplitAt
<1>3. CASE cfg.mode = "cids"
  <2>1. At("cat")
    BY <1>3, CidsIs
  <2> QED BY <1>3, <2>1, CidsIs
<1> QED BY <1>1, <1>2, <1>3 DEF Registered

LEMMA AnsweredHolds ==
    ASSUME LoaderInv, At("get"), it.queue # <<>>
    PROVE stack[1].done
<1>1. it.todo # <<>>
  BY DEF At
<1>2. it.queue \in Seq(Item) /\ Len(it.queue) \in Nat /\ Len(it.queue) >= 1
  BY Modes3, LenIs DEF TypeOK, Iterator
<1>3. CASE cfg.mode \in Synchronous
  BY <1>3, SyncFacts DEF SyncQuiet
<1>4. CASE cfg.mode = "pipeline"
  <2>1. it.queue[1].polled /\ Polled
    BY <1>4, PipelineIs, PipelineFacts, QueuedFacts
  <2>2. cfg.mode \notin Registered /\ 1 \in 1..Len(it.queue)
    BY <1>2, <1>4 DEF Registered
  <2> QED BY <2>1, <2>2, Zenon DEF Polled
<1>5. CASE cfg.mode = "async"
  <2>1. cfg.mode \in Prefetched
    BY <1>5 DEF Prefetched
  <2>2. Polled /\ PrefetchPhase
    BY <2>1, PrefetchFacts, QueuedFacts
  <2>3. it.hand = <<>>
    BY <1>5, AsyncIs
  <2>4. ~IdleP
    BY <1>1 DEF IdleP
  <2>5. ~PostP
    <3>1. Len(<<>>) = 0
      OBVIOUS
    <3> QED BY <2>3, <3>1 DEF PostP
  <2>6. ~WarmP
    BY <1>5, AsyncStepsWarm DEF WarmP, At
  <2>7. it.queue[1].polled
    BY <1>5, <2>2, <2>4, <2>5, <2>6 DEF PrefetchPhase, PreP
  <2>8. cfg.mode \notin Registered /\ 1 \in 1..Len(it.queue)
    BY <1>2, <1>5 DEF Registered
  <2> QED BY <2>2, <2>7, <2>8, Zenon DEF Polled
<1>6. CASE cfg.mode \in Registered
  <2>1. stack # <<>> /\ stack[1].ready
    BY <1>6, FrontHolds DEF FrontIsExpected
  <2>2. 1 \in 1..Len(stack)
    BY <2>1, Modes3, LenIs DEF TypeOK
  <2> QED BY <2>1, <2>2, Modes3 DEF Numbering
<1> QED BY <1>3, <1>4, <1>5, <1>6, Modes3, ModeKinds DEF Registered

\* prefetch_queue and outstanding_queue stay in step.
LEMMA InStepHolds == LoaderInv => InStep
<1> SUFFICES ASSUME LoaderInv PROVE InStep
  OBVIOUS
<1>1. Numbered(InHand)
  BY NumberedHolds
<1>2. \A i, j \in DOMAIN stack : i < j => stack[i].id < stack[j].id
  <2>1. Numbering /\ TypeOK /\ stack \in Seq(Outstanding)
    BY Modes3 DEF TypeOK
  <2>2. DOMAIN stack = 1..Len(stack) /\ Base \in Nat /\ Len(stack) \in Nat
    BY <2>1, InStack
  <2> SUFFICES ASSUME NEW i \in 1..Len(stack), NEW j \in 1..Len(stack), i < j
               PROVE stack[i].id < stack[j].id
    BY <2>2
  <2>3. stack[i].id = Base + i - 1 /\ stack[j].id = Base + j - 1
    BY <2>1 DEF Numbering
  <2> QED BY <2>2, <2>3
<1>3. stale \/ {stack[i].id : i \in DOMAIN stack}
                 = UNION {Unfetched(InHand[i]) : i \in DOMAIN InHand}
  BY StackHolds, Zenon
<1>4. cfg.mode \in Registered /\ (At("get") \/ At("mat") \/ At("cat")) => FrontIsExpected(stack)
  BY FrontHolds, Zenon
<1>5. At("get") /\ it.queue # <<>> => stack[1].done
  BY AnsweredHolds, Zenon
<1> QED BY <1>1, <1>2, <1>3, <1>4, <1>5, Zenon DEF InStep
(***************************************************************************)
(* The properties of the runs                                              *)
(***************************************************************************)
\* prefetch_queue of the iterator and outstanding_queue of BaM_IOStack stay
\* in step: the requests of the items are numbered in their order, the stack
\* holds those that were not fetched, and a get finds the request it is for
\* at the front, answered.
THEOREM QueuesInStep == Spec => []InStep
<1>1. LoaderInv => InStep
  BY InStepHolds
<1> QED BY <1>1, LoaderInductive, PTL

\* Every __next__ returns the batch that was due with exactly its own rows,
\* in whatever order the SSDs answered and however the batch was split,
\* unless an earlier iterator left requests in the stack.
THEOREM OwnBatchesReturned == Spec => []ReturnsOwn
<1>1. LoaderInv => ReturnsOwn
  BY ReturnsOwnHolds
<1> QED BY <1>1, LoaderInductive, PTL

\* No batch that the dataloader produced is dropped or duplicated on its way
\* through pending_batch, sampled_queue, prefetch_queue, current_batch and
\* the window buffer, until a call raises.
THEOREM DrawnBatchesKept == Spec => []NoBatchLost
<1>1. LoaderInv => NoBatchLost
  BY NoBatchLostHolds
<1> QED BY <1>1, LoaderInductive, PTL

\* The prefetching iterators raise StopIteration only when the sampler has
\* ended and every batch of the epoch was returned.
THEOREM EpochsComplete == Spec => []EpochComplete
<1>1. LoaderInv => EpochComplete
  BY EpochHolds
<1> QED BY <1>1, LoaderInductive, PTL

\* outstanding_io_count is the number of rows outstanding in the stack, and
\* prefetch_depth and max_registered_outstanding_ios are respected.
THEOREM BudgetRespected == Spec => []BudgetKept
<1>1. LoaderInv => BudgetKept
  BY BudgetHolds
<1> QED BY <1>1, LoaderInductive, PTL

\* The RuntimeError of _ensure_front_logical_item_fully_submitted is raised
\* for a batch larger than the budget only.
THEOREM RaisesJustified == Spec => []RaisesOnlyOversize
<1>1. LoaderInv => RaisesOnlyOversize
  BY RaisesHolds
<1> QED BY <1>1, LoaderInductive, PTL
=============================================================================
