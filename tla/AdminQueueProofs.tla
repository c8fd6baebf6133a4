-------------------------- MODULE AdminQueueProofs --------------------------
(***************************************************************************)
(* Proofs about AdminQueue, for any number of threads and clients, any     *)
(* size of the queues and any bound on the calls.                          *)
(*                                                                         *)
(* The argument: whoever is between the enqueue and the completion holds   *)
(* the lock (Exclusive), so that one entry of the submission queue is in   *)
(* use for the waiter and one for every wait that has expired              *)
(* (RingAccounting).  While none has expired, the waiter's command is the  *)
(* only one in the rings and the controller (OneInFlight), and the         *)
(* completion at the head is its own.  A client whose calls have not timed *)
(* out has at most one request on its way, and the reply in its inbox is   *)
(* that request's (ClientAlone).                                           *)
(***************************************************************************)
EXTENDS AdminQueue, FiniteSetTheorems, SequenceTheorems, TLAPS

Labels == {"idle", "lock", "enqueue", "wait", "return", "reply", "insert", "drop", "disable", "fault", "destroy"}
ClientCommands == {r \in Commands : r.by \in Clients}

\* What a callback replies with.
Outcomes == {o \in [err : {"ok", "status", "EAGAIN", "ETIME", "rejected"}, cpl : Commands \cup {None}] :
               o.cpl # None => o.err \in {"ok", "status"}}
Answered == [by : Clients, n : Nat, op : AllOps, res : Outcomes]

\* The variables that no other part describes.
Basics ==
    /\ ref \in {"none", "bound"} /\ lives \in 0 .. MaxLives
    /\ lock \in Executors \cup {Owner, None}
    /\ ret \in [Callers -> Results]
    /\ calls \in [Callers -> Nat] /\ \A c \in Callers : calls[c] <= MaxCalls[c]
    /\ desc \in [Callers -> [cq : BOOLEAN, sq : BOOLEAN]]
    /\ info \in Intrs \cup {0} /\ handle \in Intrs \cup {0} /\ up \subseteq Intrs
    /\ stale \subseteq Callers

\* Where the processes are, and with which command.
Places ==
    /\ pc \in [Procs -> Labels]
    /\ \A t \in Threads : pc[t] \in {"idle", "lock", "enqueue", "wait", "return"}
    /\ \A c \in Clients : pc[c] \in {"idle", "wait", "return"}
    /\ \A i \in Intrs : pc[i] \in {"idle", "lock", "enqueue", "wait", "reply"}
    /\ pc[Owner] \in {"idle", "insert", "drop", "disable", "fault", "destroy"}
    /\ cmd \in [Procs -> Commands \cup Answered \cup {None}]
    /\ \A c \in Callers : pc[c] # "idle" => cmd[c] \in Commands /\ cmd[c].by = c /\ cmd[c].n = calls[c]
    /\ \A i \in Intrs : pc[i] \in {"lock", "enqueue", "wait"} => cmd[i] \in ClientCommands
    /\ \A i \in Intrs : pc[i] = "reply" => cmd[i] \in Answered

Rings ==
    /\ asq \in [head : 0 .. QS - 1, tail : 0 .. QS - 1, last : 0 .. QS - 1] /\ asq.last = asq.tail
    /\ acq \in [head : 0 .. CQS - 1, phase : BOOLEAN]
    /\ sqmem \in [0 .. QS - 1 -> Commands \cup {None}]
    /\ cqmem \in [0 .. CQS - 1 -> [cpl : Commands \cup {None}, ok : BOOLEAN, phase : BOOLEAN]]
    /\ dev \in [ready : BOOLEAN, sqHead : 0 .. QS - 1, cqTail : 0 .. CQS - 1, phase : BOOLEAN,
                running : SUBSET Commands, cqs : SUBSET Callers, sqs : SUBSET Callers]
    /\ dev.sqs \subseteq dev.cqs
    /\ lag \in Nat

\* The controller takes no entry that was not written.
Written ==
    \/ \A j \in 0 .. QS - 1 : sqmem[j] \in Commands
    \/ dev.sqHead <= asq.tail /\ \A j \in 0 .. QS - 1 : j < asq.tail => sqmem[j] \in Commands

Relay ==
    /\ requests \in [Intrs -> Seq(ClientCommands)]
    /\ bound \in [Clients -> 0 .. enables]
    /\ inbox \in [Clients -> Seq(Results)]
    /\ since \in [Clients -> Nat]
    /\ enables \in 0 .. MaxEnables

\* The lock is held from the enqueue on, and while handles are released.
Exclusive ==
    /\ \A p \in Executors : pc[p] \in {"enqueue", "wait"} => lock = p
    /\ pc[Owner] \in {"disable", "destroy"} => lock = Owner

\* The interrupts that a client can reach.
Reached(i) ==
    \/ handle # 0 /\ i = handle
    \/ pc[Owner] \in {"insert", "drop"} /\ i = enables

Exports ==
    /\ up \subseteq 1 .. enables
    /\ handle # 0 => handle \in up
    /\ pc[Owner] = "idle" /\ info # 0 => info = handle
    /\ pc[Owner] = "insert" => info = enables
    /\ pc[Owner] \in {"insert", "drop"} => enables \in up /\ handle # enables
    /\ pc[Owner] \in {"drop", "disable", "fault", "destroy"} => info = 0
    /\ pc[Owner] = "disable" => handle # 0
    /\ \A c \in Clients : bound[c] \in up => Reached(bound[c])
    /\ \A i \in Intrs : pc[i] # "idle" \/ requests[i] # <<>> => i \in up /\ Reached(i)

\* Without a queue pair nobody uses it.
Unbound ==
    /\ ref = "none" => pc[Owner] = "idle" /\ handle = 0
    /\ ref = "none" \/ pc[Owner] = "destroy" =>
         \A t \in Threads : pc[t] = "idle" /\ desc[t] = NoQueues

\* The entries of the submission queue in use, without the arithmetic of the
\* code; and RingAccounting without a cardinality.
Used == IF asq.tail >= asq.head THEN asq.tail - asq.head ELSE asq.tail - asq.head + QS

Uses ==
    /\ (\A p \in Executors : pc[p] # "wait") => Used = lag
    /\ \A p \in Executors : pc[p] = "wait" => Used = lag + 1

QueueInv == Basics /\ Places /\ Rings /\ Written /\ Relay /\ Exclusive /\ Exports /\ Unbound /\ Uses

\* The phase tags that the controller has written in this lap.
Tags == \A j \in 0 .. CQS - 1 : cqmem[j].phase = dev.phase <=> j < dev.cqTail

Waiters == {p \in Executors : pc[p] = "wait"}

\* The host has read what the controller has completed; or all but one.
NoneReady == acq.head = dev.cqTail /\ acq.phase = dev.phase
OneReady ==
    /\ dev.cqTail = Next1(acq.head, CQS)
    /\ acq.phase = IF acq.head + 1 = CQS THEN ~dev.phase ELSE dev.phase

OneInFlight ==
    lag = 0 =>
      /\ Waiters = {} => dev.sqHead = asq.tail /\ dev.running = {} /\ NoneReady
      /\ \A p \in Waiters :
           \/ /\ dev.sqHead # asq.tail /\ Next1(dev.sqHead, QS) = asq.tail /\ sqmem[dev.sqHead] = cmd[p]
              /\ dev.running = {} /\ NoneReady
           \/ dev.sqHead = asq.tail /\ dev.running = {cmd[p]} /\ NoneReady
           \/ dev.sqHead = asq.tail /\ dev.running = {} /\ OneReady /\ cqmem[acq.head].cpl = cmd[p]

Expired == \A c \in Callers \ stale : lag = 0

\* The command of a callback that replies, without its result.
Asked(i) == [by |-> cmd[i].by, n |-> cmd[i].n, op |-> cmd[i].op]

RightReplies ==
    lag = 0 => \A i \in Intrs : pc[i] = "reply" /\ cmd[i].res.cpl # None => cmd[i].res.cpl = Asked(i)

\* A request of a client since it was bound: in a queue, in a callback.
InQueue(c, i, j) == requests[i][j].by = c /\ requests[i][j].n > since[c]
InCall(c, i) == pc[i] # "idle" /\ cmd[i].by = c /\ cmd[i].n > since[c]

Numbered(c) ==
    /\ since[c] <= calls[c] /\ (pc[c] # "idle" => since[c] < calls[c])
    /\ \A i \in Intrs : \A j \in 1 .. Len(requests[i]) : requests[i][j].by = c => requests[i][j].n <= calls[c]
    /\ \A i \in Intrs : pc[i] # "idle" /\ cmd[i].by = c => cmd[i].n <= calls[c]

\* Such a request is the one that the client waits for, and there is no other.
Asking(c) == pc[c] = "wait" /\ inbox[c] = <<>>
Queued(c) ==
    \A i \in Intrs : \A j \in 1 .. Len(requests[i]) :
      InQueue(c, i, j) => Asking(c) /\ requests[i][j] = cmd[c]
Called(c) == \A i \in Intrs : InCall(c, i) => Asking(c) /\ Asked(i) = cmd[c]
Alone(c) ==
    \A i, k \in Intrs :
      /\ InCall(c, i) /\ InCall(c, k) => i = k
      /\ \A j \in 1 .. Len(requests[i]) : InQueue(c, i, j) => ~InCall(c, k)
      /\ \A j \in 1 .. Len(requests[i]) : \A l \in 1 .. Len(requests[k]) :
           InQueue(c, i, j) /\ InQueue(c, k, l) => i = k /\ j = l
Received(c) ==
    inbox[c] # <<>> => pc[c] = "wait" /\ Len(inbox[c]) = 1 /\ Head(inbox[c]).cpl \in {None, cmd[c]}

ClientOk(c) == Numbered(c) /\ (c \notin stale => Queued(c) /\ Called(c) /\ Alone(c) /\ Received(c))
ClientAlone == \A c \in Clients : ClientOk(c)

OwnRest == Tags /\ OneInFlight /\ Expired /\ RightReplies /\ ClientAlone /\ OwnCompletion
OwnInv == QueueInv /\ OwnRest

\* The descriptors of a thread after its call, and the queues it has.
AfterCq(t, op) == IF op = "create_cq" THEN TRUE ELSE IF op = "delete_cq" THEN FALSE ELSE desc[t].cq
AfterSq(t, op) == IF op = "create_sq" THEN TRUE ELSE IF op = "delete_sq" THEN FALSE ELSE desc[t].sq
Same(t) == (desc[t].cq <=> t \in dev.cqs) /\ (desc[t].sq <=> t \in dev.sqs)
Changed(t) == (AfterCq(t, cmd[t].op) <=> t \in dev.cqs) /\ (AfterSq(t, cmd[t].op) <=> t \in dev.sqs)

Desc(t) ==
    (t \notin stale /\ ref = "bound" /\ pc[Owner] # "destroy") =>
      /\ pc[t] \in {"idle", "lock", "enqueue"} \/ (pc[t] = "wait" /\ NoneReady) => Same(t)
      /\ pc[t] = "wait" /\ ~NoneReady => IF cqmem[acq.head].ok THEN Changed(t) ELSE Same(t)
      /\ pc[t] = "return" => IF ret[t].err = "ok" THEN Changed(t) ELSE Same(t)
Described == \A t \in Threads : Desc(t)

DescInv == OwnInv /\ Described

-----------------------------------------------------------------------------
\* The processes of different kinds are different.
LEMMA Kinds ==
  /\ \A t \in Threads : t \notin Clients /\ t \notin Intrs /\ t # Owner /\ t # None
  /\ \A c \in Clients : c \notin Intrs /\ c # Owner /\ c # None
  /\ \A i \in Intrs : i # Owner /\ i # None
  /\ Owner # None /\ Owner \notin Executors /\ Owner \in Procs /\ Owner \notin Callers
  /\ \A p \in Executors : p # None
  /\ Threads \subseteq Executors /\ Intrs \subseteq Executors
  /\ Threads \subseteq Callers /\ Clients \subseteq Callers
  /\ Callers \subseteq Procs /\ Intrs \subseteq Procs /\ Executors \subseteq Procs
BY ProcAssumption, BoundAssumption DEF Callers, Intrs, Owner, Procs, Executors

LEMMA Multiple == ASSUME NEW n \in Nat, n >= 2, 65536 % n = 0 PROVE \E k \in Int : 65536 = n * k
BY Z3

LEMMA Remainder ==
  ASSUME NEW n \in Nat, n >= 2, NEW q \in Int, NEW r \in Int, 0 <= r, r < n
  PROVE  (n * q + r) % n = r
BY Z3

\* The code's two remainders are the distance from head to tail.
LEMMA SqUsedIsUsed == ASSUME Rings PROVE SqUsed = Used
<1> DEFINE h == asq.head
           t == asq.tail
<1>1. h \in 0 .. QS - 1 /\ t \in 0 .. QS - 1
  BY DEF Rings
<1>2. QS \in Nat /\ QS >= 2 /\ 65536 % QS = 0
  BY QueueAssumption
<1>3. PICK a \in Int : a = h
  BY <1>1
<1>4. PICK b \in Int : b = t
  BY <1>1
<1>5. PICK k \in Int : 65536 = QS * k
  BY <1>2, Multiple
<1>6. QS <= 65536
  BY <1>5, <1>2
<1>7. 0 <= a /\ a < QS /\ 0 <= b /\ b < QS
  BY <1>1, <1>2, <1>3, <1>4
<1>8. CASE b >= a
  <2>1. (b - a) % 65536 = b - a
    BY <1>6, <1>7, <1>8, <1>2
  <2>2. (b - a) % QS = b - a
    BY <1>7, <1>8, <1>2
  <2> QED BY <2>1, <2>2, <1>3, <1>4, <1>8 DEF SqUsed, Used
<1>9. CASE b < a
  <2>1. (b - a) % 65536 = b - a + 65536
    BY <1>6, <1>7, <1>9, <1>2
  <2>2. b - a + 65536 = QS * (k - 1) + (b - a + QS)
    BY <1>5, <1>2
  <2>3. 0 <= b - a + QS /\ b - a + QS < QS
    BY <1>7, <1>9, <1>2
  <2>4. PICK q \in Int : q = k - 1
    OBVIOUS
  <2>5. PICK r \in Int : r = b - a + QS
    BY <1>2
  <2>6. (QS * q + r) % QS = r
    BY ONLY <2>3, <2>5, <1>2, q \in Int, r \in Int, Remainder
  <2>7. (b - a + 65536) % QS = b - a + QS
    BY <2>2, <2>4, <2>5, <2>6
  <2> QED BY <2>1, <2>7, <1>3, <1>4, <1>9, <1>2 DEF SqUsed, Used
<1> QED BY <1>8, <1>9

\* At most one process waits for the controller: the holder of the lock.
LEMMA WaitersCounted ==
  ASSUME QueueInv
  PROVE  /\ (\A p \in Executors : pc[p] # "wait") => Cardinality({p \in Executors : pc[p] = "wait"}) = 0
         /\ \A p \in Executors : pc[p] = "wait" => Cardinality({q \in Executors : pc[q] = "wait"}) = 1
<1> DEFINE W == {p \in Executors : pc[p] = "wait"}
<1>1. ASSUME \A p \in Executors : pc[p] # "wait" PROVE Cardinality(W) = 0
  BY <1>1, W = {}, FS_EmptySet
<1>2. ASSUME NEW p \in Executors, pc[p] = "wait" PROVE Cardinality(W) = 1
  <2>1. \A q \in Executors : pc[q] = "wait" => q = p
    BY <1>2 DEF QueueInv, Exclusive
  <2>2. W = {p}
    BY <2>1, <1>2
  <2> QED BY <2>2, FS_Singleton
<1> QED BY <1>1, <1>2

LEMMA QueueInvImplies == ASSUME QueueInv PROVE TypeOK /\ RingAccounting /\ ExportIsLive
<1>1. TypeOK
  <2>1. {info, handle} \subseteq Intrs \cup {0}
    BY DEF QueueInv, Basics
  <2>2. dev.running \subseteq Commands /\ dev.sqs \subseteq dev.cqs
    BY DEF QueueInv, Rings
  <2>3. \A p \in Procs : pc[p] \in Labels
    BY DEF QueueInv, Places
  <2>4. asq \in [head: 0 .. QS - 1, tail: 0 .. QS - 1, last: 0 .. QS - 1]
        /\ acq \in [head: 0 .. CQS - 1, phase: BOOLEAN]
        /\ sqmem \in [0 .. QS - 1 -> Commands \cup {None}] /\ lag \in Nat
    BY DEF QueueInv, Rings
  <2> QED BY <2>1, <2>2, <2>3, <2>4 DEF QueueInv, Basics, TypeOK, Labels
<1>2. RingAccounting
  <2> DEFINE n == Cardinality({p \in Executors : pc[p] = "wait"})
  <2>1. SqUsed = Used
    BY SqUsedIsUsed DEF QueueInv
  <2>2. CASE \A p \in Executors : pc[p] # "wait"
    <3>1. n = 0 /\ Used = lag
      BY <2>2, WaitersCounted DEF QueueInv, Uses
    <3>2. lag \in Nat
      BY DEF QueueInv, Rings
    <3> HIDE DEF n
    <3>3. SqUsed = lag + n
      BY <3>1, <3>2, <2>1
    <3> QED BY <3>3 DEF RingAccounting, n
  <2>3. CASE \E p \in Executors : pc[p] = "wait"
    <3>1. n = 1 /\ Used = lag + 1
      BY <2>3, WaitersCounted DEF QueueInv, Uses
    <3> HIDE DEF n
    <3>3. SqUsed = lag + n
      BY <3>1, <2>1
    <3> QED BY <3>3 DEF RingAccounting, n
  <2> QED BY <2>2, <2>3
<1>3. ExportIsLive
  BY DEF QueueInv, Exports, ExportIsLive
<1> QED BY <1>1, <1>2, <1>3

LEMMA QueueInvInit == Init => QueueInv
<1> SUFFICES ASSUME Init PROVE QueueInv
  OBVIOUS
<1> USE Kinds, QueueAssumption, BoundAssumption DEF Init
<1>1. Basics
  BY DEF Basics, Results, NoResult, NoQueues
<1>2. Places
  BY DEF Places, Labels
<1>3. Rings
  BY DEF Rings, EmptyAsq, EmptyAcq, EmptyCqmem, ResetDev
<1>4. Written
  BY DEF Written, EmptyAsq, ResetDev
<1>5. Relay
  <2>1. \A i \in Intrs : requests[i] = <<>>
    OBVIOUS
  <2> QED BY DEF Relay
<1>6. Exclusive
  BY DEF Exclusive
<1>7. Exports
  BY DEF Exports, Reached
<1>8. Unbound
  BY DEF Unbound
<1>9. Uses
  BY DEF Uses, Used, EmptyAsq
<1> QED BY <1>1, <1>2, <1>3, <1>4, <1>5, <1>6, <1>7, <1>8, <1>9 DEF QueueInv
LEMMA FetchKeeps ==
  ASSUME QueueInv, DevFetch
  PROVE  QueueInv'
<1> USE Kinds
<1>1. /\ dev.sqHead # asq.last
      /\ dev' = [dev EXCEPT !.sqHead = Next1(@, QS), !.running = @ \cup {sqmem[dev.sqHead]}]
      /\ UNCHANGED <<ref, lives, lock, pc, cmd, ret, calls, asq, sqmem, acq, cqmem, desc, info, handle, up, enables, requests, bound, inbox, since, lag, stale>>
  BY DEF DevFetch, life, qvars, rpcvars, hist
<1>2. sqmem[dev.sqHead] \in Commands
  BY <1>1 DEF QueueInv, Rings, Written
<1>3. dev'.sqHead = Next1(dev.sqHead, QS) /\ dev'.sqHead \in 0 .. QS - 1
  BY <1>1, QueueAssumption DEF QueueInv, Rings, Next1
<1>cBasics. Basics'
  BY <1>1 DEF QueueInv, Basics, Results
<1>cPlaces. Places'
  BY <1>1 DEF QueueInv, Places, Labels, ClientCommands, Commands
<1>cRings. Rings'
  BY <1>1, <1>2, <1>3 DEF QueueInv, Rings
<1>cWritten. Written'
  BY <1>1, <1>3, QueueAssumption DEF QueueInv, Rings, Written, Next1
<1>cRelay. Relay'
  BY <1>1 DEF QueueInv, Relay
<1>cExclusive. Exclusive'
  BY <1>1 DEF QueueInv, Exclusive
<1>cExports. Exports'
  BY <1>1 DEF QueueInv, Exports, Reached
<1>cUnbound. Unbound'
  BY <1>1 DEF QueueInv, Unbound
<1>cUses. Uses'
  BY <1>1 DEF QueueInv, Uses, Used
<1> QED BY <1>cBasics, <1>cPlaces, <1>cRings, <1>cWritten, <1>cRelay, <1>cExclusive, <1>cExports, <1>cUnbound, <1>cUses DEF QueueInv

\* The controller never has a submission queue without its completion queue.
LEMMA DevEffect ==
  ASSUME QueueInv, NEW c, DevComplete(c)
  PROVE  /\ dev' \in [ready : BOOLEAN, sqHead : 0 .. QS - 1, cqTail : 0 .. CQS - 1, phase : BOOLEAN,
                     running : SUBSET Commands, cqs : SUBSET Callers, sqs : SUBSET Callers]
         /\ dev'.sqs \subseteq dev'.cqs /\ dev'.sqHead = dev.sqHead
         /\ dev'.running = dev.running \ {c}
         /\ dev'.cqTail = Next1(dev.cqTail, CQS)
         /\ dev'.phase = IF dev.cqTail + 1 = CQS THEN ~dev.phase ELSE dev.phase
         /\ dev'.cqs = CASE c.op = "create_cq" /\ Accepted(c) -> dev.cqs \cup {c.by}
                         [] c.op = "delete_cq" /\ Accepted(c) -> dev.cqs \ {c.by}
                         [] OTHER -> dev.cqs
         /\ dev'.sqs = CASE c.op = "create_sq" /\ Accepted(c) -> dev.sqs \cup {c.by}
                         [] c.op = "delete_sq" /\ Accepted(c) -> dev.sqs \ {c.by}
                         [] OTHER -> dev.sqs
<1>1. c \in Commands
  BY DEF DevComplete, QueueInv, Rings
<1>2. c.op \in AllOps /\ c.by \in Callers
  BY <1>1 DEF Commands
<1>3. /\ dev \in [ready : BOOLEAN, sqHead : 0 .. QS - 1, cqTail : 0 .. CQS - 1, phase : BOOLEAN,
                 running : SUBSET Commands, cqs : SUBSET Callers, sqs : SUBSET Callers]
      /\ dev.sqs \subseteq dev.cqs
  BY DEF QueueInv, Rings
<1> DEFINE cqs == CASE c.op = "create_cq" /\ Accepted(c) -> dev.cqs \cup {c.by}
                   [] c.op = "delete_cq" /\ Accepted(c) -> dev.cqs \ {c.by}
                   [] OTHER -> dev.cqs
           sqs == CASE c.op = "create_sq" /\ Accepted(c) -> dev.sqs \cup {c.by}
                   [] c.op = "delete_sq" /\ Accepted(c) -> dev.sqs \ {c.by}
                   [] OTHER -> dev.sqs
           tail == Next1(dev.cqTail, CQS)
           ph == IF dev.cqTail + 1 = CQS THEN ~dev.phase ELSE dev.phase
<1>4. cqs \subseteq Callers /\ sqs \subseteq Callers
  BY <1>2, <1>3
<1>5. sqs \subseteq cqs
  BY <1>2, <1>3 DEF Accepted
<1>6. tail \in 0 .. CQS - 1 /\ ph \in BOOLEAN
  <2>1. tail \in 0 .. CQS - 1
    BY <1>3, QueueAssumption DEF Next1
  <2>2. dev.phase \in BOOLEAN
    BY <1>3
  <2>3. ph \in BOOLEAN
    BY <2>2, Zenon
  <2> QED BY <2>1, <2>3
<1>7. dev' = [dev EXCEPT !.running = @ \ {c}, !.cqTail = tail, !.phase = ph, !.cqs = cqs, !.sqs = sqs]
  BY DEF DevComplete
<1> HIDE DEF cqs, sqs, tail, ph
<1>8. /\ dev' \in [ready : BOOLEAN, sqHead : 0 .. QS - 1, cqTail : 0 .. CQS - 1, phase : BOOLEAN,
                  running : SUBSET Commands, cqs : SUBSET Callers, sqs : SUBSET Callers]
      /\ dev'.sqHead = dev.sqHead /\ dev'.running = dev.running \ {c} /\ dev'.cqTail = tail
      /\ dev'.phase = ph /\ dev'.cqs = cqs /\ dev'.sqs = sqs
  BY ONLY <1>3, <1>4, <1>6, <1>7
<1>9. dev'.sqs \subseteq dev'.cqs /\ dev'.cqTail = Next1(dev.cqTail, CQS)
  BY <1>8, <1>5 DEF tail
<1> QED BY <1>8, <1>9 DEF ph, cqs, sqs

LEMMA CompleteKeeps ==
  ASSUME QueueInv, NEW c, DevComplete(c)
  PROVE  QueueInv'
<1> USE Kinds
<1>1. /\ c \in dev.running
      /\ \E e \in [cpl : Commands, ok : BOOLEAN, phase : BOOLEAN] : cqmem' = [cqmem EXCEPT ![dev.cqTail] = e]
      /\ UNCHANGED <<ref, lives, lock, pc, cmd, ret, calls, asq, sqmem, acq, desc, info, handle, up, enables, requests, bound, inbox, since, lag, stale>>
  <2>1. c \in dev.running /\ c \in Commands
    BY DEF DevComplete, QueueInv, Rings
  <2>2. Accepted(c) \in BOOLEAN
    <3>1. c.op \in AllOps
      BY <2>1 DEF Commands
    <3>2. CASE c.op \in {"identify", "log_page", "num_queues"}
      BY <3>2 DEF Accepted
    <3>3. CASE c.op = "create_cq"
      BY <3>3 DEF Accepted
    <3>4. CASE c.op = "create_sq"
      BY <3>4 DEF Accepted
    <3>5. CASE c.op = "delete_sq"
      BY <3>5 DEF Accepted
    <3>6. CASE c.op = "delete_cq"
      BY <3>6 DEF Accepted
    <3> QED BY <3>1, <3>2, <3>3, <3>4, <3>5, <3>6 DEF AllOps
  <2>3. [cpl |-> c, ok |-> Accepted(c), phase |-> dev.phase] \in [cpl : Commands, ok : BOOLEAN, phase : BOOLEAN]
    BY <2>1, <2>2 DEF QueueInv, Rings
  <2> HIDE DEF Commands
  <2> QED BY <2>1, <2>3 DEF DevComplete, life, qvars, rpcvars, hist
<1>2. /\ dev' \in [ready : BOOLEAN, sqHead : 0 .. QS - 1, cqTail : 0 .. CQS - 1, phase : BOOLEAN,
                  running : SUBSET Commands, cqs : SUBSET Callers, sqs : SUBSET Callers]
      /\ dev'.sqs \subseteq dev'.cqs /\ dev'.sqHead = dev.sqHead
  BY DevEffect
<1>cBasics. Basics'
  BY <1>1 DEF QueueInv, Basics, Results
<1>cPlaces. Places'
  BY <1>1 DEF QueueInv, Places, Labels, ClientCommands, Commands
<1>cRings. Rings'
  BY <1>1, <1>2 DEF QueueInv, Rings
<1>cWritten. Written'
  BY <1>1, <1>2 DEF QueueInv, Rings, Written
<1>cRelay. Relay'
  BY <1>1 DEF QueueInv, Relay
<1>cExclusive. Exclusive'
  BY <1>1 DEF QueueInv, Exclusive
<1>cExports. Exports'
  BY <1>1 DEF QueueInv, Exports, Reached
<1>cUnbound. Unbound'
  BY <1>1 DEF QueueInv, Unbound
<1>cUses. Uses'
  BY <1>1 DEF QueueInv, Uses, Used
<1> QED BY <1>cBasics, <1>cPlaces, <1>cRings, <1>cWritten, <1>cRelay, <1>cExclusive, <1>cExports, <1>cUnbound, <1>cUses DEF QueueInv
\* The command of a process that executes one.
LEMMA CommandOf ==
  ASSUME QueueInv, NEW p \in Executors, pc[p] \in {"lock", "enqueue", "wait"}
  PROVE  /\ cmd[p] \in Commands /\ cmd[p].by \in Callers
         /\ p \in Threads => cmd[p].by = p
         /\ p \in Intrs => cmd[p].by \in Clients
BY Kinds DEF QueueInv, Places, Executors, ClientCommands, Commands

\* What Finish does: a thread gets its result, a callback goes on to reply.
LEMMA FinishEffect ==
  ASSUME QueueInv, NEW p \in Executors, pc[p] \in {"enqueue", "wait"},
         NEW result \in Outcomes, result \in Results, Finish(p, result), UNCHANGED calls
  PROVE  /\ lock' = None
         /\ \A q \in Procs : pc'[q] = IF q = p THEN (IF p \in Threads THEN "return" ELSE "reply") ELSE pc[q]
         /\ \A q \in Procs : q # p \/ p \in Threads => cmd'[q] = cmd[q]
         /\ p \in Intrs => cmd'[p] = [by |-> cmd[p].by, n |-> cmd[p].n, op |-> cmd[p].op, res |-> result]
         /\ \A c \in Callers : ret'[c] = IF c = p THEN result ELSE ret[c]
         /\ ret' \in [Callers -> Results]
         /\ Places'
<1> USE Kinds
<1>1. /\ cmd[p] \in Commands /\ cmd[p].by \in Callers
      /\ p \in Threads => cmd[p].by = p
      /\ p \in Intrs => cmd[p].by \in Clients
  BY CommandOf
<1>2. pc \in [Procs -> Labels] /\ cmd \in [Procs -> Commands \cup Answered \cup {None}] /\ ret \in [Callers -> Results]
  BY DEF QueueInv, Basics, Places
<1>3. PICK l \in {"return", "reply"} : l = IF p \in Threads THEN "return" ELSE "reply"
  OBVIOUS
<1>4. /\ pc' = [pc EXCEPT ![p] = l]
      /\ \A q \in Procs : pc'[q] = IF q = p THEN l ELSE pc[q]
  BY <1>2, <1>3 DEF Finish
<1>5. /\ \A c \in Callers : ret'[c] = IF c = p THEN result ELSE ret[c]
      /\ ret' \in [Callers -> Results]
  <2>1. CASE p \in Threads
    <3>1. ret' = [ret EXCEPT ![p] = result]
      BY <2>1, <1>1 DEF Finish
    <3> QED BY <3>1, <1>2
  <2>2. CASE p \in Intrs
    <3>1. ret' = [ret EXCEPT ![cmd[p].by] = @]
      BY <2>2 DEF Finish
    <3> QED BY <3>1, <1>2, <2>2, <1>1 DEF Callers
  <2> QED BY <2>1, <2>2 DEF Executors
<1>6. PICK new \in Commands \cup Answered \cup {None} :
         /\ cmd' = [cmd EXCEPT ![p] = new]
         /\ p \in Threads => new = cmd[p]
         /\ p \in Intrs => /\ new \in Answered
                           /\ new = [by |-> cmd[p].by, n |-> cmd[p].n, op |-> cmd[p].op, res |-> result]
  <2>1. CASE p \in Threads
    BY <2>1, <1>1 DEF Finish
  <2>2. CASE p \in Intrs
    <3>1. cmd' = [cmd EXCEPT ![p] = [by |-> cmd[p].by, n |-> cmd[p].n, op |-> cmd[p].op, res |-> result]]
      BY <2>2 DEF Finish
    <3>2. [by |-> cmd[p].by, n |-> cmd[p].n, op |-> cmd[p].op, res |-> result] \in Answered
      BY <1>1, <2>2 DEF Answered, Commands
    <3> QED BY <3>1, <3>2, <2>2
  <2> QED BY <2>1, <2>2 DEF Executors
<1>7. /\ cmd' \in [Procs -> Commands \cup Answered \cup {None}]
      /\ \A q \in Procs : cmd'[q] = IF q = p THEN new ELSE cmd[q]
  BY <1>2, <1>6
<1>8. Places'
  <2>1. pc' \in [Procs -> Labels]
    BY <1>2, <1>4 DEF Labels
  <2>2. \A c \in Callers : pc'[c] # "idle" =>
           cmd'[c] \in Commands /\ cmd'[c].by = c /\ cmd'[c].n = calls'[c]
    <3>1. \A c \in Callers : pc[c] # "idle" => cmd[c] \in Commands /\ cmd[c].by = c /\ cmd[c].n = calls[c]
      BY DEF QueueInv, Places
    <3>2. \A c \in Callers : c \notin Intrs /\ c \in Procs
      BY DEF Callers
    <3>3. \A c \in Callers : c = p => p \in Threads
      BY <3>2 DEF Executors
    <3>4. \A c \in Callers : cmd'[c] = cmd[c] /\ (pc'[c] # "idle" => pc[c] # "idle")
      BY <3>2, <3>3, <1>4, <1>6, <1>7
    <3> QED BY <3>1, <3>4
  <2>3. \A i \in Intrs : /\ pc'[i] \in {"lock", "enqueue", "wait"} => cmd'[i] \in ClientCommands
                         /\ pc'[i] = "reply" => cmd'[i] \in Answered
    BY <1>3, <1>4, <1>6, <1>7 DEF QueueInv, Places
  <2>4. /\ \A t \in Threads : pc'[t] \in {"idle", "lock", "enqueue", "wait", "return"}
        /\ \A c \in Clients : pc'[c] \in {"idle", "wait", "return"}
        /\ \A i \in Intrs : pc'[i] \in {"idle", "lock", "enqueue", "wait", "reply"}
        /\ pc'[Owner] \in {"idle", "insert", "drop", "disable", "fault", "destroy"}
    <3>1. /\ \A t \in Threads : pc[t] \in {"idle", "lock", "enqueue", "wait", "return"}
          /\ \A c \in Clients : pc[c] \in {"idle", "wait", "return"}
          /\ \A i \in Intrs : pc[i] \in {"idle", "lock", "enqueue", "wait", "reply"}
          /\ pc[Owner] \in {"idle", "insert", "drop", "disable", "fault", "destroy"}
      BY DEF QueueInv, Places
    <3>2. \A c \in Clients : c # p
      BY DEF Executors
    <3> QED BY ONLY <3>1, <3>2, <1>3, <1>4, Kinds
  <2> QED BY <2>1, <2>2, <2>3, <2>4, <1>7 DEF Places
<1>9. lock' = None
  BY DEF Finish
<1> QED BY <1>3, <1>4, <1>5, <1>6, <1>7, <1>8, <1>9

\* What only an executor's step of its own changes keeps the rest.
LEMMA ExecutorStep ==
  ASSUME QueueInv, NEW p \in Executors, pc[p] \in {"enqueue", "wait"},
         \A q \in Procs : q # p => pc'[q] = pc[q],
         pc'[p] # "idle",
         UNCHANGED <<ref, lives, desc, info, handle, up, enables, requests, bound, inbox, since>>
  PROVE  Relay' /\ Exports' /\ Unbound'
<1> USE Kinds
<1>1. Relay'
  BY DEF QueueInv, Relay
<1>2. Exports'
  BY DEF QueueInv, Exports, Reached, Executors
<1>3. Unbound'
  BY DEF QueueInv, Unbound, Executors
<1> QED BY <1>1, <1>2, <1>3
\* A step of one process keeps Places if the process ends where it may be.
LEMMA PlacesStep ==
  ASSUME QueueInv, NEW p \in Procs,
         pc' \in [Procs -> Labels], cmd' \in [Procs -> Commands \cup Answered \cup {None}],
         \A q \in Procs : q # p => pc'[q] = pc[q] /\ cmd'[q] = cmd[q],
         \A c \in Callers : c # p => calls'[c] = calls[c],
         p \in Threads => pc'[p] \in {"idle", "lock", "enqueue", "wait", "return"},
         p \in Clients => pc'[p] \in {"idle", "wait", "return"},
         p \in Intrs => pc'[p] \in {"idle", "lock", "enqueue", "wait", "reply"},
         p = Owner => pc'[p] \in {"idle", "insert", "drop", "disable", "fault", "destroy"},
         p \in Callers /\ pc'[p] # "idle" => cmd'[p] \in Commands /\ cmd'[p].by = p /\ cmd'[p].n = calls'[p],
         p \in Intrs /\ pc'[p] \in {"lock", "enqueue", "wait"} => cmd'[p] \in ClientCommands,
         p \in Intrs /\ pc'[p] = "reply" => cmd'[p] \in Answered
  PROVE  Places'
<1> USE Kinds
<1>1. \A t \in Threads : pc'[t] \in {"idle", "lock", "enqueue", "wait", "return"}
  BY DEF QueueInv, Places
<1>2. \A c \in Clients : pc'[c] \in {"idle", "wait", "return"}
  BY DEF QueueInv, Places
<1>3. \A i \in Intrs : pc'[i] \in {"idle", "lock", "enqueue", "wait", "reply"}
  BY DEF QueueInv, Places
<1>4. pc'[Owner] \in {"idle", "insert", "drop", "disable", "fault", "destroy"}
  BY DEF QueueInv, Places
<1>5. \A c \in Callers : pc'[c] # "idle" => cmd'[c] \in Commands /\ cmd'[c].by = c /\ cmd'[c].n = calls'[c]
  <2>1. \A c \in Callers : pc[c] # "idle" => cmd[c] \in Commands /\ cmd[c].by = c /\ cmd[c].n = calls[c]
    BY DEF QueueInv, Places
  <2> QED BY <2>1
<1>6. \A i \in Intrs : pc'[i] \in {"lock", "enqueue", "wait"} => cmd'[i] \in ClientCommands
  BY DEF QueueInv, Places
<1>7. \A i \in Intrs : pc'[i] = "reply" => cmd'[i] \in Answered
  BY DEF QueueInv, Places
<1> QED BY <1>1, <1>2, <1>3, <1>4, <1>5, <1>6, <1>7 DEF Places

\* Every function of admin.cpp sends a command that it builds.
LEMMA OpKnown == ASSUME NEW c, NEW op, ArgsOk(c, op) PROVE op \in AllOps
BY DEF ArgsOk, AdminCalls, AllOps, nvm_admin_ctrl_info, nvm_admin_ns_info, nvm_admin_get_log_page,
       nvm_admin_get_num_queues, nvm_admin_request_num_queues, nvm_admin_cq_create, nvm_admin_cq_delete,
       nvm_admin_sq_create, nvm_admin_sq_delete

LEMMA CallKeeps ==
  ASSUME QueueInv, NEW t \in Threads, NEW op \in Ops, Call(t, op)
  PROVE  QueueInv'
<1> USE Kinds
<1>0. /\ pc \in [Procs -> Labels] /\ cmd \in [Procs -> Commands \cup Answered \cup {None}]
      /\ ret \in [Callers -> Results] /\ calls \in [Callers -> Nat]
      /\ desc \in [Callers -> [cq : BOOLEAN, sq : BOOLEAN]]
  BY DEF QueueInv, Basics, Places
<1>1. /\ ref = "bound" /\ pc[Owner] # "destroy" /\ pc[t] = "idle" /\ calls[t] < MaxCalls[t] /\ op \in AllOps
      /\ calls' = [calls EXCEPT ![t] = @ + 1]
      /\ cmd' = [cmd EXCEPT ![t] = [by |-> t, n |-> calls[t] + 1, op |-> op]]
      /\ pc' = [pc EXCEPT ![t] = "lock"]
      /\ UNCHANGED <<ref, lives, lock, ret, asq, sqmem, acq, cqmem, dev, desc, info, handle, up, enables, requests, bound, inbox, since, lag, stale>>
  BY OpKnown DEF Call, life, qvars, rpcvars, hist
<1>2. [by |-> t, n |-> calls[t] + 1, op |-> op] \in Commands
  BY <1>0, <1>1 DEF Commands
<1>3. /\ \A q \in Procs : q # t => pc'[q] = pc[q] /\ cmd'[q] = cmd[q]
      /\ pc'[t] = "lock" /\ cmd'[t] \in Commands /\ cmd'[t].by = t /\ cmd'[t].n = calls[t] + 1
      /\ pc' \in [Procs -> Labels] /\ cmd' \in [Procs -> Commands \cup Answered \cup {None}]
      /\ calls' \in [Callers -> Nat] /\ calls'[t] = calls[t] + 1 /\ \A c \in Callers : c # t => calls'[c] = calls[c]
  BY <1>0, <1>1, <1>2 DEF Labels
<1>cBasics. Basics'
  BY <1>0, <1>1, <1>3, BoundAssumption DEF QueueInv, Basics
<1>cPlaces. Places'
  BY <1>1, <1>3, PlacesStep
<1>cRings. Rings'
  BY <1>1 DEF QueueInv, Rings
<1>cWritten. Written'
  BY <1>1 DEF QueueInv, Written
<1>cRelay. Relay'
  BY <1>1 DEF QueueInv, Relay
<1>cExclusive. Exclusive'
  BY <1>1, <1>3 DEF QueueInv, Exclusive
<1>cExports. Exports'
  BY <1>1, <1>3 DEF QueueInv, Exports, Reached
<1>cUnbound. Unbound'
  BY <1>1, <1>3 DEF QueueInv, Unbound
<1>cUses. Uses'
  BY <1>1, <1>3 DEF QueueInv, Uses, Used
<1> QED BY <1>cBasics, <1>cPlaces, <1>cRings, <1>cWritten, <1>cRelay, <1>cExclusive, <1>cExports, <1>cUnbound, <1>cUses DEF QueueInv

LEMMA TakeLockKeeps ==
  ASSUME QueueInv, NEW p \in Executors, TakeLock(p)
  PROVE  QueueInv'
<1> USE Kinds
<1>0. /\ pc \in [Procs -> Labels] /\ cmd \in [Procs -> Commands \cup Answered \cup {None}]
      /\ ret \in [Callers -> Results] /\ calls \in [Callers -> Nat]
      /\ desc \in [Callers -> [cq : BOOLEAN, sq : BOOLEAN]]
  BY DEF QueueInv, Basics, Places
<1>1. /\ pc[p] = "lock" /\ lock = None /\ lock' = p
      /\ pc' = [pc EXCEPT ![p] = "enqueue"]
      /\ UNCHANGED <<ref, lives, cmd, ret, calls, asq, sqmem, acq, cqmem, dev, desc, info, handle, up, enables, requests, bound, inbox, since, lag, stale>>
  BY DEF TakeLock, life, qvars, rpcvars, hist
<1>3. /\ \A q \in Procs : q # p => pc'[q] = pc[q]
      /\ pc'[p] = "enqueue" /\ pc' \in [Procs -> Labels] /\ p \in Procs
  BY <1>0, <1>1 DEF Labels
<1>4. /\ p \in Callers => p \in Threads /\ cmd[p] \in Commands /\ cmd[p].by = p /\ cmd[p].n = calls[p]
      /\ p \in Intrs => cmd[p] \in ClientCommands
      /\ p \notin Clients /\ p # Owner
  BY <1>1 DEF QueueInv, Places, Executors, Callers
<1>cBasics. Basics'
  BY <1>1 DEF QueueInv, Basics
<1>cPlaces. Places'
  BY <1>0, <1>1, <1>3, <1>4, PlacesStep
<1>cRings. Rings'
  BY <1>1 DEF QueueInv, Rings
<1>cWritten. Written'
  BY <1>1 DEF QueueInv, Written
<1>cRelay. Relay'
  BY <1>1 DEF QueueInv, Relay
<1>cExclusive. Exclusive'
  BY <1>1, <1>3 DEF QueueInv, Exclusive
<1>cExports. Exports'
  BY <1>1, <1>3, <1>4 DEF QueueInv, Exports, Reached
<1>cUnbound. Unbound'
  BY <1>1, <1>3, <1>4 DEF QueueInv, Unbound
<1>cUses. Uses'
  <2>1. \A q \in Executors : pc'[q] = "wait" <=> pc[q] = "wait"
    BY <1>1, <1>3
  <2>2. Used' = Used
    BY <1>1 DEF Used
  <2> QED BY <2>1, <2>2, <1>1 DEF QueueInv, Uses
<1> QED BY <1>cBasics, <1>cPlaces, <1>cRings, <1>cWritten, <1>cRelay, <1>cExclusive, <1>cExports, <1>cUnbound, <1>cUses DEF QueueInv

LEMMA SubmitKeeps ==
  ASSUME QueueInv, NEW p \in Executors, Submit(p)
  PROVE  QueueInv'
<1> USE Kinds
<1>0. /\ pc \in [Procs -> Labels] /\ cmd \in [Procs -> Commands \cup Answered \cup {None}]
      /\ ret \in [Callers -> Results] /\ calls \in [Callers -> Nat]
      /\ desc \in [Callers -> [cq : BOOLEAN, sq : BOOLEAN]]
  BY DEF QueueInv, Basics, Places
<1>1. /\ pc[p] = "enqueue" /\ ~SqFull
      /\ sqmem' = [sqmem EXCEPT ![asq.tail] = cmd[p]]
      /\ asq' = nvm_sq_submit(nvm_sq_enqueue(asq))
      /\ pc' = [pc EXCEPT ![p] = "wait"]
      /\ UNCHANGED <<ref, lives, lock, cmd, ret, calls, acq, cqmem, dev, desc, info, handle, up, enables, requests, bound, inbox, since, lag, stale>>
  BY DEF Submit, life, qvars, rpcvars, hist
<1>3. /\ \A q \in Procs : q # p => pc'[q] = pc[q]
      /\ pc'[p] = "wait" /\ pc' \in [Procs -> Labels] /\ p \in Procs
  BY <1>0, <1>1 DEF Labels
<1>4. /\ p \in Callers => p \in Threads /\ cmd[p] \in Commands /\ cmd[p].by = p /\ cmd[p].n = calls[p]
      /\ p \in Intrs => cmd[p] \in ClientCommands
      /\ p \notin Clients /\ p # Owner
  BY <1>1 DEF QueueInv, Places, Executors, Callers
<1>5. cmd[p] \in Commands
  BY <1>1, CommandOf
<1>6. /\ asq' \in [head : 0 .. QS - 1, tail : 0 .. QS - 1, last : 0 .. QS - 1]
      /\ asq'.last = asq'.tail /\ asq'.head = asq.head /\ asq'.tail = Next1(asq.tail, QS)
  <2>1. asq \in [head : 0 .. QS - 1, tail : 0 .. QS - 1, last : 0 .. QS - 1]
    BY DEF QueueInv, Rings
  <2>2. Next1(asq.tail, QS) \in 0 .. QS - 1
    BY <2>1, QueueAssumption DEF Next1
  <2>3. PICK n \in 0 .. QS - 1 : n = Next1(asq.tail, QS)
    BY <2>2
  <2>4. asq' = [[asq EXCEPT !.tail = n] EXCEPT !.last = [asq EXCEPT !.tail = n].tail]
    BY <2>3, <1>1 DEF nvm_sq_submit, nvm_sq_enqueue
  <2> QED BY ONLY <2>1, <2>3, <2>4
<1>7. Used # QS - 1
  BY <1>1, SqUsedIsUsed DEF SqFull, QueueInv
<1>8. \A q \in Executors : pc[q] # "wait"
  <2>1. \A q \in Executors : pc[q] = "wait" => q = p
    BY <1>1 DEF QueueInv, Exclusive
  <2> QED BY <2>1, <1>1
<1>9. asq.tail \in 0 .. QS - 1 /\ asq.head \in 0 .. QS - 1 /\ lag \in Nat
  BY DEF QueueInv, Rings
<1>10. Used' = Used + 1
  BY <1>6, <1>7, <1>9, QueueAssumption DEF Used, Next1
<1>11. \A j \in 0 .. QS - 1 : sqmem'[j] = IF j = asq.tail THEN cmd[p] ELSE sqmem[j]
  BY <1>1, <1>9 DEF QueueInv, Rings
<1>cBasics. Basics'
  BY <1>1 DEF QueueInv, Basics, Results
<1>cPlaces. Places'
  BY <1>0, <1>1, <1>3, <1>4, PlacesStep
<1>cRings. Rings'
  BY <1>1, <1>5, <1>6 DEF QueueInv, Rings
<1>cWritten. Written'
  BY <1>1, <1>5, <1>6, <1>9, <1>11, QueueAssumption DEF QueueInv, Rings, Written, Next1
<1>cRelay. Relay'
  BY <1>1, <1>3, ExecutorStep
<1>cExclusive. Exclusive'
  BY <1>1, <1>3 DEF QueueInv, Exclusive
<1>cExports. Exports'
  BY <1>1, <1>3, ExecutorStep
<1>cUnbound. Unbound'
  BY <1>1, <1>3, ExecutorStep
<1>cUses. Uses'
  <2>1. Used = lag
    BY <1>8 DEF QueueInv, Uses
  <2>2. Used' = lag' + 1
    BY <2>1, <1>10, <1>1
  <2> QED BY <2>2, <1>3 DEF Uses
<1> QED BY <1>cBasics, <1>cPlaces, <1>cRings, <1>cWritten, <1>cRelay, <1>cExclusive, <1>cExports, <1>cUnbound, <1>cUses DEF QueueInv
LEMMA SubmitFullKeeps ==
  ASSUME QueueInv, NEW p \in Executors, SubmitFull(p)
  PROVE  QueueInv'
<1> USE Kinds
<1>1. /\ pc[p] = "enqueue" /\ Finish(p, [err |-> "EAGAIN", cpl |-> None])
      /\ UNCHANGED <<ref, lives, calls, asq, sqmem, acq, cqmem, dev, desc, info, handle, up, enables, requests, bound, inbox, since, lag, stale>>
  BY DEF SubmitFull, life, qvars, rpcvars, hist
<1>2. [err |-> "EAGAIN", cpl |-> None] \in Outcomes /\ [err |-> "EAGAIN", cpl |-> None] \in Results
  BY DEF Outcomes, Results
<1>r. PICK res \in Outcomes : res = [err |-> "EAGAIN", cpl |-> None] /\ res \in Results
  BY <1>2
<1>s. Finish(p, res) /\ pc[p] \in {"enqueue", "wait"} /\ UNCHANGED calls /\ res \in Results
  BY <1>1, <1>r
<1>3. /\ lock' = None /\ ret' \in [Callers -> Results] /\ Places' /\ p \in Procs
      /\ \A q \in Procs : q # p => pc'[q] = pc[q]
      /\ pc'[p] \in {"return", "reply"}
  BY ONLY QueueInv, p \in Executors, res \in Outcomes, <1>s, FinishEffect, Kinds
<1>4. /\ \A q \in Executors : pc[q] \in {"enqueue", "wait"} => q = p
      /\ pc[Owner] \notin {"disable", "destroy"}
  BY <1>1 DEF QueueInv, Exclusive
<1>5. \A q \in Executors : pc'[q] \notin {"enqueue", "wait"}
  BY <1>3, <1>4
<1>cBasics. Basics'
  BY <1>1, <1>3 DEF QueueInv, Basics
<1>cPlaces. Places'
  BY <1>3
<1>cRings. Rings'
  BY <1>1 DEF QueueInv, Rings
<1>cWritten. Written'
  BY <1>1 DEF QueueInv, Written
<1>cRelay. Relay'
  BY <1>1, <1>3, ExecutorStep
<1>cExclusive. Exclusive'
  BY <1>3, <1>4, <1>5 DEF Exclusive
<1>cExports. Exports'
  BY <1>1, <1>3, ExecutorStep
<1>cUnbound. Unbound'
  BY <1>1, <1>3, ExecutorStep
<1>cUses. Uses'
  <2>1. \A q \in Executors : pc[q] # "wait"
    BY <1>1, <1>4
  <2>2. Used = lag /\ Used' = Used
    BY <1>1, <2>1 DEF QueueInv, Uses, Used
  <2> QED BY <2>2, <1>1, <1>5 DEF Uses
<1> QED BY <1>cBasics, <1>cPlaces, <1>cRings, <1>cWritten, <1>cRelay, <1>cExclusive, <1>cExports, <1>cUnbound, <1>cUses DEF QueueInv

LEMMA ExpireKeeps ==
  ASSUME QueueInv, NEW p \in Executors, Expire(p)
  PROVE  QueueInv'
<1> USE Kinds
<1>1. /\ pc[p] = "wait" /\ Finish(p, [err |-> "ETIME", cpl |-> None]) /\ lag' = lag + 1 /\ stale' = Callers
      /\ UNCHANGED <<ref, lives, calls, asq, sqmem, acq, cqmem, dev, desc, info, handle, up, enables, requests, bound, inbox, since>>
  BY DEF Expire, life, qvars, rpcvars, hist
<1>2. [err |-> "ETIME", cpl |-> None] \in Outcomes /\ [err |-> "ETIME", cpl |-> None] \in Results
  BY DEF Outcomes, Results
<1>r. PICK res \in Outcomes : res = [err |-> "ETIME", cpl |-> None] /\ res \in Results
  BY <1>2
<1>s. Finish(p, res) /\ pc[p] \in {"enqueue", "wait"} /\ UNCHANGED calls /\ res \in Results
  BY <1>1, <1>r
<1>3. /\ lock' = None /\ ret' \in [Callers -> Results] /\ Places' /\ p \in Procs
      /\ \A q \in Procs : q # p => pc'[q] = pc[q]
      /\ pc'[p] \in {"return", "reply"}
  BY ONLY QueueInv, p \in Executors, res \in Outcomes, <1>s, FinishEffect, Kinds
<1>4. /\ \A q \in Executors : pc[q] \in {"enqueue", "wait"} => q = p
      /\ pc[Owner] \notin {"disable", "destroy"}
  BY <1>1 DEF QueueInv, Exclusive
<1>5. \A q \in Executors : pc'[q] \notin {"enqueue", "wait"}
  BY <1>3, <1>4
<1>cBasics. Basics'
  BY <1>1, <1>3 DEF QueueInv, Basics
<1>cPlaces. Places'
  BY <1>3
<1>cRings. Rings'
  BY <1>1 DEF QueueInv, Rings
<1>cWritten. Written'
  BY <1>1 DEF QueueInv, Written
<1>cRelay. Relay'
  BY <1>1, <1>3, ExecutorStep
<1>cExclusive. Exclusive'
  BY <1>3, <1>4, <1>5 DEF Exclusive
<1>cExports. Exports'
  BY <1>1, <1>3, ExecutorStep
<1>cUnbound. Unbound'
  BY <1>1, <1>3, ExecutorStep
<1>cUses. Uses'
  <2>1. Used = lag + 1 /\ Used' = Used
    BY <1>1 DEF QueueInv, Uses, Used
  <2> QED BY <2>1, <1>1, <1>5 DEF Uses
<1> QED BY <1>cBasics, <1>cPlaces, <1>cRings, <1>cWritten, <1>cRelay, <1>cExclusive, <1>cExports, <1>cUnbound, <1>cUses DEF QueueInv

LEMMA DequeueKeeps ==
  ASSUME QueueInv, NEW p \in Executors, Dequeue(p)
  PROVE  QueueInv'
<1> USE Kinds
<1> DEFINE result == [err |-> IF cqmem[acq.head].ok THEN "ok" ELSE "status", cpl |-> cqmem[acq.head].cpl]
<1>1. /\ pc[p] = "wait" /\ Finish(p, result)
      /\ acq' = [head |-> Next1(acq.head, CQS),
                 phase |-> IF acq.head + 1 = CQS THEN ~acq.phase ELSE acq.phase]
      /\ asq' = [asq EXCEPT !.head = Next1(@, QS)]
      /\ UNCHANGED <<ref, lives, calls, sqmem, cqmem, dev, desc, info, handle, up, enables, requests, bound, inbox, since, lag, stale>>
  BY DEF Dequeue, nvm_cq_dequeue, nvm_sq_update, life, qvars, rpcvars, hist
<1>2. result \in Outcomes /\ result \in Results
  <2>1. cqmem[acq.head].cpl \in Commands \cup {None}
    BY DEF QueueInv, Rings
  <2> QED BY <2>1 DEF Outcomes, Results
<1>r. PICK res \in Outcomes : res = result /\ res \in Results
  BY <1>2
<1>s. Finish(p, res)
  BY <1>1, <1>r
<1> HIDE DEF result
<1>3. /\ lock' = None /\ ret' \in [Callers -> Results] /\ Places' /\ p \in Procs
      /\ \A q \in Procs : q # p => pc'[q] = pc[q]
      /\ pc'[p] \in {"return", "reply"}
  BY <1>1, <1>r, <1>s, FinishEffect
<1>4. /\ \A q \in Executors : pc[q] \in {"enqueue", "wait"} => q = p
      /\ pc[Owner] \notin {"disable", "destroy"}
  BY <1>1 DEF QueueInv, Exclusive
<1>5. \A q \in Executors : pc'[q] \notin {"enqueue", "wait"}
  BY <1>3, <1>4
<1>6. /\ asq' \in [head : 0 .. QS - 1, tail : 0 .. QS - 1, last : 0 .. QS - 1]
      /\ asq'.last = asq.last /\ asq'.tail = asq.tail /\ asq'.head = Next1(asq.head, QS)
      /\ asq.head \in 0 .. QS - 1 /\ asq.tail \in 0 .. QS - 1
  <2>1. asq \in [head : 0 .. QS - 1, tail : 0 .. QS - 1, last : 0 .. QS - 1]
    BY DEF QueueInv, Rings
  <2>2. Next1(asq.head, QS) \in 0 .. QS - 1
    BY <2>1, QueueAssumption DEF Next1
  <2> QED BY <2>1, <2>2, <1>1
<1>7. acq' \in [head : 0 .. CQS - 1, phase : BOOLEAN]
  <2>1. acq.head \in 0 .. CQS - 1 /\ acq.phase \in BOOLEAN
    BY DEF QueueInv, Rings
  <2>2. Next1(acq.head, CQS) \in 0 .. CQS - 1
    BY <2>1, QueueAssumption DEF Next1
  <2>3. (IF acq.head + 1 = CQS THEN ~acq.phase ELSE acq.phase) \in BOOLEAN
    BY <2>1, Zenon
  <2> QED BY <2>2, <2>3, <1>1
<1>cBasics. Basics'
  BY <1>1, <1>3 DEF QueueInv, Basics
<1>cPlaces. Places'
  BY <1>3
<1>cRings. Rings'
  BY <1>1, <1>6, <1>7 DEF QueueInv, Rings
<1>cWritten. Written'
  BY <1>1, <1>6 DEF QueueInv, Written
<1>cRelay. Relay'
  BY <1>1, <1>3, ExecutorStep
<1>cExclusive. Exclusive'
  BY <1>3, <1>4, <1>5 DEF Exclusive
<1>cExports. Exports'
  BY <1>1, <1>3, ExecutorStep
<1>cUnbound. Unbound'
  BY <1>1, <1>3, ExecutorStep
<1>cUses. Uses'
  <2>1. Used = lag + 1 /\ lag \in Nat
    BY <1>1 DEF QueueInv, Uses, Rings
  <2>2. Used' = Used - 1
    BY <2>1, <1>6, QueueAssumption DEF Used, Next1
  <2>3. Used' = lag'
    BY <2>1, <2>2, <1>1
  <2> QED BY <2>3, <1>1, <1>5 DEF Uses
<1> QED BY <1>cBasics, <1>cPlaces, <1>cRings, <1>cWritten, <1>cRelay, <1>cExclusive, <1>cExports, <1>cUnbound, <1>cUses DEF QueueInv

\* What a call leaves in the caller's descriptors.
LEMMA DoneFields ==
  ASSUME QueueInv, NEW c \in Callers, NEW op \in AllOps
  PROVE  /\ Done(c, op) \in [cq : BOOLEAN, sq : BOOLEAN]
         /\ Done(c, op).cq = AfterCq(c, op)
         /\ Done(c, op).sq = AfterSq(c, op)
<1>1. desc[c] \in [cq : BOOLEAN, sq : BOOLEAN]
  BY DEF QueueInv, Basics
<1>2. \E f \in AdminCalls(c) : f.op = op
  BY DEF AllOps, AdminCalls, nvm_admin_ctrl_info, nvm_admin_ns_info, nvm_admin_get_log_page,
       nvm_admin_get_num_queues, nvm_admin_request_num_queues, nvm_admin_cq_create, nvm_admin_cq_delete,
       nvm_admin_sq_create, nvm_admin_sq_delete
<1>3. ASSUME NEW f \in AdminCalls(c), f.op = op
      PROVE  f.done \in [cq : BOOLEAN, sq : BOOLEAN] /\ f.done.cq = AfterCq(c, op) /\ f.done.sq = AfterSq(c, op)
  <2>1. PICK d \in [cq : BOOLEAN, sq : BOOLEAN] : d = desc[c]
    BY <1>1
  <2>2. CASE op \in {"identify", "log_page", "num_queues"}
    <3>1. f.done = desc[c]
      BY <2>2, <1>3 DEF AdminCalls, nvm_admin_ctrl_info, nvm_admin_ns_info, nvm_admin_get_log_page,
       nvm_admin_get_num_queues, nvm_admin_request_num_queues, nvm_admin_cq_create, nvm_admin_cq_delete,
       nvm_admin_sq_create, nvm_admin_sq_delete
    <3> QED BY <3>1, <2>1, <2>2 DEF AfterCq, AfterSq
  <2>3. CASE op = "create_cq"
    <3>0. f = nvm_admin_cq_create(c)
      BY <2>3, <1>3 DEF AdminCalls, nvm_admin_ctrl_info, nvm_admin_ns_info, nvm_admin_get_log_page,
       nvm_admin_get_num_queues, nvm_admin_request_num_queues, nvm_admin_cq_create, nvm_admin_cq_delete,
       nvm_admin_sq_create, nvm_admin_sq_delete
    <3>1. f.done = [d EXCEPT !.cq = TRUE]
      BY <3>0, <2>1 DEF nvm_admin_cq_create
    <3>2. f.done \in [cq : BOOLEAN, sq : BOOLEAN] /\ f.done.cq = TRUE /\ f.done.sq = d.sq
      BY ONLY <3>1, d \in [cq : BOOLEAN, sq : BOOLEAN]
    <3> QED BY <3>2, <2>1, <2>3 DEF AfterCq, AfterSq
  <2>4. CASE op = "delete_cq"
    <3>0. f = nvm_admin_cq_delete(c)
      BY <2>4, <1>3 DEF AdminCalls, nvm_admin_ctrl_info, nvm_admin_ns_info, nvm_admin_get_log_page,
       nvm_admin_get_num_queues, nvm_admin_request_num_queues, nvm_admin_cq_create, nvm_admin_cq_delete,
       nvm_admin_sq_create, nvm_admin_sq_delete
    <3>1. f.done = [d EXCEPT !.cq = FALSE]
      BY <3>0, <2>1 DEF nvm_admin_cq_delete
    <3>2. f.done \in [cq : BOOLEAN, sq : BOOLEAN] /\ f.done.cq = FALSE /\ f.done.sq = d.sq
      BY ONLY <3>1, d \in [cq : BOOLEAN, sq : BOOLEAN]
    <3> QED BY <3>2, <2>1, <2>4 DEF AfterCq, AfterSq
  <2>5. CASE op = "create_sq"
    <3>0. f = nvm_admin_sq_create(c)
      BY <2>5, <1>3 DEF AdminCalls, nvm_admin_ctrl_info, nvm_admin_ns_info, nvm_admin_get_log_page,
       nvm_admin_get_num_queues, nvm_admin_request_num_queues, nvm_admin_cq_create, nvm_admin_cq_delete,
       nvm_admin_sq_create, nvm_admin_sq_delete
    <3>1. f.done = [d EXCEPT !.sq = TRUE]
      BY <3>0, <2>1 DEF nvm_admin_sq_create
    <3>2. f.done \in [cq : BOOLEAN, sq : BOOLEAN] /\ f.done.sq = TRUE /\ f.done.cq = d.cq
      BY ONLY <3>1, d \in [cq : BOOLEAN, sq : BOOLEAN]
    <3> QED BY <3>2, <2>1, <2>5 DEF AfterCq, AfterSq
  <2>6. CASE op = "delete_sq"
    <3>0. f = nvm_admin_sq_delete(c)
      BY <2>6, <1>3 DEF AdminCalls, nvm_admin_ctrl_info, nvm_admin_ns_info, nvm_admin_get_log_page,
       nvm_admin_get_num_queues, nvm_admin_request_num_queues, nvm_admin_cq_create, nvm_admin_cq_delete,
       nvm_admin_sq_create, nvm_admin_sq_delete
    <3>1. f.done = [d EXCEPT !.sq = FALSE]
      BY <3>0, <2>1 DEF nvm_admin_sq_delete
    <3>2. f.done \in [cq : BOOLEAN, sq : BOOLEAN] /\ f.done.sq = FALSE /\ f.done.cq = d.cq
      BY ONLY <3>1, d \in [cq : BOOLEAN, sq : BOOLEAN]
    <3> QED BY <3>2, <2>1, <2>6 DEF AfterCq, AfterSq
  <2> QED BY <2>2, <2>3, <2>4, <2>5, <2>6 DEF AllOps
<1>4. PICK f \in AdminCalls(c) : f = (CHOOSE g \in AdminCalls(c) : g.op = op) /\ f.op = op
  BY <1>2
<1>5. Done(c, op) = f.done
  BY <1>4 DEF Done
<1> QED BY <1>3, <1>4, <1>5

LEMMA ReturnKeeps ==
  ASSUME QueueInv, NEW t \in Callers, Return(t)
  PROVE  QueueInv'
<1> USE Kinds
<1>0. /\ pc \in [Procs -> Labels] /\ cmd \in [Procs -> Commands \cup Answered \cup {None}]
      /\ ret \in [Callers -> Results] /\ calls \in [Callers -> Nat]
      /\ desc \in [Callers -> [cq : BOOLEAN, sq : BOOLEAN]]
  BY DEF QueueInv, Basics, Places
<1>1. /\ pc[t] = "return"
      /\ desc' = [desc EXCEPT ![t] = IF Succeeded(t) THEN Done(t, cmd[t].op) ELSE @]
      /\ pc' = [pc EXCEPT ![t] = "idle"]
      /\ cmd' = [cmd EXCEPT ![t] = None]
      /\ ret' = [ret EXCEPT ![t] = NoResult]
      /\ UNCHANGED <<ref, lives, lock, calls, asq, sqmem, acq, cqmem, dev, info, handle, up, enables, requests, bound, inbox, since, lag, stale>>
  BY DEF Return, life, qvars, rpcvars, hist
<1>2. cmd[t].op \in AllOps
  BY <1>1 DEF QueueInv, Places, Commands
<1>3. desc' \in [Callers -> [cq : BOOLEAN, sq : BOOLEAN]] /\ \A c \in Callers : c # t => desc'[c] = desc[c]
  <2>1. PICK o \in AllOps : o = cmd[t].op
    BY <1>2
  <2>2. Done(t, o) \in [cq : BOOLEAN, sq : BOOLEAN]
    BY DoneFields
  <2> QED BY <2>1, <2>2, <1>0, <1>1
<1>4. /\ \A q \in Procs : q # t => pc'[q] = pc[q] /\ cmd'[q] = cmd[q]
      /\ pc'[t] = "idle" /\ pc' \in [Procs -> Labels] /\ t \in Procs
      /\ cmd' \in [Procs -> Commands \cup Answered \cup {None}] /\ ret' \in [Callers -> Results]
  BY <1>0, <1>1 DEF Labels, Results, NoResult
<1>5. t \notin Intrs /\ t # Owner /\ (t \in Executors => t \in Threads)
  BY DEF Callers, Executors
<1>cBasics. Basics'
  BY <1>1, <1>3, <1>4 DEF QueueInv, Basics
<1>cPlaces. Places'
  BY <1>1, <1>4, <1>5, PlacesStep
<1>cRings. Rings'
  BY <1>1 DEF QueueInv, Rings
<1>cWritten. Written'
  BY <1>1 DEF QueueInv, Written
<1>cRelay. Relay'
  BY <1>1 DEF QueueInv, Relay
<1>cExclusive. Exclusive'
  BY <1>1, <1>4, <1>5 DEF QueueInv, Exclusive
<1>cExports. Exports'
  BY <1>1, <1>4, <1>5 DEF QueueInv, Exports, Reached
<1>cUnbound. Unbound'
  BY <1>1, <1>3, <1>4, <1>5 DEF QueueInv, Unbound
<1>cUses. Uses'
  <2>1. \A q \in Executors : pc'[q] = "wait" <=> pc[q] = "wait"
    BY <1>1, <1>4
  <2>2. Used' = Used
    BY <1>1 DEF Used
  <2> QED BY <2>1, <2>2, <1>1 DEF QueueInv, Uses
<1> QED BY <1>cBasics, <1>cPlaces, <1>cRings, <1>cWritten, <1>cRelay, <1>cExclusive, <1>cExports, <1>cUnbound, <1>cUses DEF QueueInv
LEMMA EnableCreateKeeps ==
  ASSUME QueueInv, EnableCreate
  PROVE  QueueInv'
<1> USE Kinds
<1>0. pc \in [Procs -> Labels] /\ cmd \in [Procs -> Commands \cup Answered \cup {None}]
  BY DEF QueueInv, Places
<1>1. /\ ref = "bound" /\ pc[Owner] = "idle" /\ enables < MaxEnables
      /\ enables' = enables + 1 /\ up' = up \cup {enables + 1} /\ info' = enables + 1
      /\ pc' = [pc EXCEPT ![Owner] = "insert"]
      /\ UNCHANGED <<ref, lives, lock, cmd, ret, calls, asq, sqmem, acq, cqmem, dev, desc, handle, requests, bound, inbox, since, lag, stale>>
  BY DEF EnableCreate, life, qvars, rpcvars, hist, CreateIntr, write_handle_info
<1>2. /\ \A q \in Procs : q # Owner => pc'[q] = pc[q]
      /\ pc'[Owner] = "insert" /\ pc' \in [Procs -> Labels]
      /\ \A q \in Executors : pc'[q] = pc[q]
  BY <1>0, <1>1 DEF Labels
<1>e. /\ enables \in Nat /\ enables + 1 \in Intrs /\ enables' \in 0 .. MaxEnables
      /\ bound' \in [Clients -> 0 .. enables']
  <2>1. enables \in 0 .. MaxEnables /\ bound \in [Clients -> 0 .. enables]
    BY DEF QueueInv, Relay
  <2> QED BY <1>1, <2>1, BoundAssumption DEF Intrs
<1>cBasics. Basics'
  BY <1>1, <1>e DEF QueueInv, Basics
<1>cPlaces. Places'
  BY <1>0, <1>1, <1>2, PlacesStep
<1>cRings. Rings'
  BY <1>1 DEF QueueInv, Rings
<1>cWritten. Written'
  BY <1>1 DEF QueueInv, Written
<1>cRelay. Relay'
  BY <1>1, <1>e DEF QueueInv, Relay
<1>cExclusive. Exclusive'
  BY <1>1, <1>2 DEF QueueInv, Exclusive
<1>cExports. Exports'
  BY <1>1, <1>2, BoundAssumption DEF QueueInv, Basics, Relay, Exports, Reached, Intrs
<1>cUnbound. Unbound'
  BY <1>1, <1>2 DEF QueueInv, Unbound
<1>cUses. Uses'
  <2>1. \A q \in Executors : pc'[q] = pc[q]
    BY <1>2
  <2>2. Used' = Used
    BY <1>1 DEF Used
  <2> QED BY <2>1, <2>2, <1>1 DEF QueueInv, Uses
<1> QED BY <1>cBasics, <1>cPlaces, <1>cRings, <1>cWritten, <1>cRelay, <1>cExclusive, <1>cExports, <1>cUnbound, <1>cUses DEF QueueInv

LEMMA EnableFailKeeps ==
  ASSUME QueueInv, EnableFail
  PROVE  QueueInv'
<1> USE Kinds
<1>0. pc \in [Procs -> Labels] /\ cmd \in [Procs -> Commands \cup Answered \cup {None}]
  BY DEF QueueInv, Places
<1>1. /\ ref = "bound" /\ pc[Owner] = "idle" /\ enables < MaxEnables
      /\ enables' = enables + 1 /\ up' = up \cup {enables + 1}
      /\ UNCHANGED <<ref, lives, lock, pc, cmd, ret, calls, asq, sqmem, acq, cqmem, dev, desc, info, handle, requests, bound, inbox, since, lag, stale>>
  BY DEF EnableFail, life, qvars, rpcvars, hist, CreateIntr, write_handle_info
<1>e. /\ enables \in Nat /\ enables + 1 \in Intrs /\ enables' \in 0 .. MaxEnables
      /\ bound' \in [Clients -> 0 .. enables']
  <2>1. enables \in 0 .. MaxEnables /\ bound \in [Clients -> 0 .. enables]
    BY DEF QueueInv, Relay
  <2> QED BY <1>1, <2>1, BoundAssumption DEF Intrs
<1>cBasics. Basics'
  BY <1>1, <1>e DEF QueueInv, Basics
<1>cPlaces. Places'
  BY <1>1 DEF QueueInv, Places
<1>cRings. Rings'
  BY <1>1 DEF QueueInv, Rings
<1>cWritten. Written'
  BY <1>1 DEF QueueInv, Written
<1>cRelay. Relay'
  BY <1>1, <1>e DEF QueueInv, Relay
<1>cExclusive. Exclusive'
  BY <1>1 DEF QueueInv, Exclusive
<1>cExports. Exports'
  BY <1>1, BoundAssumption DEF QueueInv, Basics, Relay, Exports, Reached, Intrs
<1>cUnbound. Unbound'
  BY <1>1 DEF QueueInv, Unbound
<1>cUses. Uses'
  BY <1>1 DEF QueueInv, Uses, Used
<1> QED BY <1>cBasics, <1>cPlaces, <1>cRings, <1>cWritten, <1>cRelay, <1>cExclusive, <1>cExports, <1>cUnbound, <1>cUses DEF QueueInv

LEMMA EnableInsertKeeps ==
  ASSUME QueueInv, EnableInsert
  PROVE  QueueInv'
<1> USE Kinds
<1>0. pc \in [Procs -> Labels] /\ cmd \in [Procs -> Commands \cup Answered \cup {None}]
  BY DEF QueueInv, Places
<1>1. /\ pc[Owner] = "insert" /\ lock = None
      /\ handle' = IF handle = 0 THEN enables ELSE handle
      /\ info' = IF handle = 0 THEN info ELSE 0
      /\ pc' = [pc EXCEPT ![Owner] = IF handle = 0 THEN "idle" ELSE "drop"]
      /\ UNCHANGED <<ref, lives, lock, cmd, ret, calls, asq, sqmem, acq, cqmem, dev, desc, up, enables, requests, bound, inbox, since, lag, stale>>
  BY DEF EnableInsert, life, qvars, rpcvars, hist, write_handle_info
<1>2. /\ \A q \in Procs : q # Owner => pc'[q] = pc[q]
      /\ pc'[Owner] = (IF handle = 0 THEN "idle" ELSE "drop") /\ pc' \in [Procs -> Labels]
      /\ \A q \in Executors : pc'[q] = pc[q]
  BY <1>0, <1>1 DEF Labels
<1>cBasics. Basics'
  BY <1>1 DEF QueueInv, Basics, Exports
<1>cPlaces. Places'
  BY <1>0, <1>1, <1>2, PlacesStep
<1>cRings. Rings'
  BY <1>1 DEF QueueInv, Rings
<1>cWritten. Written'
  BY <1>1 DEF QueueInv, Written
<1>cRelay. Relay'
  BY <1>1 DEF QueueInv, Relay
<1>cExclusive. Exclusive'
  BY <1>1, <1>2 DEF QueueInv, Exclusive
<1>cExports. Exports'
  BY <1>1, <1>2, BoundAssumption DEF QueueInv, Basics, Relay, Exports, Reached, Intrs
<1>cUnbound. Unbound'
  BY <1>1, <1>2 DEF QueueInv, Unbound
<1>cUses. Uses'
  <2>1. \A q \in Executors : pc'[q] = pc[q]
    BY <1>2
  <2>2. Used' = Used
    BY <1>1 DEF Used
  <2> QED BY <2>1, <2>2, <1>1 DEF QueueInv, Uses
<1> QED BY <1>cBasics, <1>cPlaces, <1>cRings, <1>cWritten, <1>cRelay, <1>cExclusive, <1>cExports, <1>cUnbound, <1>cUses DEF QueueInv

LEMMA EnableDropKeeps ==
  ASSUME QueueInv, EnableDrop
  PROVE  QueueInv'
<1> USE Kinds
<1>0. pc \in [Procs -> Labels] /\ cmd \in [Procs -> Commands \cup Answered \cup {None}]
  BY DEF QueueInv, Places
<1>1. /\ pc[Owner] = "drop" /\ pc[enables] = "idle" /\ up' = up \ {enables}
      /\ requests' = [requests EXCEPT ![enables] = <<>>]
      /\ pc' = [pc EXCEPT ![Owner] = "idle"]
      /\ UNCHANGED <<ref, lives, lock, cmd, ret, calls, asq, sqmem, acq, cqmem, dev, desc, info, handle, enables, bound, inbox, since, lag, stale>>
  BY DEF EnableDrop, life, qvars, rpcvars, hist, RemoveIntr
<1>2. /\ \A q \in Procs : q # Owner => pc'[q] = pc[q]
      /\ pc'[Owner] = "idle" /\ pc' \in [Procs -> Labels]
      /\ \A q \in Executors : pc'[q] = pc[q]
  BY <1>0, <1>1 DEF Labels
<1>3. enables \in Intrs /\ pc[enables] = "idle"
  BY <1>1 DEF QueueInv, Exports, Basics
<1>4. /\ requests' \in [Intrs -> Seq(ClientCommands)] /\ requests'[enables] = <<>>
      /\ \A j \in Intrs : j # enables => requests'[j] = requests[j]
  BY <1>1, <1>3 DEF QueueInv, Relay
<1>cBasics. Basics'
  BY <1>1 DEF QueueInv, Basics
<1>cPlaces. Places'
  BY <1>0, <1>1, <1>2, PlacesStep
<1>cRings. Rings'
  BY <1>1 DEF QueueInv, Rings
<1>cWritten. Written'
  BY <1>1 DEF QueueInv, Written
<1>cRelay. Relay'
  BY <1>1, <1>4 DEF QueueInv, Relay
<1>cExclusive. Exclusive'
  BY <1>1, <1>2 DEF QueueInv, Exclusive
<1>cExports. Exports'
  BY <1>1, <1>2, <1>3, <1>4 DEF QueueInv, Basics, Relay, Exports, Reached, Intrs
<1>cUnbound. Unbound'
  BY <1>1, <1>2 DEF QueueInv, Unbound
<1>cUses. Uses'
  <2>1. \A q \in Executors : pc'[q] = pc[q]
    BY <1>2
  <2>2. Used' = Used
    BY <1>1 DEF Used
  <2> QED BY <2>1, <2>2, <1>1 DEF QueueInv, Uses
<1> QED BY <1>cBasics, <1>cPlaces, <1>cRings, <1>cWritten, <1>cRelay, <1>cExclusive, <1>cExports, <1>cUnbound, <1>cUses DEF QueueInv

LEMMA DisableStartKeeps ==
  ASSUME QueueInv, DisableStart
  PROVE  QueueInv'
<1> USE Kinds
<1>0. pc \in [Procs -> Labels] /\ cmd \in [Procs -> Commands \cup Answered \cup {None}]
  BY DEF QueueInv, Places
<1>1. /\ pc[Owner] = "idle" /\ ref = "bound" /\ handle # 0 /\ lock = None
      /\ lock' = Owner /\ info' = 0
      /\ pc' = [pc EXCEPT ![Owner] = "disable"]
      /\ UNCHANGED <<ref, lives, cmd, ret, calls, asq, sqmem, acq, cqmem, dev, desc, handle, up, enables, requests, bound, inbox, since, lag, stale>>
  BY DEF DisableStart, life, qvars, rpcvars, hist, write_handle_info
<1>2. /\ \A q \in Procs : q # Owner => pc'[q] = pc[q]
      /\ pc'[Owner] = "disable" /\ pc' \in [Procs -> Labels]
      /\ \A q \in Executors : pc'[q] = pc[q]
  BY <1>0, <1>1 DEF Labels
<1>cBasics. Basics'
  BY <1>1 DEF QueueInv, Basics, Relay, Intrs
<1>cPlaces. Places'
  BY <1>0, <1>1, <1>2, PlacesStep
<1>cRings. Rings'
  BY <1>1 DEF QueueInv, Rings
<1>cWritten. Written'
  BY <1>1 DEF QueueInv, Written
<1>cRelay. Relay'
  BY <1>1 DEF QueueInv, Relay
<1>cExclusive. Exclusive'
  BY <1>1, <1>2 DEF QueueInv, Exclusive
<1>cExports. Exports'
  BY <1>1, <1>2, BoundAssumption DEF QueueInv, Basics, Relay, Exports, Reached, Intrs
<1>cUnbound. Unbound'
  BY <1>1, <1>2 DEF QueueInv, Unbound
<1>cUses. Uses'
  <2>1. \A q \in Executors : pc'[q] = pc[q]
    BY <1>2
  <2>2. Used' = Used
    BY <1>1 DEF Used
  <2> QED BY <2>1, <2>2, <1>1 DEF QueueInv, Uses
<1> QED BY <1>cBasics, <1>cPlaces, <1>cRings, <1>cWritten, <1>cRelay, <1>cExclusive, <1>cExports, <1>cUnbound, <1>cUses DEF QueueInv

LEMMA DisableNullKeeps ==
  ASSUME QueueInv, DisableNull
  PROVE  QueueInv'
<1> USE Kinds
<1>0. pc \in [Procs -> Labels] /\ cmd \in [Procs -> Commands \cup Answered \cup {None}]
  BY DEF QueueInv, Places
<1>1. /\ pc[Owner] = "idle" /\ ref = "bound" /\ handle = 0 /\ lock = None
      /\ lock' = Owner
      /\ pc' = [pc EXCEPT ![Owner] = "fault"]
      /\ UNCHANGED <<ref, lives, cmd, ret, calls, asq, sqmem, acq, cqmem, dev, desc, info, handle, up, enables, requests, bound, inbox, since, lag, stale>>
  BY DEF DisableNull, life, qvars, rpcvars, hist
<1>2. /\ \A q \in Procs : q # Owner => pc'[q] = pc[q]
      /\ pc'[Owner] = "fault" /\ pc' \in [Procs -> Labels]
      /\ \A q \in Executors : pc'[q] = pc[q]
  BY <1>0, <1>1 DEF Labels
<1>cBasics. Basics'
  BY <1>1 DEF QueueInv, Basics, Relay, Intrs
<1>cPlaces. Places'
  BY <1>0, <1>1, <1>2, PlacesStep
<1>cRings. Rings'
  BY <1>1 DEF QueueInv, Rings
<1>cWritten. Written'
  BY <1>1 DEF QueueInv, Written
<1>cRelay. Relay'
  BY <1>1 DEF QueueInv, Relay
<1>cExclusive. Exclusive'
  BY <1>1, <1>2 DEF QueueInv, Exclusive
<1>cExports. Exports'
  BY <1>1, <1>2, BoundAssumption DEF QueueInv, Basics, Relay, Exports, Reached, Intrs
<1>cUnbound. Unbound'
  BY <1>1, <1>2 DEF QueueInv, Unbound
<1>cUses. Uses'
  <2>1. \A q \in Executors : pc'[q] = pc[q]
    BY <1>2
  <2>2. Used' = Used
    BY <1>1 DEF Used
  <2> QED BY <2>1, <2>2, <1>1 DEF QueueInv, Uses
<1> QED BY <1>cBasics, <1>cPlaces, <1>cRings, <1>cWritten, <1>cRelay, <1>cExclusive, <1>cExports, <1>cUnbound, <1>cUses DEF QueueInv

LEMMA DisableEndKeeps ==
  ASSUME QueueInv, DisableEnd
  PROVE  QueueInv'
<1> USE Kinds
<1>0. pc \in [Procs -> Labels] /\ cmd \in [Procs -> Commands \cup Answered \cup {None}]
  BY DEF QueueInv, Places
<1>1. /\ pc[Owner] = "disable" /\ pc[handle] = "idle" /\ up' = up \ {handle}
      /\ requests' = [requests EXCEPT ![handle] = <<>>]
      /\ handle' = 0 /\ lock' = None
      /\ pc' = [pc EXCEPT ![Owner] = "idle"]
      /\ UNCHANGED <<ref, lives, cmd, ret, calls, asq, sqmem, acq, cqmem, dev, desc, info, enables, bound, inbox, since, lag, stale>>
  BY DEF DisableEnd, life, qvars, rpcvars, hist, RemoveIntr
<1>2. /\ \A q \in Procs : q # Owner => pc'[q] = pc[q]
      /\ pc'[Owner] = "idle" /\ pc' \in [Procs -> Labels]
      /\ \A q \in Executors : pc'[q] = pc[q]
  BY <1>0, <1>1 DEF Labels
<1>3. handle \in Intrs /\ pc[handle] = "idle"
  BY <1>1 DEF QueueInv, Exports, Basics
<1>4. /\ requests' \in [Intrs -> Seq(ClientCommands)] /\ requests'[handle] = <<>>
      /\ \A j \in Intrs : j # handle => requests'[j] = requests[j]
  BY <1>1, <1>3 DEF QueueInv, Relay
<1>cBasics. Basics'
  BY <1>1 DEF QueueInv, Basics
<1>cPlaces. Places'
  BY <1>0, <1>1, <1>2, PlacesStep
<1>cRings. Rings'
  BY <1>1 DEF QueueInv, Rings
<1>cWritten. Written'
  BY <1>1 DEF QueueInv, Written
<1>cRelay. Relay'
  BY <1>1, <1>4 DEF QueueInv, Relay
<1>cExclusive. Exclusive'
  BY <1>1, <1>2 DEF QueueInv, Exclusive
<1>cExports. Exports'
  BY <1>1, <1>2, <1>3, <1>4 DEF QueueInv, Basics, Relay, Exports, Reached, Intrs
<1>cUnbound. Unbound'
  BY <1>1, <1>2 DEF QueueInv, Unbound
<1>cUses. Uses'
  <2>1. \A q \in Executors : pc'[q] = pc[q]
    BY <1>2
  <2>2. Used' = Used
    BY <1>1 DEF Used
  <2> QED BY <2>1, <2>2, <1>1 DEF QueueInv, Uses
<1> QED BY <1>cBasics, <1>cPlaces, <1>cRings, <1>cWritten, <1>cRelay, <1>cExclusive, <1>cExports, <1>cUnbound, <1>cUses DEF QueueInv

LEMMA DestroyStartKeeps ==
  ASSUME QueueInv, DestroyStart
  PROVE  QueueInv'
<1> USE Kinds
<1>0. pc \in [Procs -> Labels] /\ cmd \in [Procs -> Commands \cup Answered \cup {None}]
  BY DEF QueueInv, Places
<1>1. /\ pc[Owner] = "idle" /\ ref = "bound" /\ lock = None
      /\ \A t \in Threads : pc[t] = "idle"
      /\ lock' = Owner
      /\ desc' = [c \in Callers |-> IF c \in Threads THEN NoQueues ELSE desc[c]]
      /\ info' = IF handle # 0 THEN 0 ELSE info
      /\ pc' = [pc EXCEPT ![Owner] = "destroy"]
      /\ UNCHANGED <<ref, lives, cmd, ret, calls, asq, sqmem, acq, cqmem, dev, handle, up, enables, requests, bound, inbox, since, lag, stale>>
  BY DEF DestroyStart, life, qvars, rpcvars, hist, write_handle_info
<1>2. /\ \A q \in Procs : q # Owner => pc'[q] = pc[q]
      /\ pc'[Owner] = "destroy" /\ pc' \in [Procs -> Labels]
      /\ \A q \in Executors : pc'[q] = pc[q]
  BY <1>0, <1>1 DEF Labels
<1>cBasics. Basics'
  <2>1. desc' \in [Callers -> [cq : BOOLEAN, sq : BOOLEAN]]
    BY <1>1 DEF QueueInv, Basics, NoQueues
  <2> QED BY <1>1, <2>1 DEF QueueInv, Basics
<1>cPlaces. Places'
  BY <1>0, <1>1, <1>2, PlacesStep
<1>cRings. Rings'
  BY <1>1 DEF QueueInv, Rings
<1>cWritten. Written'
  BY <1>1 DEF QueueInv, Written
<1>cRelay. Relay'
  BY <1>1 DEF QueueInv, Relay
<1>cExclusive. Exclusive'
  BY <1>1, <1>2 DEF QueueInv, Exclusive
<1>cExports. Exports'
  BY <1>1, <1>2, BoundAssumption DEF QueueInv, Basics, Relay, Exports, Reached, Intrs
<1>cUnbound. Unbound'
  BY <1>1, <1>2 DEF QueueInv, Unbound
<1>cUses. Uses'
  <2>1. \A q \in Executors : pc'[q] = pc[q]
    BY <1>2
  <2>2. Used' = Used
    BY <1>1 DEF Used
  <2> QED BY <2>1, <2>2, <1>1 DEF QueueInv, Uses
<1> QED BY <1>cBasics, <1>cPlaces, <1>cRings, <1>cWritten, <1>cRelay, <1>cExclusive, <1>cExports, <1>cUnbound, <1>cUses DEF QueueInv

LEMMA DestroyEndKeeps ==
  ASSUME QueueInv, DestroyEnd
  PROVE  QueueInv'
<1> USE Kinds
<1>0. pc \in [Procs -> Labels] /\ cmd \in [Procs -> Commands \cup Answered \cup {None}]
  BY DEF QueueInv, Places
<1>1. /\ pc[Owner] = "destroy"
      /\ IF handle # 0
           THEN /\ pc[handle] = "idle" /\ up' = up \ {handle}
                /\ requests' = [requests EXCEPT ![handle] = <<>>]
           ELSE UNCHANGED <<up, requests>>
      /\ handle' = 0 /\ lock' = None /\ ref' = "none"
      /\ pc' = [pc EXCEPT ![Owner] = "idle"]
      /\ UNCHANGED <<lives, cmd, ret, calls, asq, sqmem, acq, cqmem, dev, desc, info, enables, bound, inbox, since, lag, stale>>
  BY DEF DestroyEnd, life, qvars, rpcvars, hist, RemoveIntr
<1>2. /\ \A q \in Procs : q # Owner => pc'[q] = pc[q]
      /\ pc'[Owner] = "idle" /\ pc' \in [Procs -> Labels]
      /\ \A q \in Executors : pc'[q] = pc[q]
  BY <1>0, <1>1 DEF Labels
<1>3. handle \in Intrs \cup {0}
  BY DEF QueueInv, Basics
<1>4. /\ requests' \in [Intrs -> Seq(ClientCommands)]
      /\ handle # 0 => requests'[handle] = <<>>
      /\ \A j \in Intrs : j # handle => requests'[j] = requests[j]
      /\ up' = up \ {handle}
  <2>1. 0 \notin up
    BY DEF QueueInv, Basics, Intrs
  <2>2. requests \in [Intrs -> Seq(ClientCommands)]
    BY DEF QueueInv, Relay
  <2>3. CASE handle # 0
    <3>1. requests' = [requests EXCEPT ![handle] = <<>>] /\ up' = up \ {handle}
      BY <1>1, <2>3
    <3>2. handle \in Intrs /\ <<>> \in Seq(ClientCommands)
      BY <1>3, <2>3
    <3> QED BY ONLY <3>1, <3>2, <2>2
  <2>4. CASE handle = 0
    BY <1>1, <2>1, <2>2, <2>4
  <2> QED BY <2>3, <2>4
<1>cBasics. Basics'
  BY <1>1, <1>4 DEF QueueInv, Basics
<1>cPlaces. Places'
  BY <1>0, <1>1, <1>2, PlacesStep
<1>cRings. Rings'
  BY <1>1 DEF QueueInv, Rings
<1>cWritten. Written'
  BY <1>1 DEF QueueInv, Written
<1>cRelay. Relay'
  BY <1>1, <1>4 DEF QueueInv, Relay
<1>cExclusive. Exclusive'
  BY <1>1, <1>2 DEF QueueInv, Exclusive
<1>cExports. Exports'
  BY <1>1, <1>2, <1>3, <1>4 DEF QueueInv, Basics, Relay, Exports, Reached, Intrs
<1>cUnbound. Unbound'
  BY <1>1, <1>2 DEF QueueInv, Unbound
<1>cUses. Uses'
  <2>1. \A q \in Executors : pc'[q] = pc[q]
    BY <1>2
  <2>2. Used' = Used
    BY <1>1 DEF Used
  <2> QED BY <2>1, <2>2, <1>1 DEF QueueInv, Uses
<1> QED BY <1>cBasics, <1>cPlaces, <1>cRings, <1>cWritten, <1>cRelay, <1>cExclusive, <1>cExports, <1>cUnbound, <1>cUses DEF QueueInv

LEMMA AqCreateKeeps ==
  ASSUME QueueInv, AqCreate
  PROVE  QueueInv'
<1> USE Kinds
<1>1. /\ ref = "none" /\ lives < MaxLives /\ ref' = "bound" /\ lives' = lives + 1
      /\ asq' = EmptyAsq /\ acq' = EmptyAcq
      /\ sqmem' = [i \in 0 .. QS - 1 |-> None] /\ cqmem' = EmptyCqmem
      /\ \E ready \in BOOLEAN : dev' = ResetDev(ready)
      /\ lag' = 0 /\ stale' = stale \ Threads
      /\ UNCHANGED <<lock, pc, cmd, ret, calls, desc, info, handle, up, enables, requests, bound, inbox, since>>
  BY DEF AqCreate, life, qvars, rpcvars, hist
<1>2. \A p \in Executors : pc[p] = "idle"
  BY <1>1 DEF QueueInv, Unbound, Exports, Reached, Executors
<1>cBasics. Basics'
  BY <1>1, BoundAssumption DEF QueueInv, Basics
<1>cPlaces. Places'
  BY <1>1 DEF QueueInv, Places, Labels, ClientCommands, Commands
<1>cRings. Rings'
  BY <1>1, QueueAssumption DEF Rings, EmptyAsq, EmptyAcq, EmptyCqmem, ResetDev
<1>cWritten. Written'
  BY <1>1, QueueAssumption DEF Written, EmptyAsq, ResetDev
<1>cRelay. Relay'
  BY <1>1 DEF QueueInv, Relay
<1>cExclusive. Exclusive'
  BY <1>1 DEF QueueInv, Exclusive
<1>cExports. Exports'
  BY <1>1 DEF QueueInv, Exports, Reached
<1>cUnbound. Unbound'
  BY <1>1 DEF QueueInv, Unbound
<1>cUses. Uses'
  BY <1>1, <1>2 DEF Uses, Used, EmptyAsq
<1> QED BY <1>cBasics, <1>cPlaces, <1>cRings, <1>cWritten, <1>cRelay, <1>cExclusive, <1>cExports, <1>cUnbound, <1>cUses DEF QueueInv
LEMMA BindKeeps ==
  ASSUME QueueInv, NEW c \in Clients, Bind(c)
  PROVE  QueueInv'
<1> USE Kinds
<1>0. /\ pc \in [Procs -> Labels] /\ cmd \in [Procs -> Commands \cup Answered \cup {None}]
      /\ ret \in [Callers -> Results] /\ calls \in [Callers -> Nat]
      /\ requests \in [Intrs -> Seq(ClientCommands)] /\ inbox \in [Clients -> Seq(Results)]
      /\ bound \in [Clients -> 0 .. enables] /\ since \in [Clients -> Nat]
      /\ enables \in 0 .. MaxEnables
  BY DEF QueueInv, Basics, Places, Relay
<1>1. /\ pc[c] = "idle" /\ info \in up
      /\ bound' = [bound EXCEPT ![c] = info]
      /\ inbox' = [inbox EXCEPT ![c] = <<>>]
      /\ since' = [since EXCEPT ![c] = calls[c]]
      /\ stale' \subseteq stale \cup {c}
      /\ UNCHANGED <<ref, lives, lock, pc, cmd, ret, calls, asq, sqmem, acq, cqmem, dev, desc, info, handle, up, enables, requests, lag>>
  BY DEF Bind, CanConnect, life, qvars, rpcvars, hist
<1>2. info \in 0 .. enables /\ Reached(info)
  BY <1>1 DEF QueueInv, Basics, Places, Exports, Reached, Intrs
<1>cBasics. Basics'
  BY <1>1 DEF QueueInv, Basics
<1>cPlaces. Places'
  BY <1>1 DEF QueueInv, Places, Labels, ClientCommands, Commands
<1>cRings. Rings'
  BY <1>1 DEF QueueInv, Rings
<1>cWritten. Written'
  BY <1>1 DEF QueueInv, Written
<1>cRelay. Relay'
  BY <1>0, <1>1, <1>2 DEF Relay, Callers
<1>cExclusive. Exclusive'
  BY <1>1 DEF QueueInv, Exclusive
<1>cExports. Exports'
  BY <1>0, <1>1, <1>2 DEF QueueInv, Exports, Reached
<1>cUnbound. Unbound'
  BY <1>1 DEF QueueInv, Unbound
<1>cUses. Uses'
  BY <1>1 DEF QueueInv, Uses, Used
<1> QED BY <1>cBasics, <1>cPlaces, <1>cRings, <1>cWritten, <1>cRelay, <1>cExclusive, <1>cExports, <1>cUnbound, <1>cUses DEF QueueInv

LEMMA UnbindKeeps ==
  ASSUME QueueInv, NEW c \in Clients, Unbind(c)
  PROVE  QueueInv'
<1> USE Kinds
<1>0. /\ pc \in [Procs -> Labels] /\ cmd \in [Procs -> Commands \cup Answered \cup {None}]
      /\ ret \in [Callers -> Results] /\ calls \in [Callers -> Nat]
      /\ requests \in [Intrs -> Seq(ClientCommands)] /\ inbox \in [Clients -> Seq(Results)]
      /\ bound \in [Clients -> 0 .. enables] /\ since \in [Clients -> Nat]
      /\ enables \in 0 .. MaxEnables
  BY DEF QueueInv, Basics, Places, Relay
<1>1. /\ bound' = [bound EXCEPT ![c] = 0]
      /\ inbox' = [inbox EXCEPT ![c] = <<>>]
      /\ UNCHANGED <<ref, lives, lock, pc, cmd, ret, calls, asq, sqmem, acq, cqmem, dev, desc, info, handle, up, enables, requests, since, lag, stale>>
  BY DEF Unbind, remove_binding, life, qvars, rpcvars, hist
<1>2. 0 \notin up
  BY DEF QueueInv, Basics, Intrs
<1>cBasics. Basics'
  BY <1>1 DEF QueueInv, Basics, Results
<1>cPlaces. Places'
  BY <1>1 DEF QueueInv, Places, Labels, ClientCommands, Commands
<1>cRings. Rings'
  BY <1>1 DEF QueueInv, Rings
<1>cWritten. Written'
  BY <1>1 DEF QueueInv, Written
<1>cRelay. Relay'
  BY <1>0, <1>1 DEF Relay
<1>cExclusive. Exclusive'
  BY <1>1 DEF QueueInv, Exclusive
<1>cExports. Exports'
  BY <1>0, <1>1, <1>2 DEF QueueInv, Exports, Reached
<1>cUnbound. Unbound'
  BY <1>1 DEF QueueInv, Unbound
<1>cUses. Uses'
  BY <1>1 DEF QueueInv, Uses, Used
<1> QED BY <1>cBasics, <1>cPlaces, <1>cRings, <1>cWritten, <1>cRelay, <1>cExclusive, <1>cExports, <1>cUnbound, <1>cUses DEF QueueInv

LEMMA RemoteReplyKeeps ==
  ASSUME QueueInv, NEW c \in Clients, RemoteReply(c)
  PROVE  QueueInv'
<1> USE Kinds
<1>0. /\ pc \in [Procs -> Labels] /\ cmd \in [Procs -> Commands \cup Answered \cup {None}]
      /\ ret \in [Callers -> Results] /\ calls \in [Callers -> Nat]
      /\ requests \in [Intrs -> Seq(ClientCommands)] /\ inbox \in [Clients -> Seq(Results)]
      /\ bound \in [Clients -> 0 .. enables] /\ since \in [Clients -> Nat]
      /\ enables \in 0 .. MaxEnables
  BY DEF QueueInv, Basics, Places, Relay
<1>1. /\ pc[c] = "wait" /\ inbox[c] # <<>>
      /\ ret' = [ret EXCEPT ![c] = Head(inbox[c])]
      /\ inbox' = [inbox EXCEPT ![c] = Tail(@)]
      /\ pc' = [pc EXCEPT ![c] = "return"]
      /\ UNCHANGED <<ref, lives, lock, cmd, calls, asq, sqmem, acq, cqmem, dev, desc, info, handle, up, enables, requests, bound, since, lag, stale>>
  BY DEF RemoteReply, life, qvars, rpcvars, hist
<1>2. /\ \A q \in Procs : q # c => pc'[q] = pc[q]
      /\ pc'[c] = "return" /\ pc' \in [Procs -> Labels]
  BY <1>0, <1>1 DEF Labels
<1>3. c \in Procs /\ c \in Callers /\ c \notin Executors /\ c \notin Threads
  BY DEF Executors
<1>4. Head(inbox[c]) \in Results /\ Tail(inbox[c]) \in Seq(Results)
  BY <1>0, <1>1
<1>5. cmd[c] \in Commands /\ cmd[c].by = c /\ cmd[c].n = calls[c]
  BY <1>1, <1>3 DEF QueueInv, Places
<1>cBasics. Basics'
  BY <1>0, <1>1, <1>3, <1>4 DEF QueueInv, Basics
<1>cPlaces. Places'
  BY <1>0, <1>1, <1>2, <1>3, <1>5, PlacesStep
<1>cRings. Rings'
  BY <1>1 DEF QueueInv, Rings
<1>cWritten. Written'
  BY <1>1 DEF QueueInv, Written
<1>cRelay. Relay'
  BY <1>0, <1>1, <1>4 DEF Relay
<1>cExclusive. Exclusive'
  BY <1>1, <1>2, <1>3 DEF QueueInv, Exclusive
<1>cExports. Exports'
  BY <1>1, <1>2, <1>3 DEF QueueInv, Exports, Reached
<1>cUnbound. Unbound'
  BY <1>1, <1>2, <1>3 DEF QueueInv, Unbound
<1>cUses. Uses'
  <2>1. \A q \in Executors : pc'[q] = "wait" <=> pc[q] = "wait"
    BY <1>1, <1>2, <1>3
  <2>2. Used' = Used
    BY <1>1 DEF Used
  <2> QED BY <2>1, <2>2, <1>1 DEF QueueInv, Uses
<1> QED BY <1>cBasics, <1>cPlaces, <1>cRings, <1>cWritten, <1>cRelay, <1>cExclusive, <1>cExports, <1>cUnbound, <1>cUses DEF QueueInv

LEMMA RemoteExpireKeeps ==
  ASSUME QueueInv, NEW c \in Clients, RemoteExpire(c)
  PROVE  QueueInv'
<1> USE Kinds
<1>0. /\ pc \in [Procs -> Labels] /\ cmd \in [Procs -> Commands \cup Answered \cup {None}]
      /\ ret \in [Callers -> Results] /\ calls \in [Callers -> Nat]
      /\ requests \in [Intrs -> Seq(ClientCommands)] /\ inbox \in [Clients -> Seq(Results)]
      /\ bound \in [Clients -> 0 .. enables] /\ since \in [Clients -> Nat]
      /\ enables \in 0 .. MaxEnables
  BY DEF QueueInv, Basics, Places, Relay
<1>1. /\ pc[c] = "wait"
      /\ ret' = [ret EXCEPT ![c] = [err |-> "ETIMEDOUT", cpl |-> None]]
      /\ pc' = [pc EXCEPT ![c] = "return"]
      /\ stale' = stale \cup {c}
      /\ UNCHANGED <<ref, lives, lock, cmd, calls, asq, sqmem, acq, cqmem, dev, desc, info, handle, up, enables, requests, bound, inbox, since, lag>>
  BY DEF RemoteExpire, life, qvars, rpcvars, hist
<1>2. /\ \A q \in Procs : q # c => pc'[q] = pc[q]
      /\ pc'[c] = "return" /\ pc' \in [Procs -> Labels]
  BY <1>0, <1>1 DEF Labels
<1>3. c \in Procs /\ c \in Callers /\ c \notin Executors /\ c \notin Threads
  BY DEF Executors
<1>4. [err |-> "ETIMEDOUT", cpl |-> None] \in Results
  BY DEF Results
<1>5. cmd[c] \in Commands /\ cmd[c].by = c /\ cmd[c].n = calls[c]
  BY <1>1, <1>3 DEF QueueInv, Places
<1>cBasics. Basics'
  BY <1>0, <1>1, <1>3, <1>4 DEF QueueInv, Basics
<1>cPlaces. Places'
  BY <1>0, <1>1, <1>2, <1>3, <1>5, PlacesStep
<1>cRings. Rings'
  BY <1>1 DEF QueueInv, Rings
<1>cWritten. Written'
  BY <1>1 DEF QueueInv, Written
<1>cRelay. Relay'
  BY <1>1 DEF QueueInv, Relay
<1>cExclusive. Exclusive'
  BY <1>1, <1>2, <1>3 DEF QueueInv, Exclusive
<1>cExports. Exports'
  BY <1>1, <1>2, <1>3 DEF QueueInv, Exports, Reached
<1>cUnbound. Unbound'
  BY <1>1, <1>2, <1>3 DEF QueueInv, Unbound
<1>cUses. Uses'
  <2>1. \A q \in Executors : pc'[q] = "wait" <=> pc[q] = "wait"
    BY <1>1, <1>2, <1>3
  <2>2. Used' = Used
    BY <1>1 DEF Used
  <2> QED BY <2>1, <2>2, <1>1 DEF QueueInv, Uses
<1> QED BY <1>cBasics, <1>cPlaces, <1>cRings, <1>cWritten, <1>cRelay, <1>cExclusive, <1>cExports, <1>cUnbound, <1>cUses DEF QueueInv

LEMMA RemoteCallKeeps ==
  ASSUME QueueInv, NEW c \in Clients, NEW op \in ClientOps, RemoteCall(c, op)
  PROVE  QueueInv'
<1> USE Kinds
<1>0. /\ pc \in [Procs -> Labels] /\ cmd \in [Procs -> Commands \cup Answered \cup {None}]
      /\ ret \in [Callers -> Results] /\ calls \in [Callers -> Nat]
      /\ requests \in [Intrs -> Seq(ClientCommands)] /\ inbox \in [Clients -> Seq(Results)]
      /\ bound \in [Clients -> 0 .. enables] /\ since \in [Clients -> Nat]
      /\ enables \in 0 .. MaxEnables
  BY DEF QueueInv, Basics, Places, Relay
<1>3. c \in Procs /\ c \in Callers /\ c \notin Executors /\ c \notin Threads
  BY DEF Executors
<1>b. op \in AllOps
  BY OpKnown DEF RemoteCall
<1>c. [by |-> c, n |-> calls[c] + 1, op |-> op] \in ClientCommands
  BY <1>0, <1>3, <1>b DEF ClientCommands, Commands
<1>new. PICK new \in ClientCommands : new = [by |-> c, n |-> calls[c] + 1, op |-> op]
  BY <1>c
<1>i. PICK i \in Intrs : i = bound[c]
  <2>1. bound[c] \in 0 .. enables /\ bound[c] # 0
    BY <1>0 DEF RemoteCall
  <2>2. bound[c] \in Intrs
    BY <2>1, <1>0, BoundAssumption DEF Intrs
  <2> QED BY <2>2
<1>l. PICK l \in {"wait", "return"} : l = IF i \in up THEN "wait" ELSE "return"
  OBVIOUS
<1>1. /\ pc[c] = "idle" /\ calls[c] < MaxCalls[c]
      /\ calls' = [calls EXCEPT ![c] = @ + 1]
      /\ cmd' = [cmd EXCEPT ![c] = new]
      /\ pc' = [pc EXCEPT ![c] = l]
      /\ ret' = [ret EXCEPT ![c] = IF i \in up THEN @ ELSE [err |-> "ENOTCONN", cpl |-> None]]
      /\ requests' = [requests EXCEPT ![i] = IF i \in up THEN Append(@, new) ELSE @]
      /\ UNCHANGED <<ref, lives, lock, asq, sqmem, acq, cqmem, dev, desc, info, handle, up, enables, bound, inbox, since, lag, stale>>
  BY <1>new, <1>i, <1>l DEF RemoteCall, life, qvars, rpcvars, hist
<1>2. /\ \A q \in Procs : q # c => pc'[q] = pc[q] /\ cmd'[q] = cmd[q]
      /\ pc'[c] = l /\ pc' \in [Procs -> Labels]
      /\ cmd'[c] = new /\ cmd' \in [Procs -> Commands \cup Answered \cup {None}]
      /\ calls' \in [Callers -> Nat] /\ calls'[c] = calls[c] + 1 /\ \A d \in Callers : d # c => calls'[d] = calls[d]
  BY <1>0, <1>1, <1>3 DEF Labels, ClientCommands
<1>4. ret' \in [Callers -> Results]
  BY <1>0, <1>1, <1>3 DEF Results
<1>5. /\ requests' \in [Intrs -> Seq(ClientCommands)]
      /\ \A j \in Intrs : j # i => requests'[j] = requests[j]
      /\ i \notin up => requests'[i] = requests[i]
  BY <1>0, <1>1
<1>6. cmd'[c] \in Commands /\ cmd'[c].by = c /\ cmd'[c].n = calls'[c]
  BY <1>0, <1>2, <1>3, <1>new DEF ClientCommands
<1>7. i \in up => Reached(i)
  BY <1>i DEF QueueInv, Exports
<1>cBasics. Basics'
  BY <1>0, <1>1, <1>2, <1>3, <1>4, BoundAssumption DEF QueueInv, Basics
<1>cPlaces. Places'
  BY <1>1, <1>2, <1>3, <1>6, PlacesStep
<1>cRings. Rings'
  BY <1>1 DEF QueueInv, Rings
<1>cWritten. Written'
  BY <1>1 DEF QueueInv, Written
<1>cRelay. Relay'
  BY <1>0, <1>1, <1>5 DEF Relay
<1>cExclusive. Exclusive'
  BY <1>1, <1>2, <1>3 DEF QueueInv, Exclusive
<1>cExports. Exports'
  BY <1>1, <1>2, <1>3, <1>5, <1>7 DEF QueueInv, Exports, Reached
<1>cUnbound. Unbound'
  BY <1>1, <1>2, <1>3 DEF QueueInv, Unbound
<1>cUses. Uses'
  <2>1. \A q \in Executors : pc'[q] = "wait" <=> pc[q] = "wait"
    BY <1>1, <1>2, <1>3
  <2>2. Used' = Used
    BY <1>1 DEF Used
  <2> QED BY <2>1, <2>2, <1>1 DEF QueueInv, Uses
<1> QED BY <1>cBasics, <1>cPlaces, <1>cRings, <1>cWritten, <1>cRelay, <1>cExclusive, <1>cExports, <1>cUnbound, <1>cUses DEF QueueInv

LEMMA CallbackStartKeeps ==
  ASSUME QueueInv, NEW i \in Intrs, CallbackStart(i)
  PROVE  QueueInv'
<1> USE Kinds
<1>0. /\ pc \in [Procs -> Labels] /\ cmd \in [Procs -> Commands \cup Answered \cup {None}]
      /\ ret \in [Callers -> Results] /\ calls \in [Callers -> Nat]
      /\ requests \in [Intrs -> Seq(ClientCommands)] /\ inbox \in [Clients -> Seq(Results)]
      /\ bound \in [Clients -> 0 .. enables] /\ since \in [Clients -> Nat]
      /\ enables \in 0 .. MaxEnables
  BY DEF QueueInv, Basics, Places, Relay
<1>3. i \in Procs /\ i \notin Callers /\ i # Owner /\ i \in Executors
  BY DEF Callers
<1>r. PICK req \in ClientCommands : req = Head(requests[i])
  BY <1>0 DEF CallbackStart
<1>s. [by |-> req.by, n |-> req.n, op |-> req.op, res |-> [err |-> "rejected", cpl |-> None]] \in Answered
  BY DEF ClientCommands, Commands, Answered, Outcomes
<1>a. PICK ans \in Answered : ans = [by |-> req.by, n |-> req.n, op |-> req.op, res |-> [err |-> "rejected", cpl |-> None]]
  BY <1>s
<1>1. /\ pc[i] = "idle" /\ i \in up /\ requests[i] # <<>>
      /\ requests' = [requests EXCEPT ![i] = Tail(@)]
      /\ \/ pc' = [pc EXCEPT ![i] = "lock"] /\ cmd' = [cmd EXCEPT ![i] = req]
         \/ pc' = [pc EXCEPT ![i] = "reply"] /\ cmd' = [cmd EXCEPT ![i] = ans]
      /\ UNCHANGED <<ref, lives, lock, ret, calls, asq, sqmem, acq, cqmem, dev, desc, info, handle, up, enables, bound, inbox, since, lag, stale>>
  BY <1>r, <1>a DEF CallbackStart, life, qvars, rpcvars, hist
<1>2. /\ \A q \in Procs : q # i => pc'[q] = pc[q] /\ cmd'[q] = cmd[q]
      /\ pc' \in [Procs -> Labels] /\ cmd' \in [Procs -> Commands \cup Answered \cup {None}]
      /\ \/ pc'[i] = "lock" /\ cmd'[i] \in ClientCommands
         \/ pc'[i] = "reply" /\ cmd'[i] \in Answered
  <2>1. CASE pc' = [pc EXCEPT ![i] = "lock"] /\ cmd' = [cmd EXCEPT ![i] = req]
    BY <2>1, <1>0, <1>3 DEF Labels, ClientCommands
  <2>2. CASE pc' = [pc EXCEPT ![i] = "reply"] /\ cmd' = [cmd EXCEPT ![i] = ans]
    BY <2>2, <1>0, <1>3 DEF Labels
  <2> QED BY <1>1, <2>1, <2>2
<1>4. requests' \in [Intrs -> Seq(ClientCommands)] /\ \A j \in Intrs : j # i => requests'[j] = requests[j]
  BY <1>0, <1>1
<1>5. Reached(i)
  BY <1>1 DEF QueueInv, Exports
<1>cBasics. Basics'
  BY <1>1 DEF QueueInv, Basics
<1>cPlaces. Places'
  BY <1>1, <1>2, <1>3, PlacesStep
<1>cRings. Rings'
  BY <1>1 DEF QueueInv, Rings
<1>cWritten. Written'
  BY <1>1 DEF QueueInv, Written
<1>cRelay. Relay'
  BY <1>0, <1>1, <1>4 DEF Relay
<1>cExclusive. Exclusive'
  BY <1>1, <1>2, <1>3 DEF QueueInv, Exclusive
<1>cExports. Exports'
  BY <1>1, <1>2, <1>3, <1>4, <1>5 DEF QueueInv, Exports, Reached
<1>cUnbound. Unbound'
  BY <1>1, <1>2, <1>3 DEF QueueInv, Unbound, Callers
<1>cUses. Uses'
  <2>1. \A q \in Executors : pc'[q] = "wait" <=> pc[q] = "wait"
    BY <1>1, <1>2, <1>3
  <2>2. Used' = Used
    BY <1>1 DEF Used
  <2> QED BY <2>1, <2>2, <1>1 DEF QueueInv, Uses
<1> QED BY <1>cBasics, <1>cPlaces, <1>cRings, <1>cWritten, <1>cRelay, <1>cExclusive, <1>cExports, <1>cUnbound, <1>cUses DEF QueueInv

LEMMA CallbackReplyKeeps ==
  ASSUME QueueInv, NEW i \in Intrs, CallbackReply(i)
  PROVE  QueueInv'
<1> USE Kinds
<1>0. /\ pc \in [Procs -> Labels] /\ cmd \in [Procs -> Commands \cup Answered \cup {None}]
      /\ ret \in [Callers -> Results] /\ calls \in [Callers -> Nat]
      /\ requests \in [Intrs -> Seq(ClientCommands)] /\ inbox \in [Clients -> Seq(Results)]
      /\ bound \in [Clients -> 0 .. enables] /\ since \in [Clients -> Nat]
      /\ enables \in 0 .. MaxEnables
  BY DEF QueueInv, Basics, Places, Relay
<1>3. i \in Procs /\ i \notin Callers /\ i # Owner /\ i \in Executors
  BY DEF Callers
<1>c. PICK c \in Clients : c = cmd[i].by
  BY DEF CallbackReply, QueueInv, Places, Answered
<1>o. \A r \in Replies(cmd[i].res) : r \in Results
  <2>1. cmd[i].res \in Outcomes
    BY DEF CallbackReply, QueueInv, Places, Answered
  <2> QED BY <2>1 DEF Replies, Outcomes, Results
<1>1. /\ pc[i] = "reply"
      /\ \E r \in Results : inbox' = [inbox EXCEPT ![c] = Append(@, r)] \/ inbox' = [inbox EXCEPT ![c] = @]
      /\ stale' \subseteq stale \cup {c}
      /\ pc' = [pc EXCEPT ![i] = "idle"]
      /\ cmd' = [cmd EXCEPT ![i] = None]
      /\ UNCHANGED <<ref, lives, lock, ret, calls, asq, sqmem, acq, cqmem, dev, desc, info, handle, up, enables, requests, bound, since, lag>>
  <2>1. PICK r \in Replies(cmd[i].res), arrives \in BOOLEAN :
           /\ inbox' = [inbox EXCEPT ![c] = IF arrives THEN Append(@, r) ELSE @]
           /\ stale' \subseteq stale \cup {c}
    BY <1>c DEF CallbackReply
  <2> QED BY <2>1, <1>o DEF CallbackReply, life, qvars, rpcvars, hist
<1>2. /\ \A q \in Procs : q # i => pc'[q] = pc[q] /\ cmd'[q] = cmd[q]
      /\ pc'[i] = "idle"
      /\ pc' \in [Procs -> Labels] /\ cmd' \in [Procs -> Commands \cup Answered \cup {None}]
  BY <1>0, <1>1, <1>3 DEF Labels
<1>4. inbox' \in [Clients -> Seq(Results)]
  <2>1. PICK r \in Results : inbox' = [inbox EXCEPT ![c] = Append(@, r)] \/ inbox' = [inbox EXCEPT ![c] = @]
    BY <1>1
  <2>2. Append(inbox[c], r) \in Seq(Results) /\ inbox[c] \in Seq(Results)
    BY <1>0
  <2> QED BY <1>0, <2>1, <2>2
<1>cBasics. Basics'
  BY <1>1 DEF QueueInv, Basics
<1>cPlaces. Places'
  BY <1>1, <1>2, <1>3, PlacesStep
<1>cRings. Rings'
  BY <1>1 DEF QueueInv, Rings
<1>cWritten. Written'
  BY <1>1 DEF QueueInv, Written
<1>cRelay. Relay'
  BY <1>0, <1>1, <1>4 DEF Relay
<1>cExclusive. Exclusive'
  BY <1>1, <1>2, <1>3 DEF QueueInv, Exclusive
<1>cExports. Exports'
  BY <1>1, <1>2, <1>3 DEF QueueInv, Exports, Reached
<1>cUnbound. Unbound'
  BY <1>1, <1>2, <1>3 DEF QueueInv, Unbound, Callers
<1>cUses. Uses'
  <2>1. \A q \in Executors : pc'[q] = "wait" <=> pc[q] = "wait"
    BY <1>1, <1>2, <1>3
  <2>2. Used' = Used
    BY <1>1 DEF Used
  <2> QED BY <2>1, <2>2, <1>1 DEF QueueInv, Uses
<1> QED BY <1>cBasics, <1>cPlaces, <1>cRings, <1>cWritten, <1>cRelay, <1>cExclusive, <1>cExports, <1>cUnbound, <1>cUses DEF QueueInv
\* Every step keeps the inductive invariant of the queue pair.
LEMMA QueueInvStep == ASSUME QueueInv, [Next]_vars PROVE QueueInv'
<1>1. CASE AqCreate
  BY <1>1, AqCreateKeeps
<1>2. CASE DestroyStart
  BY <1>2, DestroyStartKeeps
<1>3. CASE DestroyEnd
  BY <1>3, DestroyEndKeeps
<1>4. CASE EnableCreate
  BY <1>4, EnableCreateKeeps
<1>5. CASE EnableFail
  BY <1>5, EnableFailKeeps
<1>6. CASE EnableInsert
  BY <1>6, EnableInsertKeeps
<1>7. CASE EnableDrop
  BY <1>7, EnableDropKeeps
<1>8. CASE DisableStart
  BY <1>8, DisableStartKeeps
<1>8a. CASE DisableNull
  BY <1>8a, DisableNullKeeps
<1>9. CASE DisableEnd
  BY <1>9, DisableEndKeeps
<1>10. CASE DevFetch
  BY <1>10, FetchKeeps
<1>11. ASSUME NEW c \in dev.running, DevComplete(c) PROVE QueueInv'
  BY <1>11, CompleteKeeps
<1>12. ASSUME NEW t \in Threads, NEW op \in Ops, Call(t, op) PROVE QueueInv'
  BY <1>12, CallKeeps
<1>13. ASSUME NEW c \in Callers, Return(c) PROVE QueueInv'
  BY <1>13, ReturnKeeps
<1>14. ASSUME NEW p \in Executors, Execute(p) PROVE QueueInv'
  BY <1>14, TakeLockKeeps, SubmitKeeps, SubmitFullKeeps, DequeueKeeps, ExpireKeeps DEF Execute
<1>15. ASSUME NEW i \in Intrs, CallbackStart(i) \/ CallbackReply(i) PROVE QueueInv'
  BY <1>15, CallbackStartKeeps, CallbackReplyKeeps
<1>16. ASSUME NEW c \in Clients, Bind(c) \/ Unbind(c) \/ RemoteReply(c) \/ RemoteExpire(c) PROVE QueueInv'
  BY <1>16, BindKeeps, UnbindKeeps, RemoteReplyKeeps, RemoteExpireKeeps
<1>17. ASSUME NEW c \in Clients, NEW op \in ClientOps, RemoteCall(c, op) PROVE QueueInv'
  BY <1>17, RemoteCallKeeps
<1>18. CASE UNCHANGED vars
  <2> USE <1>18 DEF vars
  <2>1. Basics' /\ Places'
    BY DEF QueueInv, Basics, Places
  <2>2. Rings' /\ Written'
    BY DEF QueueInv, Rings, Written
  <2>3. Relay' /\ Exclusive'
    BY DEF QueueInv, Relay, Exclusive
  <2>4. Exports' /\ Unbound'
    BY DEF QueueInv, Exports, Reached, Unbound
  <2>5. Uses'
    BY DEF QueueInv, Uses, Used
  <2> QED BY <2>1, <2>2, <2>3, <2>4, <2>5 DEF QueueInv
<1> QED BY <1>1, <1>2, <1>3, <1>4, <1>5, <1>6, <1>7, <1>8, <1>8a, <1>9, <1>10, <1>11, <1>12, <1>13, <1>14, <1>15, <1>16, <1>17, <1>18 DEF Next

LEMMA QueueInvAlways == Spec => []QueueInv
<1>1. QueueInv /\ [Next]_vars => QueueInv'
  BY QueueInvStep
<1> QED BY QueueInvInit, <1>1, PTL DEF Spec

\* Types; a caller gets an error code or a command's completion (rpc.cpp,
\* execute_command; dis/rpc.c, handle_remote_command).
THEOREM TypeCorrect == Spec => []TypeOK
<1>1. QueueInv => TypeOK
  BY QueueInvImplies
<1> QED BY QueueInvAlways, <1>1, PTL

\* The submission queue has exactly the entries of the waits that have expired
\* and of the one that has not (nvm_sq_enqueue, nvm_sq_update, execute_command).
THEOREM RingIsAccounted == Spec => []RingAccounting
<1>1. QueueInv => RingAccounting
  BY QueueInvImplies
<1> QED BY QueueInvAlways, <1>1, PTL

\* The shared segment never names an interrupt that is gone or not listed
\* (nvm_dis_rpc_enable, nvm_dis_rpc_disable, _nvm_ref_put).
THEOREM ExportsAreLive == Spec => []ExportIsLive
<1>1. QueueInv => ExportIsLive
  BY QueueInvImplies
<1> QED BY QueueInvAlways, <1>1, PTL
-----------------------------------------------------------------------------
LEMMA OwnInvInit == Init => OwnInv
<1> SUFFICES ASSUME Init PROVE OwnInv
  OBVIOUS
<1> USE Kinds, QueueAssumption, BoundAssumption
<1>1. QueueInv
  BY QueueInvInit
<1>2. Tags
  <2>1. \A j \in 0 .. CQS - 1 : cqmem[j].phase = FALSE
    BY DEF Init, EmptyCqmem
  <2>2. dev.phase = TRUE /\ dev.cqTail = 0
    BY DEF Init, ResetDev
  <2>3. \A j \in 0 .. CQS - 1 : ~ (j < 0)
    OBVIOUS
  <2> QED BY ONLY <2>1, <2>2, <2>3 DEF Tags
<1>3. OneInFlight
  <2>1. \A p \in Executors : pc[p] # "wait"
    BY DEF Init
  <2>2. Waiters = {}
    BY <2>1 DEF Waiters
  <2>3. dev.sqHead = asq.tail /\ dev.running = {} /\ NoneReady
    BY DEF Init, ResetDev, EmptyAsq, EmptyAcq, NoneReady
  <2> QED BY <2>2, <2>3 DEF OneInFlight
<1>4. Expired
  BY DEF Init, Expired
<1>5. RightReplies
  BY DEF Init, RightReplies
<1>6. ClientAlone
  <2>1. /\ \A c \in Clients : since[c] = 0 /\ calls[c] = 0 /\ pc[c] = "idle" /\ inbox[c] = <<>>
        /\ \A i \in Intrs : pc[i] = "idle" /\ Len(requests[i]) = 0
    BY DEF Init
  <2> QED BY <2>1 DEF ClientAlone, ClientOk, Numbered, Queued, Called, Alone, Received, InCall
<1>7. OwnCompletion
  BY DEF Init, OwnCompletion
<1> QED BY <1>1, <1>2, <1>3, <1>4, <1>5, <1>6, <1>7 DEF OwnInv, OwnRest

\* Steps that leave the rings, the controller and the waiters alone.
LEMMA FlightFrame ==
  ASSUME OwnInv, UNCHANGED <<lag, asq, sqmem, acq, cqmem, dev>>,
         \A p \in Executors : pc'[p] = "wait" <=> pc[p] = "wait",
         \A p \in Executors : pc[p] = "wait" => cmd'[p] = cmd[p]
  PROVE  Tags' /\ OneInFlight'
<1>1. Waiters' = Waiters
  BY DEF Waiters
<1>2. \A p \in Waiters : cmd'[p] = cmd[p]
  BY DEF Waiters
<1>3. Tags'
  BY DEF OwnInv, OwnRest, Tags
<1>4. OneInFlight'
  BY <1>1, <1>2 DEF OwnInv, OwnRest, OneInFlight, NoneReady, OneReady
<1> QED BY <1>3, <1>4

\* Steps after which no more callbacks reply.
LEMMA RepliesFrame ==
  ASSUME OwnInv, UNCHANGED lag,
         \A i \in Intrs : pc'[i] = "reply" => pc[i] = "reply" /\ cmd'[i] = cmd[i]
  PROVE  RightReplies'
BY DEF OwnInv, OwnRest, RightReplies, Asked

\* Steps after which no more calls return.
LEMMA ReturnFrame ==
  ASSUME OwnInv,
         \A c \in Callers : pc'[c] = "return" =>
           /\ pc[c] = "return" /\ ret'[c] = ret[c] /\ cmd'[c] = cmd[c]
           /\ c \in stale => c \in stale'
  PROVE  OwnCompletion'
BY DEF OwnInv, OwnRest, OwnCompletion

\* Steps that leave the clients and their requests alone, or drop requests.
LEMMA ClientFrame ==
  ASSUME OwnInv, UNCHANGED <<inbox, since>>,
         \A c \in Clients : /\ pc'[c] = pc[c] /\ cmd'[c] = cmd[c] /\ calls'[c] = calls[c]
                            /\ c \in stale => c \in stale',
         \A i \in Intrs : requests'[i] = requests[i] \/ requests'[i] = <<>>,
         \A i \in Intrs : pc'[i] = "idle" <=> pc[i] = "idle",
         \A i \in Intrs : pc[i] # "idle" => /\ cmd'[i].by = cmd[i].by /\ cmd'[i].n = cmd[i].n
                                            /\ cmd'[i].op = cmd[i].op
  PROVE  ClientAlone'
<1> SUFFICES ASSUME NEW c \in Clients
             PROVE  Numbered(c)' /\ (c \notin stale' => Queued(c)' /\ Called(c)' /\ Alone(c)' /\ Received(c)')
  BY DEF ClientAlone, ClientOk
<1>1. Numbered(c) /\ (c \notin stale => Queued(c) /\ Called(c) /\ Alone(c) /\ Received(c))
  BY DEF OwnInv, OwnRest, ClientAlone, ClientOk
<1>2. /\ \A i \in Intrs : \A j \in 1 .. Len(requests'[i]) :
           j \in 1 .. Len(requests[i]) /\ requests'[i][j] = requests[i][j]
  <2>1. \A i \in Intrs : Len(<<>>) = 0
    OBVIOUS
  <2>2. \A j \in 1 .. 0 : FALSE
    OBVIOUS
  <2> QED BY <2>1, <2>2
<1>3. \A i \in Intrs : InCall(c, i)' <=> InCall(c, i)
  BY DEF InCall
<1>4. \A i \in Intrs : \A j \in 1 .. Len(requests'[i]) : InQueue(c, i, j)' <=> InQueue(c, i, j)
  BY <1>2 DEF InQueue
<1>5. Asking(c)' = Asking(c)
  BY DEF Asking
<1>6. Numbered(c)'
  BY <1>1, <1>2 DEF Numbered
<1>7. ASSUME c \notin stale' PROVE Queued(c)'
  BY <1>1, <1>2, <1>4, <1>5, <1>7 DEF Queued
<1>8. ASSUME c \notin stale' PROVE Called(c)'
  BY <1>1, <1>3, <1>5, <1>8 DEF Called, Asked, InCall
<1>9. ASSUME c \notin stale' PROVE Alone(c)'
  BY <1>1, <1>2, <1>3, <1>4, <1>9 DEF Alone
<1>10. ASSUME c \notin stale' PROVE Received(c)'
  BY <1>1, <1>10 DEF Received
<1> QED BY <1>6, <1>7, <1>8, <1>9, <1>10
\* The steps of the owner disturb nobody's command.
LEMMA QuietStep ==
  ASSUME OwnInv, UNCHANGED <<cmd, ret, calls, asq, sqmem, acq, cqmem, dev, inbox, since, lag, stale>>,
         \A q \in Procs : q # Owner => pc'[q] = pc[q],
         \A i \in Intrs : requests'[i] = requests[i] \/ requests'[i] = <<>>
  PROVE  OwnRest'
<1> USE Kinds
<1>1. \A q \in Executors \cup Callers : pc'[q] = pc[q]
  OBVIOUS
<1>2. \A c \in Clients : c \in Callers
  OBVIOUS
<1>3. \A i \in Intrs : i \in Executors
  OBVIOUS
<1>4. Tags' /\ OneInFlight'
  BY <1>1, FlightFrame
<1>5. Expired'
  BY DEF OwnInv, OwnRest, Expired
<1>6. RightReplies'
  BY <1>1, <1>3, RepliesFrame
<1>7. ClientAlone'
  BY <1>1, <1>2, <1>3, ClientFrame
<1>8. OwnCompletion'
  BY <1>1, ReturnFrame
<1> QED BY <1>4, <1>5, <1>6, <1>7, <1>8 DEF OwnRest

LEMMA OwnerOwn ==
  ASSUME OwnInv, \/ DestroyStart \/ DestroyEnd \/ EnableCreate \/ EnableFail
                 \/ EnableInsert \/ EnableDrop \/ DisableStart \/ DisableEnd \/ DisableNull
  PROVE  OwnRest'
<1>0. /\ pc \in [Procs -> Labels] /\ requests \in [Intrs -> Seq(ClientCommands)]
      /\ enables \in Nat /\ handle \in Intrs \cup {0}
  BY DEF OwnInv, QueueInv, Places, Relay, Basics
<1>1. /\ UNCHANGED <<cmd, ret, calls, asq, sqmem, acq, cqmem, dev, inbox, since, lag, stale>>
      /\ pc' = pc \/ \E l : pc' = [pc EXCEPT ![Owner] = l]
      /\ requests' = requests \/ \E i : requests' = [requests EXCEPT ![i] = <<>>]
  <2>1. CASE DestroyStart
    BY <2>1 DEF DestroyStart, life, qvars, rpcvars, hist, CreateIntr, RemoveIntr
  <2>2. CASE DestroyEnd
    BY <2>2 DEF DestroyEnd, life, qvars, rpcvars, hist, CreateIntr, RemoveIntr
  <2>3. CASE EnableCreate
    BY <2>3 DEF EnableCreate, life, qvars, rpcvars, hist, CreateIntr, RemoveIntr
  <2>4. CASE EnableFail
    BY <2>4 DEF EnableFail, life, qvars, rpcvars, hist, CreateIntr, RemoveIntr
  <2>5. CASE EnableInsert
    BY <2>5 DEF EnableInsert, life, qvars, rpcvars, hist, CreateIntr, RemoveIntr
  <2>6. CASE EnableDrop
    BY <2>6 DEF EnableDrop, life, qvars, rpcvars, hist, CreateIntr, RemoveIntr
  <2>7. CASE DisableStart
    BY <2>7 DEF DisableStart, life, qvars, rpcvars, hist, CreateIntr, RemoveIntr
  <2>8. CASE DisableEnd
    BY <2>8 DEF DisableEnd, life, qvars, rpcvars, hist, CreateIntr, RemoveIntr
  <2>8a. CASE DisableNull
    BY <2>8a DEF DisableNull, life, qvars, rpcvars, hist
  <2> QED BY <2>1, <2>2, <2>3, <2>4, <2>5, <2>6, <2>7, <2>8, <2>8a
<1>2. \A q \in Procs : q # Owner => pc'[q] = pc[q]
  BY <1>0, <1>1
<1>3. \A i \in Intrs : requests'[i] = requests[i] \/ requests'[i] = <<>>
  BY <1>0, <1>1
<1> QED BY <1>1, <1>2, <1>3, QuietStep

\* Steps of the controller leave everybody else alone.
LEMMA ControllerFrame ==
  ASSUME OwnInv, UNCHANGED <<cmd, ret, calls, pc, requests, inbox, since, lag, stale>>
  PROVE  Expired' /\ RightReplies' /\ ClientAlone' /\ OwnCompletion'
<1>1. Expired'
  BY DEF OwnInv, OwnRest, Expired
<1>2. RightReplies'
  BY RepliesFrame
<1>3. ClientAlone'
  BY ClientFrame
<1>4. OwnCompletion'
  BY ReturnFrame
<1> QED BY <1>1, <1>2, <1>3, <1>4

LEMMA FetchOwn == ASSUME OwnInv, DevFetch PROVE OwnRest'
<1> USE Kinds
<1>1. /\ dev.sqHead # asq.tail
      /\ dev' = [dev EXCEPT !.sqHead = Next1(@, QS), !.running = @ \cup {sqmem[dev.sqHead]}]
      /\ UNCHANGED <<lock, pc, cmd, ret, calls, asq, sqmem, acq, cqmem, requests, inbox, since, lag, stale>>
  BY DEF DevFetch, life, qvars, rpcvars, hist, OwnInv, QueueInv, Rings
<1>2. /\ dev'.sqHead = Next1(dev.sqHead, QS) /\ dev'.running = dev.running \cup {sqmem[dev.sqHead]}
      /\ dev'.cqTail = dev.cqTail /\ dev'.phase = dev.phase
  BY <1>1 DEF OwnInv, QueueInv, Rings
<1>3. Tags'
  BY <1>1, <1>2 DEF OwnInv, OwnRest, Tags
<1>4. Waiters' = Waiters /\ NoneReady' = NoneReady
  BY <1>1, <1>2 DEF Waiters, NoneReady
<1>5. ASSUME lag = 0 PROVE /\ Waiters # {}
                           /\ \A p \in Waiters : dev'.sqHead = asq.tail /\ dev'.running = {cmd[p]} /\ NoneReady
  BY <1>1, <1>2, <1>5 DEF OwnInv, OwnRest, OneInFlight
<1>6. OneInFlight'
  BY <1>1, <1>4, <1>5 DEF OneInFlight
<1>7. Expired' /\ RightReplies' /\ ClientAlone' /\ OwnCompletion'
  BY <1>1, ControllerFrame
<1> QED BY <1>3, <1>6, <1>7 DEF OwnRest

LEMMA CompleteOwn == ASSUME OwnInv, NEW c, DevComplete(c) PROVE OwnRest'
<1> USE Kinds
<1>1. /\ c \in dev.running
      /\ cqmem' = [cqmem EXCEPT ![dev.cqTail] = [cpl |-> c, ok |-> Accepted(c), phase |-> dev.phase]]
      /\ UNCHANGED <<lock, pc, cmd, ret, calls, asq, sqmem, acq, requests, inbox, since, lag, stale>>
  BY DEF DevComplete, life, qvars, rpcvars, hist
<1>2. /\ dev'.sqHead = dev.sqHead /\ dev'.running = dev.running \ {c}
      /\ dev'.cqTail = Next1(dev.cqTail, CQS)
      /\ dev'.phase = IF dev.cqTail + 1 = CQS THEN ~dev.phase ELSE dev.phase
  BY DevEffect DEF OwnInv
<1>3. /\ dev.cqTail \in 0 .. CQS - 1 /\ dev.phase \in BOOLEAN /\ acq.head \in 0 .. CQS - 1 /\ acq.phase \in BOOLEAN
      /\ \A j \in 0 .. CQS - 1 : cqmem[j].phase \in BOOLEAN
  BY DEF OwnInv, QueueInv, Rings
<1>4. /\ \A j \in 0 .. CQS - 1 : j # dev.cqTail => cqmem'[j] = cqmem[j]
      /\ cqmem'[dev.cqTail].phase = dev.phase /\ cqmem'[dev.cqTail].cpl = c
  <2>1. cqmem \in [0 .. CQS - 1 -> [cpl : Commands \cup {None}, ok : BOOLEAN, phase : BOOLEAN]]
    BY DEF OwnInv, QueueInv, Rings
  <2>2. /\ \A j \in 0 .. CQS - 1 : j # dev.cqTail => cqmem'[j] = cqmem[j]
        /\ cqmem'[dev.cqTail] = [cpl |-> c, ok |-> Accepted(c), phase |-> dev.phase]
    BY <2>1, <1>1, <1>3
  <2> QED BY <2>2
<1>5. \A j \in 0 .. CQS - 1 : cqmem'[j].phase = dev.phase <=> j < dev.cqTail + 1
  <2>1. \A j \in 0 .. CQS - 1 : cqmem[j].phase = dev.phase <=> j < dev.cqTail
    BY DEF OwnInv, OwnRest, Tags
  <2> QED BY <2>1, <1>3, <1>4
<1>6. Tags'
  <2>1. CASE dev.cqTail + 1 = CQS
    <3>1. \A j \in 0 .. CQS - 1 : cqmem'[j].phase = dev.phase /\ ~ (j < dev'.cqTail)
      BY <2>1, <1>2, <1>5, QueueAssumption DEF Next1
    <3>2. dev'.phase = ~dev.phase
      BY <1>2, <2>1
    <3>3. dev'.phase # dev.phase
      BY <3>2, <1>3
    <3> QED BY <3>1, <3>3 DEF Tags
  <2>2. CASE dev.cqTail + 1 # CQS
    <3>1. dev'.cqTail = dev.cqTail + 1 /\ dev'.phase = dev.phase
      BY <1>2, <2>2 DEF Next1
    <3> QED BY <3>1, <1>5 DEF Tags
  <2> QED BY <2>1, <2>2
<1>7. Waiters' = Waiters
  BY <1>1 DEF Waiters
<1>8. ASSUME lag = 0
      PROVE  /\ Waiters # {}
             /\ \A p \in Waiters : dev'.sqHead = asq.tail /\ dev'.running = {} /\ NoneReady /\ c = cmd[p]
  BY <1>1, <1>2, <1>8 DEF OwnInv, OwnRest, OneInFlight
<1>9. ASSUME NoneReady PROVE OneReady' /\ cqmem'[acq.head].cpl = c
  <2>1. acq.head = dev.cqTail /\ acq.phase = dev.phase /\ acq' = acq
    BY <1>9, <1>1 DEF NoneReady
  <2>2. dev'.cqTail = Next1(acq'.head, CQS)
    BY <2>1, <1>2
  <2>3. acq'.phase = IF acq'.head + 1 = CQS THEN ~dev'.phase ELSE dev'.phase
    <3>1. CASE dev.cqTail + 1 = CQS
      <4>1. dev'.phase = ~dev.phase
        BY <3>1, <1>2
      <4>2. dev.phase = ~dev'.phase
        BY <4>1, <1>3
      <4> QED BY <4>2, <2>1, <3>1
    <3>2. CASE dev.cqTail + 1 # CQS
      BY <3>2, <2>1, <1>2
    <3> QED BY <3>1, <3>2
  <2> QED BY <2>1, <2>2, <2>3, <1>4 DEF OneReady
<1>10. OneInFlight'
  BY <1>1, <1>7, <1>8, <1>9 DEF OneInFlight
<1>11. Expired' /\ RightReplies' /\ ClientAlone' /\ OwnCompletion'
  BY <1>1, ControllerFrame
<1> QED BY <1>6, <1>10, <1>11 DEF OwnRest
LEMMA AqCreateOwn == ASSUME OwnInv, AqCreate PROVE OwnRest'
<1> USE Kinds
<1>1. /\ ref = "none" /\ asq' = EmptyAsq /\ acq' = EmptyAcq /\ cqmem' = EmptyCqmem
      /\ \E ready \in BOOLEAN : dev' = ResetDev(ready)
      /\ lag' = 0 /\ stale' = stale \ Threads
      /\ UNCHANGED <<lock, pc, cmd, ret, calls, requests, inbox, since>>
  BY DEF AqCreate, rpcvars
<1>2. \A p \in Executors : pc[p] = "idle"
  BY <1>1 DEF OwnInv, QueueInv, Unbound, Exports, Reached, Executors
<1>3. /\ dev'.phase = TRUE /\ dev'.cqTail = 0 /\ dev'.sqHead = 0 /\ dev'.running = {}
      /\ asq'.tail = 0 /\ acq'.head = 0 /\ acq'.phase = TRUE
  BY <1>1 DEF ResetDev, EmptyAsq, EmptyAcq
<1>4. Tags'
  <2>1. \A j \in 0 .. CQS - 1 : cqmem'[j].phase = FALSE
    BY <1>1 DEF EmptyCqmem
  <2>2. \A j \in 0 .. CQS - 1 : ~ (j < 0)
    BY QueueAssumption
  <2> QED BY ONLY <2>1, <2>2, <1>3 DEF Tags
<1>5. OneInFlight'
  <2>1. Waiters' = {}
    BY <1>1, <1>2 DEF Waiters
  <2> QED BY <2>1, <1>3 DEF OneInFlight, NoneReady
<1>6. Expired'
  BY <1>1 DEF Expired
<1>7. RightReplies'
  BY <1>1, <1>2 DEF RightReplies
<1>8. ClientAlone'
  BY <1>1, ClientFrame
<1>9. OwnCompletion'
  <2>1. \A c \in Callers : pc[c] = "return" => c \in Clients
    BY <1>2 DEF Callers
  <2> QED BY <2>1, <1>1, ReturnFrame
<1> QED BY <1>4, <1>5, <1>6, <1>7, <1>8, <1>9 DEF OwnRest

LEMMA CallOwn == ASSUME OwnInv, NEW t \in Threads, NEW op \in Ops, Call(t, op) PROVE OwnRest'
<1> USE Kinds
<1>0. /\ pc \in [Procs -> Labels] /\ cmd \in [Procs -> Commands \cup Answered \cup {None}]
      /\ calls \in [Callers -> Nat]
  BY DEF OwnInv, QueueInv, Basics, Places
<1>1. /\ pc[t] = "idle" /\ pc' = [pc EXCEPT ![t] = "lock"] /\ calls' = [calls EXCEPT ![t] = @ + 1]
      /\ cmd' = [cmd EXCEPT ![t] = [by |-> t, n |-> calls[t] + 1, op |-> op]]
      /\ UNCHANGED <<ret, asq, sqmem, acq, cqmem, dev, requests, inbox, since, lag, stale>>
  BY DEF Call, life, qvars, rpcvars, hist
<1>2. /\ \A q \in Procs : q # t => pc'[q] = pc[q] /\ cmd'[q] = cmd[q]
      /\ pc'[t] = "lock"
      /\ \A c \in Callers : c # t => calls'[c] = calls[c]
  BY <1>0, <1>1
<1>3. Tags' /\ OneInFlight'
  BY <1>1, <1>2, FlightFrame
<1>4. Expired'
  BY <1>1 DEF OwnInv, OwnRest, Expired
<1>5. RightReplies'
  BY <1>1, <1>2, RepliesFrame
<1>6. ClientAlone'
  <2>1. \A c \in Clients : pc'[c] = pc[c] /\ cmd'[c] = cmd[c] /\ calls'[c] = calls[c]
    BY <1>2
  <2>2. \A i \in Intrs : pc'[i] = pc[i] /\ cmd'[i] = cmd[i]
    BY <1>2
  <2> QED BY <1>1, <2>1, <2>2, ClientFrame
<1>7. OwnCompletion'
  BY <1>1, <1>2, ReturnFrame
<1> QED BY <1>3, <1>4, <1>5, <1>6, <1>7 DEF OwnRest

LEMMA TakeLockOwn == ASSUME OwnInv, NEW p \in Executors, TakeLock(p) PROVE OwnRest'
<1> USE Kinds
<1>0. pc \in [Procs -> Labels]
  BY DEF OwnInv, QueueInv, Places
<1>1. /\ pc[p] = "lock" /\ pc' = [pc EXCEPT ![p] = "enqueue"]
      /\ UNCHANGED <<cmd, calls, ret, asq, sqmem, acq, cqmem, dev, requests, inbox, since, lag, stale>>
  BY DEF TakeLock, life, qvars, rpcvars, hist
<1>2. /\ \A q \in Procs : q # p => pc'[q] = pc[q]
      /\ pc'[p] = "enqueue" /\ p \notin Clients /\ p \in Procs
  BY <1>0, <1>1 DEF Executors
<1>3. Tags' /\ OneInFlight'
  BY <1>1, <1>2, FlightFrame
<1>4. Expired'
  BY <1>1 DEF OwnInv, OwnRest, Expired
<1>5. RightReplies'
  BY <1>1, <1>2, RepliesFrame
<1>6. ClientAlone'
  <2>1. \A c \in Clients : pc'[c] = pc[c]
    BY <1>2
  <2>2. \A i \in Intrs : pc'[i] = "idle" <=> pc[i] = "idle"
    BY <1>1, <1>2
  <2> QED BY <1>1, <2>1, <2>2, ClientFrame
<1>7. OwnCompletion'
  BY <1>1, <1>2, ReturnFrame
<1> QED BY <1>3, <1>4, <1>5, <1>6, <1>7 DEF OwnRest

LEMMA SubmitOwn == ASSUME OwnInv, NEW p \in Executors, Submit(p) PROVE OwnRest'
<1> USE Kinds
<1>0. pc \in [Procs -> Labels]
  BY DEF OwnInv, QueueInv, Places
<1>1. /\ pc[p] = "enqueue" /\ pc' = [pc EXCEPT ![p] = "wait"]
      /\ sqmem' = [sqmem EXCEPT ![asq.tail] = cmd[p]]
      /\ asq' = nvm_sq_submit(nvm_sq_enqueue(asq))
      /\ UNCHANGED <<cmd, calls, ret, acq, cqmem, dev, requests, inbox, since, lag, stale>>
  BY DEF Submit, life, qvars, rpcvars, hist
<1>2. /\ \A q \in Procs : q # p => pc'[q] = pc[q]
      /\ pc'[p] = "wait" /\ p \notin Clients /\ p \in Procs
  BY <1>0, <1>1 DEF Executors
<1>3. asq'.tail = Next1(asq.tail, QS) /\ asq.tail \in 0 .. QS - 1
  <2>1. asq \in [head : 0 .. QS - 1, tail : 0 .. QS - 1, last : 0 .. QS - 1]
    BY DEF OwnInv, QueueInv, Rings
  <2>2. PICK n : n = Next1(asq.tail, QS)
    OBVIOUS
  <2>3. asq' = [[asq EXCEPT !.tail = n] EXCEPT !.last = [asq EXCEPT !.tail = n].tail]
    BY <2>2, <1>1 DEF nvm_sq_submit, nvm_sq_enqueue
  <2>4. asq'.tail = n
    BY ONLY <2>1, <2>3
  <2> QED BY <2>1, <2>2, <2>4
<1>4. sqmem'[asq.tail] = cmd[p]
  BY <1>1, <1>3 DEF OwnInv, QueueInv, Rings
<1>5. Next1(asq.tail, QS) # asq.tail
  BY <1>3, QueueAssumption DEF Next1
<1>6. \A q \in Executors : pc[q] # "wait"
  BY <1>1 DEF OwnInv, QueueInv, Exclusive
<1>7. Waiters = {} /\ Waiters' = {p}
  BY <1>2, <1>6 DEF Waiters
<1>8. Tags'
  BY <1>1 DEF OwnInv, OwnRest, Tags
<1>9. OneInFlight'
  <2> SUFFICES ASSUME lag' = 0
               PROVE  /\ dev'.sqHead # asq'.tail /\ Next1(dev'.sqHead, QS) = asq'.tail
                      /\ sqmem'[dev'.sqHead] = cmd'[p] /\ dev'.running = {} /\ NoneReady'
    BY <1>7 DEF OneInFlight
  <2>1. dev.sqHead = asq.tail /\ dev.running = {} /\ NoneReady
    BY <1>1, <1>7 DEF OwnInv, OwnRest, OneInFlight
  <2>2. NoneReady'
    BY <2>1, <1>1 DEF NoneReady
  <2> QED BY <2>1, <2>2, <1>1, <1>3, <1>4, <1>5
<1>10. Expired'
  BY <1>1 DEF OwnInv, OwnRest, Expired
<1>11. RightReplies'
  BY <1>1, <1>2, RepliesFrame
<1>12. ClientAlone'
  <2>1. \A c \in Clients : pc'[c] = pc[c]
    BY <1>2
  <2>2. \A i \in Intrs : pc'[i] = "idle" <=> pc[i] = "idle"
    BY <1>1, <1>2
  <2> QED BY <1>1, <2>1, <2>2, ClientFrame
<1>13. OwnCompletion'
  BY <1>1, <1>2, ReturnFrame
<1> QED BY <1>8, <1>9, <1>10, <1>11, <1>12, <1>13 DEF OwnRest

\* The end of a command, with its own completion, no completion, or an expired wait.
LEMMA FinishOwn ==
  ASSUME OwnInv, NEW p \in Executors, pc[p] \in {"enqueue", "wait"},
         NEW result \in Outcomes, result \in Results, Finish(p, result),
         UNCHANGED <<calls, requests, inbox, since>>,
         stale \subseteq stale',
         lag' = lag \/ lag' # 0,
         result.cpl = None \/ (lag' = 0 => result.cpl = cmd[p]),
         Expired'
  PROVE  RightReplies' /\ ClientAlone' /\ OwnCompletion'
<1> USE Kinds
<1>0. QueueInv
  BY DEF OwnInv
<1>1. /\ \A q \in Procs : pc'[q] = IF q = p THEN (IF p \in Threads THEN "return" ELSE "reply") ELSE pc[q]
      /\ \A q \in Procs : q # p \/ p \in Threads => cmd'[q] = cmd[q]
      /\ p \in Intrs => cmd'[p] = [by |-> cmd[p].by, n |-> cmd[p].n, op |-> cmd[p].op, res |-> result]
      /\ \A c \in Callers : ret'[c] = IF c = p THEN result ELSE ret[c]
  BY <1>0, FinishEffect
<1>2. /\ cmd[p] \in Commands
      /\ p \in Threads => cmd[p].by = p
  BY <1>0, CommandOf
<1>3. cmd[p] = [by |-> cmd[p].by, n |-> cmd[p].n, op |-> cmd[p].op]
  BY <1>2 DEF Commands
<1>4. p \in Procs /\ p \notin Clients /\ (p \in Threads \/ p \in Intrs)
  BY DEF Executors
<1>5. RightReplies'
  <2> SUFFICES ASSUME lag' = 0, NEW i \in Intrs, pc'[i] = "reply", cmd'[i].res.cpl # None
               PROVE  cmd'[i].res.cpl = Asked(i)'
    BY DEF RightReplies
  <2>1. CASE i = p
    <3>1. cmd'[i].res.cpl = result.cpl
      BY <2>1, <1>1
    <3>2. Asked(i)' = [by |-> cmd[p].by, n |-> cmd[p].n, op |-> cmd[p].op]
      BY <2>1, <1>1 DEF Asked
    <3> QED BY <3>1, <3>2, <1>3
  <2>2. CASE i # p
    <3>1. pc[i] = "reply" /\ cmd'[i] = cmd[i] /\ lag = 0
      BY <2>2, <1>1
    <3> QED BY <3>1 DEF OwnInv, OwnRest, RightReplies, Asked
  <2> QED BY <2>1, <2>2
<1>6. ClientAlone'
  <2>1. \A c \in Clients : pc'[c] = pc[c] /\ cmd'[c] = cmd[c]
    BY <1>1, <1>4
  <2>2. \A i \in Intrs : pc'[i] = "idle" <=> pc[i] = "idle"
    BY <1>1
  <2>3. \A i \in Intrs : cmd'[i].by = cmd[i].by /\ cmd'[i].n = cmd[i].n /\ cmd'[i].op = cmd[i].op
    BY <1>1
  <2> QED BY <2>1, <2>2, <2>3, ClientFrame
<1>7. OwnCompletion'
  <2> SUFFICES ASSUME NEW c \in Callers, pc'[c] = "return", c \notin stale', ret'[c].cpl # None
               PROVE  ret'[c].cpl = cmd'[c]
    BY DEF OwnCompletion
  <2>1. CASE c = p
    <3>1. ret'[c] = result /\ cmd'[c] = cmd[p]
      BY <2>1, <1>1, <1>4
    <3>2. lag' = 0
      BY DEF Expired
    <3> QED BY <3>1, <3>2
  <2>2. CASE c # p
    BY <2>2, <1>1 DEF OwnInv, OwnRest, OwnCompletion
  <2> QED BY <2>1, <2>2
<1> QED BY <1>5, <1>6, <1>7
LEMMA SubmitFullOwn == ASSUME OwnInv, NEW p \in Executors, SubmitFull(p) PROVE OwnRest'
<1> USE Kinds
<1>1. /\ pc[p] = "enqueue" /\ Finish(p, [err |-> "EAGAIN", cpl |-> None])
      /\ UNCHANGED <<calls, asq, sqmem, acq, cqmem, dev, requests, inbox, since, lag, stale>>
  BY DEF SubmitFull, life, qvars, rpcvars, hist
<1>2. [err |-> "EAGAIN", cpl |-> None] \in Outcomes /\ [err |-> "EAGAIN", cpl |-> None] \in Results
  BY DEF Outcomes, Results
<1>3. PICK result \in Outcomes : result = [err |-> "EAGAIN", cpl |-> None]
  BY <1>2
<1>4. /\ Finish(p, result) /\ result \in Results /\ pc[p] \in {"enqueue", "wait"} /\ result.cpl = None
      /\ UNCHANGED <<calls, requests, inbox, since>> /\ stale \subseteq stale' /\ lag' = lag
  BY <1>1, <1>2, <1>3
<1>5. Expired'
  BY <1>1 DEF OwnInv, OwnRest, Expired
<1>6. RightReplies' /\ ClientAlone' /\ OwnCompletion'
  BY ONLY OwnInv, p \in Executors, result \in Outcomes, <1>4, <1>5, FinishOwn
<1>7. /\ \A q \in Procs : pc'[q] = IF q = p THEN (IF p \in Threads THEN "return" ELSE "reply") ELSE pc[q]
      /\ \A q \in Procs : q # p => cmd'[q] = cmd[q]
  BY ONLY OwnInv, p \in Executors, result \in Outcomes, <1>4, FinishEffect DEF OwnInv
<1>8. \A q \in Executors : /\ pc'[q] = "wait" <=> pc[q] = "wait"
                           /\ pc[q] = "wait" => cmd'[q] = cmd[q]
  BY <1>1, <1>7
<1>9. Tags' /\ OneInFlight'
  BY <1>1, <1>8, FlightFrame
<1> QED BY <1>5, <1>6, <1>9 DEF OwnRest

LEMMA ExpireOwn == ASSUME OwnInv, NEW p \in Executors, Expire(p) PROVE OwnRest'
<1> USE Kinds
<1>1. /\ pc[p] = "wait" /\ Finish(p, [err |-> "ETIME", cpl |-> None])
      /\ lag' = lag + 1 /\ stale' = Callers
      /\ UNCHANGED <<calls, asq, sqmem, acq, cqmem, dev, requests, inbox, since>>
  BY DEF Expire, life, qvars, rpcvars, hist
<1>2. [err |-> "ETIME", cpl |-> None] \in Outcomes /\ [err |-> "ETIME", cpl |-> None] \in Results
  BY DEF Outcomes, Results
<1>3. PICK result \in Outcomes : result = [err |-> "ETIME", cpl |-> None]
  BY <1>2
<1>l. lag' # 0 /\ stale \subseteq stale'
  <2>1. lag \in Nat /\ stale \subseteq Callers
    BY DEF OwnInv, QueueInv, Rings, Basics
  <2> QED BY <2>1, <1>1
<1>4. /\ Finish(p, result) /\ result \in Results /\ pc[p] \in {"enqueue", "wait"} /\ result.cpl = None
      /\ UNCHANGED <<calls, requests, inbox, since>> /\ stale \subseteq stale' /\ lag' # 0
  BY <1>1, <1>2, <1>3, <1>l
<1>5. Expired'
  BY <1>1 DEF Expired
<1>6. RightReplies' /\ ClientAlone' /\ OwnCompletion'
  BY ONLY OwnInv, p \in Executors, result \in Outcomes, <1>4, <1>5, FinishOwn
<1>7. Tags'
  BY <1>1 DEF OwnInv, OwnRest, Tags
<1>8. OneInFlight'
  BY <1>l DEF OneInFlight
<1> QED BY <1>5, <1>6, <1>7, <1>8 DEF OwnRest

\* While no wait has expired, the completion at the head is the waiter's.
LEMMA HeadIsOwn ==
  ASSUME OwnInv, NEW p \in Executors, pc[p] = "wait", CplReady, lag = 0
  PROVE  /\ dev.sqHead = asq.tail /\ dev.running = {} /\ OneReady /\ cqmem[acq.head].cpl = cmd[p]
         /\ ~NoneReady
<1>1. p \in Waiters
  BY DEF Waiters
<1>2. ~NoneReady
  <2> SUFFICES ASSUME NoneReady PROVE FALSE
    OBVIOUS
  <2>1. acq.head = dev.cqTail /\ acq.phase = dev.phase /\ acq.head \in 0 .. CQS - 1
    BY DEF NoneReady, OwnInv, QueueInv, Rings
  <2>2. cqmem[acq.head].phase # dev.phase
    BY <2>1 DEF OwnInv, OwnRest, Tags
  <2> QED BY <2>1, <2>2 DEF CplReady
<1> QED BY <1>1, <1>2 DEF OwnInv, OwnRest, OneInFlight

LEMMA DequeueOwn == ASSUME OwnInv, NEW p \in Executors, Dequeue(p) PROVE OwnRest'
<1> USE Kinds
<1> DEFINE r == [err |-> IF cqmem[acq.head].ok THEN "ok" ELSE "status", cpl |-> cqmem[acq.head].cpl]
<1>1. /\ pc[p] = "wait" /\ CplReady /\ Finish(p, r)
      /\ acq' = [head |-> Next1(acq.head, CQS),
                 phase |-> IF acq.head + 1 = CQS THEN ~acq.phase ELSE acq.phase]
      /\ asq' = [asq EXCEPT !.head = Next1(@, QS)]
      /\ UNCHANGED <<calls, sqmem, cqmem, dev, requests, inbox, since, lag, stale>>
  BY DEF Dequeue, nvm_cq_dequeue, nvm_sq_update, life, qvars, rpcvars, hist
<1>2. r \in Outcomes /\ r \in Results /\ r.cpl = cqmem[acq.head].cpl
  <2>1. cqmem[acq.head].cpl \in Commands \cup {None}
    BY DEF OwnInv, QueueInv, Rings
  <2> QED BY <2>1 DEF Outcomes, Results
<1>3. PICK result \in Outcomes : result = r
  BY <1>2
<1> HIDE DEF r
<1>4. /\ Finish(p, result) /\ result \in Results /\ pc[p] \in {"enqueue", "wait"}
      /\ UNCHANGED <<calls, requests, inbox, since>> /\ stale \subseteq stale' /\ lag' = lag
  BY <1>1, <1>2, <1>3
<1>5. Expired'
  BY <1>1 DEF OwnInv, OwnRest, Expired
<1>6. lag' = 0 => result.cpl = cmd[p]
  BY <1>1, <1>2, <1>3, HeadIsOwn
<1>7. RightReplies' /\ ClientAlone' /\ OwnCompletion'
  BY ONLY OwnInv, p \in Executors, result \in Outcomes, <1>4, <1>5, <1>6, FinishOwn
<1>8. \A q \in Procs : pc'[q] = IF q = p THEN (IF p \in Threads THEN "return" ELSE "reply") ELSE pc[q]
  BY ONLY OwnInv, p \in Executors, result \in Outcomes, <1>4, FinishEffect DEF OwnInv
<1>9. Waiters' = {}
  <2>1. \A q \in Executors : pc[q] = "wait" => q = p
    BY <1>1 DEF OwnInv, QueueInv, Exclusive
  <2>2. \A q \in Executors : pc'[q] # "wait"
    BY <2>1, <1>8
  <2> QED BY <2>2 DEF Waiters
<1>10. Tags'
  BY <1>1 DEF OwnInv, OwnRest, Tags
<1>11. ASSUME lag = 0 PROVE dev.sqHead = asq.tail /\ dev.running = {} /\ OneReady
  BY <1>1, <1>11, HeadIsOwn
<1>12. asq'.tail = asq.tail
  BY <1>1 DEF OwnInv, QueueInv, Rings
<1>13. ASSUME OneReady PROVE NoneReady'
  <2>1. acq.phase \in BOOLEAN /\ dev.phase \in BOOLEAN
    BY DEF OwnInv, QueueInv, Rings
  <2>2. acq'.head = dev'.cqTail
    BY <1>1, <1>13 DEF OneReady
  <2>3. acq'.phase = dev'.phase
    <3>1. CASE acq.head + 1 = CQS
      <4>1. acq.phase = ~dev.phase /\ acq'.phase = ~acq.phase
        BY <3>1, <1>1, <1>13 DEF OneReady
      <4>2. dev.phase = ~acq.phase
        BY <4>1, <2>1
      <4> QED BY <4>1, <4>2, <1>1
    <3>2. CASE acq.head + 1 # CQS
      BY <3>2, <1>1, <1>13 DEF OneReady
    <3> QED BY <3>1, <3>2
  <2> QED BY <2>2, <2>3 DEF NoneReady
<1>14. OneInFlight'
  BY <1>1, <1>9, <1>11, <1>12, <1>13 DEF OneInFlight
<1> QED BY <1>5, <1>7, <1>10, <1>14 DEF OwnRest
\* A client that a step leaves alone, while callbacks may end.
LEMMA OtherClient ==
  ASSUME OwnInv, NEW c \in Clients,
         pc'[c] = pc[c], cmd'[c] = cmd[c], calls'[c] = calls[c], inbox'[c] = inbox[c], since'[c] = since[c],
         c \in stale => c \in stale',
         UNCHANGED requests,
         \A i \in Intrs : pc'[i] # "idle" => pc[i] # "idle" /\ cmd'[i] = cmd[i]
  PROVE  ClientOk(c)'
<1>1. Numbered(c) /\ (c \notin stale => Queued(c) /\ Called(c) /\ Alone(c) /\ Received(c))
  BY DEF OwnInv, OwnRest, ClientAlone, ClientOk
<1>2. \A i \in Intrs : InCall(c, i)' => InCall(c, i) /\ Asked(i)' = Asked(i)
  BY DEF InCall, Asked
<1>3. \A i \in Intrs : \A j \in 1 .. Len(requests[i]) : InQueue(c, i, j)' <=> InQueue(c, i, j)
  BY DEF InQueue
<1>4. Asking(c)' = Asking(c)
  BY DEF Asking
<1>5. Numbered(c)'
  BY <1>1 DEF Numbered
<1>6. ASSUME c \notin stale' PROVE Queued(c)'
  BY <1>1, <1>3, <1>4, <1>6 DEF Queued
<1>7. ASSUME c \notin stale' PROVE Called(c)'
  BY <1>1, <1>2, <1>4, <1>7 DEF Called
<1>8. ASSUME c \notin stale' PROVE Alone(c)'
  BY <1>1, <1>2, <1>3, <1>8 DEF Alone
<1>9. ASSUME c \notin stale' PROVE Received(c)'
  BY <1>1, <1>9 DEF Received
<1> QED BY <1>5, <1>6, <1>7, <1>8, <1>9 DEF ClientOk

LEMMA PendingTyped ==
  ASSUME OwnInv
  PROVE  /\ \A i \in Intrs : pc[i] # "idle" => cmd[i] \in Commands \/ cmd[i] \in Answered
         /\ \A i \in Intrs : \A j \in 1 .. Len(requests[i]) : requests[i][j] \in Commands
<1>1. ASSUME NEW i \in Intrs, pc[i] # "idle" PROVE cmd[i] \in Commands \/ cmd[i] \in Answered
  <2>1. /\ pc[i] \in {"idle", "lock", "enqueue", "wait", "reply"}
        /\ pc[i] \in {"lock", "enqueue", "wait"} => cmd[i] \in ClientCommands
        /\ pc[i] = "reply" => cmd[i] \in Answered
    BY DEF OwnInv, QueueInv, Places
  <2> QED BY <1>1, <2>1 DEF ClientCommands
<1>2. ASSUME NEW i \in Intrs, NEW j \in 1 .. Len(requests[i]) PROVE requests[i][j] \in Commands
  <2>1. requests[i] \in Seq(ClientCommands)
    BY DEF OwnInv, QueueInv, Relay
  <2>2. requests[i][j] \in ClientCommands
    BY <2>1
  <2> QED BY <2>2 DEF ClientCommands
<1> QED BY <1>1, <1>2

\* A client that is not waiting and whose answers are its own has nothing on its way.
LEMMA NothingPending ==
  ASSUME OwnInv, NEW c \in Clients, c \notin stale, pc[c] # "wait" \/ inbox[c] # <<>>
  PROVE  /\ \A i \in Intrs : ~InCall(c, i)
         /\ \A i \in Intrs : \A j \in 1 .. Len(requests[i]) : ~InQueue(c, i, j)
         /\ pc[c] # "wait" => inbox[c] = <<>>
BY DEF OwnInv, OwnRest, ClientAlone, ClientOk, Queued, Called, Received, Asking

LEMMA ReturnOwn == ASSUME OwnInv, NEW t \in Callers, Return(t) PROVE OwnRest'
<1> USE Kinds
<1>0. /\ pc \in [Procs -> Labels] /\ cmd \in [Procs -> Commands \cup Answered \cup {None}]
      /\ ret \in [Callers -> Results]
  BY DEF OwnInv, QueueInv, Basics, Places
<1>1. /\ pc[t] = "return" /\ pc' = [pc EXCEPT ![t] = "idle"] /\ cmd' = [cmd EXCEPT ![t] = None]
      /\ ret' = [ret EXCEPT ![t] = NoResult]
      /\ UNCHANGED <<calls, asq, sqmem, acq, cqmem, dev, requests, inbox, since, lag, stale>>
  BY DEF Return, life, qvars, rpcvars, hist
<1>2. /\ \A q \in Procs : q # t => pc'[q] = pc[q] /\ cmd'[q] = cmd[q]
      /\ pc'[t] = "idle" /\ t \notin Intrs
      /\ \A c \in Callers : c # t => ret'[c] = ret[c]
  BY <1>0, <1>1 DEF Callers
<1>3. Tags' /\ OneInFlight'
  BY <1>1, <1>2, FlightFrame
<1>4. Expired'
  BY <1>1 DEF OwnInv, OwnRest, Expired
<1>5. RightReplies'
  BY <1>1, <1>2, RepliesFrame
<1>6. OwnCompletion'
  BY <1>1, <1>2, ReturnFrame
<1>7. ClientAlone'
  <2> SUFFICES ASSUME NEW c \in Clients PROVE ClientOk(c)'
    BY DEF ClientAlone
  <2>0. \A i \in Intrs : pc'[i] = pc[i] /\ cmd'[i] = cmd[i]
    BY <1>2
  <2>1. CASE c # t
    BY <2>0, <2>1, <1>1, <1>2, OtherClient
  <2>2. CASE c = t
    <3>1. Numbered(c)'
      BY <2>0, <2>2, <1>1, <1>2 DEF OwnInv, OwnRest, ClientAlone, ClientOk, Numbered
    <3>2. ASSUME c \notin stale' PROVE Queued(c)' /\ Called(c)' /\ Alone(c)' /\ Received(c)'
      <4>1. /\ \A i \in Intrs : ~InCall(c, i)
            /\ \A i \in Intrs : \A j \in 1 .. Len(requests[i]) : ~InQueue(c, i, j)
            /\ inbox[c] = <<>>
        BY <3>2, <2>2, <1>1, NothingPending
      <4>2. /\ \A i \in Intrs : ~InCall(c, i)'
            /\ \A i \in Intrs : \A j \in 1 .. Len(requests'[i]) : ~InQueue(c, i, j)'
        BY <4>1, <2>0, <1>1 DEF InCall, InQueue
      <4> QED BY <4>1, <4>2, <1>1 DEF Queued, Called, Alone, Received
    <3> QED BY <3>1, <3>2 DEF ClientOk
  <2> QED BY <2>1, <2>2
<1> QED BY <1>3, <1>4, <1>5, <1>6, <1>7 DEF OwnRest

LEMMA BindOwn == ASSUME OwnInv, NEW c \in Clients, Bind(c) \/ Unbind(c) PROVE OwnRest'
<1> USE Kinds
<1>0. inbox \in [Clients -> Seq(Results)] /\ since \in [Clients -> Nat] /\ calls \in [Callers -> Nat]
  BY DEF OwnInv, QueueInv, Relay, Basics
<1>1. /\ pc[c] = "idle"
      /\ inbox' = [inbox EXCEPT ![c] = <<>>]
      /\ \/ since' = [since EXCEPT ![c] = calls[c]] /\ stale' = IF lag = 0 THEN stale \ {c} ELSE stale \cup {c}
         \/ since' = since /\ stale' = stale
      /\ UNCHANGED <<pc, cmd, ret, calls, asq, sqmem, acq, cqmem, dev, requests, lag>>
  BY DEF Bind, Unbind, remove_binding, life, qvars, rpcvars, hist
<1>2. \A d \in Clients : d # c => inbox'[d] = inbox[d] /\ since'[d] = since[d] /\ (d \in stale => d \in stale')
  BY <1>0, <1>1
<1>3. Tags' /\ OneInFlight'
  BY <1>1, FlightFrame
<1>4. Expired'
  BY <1>1 DEF OwnInv, OwnRest, Expired
<1>5. RightReplies'
  BY <1>1, RepliesFrame
<1>6. OwnCompletion'
  BY <1>1, ReturnFrame
<1>7. ClientAlone'
  <2> SUFFICES ASSUME NEW d \in Clients PROVE ClientOk(d)'
    BY DEF ClientAlone
  <2>1. CASE d # c
    BY <2>1, <1>1, <1>2, OtherClient
  <2>2. CASE d = c
    <3>0. inbox'[c] = <<>> /\ pc'[c] = "idle" /\ (since'[c] = calls[c] \/ (since'[c] = since[c] /\ stale' = stale))
      BY <1>0, <1>1
    <3>1. Numbered(c) /\ since[c] \in Nat /\ calls[c] \in Nat
      BY <1>0 DEF OwnInv, OwnRest, ClientAlone, ClientOk
    <3>2. Numbered(c)'
      BY <3>0, <3>1, <1>1 DEF Numbered
    <3>3. ASSUME c \notin stale'
          PROVE  /\ \A i \in Intrs : ~InCall(c, i)'
                 /\ \A i \in Intrs : \A j \in 1 .. Len(requests'[i]) : ~InQueue(c, i, j)'
      <4>1. CASE since'[c] = calls[c]
        <5>0. /\ \A i \in Intrs : pc[i] # "idle" => cmd[i] \in Commands \/ cmd[i] \in Answered
              /\ \A i \in Intrs : \A j \in 1 .. Len(requests[i]) : requests[i][j] \in Commands
          BY PendingTyped
        <5>1. /\ \A i \in Intrs : pc[i] # "idle" => cmd[i].n \in Nat
              /\ \A i \in Intrs : \A j \in 1 .. Len(requests[i]) : requests[i][j].n \in Nat
          BY <5>0 DEF Commands, Answered
        <5> QED BY <5>1, <4>1, <3>1, <1>1 DEF Numbered, InCall, InQueue
      <4>2. CASE since'[c] = since[c] /\ stale' = stale
        <5>1. /\ \A i \in Intrs : ~InCall(c, i)
              /\ \A i \in Intrs : \A j \in 1 .. Len(requests[i]) : ~InQueue(c, i, j)
          BY <3>3, <4>2, <1>1, NothingPending
        <5> QED BY <5>1, <4>2, <1>1 DEF InCall, InQueue
      <4> QED BY <3>0, <4>1, <4>2
    <3>4. ASSUME c \notin stale' PROVE Queued(c)' /\ Called(c)' /\ Alone(c)' /\ Received(c)'
      BY <3>0, <3>3, <3>4 DEF Queued, Called, Alone, Received
    <3> QED BY <2>2, <3>2, <3>4 DEF ClientOk
  <2> QED BY <2>1, <2>2
<1> QED BY <1>3, <1>4, <1>5, <1>6, <1>7 DEF OwnRest

LEMMA RemoteExpireOwn == ASSUME OwnInv, NEW c \in Clients, RemoteExpire(c) PROVE OwnRest'
<1> USE Kinds
<1>0. pc \in [Procs -> Labels] /\ ret \in [Callers -> Results]
  BY DEF OwnInv, QueueInv, Places, Basics
<1>1. /\ pc[c] = "wait" /\ pc' = [pc EXCEPT ![c] = "return"]
      /\ ret' = [ret EXCEPT ![c] = [err |-> "ETIMEDOUT", cpl |-> None]] /\ stale' = stale \cup {c}
      /\ UNCHANGED <<cmd, calls, asq, sqmem, acq, cqmem, dev, requests, inbox, since, lag>>
  BY DEF RemoteExpire, life, qvars, rpcvars, hist
<1>2. /\ \A q \in Procs : q # c => pc'[q] = pc[q]
      /\ pc'[c] = "return" /\ c \in Callers /\ c \notin Executors
      /\ \A d \in Callers : d # c => ret'[d] = ret[d]
  BY <1>0, <1>1 DEF Executors
<1>3. Tags' /\ OneInFlight'
  BY <1>1, <1>2, FlightFrame
<1>4. Expired'
  BY <1>1 DEF OwnInv, OwnRest, Expired
<1>5. RightReplies'
  BY <1>1, <1>2, RepliesFrame
<1>6. OwnCompletion'
  BY <1>1, <1>2 DEF OwnInv, OwnRest, OwnCompletion
<1>7. ClientAlone'
  <2> SUFFICES ASSUME NEW d \in Clients PROVE ClientOk(d)'
    BY DEF ClientAlone
  <2>0. \A i \in Intrs : pc'[i] = pc[i]
    BY <1>2
  <2>1. CASE d # c
    BY <2>0, <2>1, <1>1, <1>2, OtherClient
  <2>2. CASE d = c
    <3>1. Numbered(c)'
      BY <2>0, <1>1, <1>2 DEF OwnInv, OwnRest, ClientAlone, ClientOk, Numbered
    <3> QED BY <2>2, <3>1, <1>1 DEF ClientOk
  <2> QED BY <2>1, <2>2
<1> QED BY <1>3, <1>4, <1>5, <1>6, <1>7 DEF OwnRest
LEMMA RemoteReplyOwn == ASSUME OwnInv, NEW c \in Clients, RemoteReply(c) PROVE OwnRest'
<1> USE Kinds
<1>0. pc \in [Procs -> Labels] /\ ret \in [Callers -> Results] /\ inbox \in [Clients -> Seq(Results)]
  BY DEF OwnInv, QueueInv, Places, Basics, Relay
<1>1. /\ pc[c] = "wait" /\ inbox[c] # <<>> /\ pc' = [pc EXCEPT ![c] = "return"]
      /\ ret' = [ret EXCEPT ![c] = Head(inbox[c])] /\ inbox' = [inbox EXCEPT ![c] = Tail(@)]
      /\ UNCHANGED <<cmd, calls, asq, sqmem, acq, cqmem, dev, requests, since, lag, stale>>
  BY DEF RemoteReply, life, qvars, rpcvars, hist
<1>2. /\ \A q \in Procs : q # c => pc'[q] = pc[q]
      /\ pc'[c] = "return" /\ c \in Callers /\ c \notin Executors
      /\ \A d \in Callers : d # c => ret'[d] = ret[d]
      /\ \A d \in Clients : d # c => inbox'[d] = inbox[d]
      /\ ret'[c] = Head(inbox[c]) /\ inbox'[c] = Tail(inbox[c])
  BY <1>0, <1>1 DEF Executors
<1>3. Tags' /\ OneInFlight'
  BY <1>1, <1>2, FlightFrame
<1>4. Expired'
  BY <1>1 DEF OwnInv, OwnRest, Expired
<1>5. RightReplies'
  BY <1>1, <1>2, RepliesFrame
<1>6. c \notin stale => Len(inbox[c]) = 1 /\ Head(inbox[c]).cpl \in {None, cmd[c]}
  BY <1>1 DEF OwnInv, OwnRest, ClientAlone, ClientOk, Received
<1>7. OwnCompletion'
  BY <1>1, <1>2, <1>6 DEF OwnInv, OwnRest, OwnCompletion
<1>8. ClientAlone'
  <2> SUFFICES ASSUME NEW d \in Clients PROVE ClientOk(d)'
    BY DEF ClientAlone
  <2>0. \A i \in Intrs : pc'[i] = pc[i]
    BY <1>2
  <2>1. CASE d # c
    BY <2>0, <2>1, <1>1, <1>2, OtherClient
  <2>2. CASE d = c
    <3>1. Numbered(c)'
      BY <2>0, <1>1, <1>2 DEF OwnInv, OwnRest, ClientAlone, ClientOk, Numbered
    <3>2. ASSUME c \notin stale' PROVE Queued(c)' /\ Called(c)' /\ Alone(c)' /\ Received(c)'
      <4>1. /\ \A i \in Intrs : ~InCall(c, i)
            /\ \A i \in Intrs : \A j \in 1 .. Len(requests[i]) : ~InQueue(c, i, j)
        BY <3>2, <1>1, NothingPending
      <4>2. /\ \A i \in Intrs : ~InCall(c, i)'
            /\ \A i \in Intrs : \A j \in 1 .. Len(requests'[i]) : ~InQueue(c, i, j)'
        BY <4>1, <2>0, <1>1 DEF InCall, InQueue
      <4>3. inbox'[c] = <<>>
        <5>1. inbox[c] \in Seq(Results) /\ Len(inbox[c]) = 1
          BY <3>2, <1>0, <1>1, <1>6
        <5>2. Tail(inbox[c]) \in Seq(Results) /\ Len(Tail(inbox[c])) = 0
          BY <5>1
        <5>3. Tail(inbox[c]) = <<>>
          BY <5>2, EmptySeq
        <5> QED BY <5>3, <1>2
      <4> QED BY <4>2, <4>3 DEF Queued, Called, Alone, Received
    <3> QED BY <2>2, <3>1, <3>2 DEF ClientOk
  <2> QED BY <2>1, <2>2
<1> QED BY <1>3, <1>4, <1>5, <1>7, <1>8 DEF OwnRest

LEMMA RemoteCallOwn ==
  ASSUME OwnInv, NEW c \in Clients, NEW op \in ClientOps, RemoteCall(c, op)
  PROVE  OwnRest'
<1> USE Kinds
<1>0. /\ pc \in [Procs -> Labels] /\ cmd \in [Procs -> Commands \cup Answered \cup {None}]
      /\ ret \in [Callers -> Results] /\ calls \in [Callers -> Nat] /\ since \in [Clients -> Nat]
      /\ requests \in [Intrs -> Seq(ClientCommands)]
      /\ bound \in [Clients -> 0 .. enables] /\ enables \in 0 .. MaxEnables
  BY DEF OwnInv, QueueInv, Basics, Places, Relay
<1>new. PICK new : new = [by |-> c, n |-> calls[c] + 1, op |-> op]
  OBVIOUS
<1>n. new.by = c /\ new.n = calls[c] + 1
  BY <1>new
<1>i. PICK i \in Intrs : i = bound[c]
  <2>1. bound[c] \in 0 .. enables /\ bound[c] # 0
    BY <1>0 DEF RemoteCall
  <2>2. bound[c] \in Intrs
    BY <2>1, <1>0, BoundAssumption DEF Intrs
  <2> QED BY <2>2
<1>l. PICK l \in {"wait", "return"} : l = IF i \in up THEN "wait" ELSE "return"
  OBVIOUS
<1>1. /\ pc[c] = "idle"
      /\ calls' = [calls EXCEPT ![c] = @ + 1]
      /\ cmd' = [cmd EXCEPT ![c] = new]
      /\ pc' = [pc EXCEPT ![c] = l]
      /\ ret' = [ret EXCEPT ![c] = IF i \in up THEN @ ELSE [err |-> "ENOTCONN", cpl |-> None]]
      /\ requests' = [requests EXCEPT ![i] = IF i \in up THEN Append(@, new) ELSE @]
      /\ UNCHANGED <<asq, sqmem, acq, cqmem, dev, inbox, since, lag, stale>>
  BY <1>new, <1>i, <1>l DEF RemoteCall, life, qvars, rpcvars, hist
<1>2. /\ \A q \in Procs : q # c => pc'[q] = pc[q] /\ cmd'[q] = cmd[q]
      /\ pc'[c] = l /\ cmd'[c] = new /\ c \in Callers /\ c \notin Executors
      /\ calls'[c] = calls[c] + 1 /\ \A d \in Callers : d # c => calls'[d] = calls[d] /\ ret'[d] = ret[d]
      /\ l = "return" => ret'[c] = [err |-> "ENOTCONN", cpl |-> None]
  BY <1>0, <1>1, <1>l DEF Executors
<1>3. \A k \in Intrs : \A j \in 1 .. Len(requests'[k]) :
         \/ j \in 1 .. Len(requests[k]) /\ requests'[k][j] = requests[k][j]
         \/ k = i /\ i \in up /\ j = Len(requests[i]) + 1 /\ requests'[k][j] = new
  <2> SUFFICES ASSUME NEW k \in Intrs, NEW j \in 1 .. Len(requests'[k])
               PROVE  \/ j \in 1 .. Len(requests[k]) /\ requests'[k][j] = requests[k][j]
                      \/ k = i /\ i \in up /\ j = Len(requests[i]) + 1 /\ requests'[k][j] = new
    OBVIOUS
  <2>1. CASE k = i /\ i \in up
    <3>1. requests'[k] = Append(requests[i], new) /\ requests[i] \in Seq(ClientCommands)
      BY <2>1, <1>0, <1>1
    <3>2. new \in ClientCommands
      BY <1>new, <1>0, OpKnown DEF RemoteCall, ClientCommands, Commands
    <3>3. /\ Len(requests'[k]) = Len(requests[i]) + 1
          /\ \A m \in 1 .. Len(requests[i]) : requests'[k][m] = requests[i][m]
          /\ requests'[k][Len(requests[i]) + 1] = new
      BY <3>1, <3>2
    <3>4. Len(requests[i]) \in Nat
      BY <3>1
    <3> QED BY <2>1, <3>3, <3>4
  <2>2. CASE ~(k = i /\ i \in up)
    BY <2>2, <1>0, <1>1
  <2> QED BY <2>1, <2>2
<1>4. Tags' /\ OneInFlight'
  BY <1>1, <1>2, FlightFrame
<1>5. Expired'
  BY <1>1 DEF OwnInv, OwnRest, Expired
<1>6. RightReplies'
  BY <1>1, <1>2, RepliesFrame
<1>7. OwnCompletion'
  BY <1>1, <1>2 DEF OwnInv, OwnRest, OwnCompletion
<1>8. \A k \in Intrs : pc'[k] = pc[k] /\ cmd'[k] = cmd[k]
  BY <1>2
<1>9. ASSUME NEW d \in Clients PROVE Numbered(d)'
  <2>1. Numbered(d) /\ since[d] \in Nat /\ calls[d] \in Nat /\ calls[c] \in Nat
    BY <1>0 DEF OwnInv, OwnRest, ClientAlone, ClientOk
  <2>2. calls'[d] = (IF d = c THEN calls[c] + 1 ELSE calls[d]) /\ (d # c => pc'[d] = pc[d])
    BY <1>2
  <2>3. /\ \A k \in Intrs : pc[k] # "idle" => cmd[k].n \in Nat
        /\ \A k \in Intrs : \A j \in 1 .. Len(requests[k]) : requests[k][j].n \in Nat
    BY PendingTyped DEF Commands, Answered
  <2>4. since'[d] <= calls'[d] /\ (pc'[d] # "idle" => since'[d] < calls'[d])
    BY <2>1, <2>2, <1>1 DEF Numbered
  <2>5. \A k \in Intrs : pc'[k] # "idle" /\ cmd'[k].by = d => cmd'[k].n <= calls'[d]
    BY <2>1, <2>2, <2>3, <1>8 DEF Numbered
  <2>6. \A k \in Intrs : \A j \in 1 .. Len(requests'[k]) : requests'[k][j].by = d => requests'[k][j].n <= calls'[d]
    <3> SUFFICES ASSUME NEW k \in Intrs, NEW j \in 1 .. Len(requests'[k]), requests'[k][j].by = d
                 PROVE  requests'[k][j].n <= calls'[d]
      OBVIOUS
    <3>1. CASE j \in 1 .. Len(requests[k]) /\ requests'[k][j] = requests[k][j]
      <4>1. requests[k][j].n <= calls[d] /\ requests[k][j].n \in Nat
        BY <3>1, <2>1, <2>3 DEF Numbered
      <4>2. calls[d] <= calls'[d] /\ calls'[d] \in Nat
        BY <2>1, <2>2
      <4> QED BY <3>1, <4>1, <4>2, <2>1
    <3>2. CASE requests'[k][j] = new
      <4>1. d = c
        BY <3>2, <1>n
      <4> QED BY <4>1, <3>2, <2>1, <2>2, <1>n
    <3> QED BY <3>1, <3>2, <1>3
  <2> QED BY <2>4, <2>5, <2>6 DEF Numbered
<1>10. ASSUME NEW d \in Clients, d \notin stale' PROVE Queued(d)' /\ Called(d)' /\ Alone(d)' /\ Received(d)'
  <2>0. \A k \in Intrs : InCall(d, k)' <=> InCall(d, k)
    BY <1>1, <1>8 DEF InCall
  <2>1. CASE d # c
    <3>1. Queued(d) /\ Called(d) /\ Alone(d) /\ Received(d)
      BY <1>1, <1>10 DEF OwnInv, OwnRest, ClientAlone, ClientOk
    <3>2. \A k \in Intrs : \A j \in 1 .. Len(requests'[k]) :
            InQueue(d, k, j)' => j \in 1 .. Len(requests[k]) /\ InQueue(d, k, j) /\ requests'[k][j] = requests[k][j]
      BY <2>1, <1>1, <1>3, <1>n DEF InQueue
    <3>3. Asking(d)' = Asking(d) /\ cmd'[d] = cmd[d] /\ pc'[d] = pc[d] /\ inbox'[d] = inbox[d]
      BY <2>1, <1>1, <1>2 DEF Asking
    <3>4. Queued(d)'
      BY <3>1, <3>2, <3>3 DEF Queued
    <3>5. Called(d)'
      BY <3>1, <2>0, <3>3, <1>8 DEF Called, Asked
    <3>6. Alone(d)'
      BY <3>1, <2>0, <3>2 DEF Alone
    <3>7. Received(d)'
      BY <3>1, <3>3 DEF Received
    <3> QED BY <3>4, <3>5, <3>6, <3>7
  <2>2. CASE d = c
    <3>1. /\ \A k \in Intrs : ~InCall(c, k)
          /\ \A k \in Intrs : \A j \in 1 .. Len(requests[k]) : ~InQueue(c, k, j)
          /\ inbox[c] = <<>>
      BY <2>2, <1>1, <1>10, NothingPending
    <3>2. \A k \in Intrs : \A j \in 1 .. Len(requests'[k]) :
            InQueue(c, k, j)' => k = i /\ i \in up /\ j = Len(requests[i]) + 1 /\ requests'[k][j] = new
      BY <3>1, <1>1, <1>3 DEF InQueue
    <3>3. i \in up => Asking(c)'
      BY <3>1, <1>1, <1>2, <1>l DEF Asking
    <3>4. Queued(c)'
      BY <3>2, <3>3, <1>2 DEF Queued
    <3>5. Called(c)'
      BY <2>0, <2>2, <3>1 DEF Called
    <3>6. Alone(c)'
      BY <2>0, <2>2, <3>1, <3>2 DEF Alone
    <3>7. Received(c)'
      BY <3>1, <1>1 DEF Received
    <3> QED BY <2>2, <3>4, <3>5, <3>6, <3>7
  <2> QED BY <2>1, <2>2
<1>11. ClientAlone'
  BY <1>9, <1>10 DEF ClientAlone, ClientOk
<1> QED BY <1>4, <1>5, <1>6, <1>7, <1>11 DEF OwnRest
LEMMA CallbackStartOwn == ASSUME OwnInv, NEW i \in Intrs, CallbackStart(i) PROVE OwnRest'
<1> USE Kinds
<1>0. /\ pc \in [Procs -> Labels] /\ cmd \in [Procs -> Commands \cup Answered \cup {None}]
      /\ requests \in [Intrs -> Seq(ClientCommands)]
  BY DEF OwnInv, QueueInv, Places, Relay
<1>r. PICK req \in ClientCommands : req = Head(requests[i])
  BY <1>0 DEF CallbackStart
<1>1. /\ pc[i] = "idle" /\ requests[i] # <<>>
      /\ requests' = [requests EXCEPT ![i] = Tail(@)]
      /\ \/ pc' = [pc EXCEPT ![i] = "lock"] /\ cmd' = [cmd EXCEPT ![i] = req]
         \/ /\ pc' = [pc EXCEPT ![i] = "reply"]
            /\ cmd' = [cmd EXCEPT ![i] = [by |-> req.by, n |-> req.n, op |-> req.op,
                                         res |-> [err |-> "rejected", cpl |-> None]]]
      /\ UNCHANGED <<ret, calls, asq, sqmem, acq, cqmem, dev, inbox, since, lag, stale>>
  BY <1>r DEF CallbackStart, life, qvars, rpcvars, hist
<1>2. /\ \A q \in Procs : q # i => pc'[q] = pc[q] /\ cmd'[q] = cmd[q]
      /\ pc'[i] \in {"lock", "reply"} /\ i \notin Callers
      /\ cmd'[i].by = req.by /\ cmd'[i].n = req.n /\ cmd'[i].op = req.op
      /\ pc'[i] = "reply" => cmd'[i].res.cpl = None
  <2>0. i \in Procs /\ i \notin Callers
    BY DEF Callers
  <2>1. CASE pc' = [pc EXCEPT ![i] = "lock"] /\ cmd' = [cmd EXCEPT ![i] = req]
    BY <2>0, <2>1, <1>0
  <2>2. CASE /\ pc' = [pc EXCEPT ![i] = "reply"]
             /\ cmd' = [cmd EXCEPT ![i] = [by |-> req.by, n |-> req.n, op |-> req.op,
                                          res |-> [err |-> "rejected", cpl |-> None]]]
    BY <2>0, <2>2, <1>0
  <2> QED BY <1>1, <2>1, <2>2
<1>3. /\ requests[i] \in Seq(ClientCommands) /\ Len(requests[i]) \in Nat /\ Len(requests[i]) >= 1
      /\ requests'[i] = Tail(requests[i]) /\ requests[i][1] = req
      /\ \A k \in Intrs : k # i => requests'[k] = requests[k]
  <2>1. requests[i] \in Seq(ClientCommands)
    BY <1>0
  <2>2. Len(requests[i]) \in Nat /\ Len(requests[i]) # 0
    BY <2>1, <1>1, EmptySeq
  <2> QED BY <2>1, <2>2, <1>0, <1>1, <1>r
<1>4. /\ Len(requests'[i]) = Len(requests[i]) - 1
      /\ \A j \in 1 .. Len(requests'[i]) : j + 1 \in 1 .. Len(requests[i]) /\ requests'[i][j] = requests[i][j + 1]
  BY <1>3
<1>5. Tags' /\ OneInFlight'
  BY <1>1, <1>2, FlightFrame
<1>6. Expired'
  BY <1>1 DEF OwnInv, OwnRest, Expired
<1>7. RightReplies'
  <2> SUFFICES ASSUME lag' = 0, NEW k \in Intrs, pc'[k] = "reply", cmd'[k].res.cpl # None
               PROVE  cmd'[k].res.cpl = Asked(k)'
    BY DEF RightReplies
  <2>1. k # i
    BY <1>2
  <2>2. pc[k] = "reply" /\ cmd'[k] = cmd[k]
    BY <2>1, <1>2
  <2> QED BY <2>2, <1>1 DEF OwnInv, OwnRest, RightReplies, Asked
<1>8. OwnCompletion'
  BY <1>1, <1>2, ReturnFrame
<1>9. ClientAlone'
  <2> SUFFICES ASSUME NEW c \in Clients PROVE ClientOk(c)'
    BY DEF ClientAlone
  <2>0. pc'[c] = pc[c] /\ cmd'[c] = cmd[c] /\ Asking(c)' = Asking(c)
    BY <1>1, <1>2 DEF Asking
  <2>1. /\ InCall(c, i)' <=> InQueue(c, i, 1)
        /\ \A k \in Intrs : k # i => (InCall(c, k)' <=> InCall(c, k)) /\ Asked(k)' = Asked(k)
        /\ ~InCall(c, i)
    BY <1>1, <1>2, <1>3 DEF InCall, InQueue, Asked
  <2>2. /\ \A j \in 1 .. Len(requests'[i]) : InQueue(c, i, j)' <=> InQueue(c, i, j + 1)
        /\ \A k \in Intrs : k # i => \A j \in 1 .. Len(requests[k]) : InQueue(c, k, j)' <=> InQueue(c, k, j)
    BY <1>1, <1>3, <1>4 DEF InQueue
  <2>3. Numbered(c)'
    <3>1. Numbered(c)
      BY DEF OwnInv, OwnRest, ClientAlone, ClientOk
    <3>2. \A k \in Intrs : \A j \in 1 .. Len(requests'[k]) : requests'[k][j].by = c => requests'[k][j].n <= calls[c]
      <4> SUFFICES ASSUME NEW k \in Intrs, NEW j \in 1 .. Len(requests'[k]), requests'[k][j].by = c
                   PROVE  requests'[k][j].n <= calls[c]
        OBVIOUS
      <4>1. CASE k = i
        <5>1. j + 1 \in 1 .. Len(requests[i]) /\ requests'[k][j] = requests[i][j + 1]
          BY <4>1, <1>4
        <5> QED BY <5>1, <3>1 DEF Numbered
      <4>2. CASE k # i
        <5>1. requests'[k] = requests[k]
          BY <4>2, <1>3
        <5> QED BY <5>1, <3>1 DEF Numbered
      <4> QED BY <4>1, <4>2
    <3>3. \A k \in Intrs : pc'[k] # "idle" /\ cmd'[k].by = c => cmd'[k].n <= calls[c]
      BY <3>1, <1>2, <1>3 DEF Numbered
    <3> QED BY <3>1, <3>2, <3>3, <2>0, <1>1 DEF Numbered
  <2>4. ASSUME c \notin stale' PROVE Queued(c)' /\ Called(c)' /\ Alone(c)' /\ Received(c)'
    <3>1. Queued(c) /\ Called(c) /\ Alone(c) /\ Received(c)
      BY <2>4, <1>1 DEF OwnInv, OwnRest, ClientAlone, ClientOk
    <3>2. Queued(c)'
      <4> SUFFICES ASSUME NEW k \in Intrs, NEW j \in 1 .. Len(requests'[k]), InQueue(c, k, j)'
                   PROVE  Asking(c)' /\ requests'[k][j] = cmd'[c]
        BY DEF Queued
      <4>1. CASE k = i
        BY <4>1, <3>1, <2>0, <2>2, <1>4 DEF Queued
      <4>2. CASE k # i
        BY <4>2, <3>1, <2>0, <2>2, <1>3 DEF Queued
      <4> QED BY <4>1, <4>2
    <3>3. Called(c)'
      <4> SUFFICES ASSUME NEW k \in Intrs, InCall(c, k)' PROVE Asking(c)' /\ Asked(k)' = cmd'[c]
        BY DEF Called
      <4>1. CASE k = i
        <5>1. Asking(c) /\ req = cmd[c]
          BY <4>1, <3>1, <2>1, <1>3 DEF Queued
        <5>2. Asked(i)' = [by |-> req.by, n |-> req.n, op |-> req.op]
          BY <1>2 DEF Asked
        <5>3. req = [by |-> req.by, n |-> req.n, op |-> req.op]
          BY DEF ClientCommands, Commands
        <5> QED BY <5>1, <5>2, <5>3, <4>1, <2>0
      <4>2. CASE k # i
        BY <4>2, <3>1, <2>0, <2>1 DEF Called
      <4> QED BY <4>1, <4>2
    <3>4. Alone(c)'
      <4>1. \A k \in Intrs : InCall(c, k)' /\ InCall(c, i)' => k = i
        BY <3>1, <2>1, <1>3 DEF Alone
      <4>2. \A k, m \in Intrs : InCall(c, k)' /\ InCall(c, m)' => k = m
        BY <4>1, <3>1, <2>1 DEF Alone
      <4>3. ASSUME NEW k \in Intrs, NEW j \in 1 .. Len(requests'[k]), InQueue(c, k, j)', NEW m \in Intrs, InCall(c, m)'
            PROVE  FALSE
        <5>1. PICK h \in 1 .. Len(requests[k]) : InQueue(c, k, h) /\ (k = i => h # 1)
          <6>1. CASE k = i
            <7>1. j + 1 \in 1 .. Len(requests[k]) /\ InQueue(c, k, j + 1)
              BY <6>1, <4>3, <2>2, <1>4
            <7> QED BY <6>1, <7>1
          <6>2. CASE k # i
            <7>1. j \in 1 .. Len(requests[k]) /\ InQueue(c, k, j)
              BY <6>2, <4>3, <2>2, <1>3
            <7> QED BY <6>2, <7>1
          <6> QED BY <6>1, <6>2
        <5>2. CASE m = i
          <6>1. InQueue(c, i, 1) /\ 1 \in 1 .. Len(requests[i])
            BY <5>2, <4>3, <2>1, <1>3
          <6> QED BY <5>1, <6>1, <3>1 DEF Alone
        <5>3. CASE m # i
          BY <5>1, <5>3, <4>3, <3>1, <2>1 DEF Alone
        <5> QED BY <5>2, <5>3
      <4>4. ASSUME NEW k \in Intrs, NEW j \in 1 .. Len(requests'[k]), InQueue(c, k, j)',
                   NEW m \in Intrs, NEW l \in 1 .. Len(requests'[m]), InQueue(c, m, l)'
            PROVE  k = m /\ j = l
        <5>1. PICK h \in 1 .. Len(requests[k]) : InQueue(c, k, h) /\ h = IF k = i THEN j + 1 ELSE j
          <6>1. CASE k = i
            <7>1. j + 1 \in 1 .. Len(requests[k]) /\ InQueue(c, k, j + 1)
              BY <6>1, <4>4, <2>2, <1>4
            <7> QED BY <6>1, <7>1
          <6>2. CASE k # i
            <7>1. j \in 1 .. Len(requests[k]) /\ InQueue(c, k, j)
              BY <6>2, <4>4, <2>2, <1>3
            <7> QED BY <6>2, <7>1
          <6> QED BY <6>1, <6>2
        <5>2. PICK g \in 1 .. Len(requests[m]) : InQueue(c, m, g) /\ g = IF m = i THEN l + 1 ELSE l
          <6>1. CASE m = i
            <7>1. l + 1 \in 1 .. Len(requests[m]) /\ InQueue(c, m, l + 1)
              BY <6>1, <4>4, <2>2, <1>4
            <7> QED BY <6>1, <7>1
          <6>2. CASE m # i
            <7>1. l \in 1 .. Len(requests[m]) /\ InQueue(c, m, l)
              BY <6>2, <4>4, <2>2, <1>3
            <7> QED BY <6>2, <7>1
          <6> QED BY <6>1, <6>2
        <5>3. k = m /\ h = g
          BY <5>1, <5>2, <3>1 DEF Alone
        <5> QED BY <5>1, <5>2, <5>3
      <4> QED BY <4>2, <4>3, <4>4 DEF Alone
    <3>5. Received(c)'
      BY <3>1, <2>0, <1>1 DEF Received
    <3> QED BY <3>2, <3>3, <3>4, <3>5
  <2> QED BY <2>3, <2>4 DEF ClientOk
<1> QED BY <1>5, <1>6, <1>7, <1>8, <1>9 DEF OwnRest

LEMMA CallbackReplyOwn == ASSUME OwnInv, NEW i \in Intrs, CallbackReply(i) PROVE OwnRest'
<1> USE Kinds
<1>0. /\ pc \in [Procs -> Labels] /\ cmd \in [Procs -> Commands \cup Answered \cup {None}]
      /\ inbox \in [Clients -> Seq(Results)] /\ cmd[i] \in Answered /\ stale \subseteq Callers
  BY DEF OwnInv, QueueInv, Places, Relay, Basics, CallbackReply
<1>c. PICK c \in Clients : c = cmd[i].by
  BY <1>0 DEF Answered
<1>1. /\ pc[i] = "reply" /\ pc' = [pc EXCEPT ![i] = "idle"] /\ cmd' = [cmd EXCEPT ![i] = None]
      /\ UNCHANGED <<ret, calls, asq, sqmem, acq, cqmem, dev, requests, since, lag>>
  BY DEF CallbackReply, life, qvars, rpcvars, hist
<1>a. PICK r \in Replies(cmd[i].res), arrives \in BOOLEAN :
         /\ inbox' = [inbox EXCEPT ![c] = IF arrives THEN Append(@, r) ELSE @]
         /\ stale' = IF arrives /\ ~(cmd[i].n > since[c]) THEN stale \cup {c} ELSE stale
  BY <1>c DEF CallbackReply
<1>b. r.cpl = None \/ r = cmd[i].res
  BY DEF Replies
<1>r. r \in Results
  <2>1. cmd[i].res \in Outcomes
    BY <1>0 DEF Answered
  <2> QED BY <2>1 DEF Replies, Outcomes, Results
<1>2. /\ \A q \in Procs : q # i => pc'[q] = pc[q] /\ cmd'[q] = cmd[q]
      /\ pc'[i] = "idle" /\ i \notin Callers
      /\ \A d \in Clients : d # c => inbox'[d] = inbox[d]
      /\ stale \subseteq stale'
  <2>1. i \in Procs /\ i \notin Callers
    BY DEF Callers
  <2> QED BY <2>1, <1>0, <1>1, <1>a
<1>3. Tags' /\ OneInFlight'
  BY <1>1, <1>2, FlightFrame
<1>4. Expired'
  BY <1>1, <1>2 DEF OwnInv, OwnRest, Expired
<1>5. RightReplies'
  BY <1>1, <1>2, RepliesFrame
<1>6. OwnCompletion'
  BY <1>1, <1>2, ReturnFrame
<1>7. ASSUME NEW d \in Clients, inbox'[d] = inbox[d] PROVE ClientOk(d)'
  <2>1. pc'[d] = pc[d] /\ cmd'[d] = cmd[d] /\ calls'[d] = calls[d] /\ since'[d] = since[d] /\ (d \in stale => d \in stale')
    BY <1>1, <1>2
  <2>2. \A k \in Intrs : pc'[k] # "idle" => pc[k] # "idle" /\ cmd'[k] = cmd[k]
    BY <1>1, <1>2
  <2> QED BY <1>1, <1>7, <2>1, <2>2, OtherClient
<1>8. ASSUME arrives PROVE ClientOk(c)'
  <2>0. Numbered(c) /\ (c \notin stale => Queued(c) /\ Called(c) /\ Alone(c) /\ Received(c))
    BY DEF OwnInv, OwnRest, ClientAlone, ClientOk
  <2>1. pc'[c] = pc[c] /\ cmd'[c] = cmd[c] /\ calls'[c] = calls[c] /\ since'[c] = since[c] /\ inbox'[c] = Append(inbox[c], r)
    BY <1>0, <1>1, <1>2, <1>a, <1>8
  <2>2. \A k \in Intrs : pc'[k] # "idle" => k # i /\ pc[k] # "idle" /\ cmd'[k] = cmd[k]
    BY <1>1, <1>2
  <2>3. Numbered(c)'
    BY <2>0, <2>1, <2>2, <1>1 DEF Numbered
  <2>4. ASSUME c \notin stale' PROVE Queued(c)' /\ Called(c)' /\ Alone(c)' /\ Received(c)'
    <3>1. c \notin stale /\ InCall(c, i)
      BY <2>4, <1>1, <1>2, <1>8, <1>a, <1>c DEF InCall
    <3>2. Asking(c) /\ Asked(i) = cmd[c]
      BY <3>1, <2>0 DEF Called
    <3>3. /\ \A k \in Intrs : ~InCall(c, k)'
          /\ \A k \in Intrs : \A j \in 1 .. Len(requests'[k]) : ~InQueue(c, k, j)'
      <4>1. \A k \in Intrs : InCall(c, k) => k = i
        BY <3>1, <2>0 DEF Alone
      <4>2. \A k \in Intrs : \A j \in 1 .. Len(requests[k]) : ~InQueue(c, k, j)
        BY <3>1, <2>0 DEF Alone
      <4>3. \A k \in Intrs : ~InCall(c, k)'
        BY <4>1, <2>1, <2>2 DEF InCall
      <4> QED BY <4>2, <4>3, <2>1, <1>1 DEF InQueue
    <3>4. r.cpl \in {None, cmd[c]}
      <4>1. lag = 0
        BY <3>1 DEF OwnInv, OwnRest, Expired
      <4>2. cmd[i].res.cpl = None \/ cmd[i].res.cpl = Asked(i)
        BY <4>1, <1>1 DEF OwnInv, OwnRest, RightReplies
      <4> QED BY <4>2, <3>2, <1>b
    <3>5. inbox'[c] = <<r>>
      BY <2>1, <3>2, <1>r DEF Asking
    <3>6. Received(c)'
      BY <3>2, <3>4, <3>5, <2>1 DEF Received, Asking
    <3> QED BY <3>3, <3>6 DEF Queued, Called, Alone
  <2> QED BY <2>3, <2>4 DEF ClientOk
<1>9. ClientAlone'
  <2>1. ~arrives => inbox'[c] = inbox[c]
    BY <1>0, <1>a
  <2> QED BY <2>1, <1>2, <1>7, <1>8 DEF ClientAlone
<1> QED BY <1>3, <1>4, <1>5, <1>6, <1>9 DEF OwnRest

\* Every step keeps what makes the completions the callers' own.
LEMMA OwnInvStep == ASSUME OwnInv, [Next]_vars PROVE OwnInv'
<1>0. QueueInv'
  BY QueueInvStep DEF OwnInv
<1>1. ASSUME AqCreate PROVE OwnRest'
  BY <1>1, AqCreateOwn
<1>2. ASSUME \/ DestroyStart \/ DestroyEnd \/ EnableCreate \/ EnableFail
             \/ EnableInsert \/ EnableDrop \/ DisableStart \/ DisableEnd \/ DisableNull
      PROVE OwnRest'
  BY <1>2, OwnerOwn
<1>3. ASSUME DevFetch PROVE OwnRest'
  BY <1>3, FetchOwn
<1>4. ASSUME NEW c \in dev.running, DevComplete(c) PROVE OwnRest'
  BY <1>4, CompleteOwn
<1>5. ASSUME NEW t \in Threads, NEW op \in Ops, Call(t, op) PROVE OwnRest'
  BY <1>5, CallOwn
<1>6. ASSUME NEW c \in Callers, Return(c) PROVE OwnRest'
  BY <1>6, ReturnOwn
<1>7. ASSUME NEW p \in Executors, Execute(p) PROVE OwnRest'
  BY <1>7, TakeLockOwn, SubmitOwn, SubmitFullOwn, DequeueOwn, ExpireOwn DEF Execute
<1>8. ASSUME NEW i \in Intrs, CallbackStart(i) \/ CallbackReply(i) PROVE OwnRest'
  BY <1>8, CallbackStartOwn, CallbackReplyOwn
<1>9. ASSUME NEW c \in Clients, Bind(c) \/ Unbind(c) \/ RemoteReply(c) \/ RemoteExpire(c) PROVE OwnRest'
  BY <1>9, BindOwn, RemoteReplyOwn, RemoteExpireOwn
<1>10. ASSUME NEW c \in Clients, NEW op \in ClientOps, RemoteCall(c, op) PROVE OwnRest'
  BY <1>10, RemoteCallOwn
<1>11. ASSUME UNCHANGED vars PROVE OwnRest'
  <2>1. UNCHANGED <<pc, cmd, ret, calls, asq, sqmem, acq, cqmem, dev, inbox, since, lag, stale, requests>>
    BY <1>11 DEF vars
  <2> QED BY <2>1, QuietStep
<1> QED BY <1>0, <1>1, <1>2, <1>3, <1>4, <1>5, <1>6, <1>7, <1>8, <1>9, <1>10, <1>11 DEF Next, OwnInv

LEMMA OwnInvAlways == Spec => []OwnInv
<1>1. OwnInv /\ [Next]_vars => OwnInv'
  BY OwnInvStep
<1> QED BY OwnInvInit, <1>1, PTL DEF Spec

\* Unless a wait has expired, every caller, local or on another node, gets the
\* completion of its own command, although the completion queue is read by
\* position (execute_command, nvm_cq_dequeue; remote_command).
THEOREM CompletionsAreOwn == Spec => []OwnCompletion
<1>1. OwnInv => OwnCompletion
  BY DEF OwnInv, OwnRest
<1> QED BY OwnInvAlways, <1>1, PTL
-----------------------------------------------------------------------------
\* A thread that a step leaves alone.
LEMMA DescFrame ==
  ASSUME DescInv, NEW t \in Threads,
         pc'[t] = pc[t], cmd'[t] = cmd[t], desc'[t] = desc[t], ret'[t] = ret[t],
         t \in stale => t \in stale',
         ref' = "bound" /\ pc'[Owner] # "destroy" => ref = "bound" /\ pc[Owner] # "destroy",
         t \in dev'.cqs <=> t \in dev.cqs, t \in dev'.sqs <=> t \in dev.sqs,
         pc[t] = "wait" => /\ NoneReady' <=> NoneReady
                           /\ cqmem'[acq'.head].ok = cqmem[acq.head].ok
  PROVE  Desc(t)'
<1>1. Desc(t)
  BY DEF DescInv, Described
<1>2. (Same(t)' <=> Same(t)) /\ (Changed(t)' <=> Changed(t))
  BY DEF Same, Changed, AfterCq, AfterSq
<1> QED BY <1>1, <1>2 DEF Desc

\* Steps that leave the threads, the descriptors and the controller alone.
LEMMA DescQuiet ==
  ASSUME DescInv, UNCHANGED <<dev, acq, cqmem, desc>>,
         \A t \in Threads : /\ pc'[t] = pc[t] /\ cmd'[t] = cmd[t] /\ ret'[t] = ret[t]
                            /\ t \in stale => t \in stale',
         ref' = "bound" /\ pc'[Owner] # "destroy" => ref = "bound" /\ pc[Owner] # "destroy"
  PROVE  Described'
<1> SUFFICES ASSUME NEW t \in Threads PROVE Desc(t)'
  BY DEF Described
<1>1. NoneReady' <=> NoneReady
  BY DEF NoneReady
<1> QED BY <1>1, DescFrame

LEMMA DescInit == Init => Described
<1> SUFFICES ASSUME Init, NEW t \in Threads PROVE Desc(t)
  BY DEF Described
<1>1. ref = "none"
  BY DEF Init
<1> QED BY <1>1 DEF Desc

LEMMA OwnerDesc ==
  ASSUME DescInv, \/ DestroyStart \/ DestroyEnd \/ EnableCreate \/ EnableFail
                  \/ EnableInsert \/ EnableDrop \/ DisableStart \/ DisableEnd \/ DisableNull
  PROVE  Described'
<1> USE Kinds
<1>0. pc \in [Procs -> Labels]
  BY DEF DescInv, OwnInv, QueueInv, Places
<1>1. CASE DestroyStart
  <2>1. pc'[Owner] = "destroy"
    BY <1>0, <1>1 DEF DestroyStart
  <2> QED BY <2>1 DEF Described, Desc
<1>2. CASE DestroyEnd
  <2>1. ref' = "none"
    BY <1>2 DEF DestroyEnd
  <2> QED BY <2>1 DEF Described, Desc
<1>3. CASE EnableCreate \/ EnableFail \/ EnableInsert \/ EnableDrop \/ DisableStart \/ DisableEnd \/ DisableNull
  <2>1. /\ UNCHANGED <<ref, dev, acq, cqmem, desc, cmd, ret, stale>>
        /\ pc' = pc \/ \E l : pc' = [pc EXCEPT ![Owner] = l]
        /\ pc[Owner] # "destroy"
    <3>1. CASE EnableCreate
      BY <3>1 DEF EnableCreate, life, qvars, rpcvars, hist, CreateIntr, RemoveIntr
    <3>2. CASE EnableFail
      BY <3>2 DEF EnableFail, life, qvars, rpcvars, hist, CreateIntr, RemoveIntr
    <3>3. CASE EnableInsert
      BY <3>3 DEF EnableInsert, life, qvars, rpcvars, hist, CreateIntr, RemoveIntr
    <3>4. CASE EnableDrop
      BY <3>4 DEF EnableDrop, life, qvars, rpcvars, hist, CreateIntr, RemoveIntr
    <3>5. CASE DisableStart
      BY <3>5 DEF DisableStart, life, qvars, rpcvars, hist, CreateIntr, RemoveIntr
    <3>6. CASE DisableEnd
      BY <3>6 DEF DisableEnd, life, qvars, rpcvars, hist, CreateIntr, RemoveIntr
    <3>6a. CASE DisableNull
      BY <3>6a DEF DisableNull, life, qvars, rpcvars, hist
    <3> QED BY <1>3, <3>1, <3>2, <3>3, <3>4, <3>5, <3>6, <3>6a
  <2>2. \A t \in Threads : pc'[t] = pc[t]
    BY <2>1, <1>0
  <2> QED BY <2>1, <2>2, DescQuiet
<1> QED BY <1>1, <1>2, <1>3

LEMMA AqCreateDesc == ASSUME DescInv, AqCreate PROVE Described'
<1> SUFFICES ASSUME NEW t \in Threads PROVE Desc(t)'
  BY DEF Described
<1>1. /\ ref = "none" /\ UNCHANGED <<pc, desc>> /\ \E ready \in BOOLEAN : dev' = ResetDev(ready)
  BY DEF AqCreate
<1>2. pc[t] = "idle" /\ desc[t] = NoQueues
  BY <1>1 DEF DescInv, OwnInv, QueueInv, Unbound
<1>3. dev'.cqs = {} /\ dev'.sqs = {}
  BY <1>1 DEF ResetDev
<1>4. ~desc'[t].cq /\ ~desc'[t].sq
  BY <1>1, <1>2 DEF NoQueues
<1>5. Same(t)'
  BY <1>3, <1>4 DEF Same
<1> QED BY <1>1, <1>2, <1>5 DEF Desc

LEMMA FetchDesc == ASSUME DescInv, DevFetch PROVE Described'
<1> SUFFICES ASSUME NEW t \in Threads PROVE Desc(t)'
  BY DEF Described
<1>1. /\ dev' = [dev EXCEPT !.sqHead = Next1(@, QS), !.running = @ \cup {sqmem[dev.sqHead]}]
      /\ UNCHANGED <<ref, pc, cmd, ret, acq, cqmem, desc, stale>>
  BY DEF DevFetch, life, qvars, rpcvars, hist
<1>2. dev'.cqs = dev.cqs /\ dev'.sqs = dev.sqs /\ dev'.cqTail = dev.cqTail /\ dev'.phase = dev.phase
  BY <1>1 DEF DescInv, OwnInv, QueueInv, Rings
<1>3. NoneReady' <=> NoneReady
  BY <1>1, <1>2 DEF NoneReady
<1> QED BY <1>1, <1>2, <1>3, DescFrame

LEMMA CompleteDesc == ASSUME DescInv, NEW c, DevComplete(c) PROVE Described'
<1> USE Kinds
<1> SUFFICES ASSUME NEW t \in Threads, t \notin stale' PROVE Desc(t)'
  BY DEF Described, Desc
<1>0. OwnInv /\ QueueInv
  BY DEF DescInv, OwnInv
<1>1. /\ c \in dev.running
      /\ cqmem' = [cqmem EXCEPT ![dev.cqTail] = [cpl |-> c, ok |-> Accepted(c), phase |-> dev.phase]]
      /\ UNCHANGED <<ref, pc, cmd, ret, acq, desc, lag, stale>>
  BY DEF DevComplete, life, qvars, rpcvars, hist
<1>2. /\ dev'.cqTail = Next1(dev.cqTail, CQS)
      /\ dev'.cqs = CASE c.op = "create_cq" /\ Accepted(c) -> dev.cqs \cup {c.by}
                      [] c.op = "delete_cq" /\ Accepted(c) -> dev.cqs \ {c.by}
                      [] OTHER -> dev.cqs
      /\ dev'.sqs = CASE c.op = "create_sq" /\ Accepted(c) -> dev.sqs \cup {c.by}
                      [] c.op = "delete_sq" /\ Accepted(c) -> dev.sqs \ {c.by}
                      [] OTHER -> dev.sqs
  BY <1>0, DevEffect
<1>3. lag = 0
  BY <1>0, <1>1 DEF OwnInv, OwnRest, Expired
<1>4. PICK p \in Waiters : c = cmd[p] /\ NoneReady
  BY <1>0, <1>1, <1>3 DEF OwnInv, OwnRest, OneInFlight
<1>5. p \in Executors /\ pc[p] = "wait" /\ \A q \in Executors : pc[q] = "wait" => q = p
  BY <1>0, <1>4 DEF Waiters, QueueInv, Exclusive
<1>6. /\ p \in Threads => c.by = p
      /\ p \in Intrs => c.by \in Clients
      /\ p \in Threads \/ p \in Intrs
  BY <1>0, <1>4, <1>5, CommandOf DEF Executors
<1>7. CASE p # t
  <2>1. c.by # t /\ pc[t] # "wait"
    BY <1>5, <1>6, <1>7
  <2>2. (t \in dev'.cqs <=> t \in dev.cqs) /\ (t \in dev'.sqs <=> t \in dev.sqs)
    BY <2>1, <1>2
  <2> QED BY <2>1, <2>2, <1>1, DescFrame
<1>8. CASE p = t
  <2>1. c.by = t /\ pc[t] = "wait" /\ c = cmd[t]
    BY <1>4, <1>5, <1>6, <1>8
  <2> SUFFICES ASSUME ref' = "bound", pc'[Owner] # "destroy"
               PROVE  /\ ~NoneReady'
                      /\ IF cqmem'[acq'.head].ok THEN Changed(t)' ELSE Same(t)'
    BY <2>1, <1>1 DEF Desc
  <2>2. Same(t)
    BY <2>1, <1>1, <1>4 DEF DescInv, Described, Desc
  <2>3. acq.head = dev.cqTail /\ acq.head \in 0 .. CQS - 1
    BY <1>0, <1>4 DEF NoneReady, QueueInv, Rings
  <2>4. ~NoneReady'
    <3>1. Next1(acq.head, CQS) # acq.head
      BY <2>3, QueueAssumption DEF Next1
    <3> QED BY <3>1, <2>3, <1>1, <1>2 DEF NoneReady
  <2>5. cqmem'[acq'.head].ok = Accepted(c)
    <3>1. cqmem'[dev.cqTail] = [cpl |-> c, ok |-> Accepted(c), phase |-> dev.phase]
      BY <1>0, <1>1, <2>3 DEF QueueInv, Rings
    <3> QED BY <3>1, <1>1, <2>3
  <2>6. ASSUME Accepted(c) PROVE Changed(t)'
    BY <2>1, <2>2, <2>6, <1>1, <1>2 DEF Changed, Same, AfterCq, AfterSq
  <2>7. ASSUME ~Accepted(c) PROVE Same(t)'
    BY <2>2, <2>7, <1>1, <1>2 DEF Same
  <2> QED BY <2>4, <2>5, <2>6, <2>7
<1> QED BY <1>7, <1>8
\* A thread on its way to the controller: no descriptor has changed.
LEMMA EnterDesc ==
  ASSUME DescInv, NEW p \in Procs, NEW l \in {"lock", "enqueue", "wait"},
         p \in Threads => pc[p] \in {"idle", "lock", "enqueue"},
         pc' = [pc EXCEPT ![p] = l], p # Owner,
         \A t \in Threads : t # p => cmd'[t] = cmd[t],
         l = "wait" /\ lag = 0 => NoneReady,
         UNCHANGED <<ref, ret, desc, dev, acq, cqmem, lag, stale>>
  PROVE  Described'
<1> USE Kinds
<1> SUFFICES ASSUME NEW t \in Threads PROVE Desc(t)'
  BY DEF Described
<1>0. \A q \in Procs : pc'[q] = IF q = p THEN l ELSE pc[q]
  BY DEF DescInv, OwnInv, QueueInv, Places
<1>1. NoneReady' <=> NoneReady
  BY DEF NoneReady
<1>2. CASE t # p
  BY <1>0, <1>1, <1>2, DescFrame
<1>3. CASE t = p
  <2> SUFFICES ASSUME t \notin stale', ref' = "bound", pc'[Owner] # "destroy"
               PROVE  Same(t)' /\ (l = "wait" => NoneReady')
    BY <1>0, <1>3 DEF Desc
  <2>1. Same(t)
    BY <1>0, <1>3 DEF DescInv, Described, Desc
  <2>2. Same(t)'
    BY <2>1 DEF Same
  <2>3. lag = 0
    BY DEF DescInv, OwnInv, OwnRest, Expired
  <2> QED BY <2>2, <2>3, <1>1
<1> QED BY <1>2, <1>3

LEMMA CallDesc == ASSUME DescInv, NEW t \in Threads, NEW op \in Ops, Call(t, op) PROVE Described'
<1> USE Kinds
<1>0. cmd \in [Procs -> Commands \cup Answered \cup {None}]
  BY DEF DescInv, OwnInv, QueueInv, Places
<1>1. /\ pc[t] = "idle" /\ pc' = [pc EXCEPT ![t] = "lock"]
      /\ cmd' = [cmd EXCEPT ![t] = [by |-> t, n |-> calls[t] + 1, op |-> op]]
      /\ UNCHANGED <<ref, ret, desc, dev, acq, cqmem, lag, stale>>
  BY DEF Call, life, qvars, rpcvars, hist
<1>2. \A u \in Threads : u # t => cmd'[u] = cmd[u]
  BY <1>0, <1>1
<1> QED BY <1>1, <1>2, EnterDesc

LEMMA TakeLockDesc == ASSUME DescInv, NEW p \in Executors, TakeLock(p) PROVE Described'
<1> USE Kinds
<1>1. /\ pc[p] = "lock" /\ pc' = [pc EXCEPT ![p] = "enqueue"] /\ p \in Procs /\ p # Owner
      /\ UNCHANGED <<ref, cmd, ret, desc, dev, acq, cqmem, lag, stale>>
  BY DEF TakeLock, life, qvars, rpcvars, hist
<1> QED BY <1>1, EnterDesc

LEMMA SubmitDesc == ASSUME DescInv, NEW p \in Executors, Submit(p) PROVE Described'
<1> USE Kinds
<1>1. /\ pc[p] = "enqueue" /\ pc' = [pc EXCEPT ![p] = "wait"] /\ p \in Procs /\ p # Owner
      /\ UNCHANGED <<ref, cmd, ret, desc, dev, acq, cqmem, lag, stale>>
  BY DEF Submit, life, qvars, rpcvars, hist
<1>2. Waiters = {}
  <2>1. \A q \in Executors : pc[q] # "wait"
    BY <1>1 DEF DescInv, OwnInv, QueueInv, Exclusive
  <2> QED BY <2>1 DEF Waiters
<1>3. lag = 0 => NoneReady
  BY <1>2 DEF DescInv, OwnInv, OwnRest, OneInFlight
<1> QED BY <1>1, <1>3, EnterDesc

\* The end of a thread's command: descriptors change only after a completion.
LEMMA FinishDesc ==
  ASSUME DescInv, NEW p \in Executors, pc[p] \in {"enqueue", "wait"},
         NEW result \in Outcomes, result \in Results, Finish(p, result),
         UNCHANGED <<ref, calls, desc, dev, lag, stale>>,
         \/ pc[p] = "enqueue" /\ result.err # "ok"
         \/ /\ pc[p] = "wait" /\ CplReady
            /\ result.err = IF cqmem[acq.head].ok THEN "ok" ELSE "status"
  PROVE  Described'
<1> USE Kinds
<1> SUFFICES ASSUME NEW t \in Threads PROVE Desc(t)'
  BY DEF Described
<1>0. OwnInv /\ QueueInv
  BY DEF DescInv, OwnInv
<1>1. /\ \A q \in Procs : pc'[q] = IF q = p THEN (IF p \in Threads THEN "return" ELSE "reply") ELSE pc[q]
      /\ \A q \in Procs : q # p \/ p \in Threads => cmd'[q] = cmd[q]
      /\ \A c \in Callers : ret'[c] = IF c = p THEN result ELSE ret[c]
  BY ONLY <1>0, p \in Executors, pc[p] \in {"enqueue", "wait"}, result \in Outcomes, result \in Results,
          Finish(p, result), UNCHANGED calls, FinishEffect
<1>2. CASE t # p
  <2>1. pc[t] # "wait"
    BY <1>0, <1>2 DEF QueueInv, Exclusive
  <2>2. pc'[t] = pc[t] /\ cmd'[t] = cmd[t] /\ ret'[t] = ret[t] /\ pc'[Owner] = pc[Owner]
    BY <1>1, <1>2
  <2> QED BY <2>1, <2>2, DescFrame
<1>3. CASE t = p
  <2>1. pc'[t] = "return" /\ ret'[t] = result /\ cmd'[t] = cmd[t] /\ pc'[Owner] = pc[Owner]
    BY <1>1, <1>3
  <2> SUFFICES ASSUME t \notin stale', ref' = "bound", pc'[Owner] # "destroy"
               PROVE  IF result.err = "ok" THEN Changed(t)' ELSE Same(t)'
    BY <2>1 DEF Desc
  <2>2. (Same(t)' <=> Same(t)) /\ (Changed(t)' <=> Changed(t))
    BY <2>1 DEF Same, Changed, AfterCq, AfterSq
  <2>3. Desc(t)
    BY DEF DescInv, Described
  <2>4. CASE pc[p] = "enqueue" /\ result.err # "ok"
    BY <2>1, <2>2, <2>3, <2>4, <1>3 DEF Desc
  <2>5. CASE /\ pc[p] = "wait" /\ CplReady
             /\ result.err = IF cqmem[acq.head].ok THEN "ok" ELSE "status"
    <3>1. lag = 0
      BY <1>0, t \notin stale DEF OwnInv, OwnRest, Expired
    <3>2. ~NoneReady
      BY <3>1, <2>5, <1>0, HeadIsOwn
    <3> QED BY <3>2, <2>1, <2>2, <2>3, <2>5, <1>3 DEF Desc
  <2> QED BY <2>4, <2>5
<1> QED BY <1>2, <1>3

LEMMA SubmitFullDesc == ASSUME DescInv, NEW p \in Executors, SubmitFull(p) PROVE Described'
<1>1. /\ pc[p] = "enqueue" /\ Finish(p, [err |-> "EAGAIN", cpl |-> None])
      /\ UNCHANGED <<ref, calls, desc, dev, lag, stale>>
  BY DEF SubmitFull, life, qvars, rpcvars, hist
<1>2. [err |-> "EAGAIN", cpl |-> None] \in Outcomes /\ [err |-> "EAGAIN", cpl |-> None] \in Results
  BY DEF Outcomes, Results
<1>3. PICK result \in Outcomes : result = [err |-> "EAGAIN", cpl |-> None]
  BY <1>2
<1>4. /\ Finish(p, result) /\ result \in Results /\ pc[p] = "enqueue" /\ result.err # "ok"
      /\ UNCHANGED <<ref, calls, desc, dev, lag, stale>>
  BY <1>1, <1>2, <1>3
<1> QED BY ONLY DescInv, p \in Executors, result \in Outcomes, <1>4, FinishDesc

LEMMA DequeueDesc == ASSUME DescInv, NEW p \in Executors, Dequeue(p) PROVE Described'
<1> DEFINE r == [err |-> IF cqmem[acq.head].ok THEN "ok" ELSE "status", cpl |-> cqmem[acq.head].cpl]
<1>1. /\ pc[p] = "wait" /\ CplReady /\ Finish(p, r)
      /\ UNCHANGED <<ref, calls, desc, dev, lag, stale>>
  BY DEF Dequeue, life, qvars, rpcvars, hist
<1>2. r \in Outcomes /\ r \in Results /\ r.err = IF cqmem[acq.head].ok THEN "ok" ELSE "status"
  <2>1. cqmem[acq.head].cpl \in Commands \cup {None}
    BY DEF DescInv, OwnInv, QueueInv, Rings
  <2> QED BY <2>1 DEF Outcomes, Results
<1>3. PICK result \in Outcomes : result = r
  BY <1>2
<1> HIDE DEF r
<1>4. /\ Finish(p, result) /\ result \in Results /\ pc[p] = "wait" /\ CplReady
      /\ result.err = IF cqmem[acq.head].ok THEN "ok" ELSE "status"
      /\ UNCHANGED <<ref, calls, desc, dev, lag, stale>>
  BY <1>1, <1>2, <1>3
<1> QED BY ONLY DescInv, p \in Executors, result \in Outcomes, <1>4, FinishDesc

LEMMA ExpireDesc == ASSUME DescInv, NEW p \in Executors, Expire(p) PROVE Described'
<1>1. stale' = Callers
  BY DEF Expire
<1> QED BY <1>1, Kinds DEF Described, Desc

LEMMA ReturnDesc == ASSUME DescInv, NEW c \in Callers, Return(c) PROVE Described'
<1> USE Kinds
<1>0. /\ pc \in [Procs -> Labels] /\ cmd \in [Procs -> Commands \cup Answered \cup {None}]
      /\ ret \in [Callers -> Results] /\ desc \in [Callers -> [cq : BOOLEAN, sq : BOOLEAN]]
  BY DEF DescInv, OwnInv, QueueInv, Places, Basics
<1>1. /\ pc[c] = "return"
      /\ desc' = [desc EXCEPT ![c] = IF Succeeded(c) THEN Done(c, cmd[c].op) ELSE @]
      /\ pc' = [pc EXCEPT ![c] = "idle"] /\ cmd' = [cmd EXCEPT ![c] = None] /\ ret' = [ret EXCEPT ![c] = NoResult]
      /\ UNCHANGED <<ref, acq, cqmem, dev, stale>>
  BY DEF Return, life, qvars, rpcvars, hist
<1>2. /\ \A q \in Procs : q # c => pc'[q] = pc[q] /\ cmd'[q] = cmd[q]
      /\ \A d \in Callers : d # c => ret'[d] = ret[d] /\ desc'[d] = desc[d]
      /\ pc'[c] = "idle" /\ c # Owner
      /\ desc'[c] = IF Succeeded(c) THEN Done(c, cmd[c].op) ELSE desc[c]
  BY <1>0, <1>1 DEF Callers
<1>3. NoneReady' <=> NoneReady
  BY <1>1 DEF NoneReady
<1> SUFFICES ASSUME NEW t \in Threads PROVE Desc(t)'
  BY DEF Described
<1>4. CASE t # c
  BY <1>1, <1>2, <1>3, <1>4, DescFrame
<1>5. CASE t = c
  <2> SUFFICES ASSUME t \notin stale', ref' = "bound", pc'[Owner] # "destroy" PROVE Same(t)'
    BY <1>2, <1>5 DEF Desc
  <2>1. pc[Owner] # "destroy" /\ ref = "bound" /\ t \notin stale
    BY <1>1, <1>2
  <2>2. IF ret[t].err = "ok" THEN Changed(t) ELSE Same(t)
    BY <2>1, <1>1, <1>5 DEF DescInv, Described, Desc
  <2>3. CASE Succeeded(c)
    <3>1. cmd[t].op \in AllOps
      BY <1>1, <1>5 DEF DescInv, OwnInv, QueueInv, Places, Commands
    <3>2. PICK o \in AllOps : o = cmd[t].op
      BY <3>1
    <3>3. Done(t, o).cq = AfterCq(t, o) /\ Done(t, o).sq = AfterSq(t, o)
      BY DoneFields DEF DescInv, OwnInv
    <3>4. desc'[t].cq = AfterCq(t, o) /\ desc'[t].sq = AfterSq(t, o)
      BY <3>2, <3>3, <2>3, <1>2, <1>5
    <3>5. Changed(t)
      BY <2>2, <2>3, <1>5 DEF Succeeded
    <3>6. (AfterCq(t, o) <=> t \in dev.cqs) /\ (AfterSq(t, o) <=> t \in dev.sqs)
      BY <3>2, <3>5 DEF Changed
    <3>7. (desc'[t].cq <=> t \in dev.cqs) /\ (desc'[t].sq <=> t \in dev.sqs)
      BY <3>4, <3>6
    <3> QED BY <3>7, <1>1 DEF Same
  <2>4. CASE ~Succeeded(c)
    <3>1. Same(t)
      BY <2>2, <2>4, <1>5 DEF Succeeded
    <3> QED BY <3>1, <2>4, <1>1, <1>2, <1>5 DEF Same
  <2> QED BY <2>3, <2>4
<1> QED BY <1>4, <1>5

LEMMA ClientDesc ==
  ASSUME DescInv, NEW c \in Clients,
         \/ Bind(c) \/ Unbind(c) \/ RemoteReply(c) \/ RemoteExpire(c)
         \/ \E op \in ClientOps : RemoteCall(c, op)
  PROVE  Described'
<1> USE Kinds
<1>0. /\ pc \in [Procs -> Labels] /\ cmd \in [Procs -> Commands \cup Answered \cup {None}]
      /\ ret \in [Callers -> Results]
  BY DEF DescInv, OwnInv, QueueInv, Places, Basics
<1>1. /\ UNCHANGED <<ref, dev, acq, cqmem, desc>>
      /\ pc' = pc \/ \E l : pc' = [pc EXCEPT ![c] = l]
      /\ cmd' = cmd \/ \E n : cmd' = [cmd EXCEPT ![c] = n]
      /\ ret' = ret \/ \E r : ret' = [ret EXCEPT ![c] = r]
      /\ stale \subseteq stale' \cup {c}
  <2>1. CASE Bind(c)
    BY <2>1 DEF Bind, life, qvars
  <2>2. CASE Unbind(c)
    BY <2>2 DEF Unbind, life, qvars, hist
  <2>3. CASE RemoteReply(c)
    BY <2>3 DEF RemoteReply, life, qvars, hist
  <2>4. CASE RemoteExpire(c)
    BY <2>4 DEF RemoteExpire, life, qvars, hist
  <2>5. CASE \E op \in ClientOps : RemoteCall(c, op)
    BY <2>5 DEF RemoteCall, life, qvars, hist
  <2> QED BY <2>1, <2>2, <2>3, <2>4, <2>5
<1>2. \A q \in Procs : q # c => pc'[q] = pc[q] /\ cmd'[q] = cmd[q]
  BY <1>0, <1>1
<1>3. \A d \in Callers : d # c => ret'[d] = ret[d]
  BY <1>0, <1>1
<1>4. \A t \in Threads : /\ pc'[t] = pc[t] /\ cmd'[t] = cmd[t] /\ ret'[t] = ret[t]
                         /\ t \in stale => t \in stale'
  BY <1>1, <1>2, <1>3
<1> QED BY <1>1, <1>2, <1>4, DescQuiet

LEMMA CallbackDesc ==
  ASSUME DescInv, NEW i \in Intrs, CallbackStart(i) \/ CallbackReply(i)
  PROVE  Described'
<1> USE Kinds
<1>0. /\ pc \in [Procs -> Labels] /\ cmd \in [Procs -> Commands \cup Answered \cup {None}]
  BY DEF DescInv, OwnInv, QueueInv, Places
<1>1. /\ UNCHANGED <<ref, dev, acq, cqmem, desc, ret>>
      /\ \E l : pc' = [pc EXCEPT ![i] = l]
      /\ \E n : cmd' = [cmd EXCEPT ![i] = n]
      /\ stale \subseteq stale'
  BY DEF CallbackStart, CallbackReply, life, qvars, hist
<1>2. \A q \in Procs : q # i => pc'[q] = pc[q] /\ cmd'[q] = cmd[q]
  BY <1>0, <1>1
<1>3. \A t \in Threads : pc'[t] = pc[t] /\ cmd'[t] = cmd[t]
  BY <1>2
<1> QED BY <1>1, <1>2, <1>3, DescQuiet

LEMMA DescInvStep == ASSUME DescInv, [Next]_vars PROVE DescInv'
<1>0. OwnInv'
  BY OwnInvStep DEF DescInv
<1>1. ASSUME AqCreate PROVE Described'
  BY <1>1, AqCreateDesc
<1>2. ASSUME \/ DestroyStart \/ DestroyEnd \/ EnableCreate \/ EnableFail
             \/ EnableInsert \/ EnableDrop \/ DisableStart \/ DisableEnd \/ DisableNull
      PROVE Described'
  BY <1>2, OwnerDesc
<1>3. ASSUME DevFetch PROVE Described'
  BY <1>3, FetchDesc
<1>4. ASSUME NEW c \in dev.running, DevComplete(c) PROVE Described'
  BY <1>4, CompleteDesc
<1>5. ASSUME NEW t \in Threads, NEW op \in Ops, Call(t, op) PROVE Described'
  BY <1>5, CallDesc
<1>6. ASSUME NEW c \in Callers, Return(c) PROVE Described'
  BY <1>6, ReturnDesc
<1>7. ASSUME NEW p \in Executors, Execute(p) PROVE Described'
  BY <1>7, TakeLockDesc, SubmitDesc, SubmitFullDesc, DequeueDesc, ExpireDesc DEF Execute
<1>8. ASSUME NEW i \in Intrs, CallbackStart(i) \/ CallbackReply(i) PROVE Described'
  BY <1>8, CallbackDesc
<1>9. ASSUME NEW c \in Clients, \/ Bind(c) \/ Unbind(c) \/ RemoteReply(c) \/ RemoteExpire(c)
                                \/ \E op \in ClientOps : RemoteCall(c, op)
      PROVE Described'
  BY <1>9, ClientDesc
<1>10. ASSUME UNCHANGED vars PROVE Described'
  BY <1>10, DescQuiet DEF vars
<1> QED BY <1>0, <1>1, <1>2, <1>3, <1>4, <1>5, <1>6, <1>7, <1>8, <1>9, <1>10 DEF Next, DescInv

\* Between its calls, the queue descriptors of a thread say which of its queues
\* the controller has, unless a wait has expired (admin.cpp, nvm_admin_cq_create,
\* nvm_admin_sq_create, nvm_admin_sq_delete, nvm_admin_cq_delete).
THEOREM DescriptorsAreTrue == Spec => []DescriptorsTrue
<1>1. Init => DescInv
  BY OwnInvInit, DescInit DEF DescInv
<1>2. DescInv /\ [Next]_vars => DescInv'
  BY DescInvStep
<1>3. DescInv => DescriptorsTrue
  BY DEF DescInv, Described, Desc, DescriptorsTrue, Same
<1> QED BY <1>1, <1>2, <1>3, PTL DEF Spec

=============================================================================
