----------------------------- MODULE AdminQueue -----------------------------
(***************************************************************************)
(* The admin queue pair of a controller (rpc.cpp, queue.cpp, nvm_queue.h), *)
(* the admin commands issued through it (admin.cpp) and their relay from   *)
(* other nodes (dis/rpc.c, dis/interrupt.c).                               *)
(*                                                                         *)
(* Threads call nvm_raw_rpc on the local reference; its lock is held from  *)
(* the enqueue to the completion or the timeout.  Clients hold a reference *)
(* bound to an interrupt of the owner's node: a request is data of that    *)
(* interrupt, its callback runs the command on the local reference and     *)
(* sends the completion back as data of the client's own interrupt.        *)
(*                                                                         *)
(* One action per step between two accesses that another process or the    *)
(* controller can observe.  The completion queue is read by position: the  *)
(* code does not compare command identifiers.                              *)
(***************************************************************************)
EXTENDS Integers, Sequences, FiniteSets

CONSTANTS
    Threads,    \* local callers
    Clients,    \* callers on other nodes, one reference each
    QS,         \* entries of the admin submission queue
    CQS,        \* entries of the admin completion queue
    Ops,        \* admin commands that threads issue
    ClientOps,  \* admin commands that clients issue
    None,       \* no process, no command, no completion
    MaxCalls,   \* bound: calls per caller
    MaxEnables, \* bound: calls of nvm_dis_rpc_enable
    MaxLives,   \* bound: calls of nvm_aq_create
    MaxTotal    \* bound: calls of all kinds together

ASSUME QueueAssumption ==
    /\ QS \in Nat /\ QS >= 2 /\ 65536 % QS = 0
    /\ CQS \in Nat /\ CQS >= QS

\* The commands that admin.cpp builds.
AllOps == {"identify", "log_page", "num_queues", "create_cq", "create_sq", "delete_sq", "delete_cq"}

Owner == 0                          \* the process that owns the controller
Intrs == 1 .. MaxEnables            \* interrupts with a callback, and their callbacks
Callers == Threads \cup Clients
Executors == Threads \cup Intrs     \* whoever runs execute_command
Procs == Callers \cup Intrs \cup {Owner}

\* The processes are different ones.
ASSUME ProcAssumption ==
    /\ Threads \cap Clients = {}
    /\ Callers \cap (Intrs \cup {Owner}) = {}
    /\ None \notin Procs

ASSUME BoundAssumption ==
    /\ MaxCalls \in [Callers -> Nat]
    /\ MaxEnables \in Nat /\ MaxLives \in Nat /\ MaxTotal \in Nat

Commands == [by: Callers, n: Nat, op: AllOps]

NoResult == [err |-> None, cpl |-> None]

VARIABLES
    ref,        \* the reference: "none" or "bound" to the local queue pair
    lives,      \* calls of nvm_aq_create
    lock,       \* nvm_admin_reference.lock: its holder or None
    pc,         \* where each process is
    cmd,        \* the command a process is executing, or None
    ret,        \* what the call of a caller returns
    calls,      \* calls made so far
    asq,        \* host side of the submission queue: head, tail, last
    sqmem,      \* its entries
    acq,        \* host side of the completion queue: head, phase
    cqmem,      \* its entries: completion and phase tag
    dev,        \* the controller
    desc,       \* queue descriptors of each caller: cq.db and sq.db set or not
    info,       \* handle_info in the shared segment: number of an interrupt or 0
    handle,     \* binding handle in the list of the reference, or 0
    up,         \* interrupts that exist
    enables,    \* calls of nvm_dis_rpc_enable
    requests,   \* data pending on each interrupt
    bound,      \* interrupt a client is connected to, or 0
    inbox,      \* data pending on each client's interrupt
    since,      \* calls a client had made when it was bound
    lag,        \* history: waits on the queue pair that have expired
    stale       \* history: callers that an answer to an earlier call may reach

life == <<ref, lives>>
qvars == <<asq, sqmem, acq, cqmem>>
rpcvars == <<info, handle, up, enables, requests, bound, inbox, since>>
hist == <<lag, stale>>
vars == <<ref, lives, lock, pc, cmd, ret, calls, asq, sqmem, acq, cqmem, dev, desc,
          info, handle, up, enables, requests, bound, inbox, since, lag, stale>>

(***************************************************************************)
(* The rings.                                                              *)
(***************************************************************************)
SqUsed == ((asq.tail - asq.head) % 65536) % QS
SqFull == SqUsed = QS - 1
CplReady == cqmem[acq.head].phase = acq.phase

\* The bound on calls of all kinds.
MoreCalls ==
    lives + enables + Cardinality(UNION {{c} \X (1 .. calls[c]) : c \in Callers}) < MaxTotal

Next1(i, size) == IF i + 1 = size THEN 0 ELSE i + 1

\* Mutant: the tail wraps an entry too late.
MutNvmSqEnqueue(sq) == [sq EXCEPT !.tail = IF @ = QS THEN 0 ELSE @ + 1]

nvm_sq_enqueue(sq) == [sq EXCEPT !.tail = Next1(@, QS)]
nvm_sq_submit(sq) == [sq EXCEPT !.last = sq.tail]

nvm_cq_dequeue ==
    acq' = [head |-> Next1(acq.head, CQS),
            phase |-> IF acq.head + 1 = CQS THEN ~acq.phase ELSE acq.phase]

nvm_sq_update == asq' = [asq EXCEPT !.head = Next1(@, QS)]

(***************************************************************************)
(* The controller.  It takes entries up to the doorbell, executes what it  *)
(* has taken in any order, and may be slower than the host's timeout.      *)
(***************************************************************************)
DevFetch ==
    /\ dev.ready /\ dev.sqHead # asq.last
    /\ dev' = [dev EXCEPT !.sqHead = Next1(@, QS),
                          !.running = @ \cup {sqmem[dev.sqHead]}]
    /\ UNCHANGED <<life, lock, pc, cmd, ret, calls, qvars, desc, rpcvars, hist>>

\* Does the controller accept the command?
Accepted(c) ==
    CASE c.op \in {"identify", "log_page", "num_queues"} -> TRUE
      [] c.op = "create_cq" -> c.by \notin dev.cqs
      [] c.op = "create_sq" -> c.by \in dev.cqs /\ c.by \notin dev.sqs
      [] c.op = "delete_sq" -> c.by \in dev.sqs
      [] c.op = "delete_cq" -> c.by \in dev.cqs /\ c.by \notin dev.sqs

DevComplete(c) ==
    /\ c \in dev.running
    /\ cqmem' = [cqmem EXCEPT ![dev.cqTail] =
                    [cpl |-> c, ok |-> Accepted(c), phase |-> dev.phase]]
    /\ dev' = [dev EXCEPT
                 !.running = @ \ {c},
                 !.cqTail = Next1(@, CQS),
                 !.phase = IF dev.cqTail + 1 = CQS THEN ~@ ELSE @,
                 !.cqs = CASE c.op = "create_cq" /\ Accepted(c) -> @ \cup {c.by}
                           [] c.op = "delete_cq" /\ Accepted(c) -> @ \ {c.by}
                           [] OTHER -> @,
                 !.sqs = CASE c.op = "create_sq" /\ Accepted(c) -> @ \cup {c.by}
                           [] c.op = "delete_sq" /\ Accepted(c) -> @ \ {c.by}
                           [] OTHER -> @]
    /\ UNCHANGED <<life, lock, pc, cmd, ret, calls, asq, sqmem, acq, desc, rpcvars, hist>>

(***************************************************************************)
(* Admin calls of a thread on the local reference.                         *)
(***************************************************************************)
\* Each function of admin.cpp: the command it sends, the check of its arguments,
\* and the caller's queue descriptors after success.  The queues of a caller are
\* numbered after it, and its DMA window is large enough.
nvm_admin_ctrl_info(c) == [op |-> "identify", args |-> TRUE, done |-> desc[c]]
nvm_admin_ns_info(c) == [op |-> "identify", args |-> TRUE, done |-> desc[c]]
nvm_admin_get_log_page(c) == [op |-> "log_page", args |-> TRUE, done |-> desc[c]]
nvm_admin_get_num_queues(c) == [op |-> "num_queues", args |-> TRUE, done |-> desc[c]]
nvm_admin_request_num_queues(c) == [op |-> "num_queues", args |-> TRUE, done |-> desc[c]]
nvm_admin_cq_create(c) ==
    [op |-> "create_cq", args |-> TRUE, done |-> [desc[c] EXCEPT !.cq = TRUE]]
nvm_admin_cq_delete(c) ==
    [op |-> "delete_cq", args |-> desc[c].cq, done |-> [desc[c] EXCEPT !.cq = FALSE]]
nvm_admin_sq_create(c) ==
    [op |-> "create_sq", args |-> TRUE, done |-> [desc[c] EXCEPT !.sq = TRUE]]
nvm_admin_sq_delete(c) ==
    [op |-> "delete_sq", args |-> desc[c].cq /\ desc[c].sq, done |-> [desc[c] EXCEPT !.sq = FALSE]]

AdminCalls(c) ==
    {nvm_admin_ctrl_info(c), nvm_admin_ns_info(c), nvm_admin_get_log_page(c),
     nvm_admin_get_num_queues(c), nvm_admin_request_num_queues(c),
     nvm_admin_cq_create(c), nvm_admin_cq_delete(c),
     nvm_admin_sq_create(c), nvm_admin_sq_delete(c)}

ArgsOk(c, op) == \E f \in AdminCalls(c) : f.op = op /\ f.args
Done(c, op) == (CHOOSE f \in AdminCalls(c) : f.op = op).done

Call(t, op) ==
    /\ ref = "bound" /\ pc[Owner] # "destroy" /\ pc[t] = "idle" /\ calls[t] < MaxCalls[t]
    /\ MoreCalls
    /\ ArgsOk(t, op)
    /\ calls' = [calls EXCEPT ![t] = @ + 1]
    /\ cmd' = [cmd EXCEPT ![t] = [by |-> t, n |-> calls[t] + 1, op |-> op]]
    /\ pc' = [pc EXCEPT ![t] = "lock"]
    /\ UNCHANGED <<life, lock, ret, qvars, dev, desc, rpcvars, hist>>

\* Mutant: the lock is taken without waiting for its holder.
MutTakeLock(p) ==
    /\ pc[p] = "lock"
    /\ lock' = p
    /\ pc' = [pc EXCEPT ![p] = "enqueue"]
    /\ UNCHANGED <<life, cmd, ret, calls, qvars, dev, desc, rpcvars, hist>>

TakeLock(p) ==
    /\ pc[p] = "lock" /\ lock = None
    /\ lock' = p
    /\ pc' = [pc EXCEPT ![p] = "enqueue"]
    /\ UNCHANGED <<life, cmd, ret, calls, qvars, dev, desc, rpcvars, hist>>

\* execute_command up to the doorbell
Submit(p) ==
    /\ pc[p] = "enqueue" /\ ~SqFull
    /\ sqmem' = [sqmem EXCEPT ![asq.tail] = cmd[p]]
    /\ asq' = nvm_sq_submit(nvm_sq_enqueue(asq))
    /\ pc' = [pc EXCEPT ![p] = "wait"]
    /\ UNCHANGED <<life, lock, cmd, ret, calls, acq, cqmem, dev, desc, rpcvars, hist>>

\* What a call of p returns: a thread's call ends, a callback goes on to reply.
Finish(p, result) ==
    /\ lock' = None
    /\ ret' = [ret EXCEPT ![cmd[p].by] = IF p \in Threads THEN result ELSE @]
    /\ pc' = [pc EXCEPT ![p] = IF p \in Threads THEN "return" ELSE "reply"]
    /\ cmd' = [cmd EXCEPT ![p] = IF p \in Threads THEN @
                                 ELSE [by |-> @.by, n |-> @.n, op |-> @.op, res |-> result]]

\* The queue is full: EAGAIN.
SubmitFull(p) ==
    /\ pc[p] = "enqueue" /\ SqFull
    /\ Finish(p, [err |-> "EAGAIN", cpl |-> None])
    /\ UNCHANGED <<life, calls, qvars, dev, desc, rpcvars, hist>>

\* nvm_cq_dequeue_block finds an entry: the rest of execute_command.
Dequeue(p) ==
    /\ pc[p] = "wait" /\ CplReady
    /\ nvm_cq_dequeue
    /\ nvm_sq_update
    /\ Finish(p, [err |-> IF cqmem[acq.head].ok THEN "ok" ELSE "status",
                  cpl |-> cqmem[acq.head].cpl])
    /\ UNCHANGED <<life, calls, sqmem, cqmem, dev, desc, rpcvars, hist>>

\* Mutant: the submission queue is updated although nothing was dequeued.
MutExpire(p) ==
    /\ pc[p] = "wait" /\ ~CplReady
    /\ Finish(p, [err |-> "ETIME", cpl |-> None])
    /\ nvm_sq_update
    /\ lag' = lag + 1
    /\ stale' = Callers
    /\ UNCHANGED <<life, calls, sqmem, acq, cqmem, dev, desc, rpcvars>>

\* nvm_cq_dequeue_block gives up: ETIME; neither queue is updated.
Expire(p) ==
    /\ pc[p] = "wait" /\ ~CplReady
    /\ Finish(p, [err |-> "ETIME", cpl |-> None])
    /\ lag' = lag + 1
    /\ stale' = Callers
    /\ UNCHANGED <<life, calls, qvars, dev, desc, rpcvars>>

\* Mutant: the status of the completion is not looked at.
MutSucceeded(t) == ret[t].err \in {"ok", "status"}

\* nvm_ok of what nvm_raw_rpc returns
Succeeded(t) == ret[t].err = "ok"

\* The nvm_admin_ functions change a descriptor only after success.
Return(t) ==
    /\ pc[t] = "return"
    /\ desc' = [desc EXCEPT ![t] = IF Succeeded(t) THEN Done(t, cmd[t].op) ELSE @]
    /\ pc' = [pc EXCEPT ![t] = "idle"]
    /\ cmd' = [cmd EXCEPT ![t] = None]
    /\ ret' = [ret EXCEPT ![t] = NoResult]
    /\ UNCHANGED <<life, lock, calls, qvars, dev, rpcvars, hist>>

(***************************************************************************)
(* Commands relayed for a client.                                          *)
(***************************************************************************)
\* The device's shared segment names one interrupt, or none.
write_handle_info(i) == info' = i

\* try_bind connects to the interrupt that the segment names, if it exists.
CanConnect == info \in up

\* nvm_dis_rpc_bind: read the exported handle_info and connect to the
\* interrupt it names; the client's own interrupt is new.
Bind(c) ==
    /\ pc[c] = "idle" /\ bound[c] = 0
    /\ CanConnect
    /\ bound' = [bound EXCEPT ![c] = info]
    /\ inbox' = [inbox EXCEPT ![c] = <<>>]
    /\ since' = [since EXCEPT ![c] = calls[c]]
    /\ stale' = IF lag = 0 THEN stale \ {c} ELSE stale \cup {c}
    /\ UNCHANGED <<life, lock, pc, cmd, ret, calls, qvars, dev, desc,
                   info, handle, up, enables, requests, lag>>

\* remove_binding
remove_binding(c) ==
    /\ bound' = [bound EXCEPT ![c] = 0]
    /\ inbox' = [inbox EXCEPT ![c] = <<>>]

\* nvm_rpc_unbind, nvm_aq_destroy on the client's reference
Unbind(c) ==
    /\ pc[c] = "idle" /\ bound[c] # 0
    /\ remove_binding(c)
    /\ UNCHANGED <<life, lock, pc, cmd, ret, calls, qvars, dev, desc,
                   info, handle, up, enables, requests, since, hist>>

\* remote_command up to the wait; without the interrupt: ENOTCONN.
RemoteCall(c, op) ==
    /\ pc[c] = "idle" /\ bound[c] # 0 /\ calls[c] < MaxCalls[c]
    /\ MoreCalls
    /\ ArgsOk(c, op)
    /\ LET new == [by |-> c, n |-> calls[c] + 1, op |-> op]
           sent == bound[c] \in up
       IN /\ calls' = [calls EXCEPT ![c] = @ + 1]
          /\ cmd' = [cmd EXCEPT ![c] = new]
          /\ pc' = [pc EXCEPT ![c] = IF sent THEN "wait" ELSE "return"]
          /\ ret' = [ret EXCEPT ![c] = IF sent THEN @ ELSE [err |-> "ENOTCONN", cpl |-> None]]
          /\ requests' = [requests EXCEPT ![bound[c]] = IF sent THEN Append(@, new) ELSE @]
    /\ UNCHANGED <<life, lock, qvars, dev, desc, info, handle, up, enables, bound, inbox, since, hist>>

\* The wait ends with data of the interrupt, whichever reply that is.
RemoteReply(c) ==
    /\ pc[c] = "wait" /\ inbox[c] # <<>>
    /\ ret' = [ret EXCEPT ![c] = Head(inbox[c])]
    /\ inbox' = [inbox EXCEPT ![c] = Tail(@)]
    /\ pc' = [pc EXCEPT ![c] = "return"]
    /\ UNCHANGED <<life, lock, cmd, calls, qvars, dev, desc,
                   info, handle, up, enables, requests, bound, since, hist>>

\* RPC_COMMAND_TIMEOUT
RemoteExpire(c) ==
    /\ pc[c] = "wait" /\ inbox[c] = <<>>
    /\ ret' = [ret EXCEPT ![c] = [err |-> "ETIMEDOUT", cpl |-> None]]
    /\ pc' = [pc EXCEPT ![c] = "return"]
    /\ stale' = stale \cup {c}
    /\ UNCHANGED <<life, lock, cmd, calls, qvars, dev, desc, rpcvars, lag>>

\* interrupt_callback and handle_remote_command: the filter accepts or rejects.
CallbackStart(i) ==
    /\ pc[i] = "idle" /\ i \in up /\ requests[i] # <<>>
    /\ requests' = [requests EXCEPT ![i] = Tail(@)]
    /\ \E accept \in BOOLEAN :
         LET req == Head(requests[i])
         IN /\ pc' = [pc EXCEPT ![i] = IF accept THEN "lock" ELSE "reply"]
            /\ cmd' = [cmd EXCEPT ![i] =
                          IF accept THEN req
                          ELSE [by |-> req.by, n |-> req.n, op |-> req.op,
                                res |-> [err |-> "rejected", cpl |-> None]]]
    /\ UNCHANGED <<life, lock, ret, calls, qvars, dev, desc,
                   info, handle, up, enables, bound, inbox, since, hist>>

\* The reply carries the completion; when _nvm_local_admin has failed or the
\* filter has rejected the command, reply.cpl is uninitialized memory, which
\* the client reads as success or as an error status.
Replies(res) ==
    IF res.cpl # None THEN {res}
    ELSE {[err |-> e, cpl |-> None] : e \in {"ok", "status"}}

\* The reply goes to the interrupt number in the request.  If the client has
\* closed that interrupt, the number is free or names its next one.
CallbackReply(i) ==
    /\ pc[i] = "reply"
    /\ LET c == cmd[i].by
           current == cmd[i].n > since[c]
       IN \E r \in Replies(cmd[i].res) :
          \E arrives \in IF bound[c] = 0 THEN {FALSE} ELSE IF current THEN {TRUE} ELSE BOOLEAN :
            /\ inbox' = [inbox EXCEPT ![c] = IF arrives THEN Append(@, r) ELSE @]
            /\ stale' = IF arrives /\ ~current THEN stale \cup {c} ELSE stale
    /\ pc' = [pc EXCEPT ![i] = "idle"]
    /\ cmd' = [cmd EXCEPT ![i] = None]
    /\ UNCHANGED <<life, lock, ret, calls, qvars, dev, desc,
                   info, handle, up, enables, requests, bound, since, lag>>

(***************************************************************************)
(* The owner: set-up and tear-down.                                        *)
(***************************************************************************)
NoQueues == [cq |-> FALSE, sq |-> FALSE]
EmptyAsq == [head |-> 0, tail |-> 0, last |-> 0]
EmptyAcq == [head |-> 0, phase |-> TRUE]
EmptyCqmem == [i \in 0 .. CQS - 1 |-> [cpl |-> None, ok |-> FALSE, phase |-> FALSE]]
ResetDev(ready) == [ready |-> ready, sqHead |-> 0, cqTail |-> 0, phase |-> TRUE,
                    running |-> {}, cqs |-> {}, sqs |-> {}]

\* nvm_aq_create: cleared queues, and a reset of the controller whose timeout
\* is not reported.
AqCreate ==
    /\ ref = "none" /\ lives < MaxLives /\ MoreCalls
    /\ ref' = "bound" /\ lives' = lives + 1
    /\ asq' = EmptyAsq /\ acq' = EmptyAcq
    /\ sqmem' = [i \in 0 .. QS - 1 |-> None] /\ cqmem' = EmptyCqmem
    /\ \E ready \in BOOLEAN : dev' = ResetDev(ready)
    /\ lag' = 0 /\ stale' = stale \ Threads
    /\ UNCHANGED <<lock, pc, cmd, ret, calls, desc, rpcvars>>

\* _nvm_local_intr_get with a callback
CreateIntr ==
    /\ enables < MaxEnables /\ MoreCalls
    /\ enables' = enables + 1
    /\ up' = up \cup {enables + 1}

\* nvm_dis_rpc_enable, create_binding_handle: a new interrupt, exported in the
\* shared segment ...
EnableCreate ==
    /\ ref = "bound" /\ pc[Owner] = "idle"
    /\ CreateIntr
    /\ write_handle_info(enables + 1)
    /\ pc' = [pc EXCEPT ![Owner] = "insert"]
    /\ UNCHANGED <<life, lock, cmd, ret, calls, qvars, dev, desc,
                   handle, requests, bound, inbox, since, hist>>

\* ... unless the segment cannot be mapped: then the call fails, and the
\* interrupt is not removed.
EnableFail ==
    /\ ref = "bound" /\ pc[Owner] = "idle"
    /\ CreateIntr
    /\ UNCHANGED <<life, lock, pc, cmd, ret, calls, qvars, dev, desc,
                   info, handle, requests, bound, inbox, since, hist>>

\* Mutant: the export of the refused handle stays.
MutEnableInsert ==
    /\ pc[Owner] = "insert" /\ lock = None
    /\ handle' = IF handle = 0 THEN enables ELSE handle
    /\ pc' = [pc EXCEPT ![Owner] = IF handle = 0 THEN "idle" ELSE "drop"]
    /\ UNCHANGED <<life, lock, cmd, ret, calls, qvars, dev, desc,
                   info, up, enables, requests, bound, inbox, since, hist>>

\* ... and inserted, unless the adapter has a handle already: then the new
\* handle is removed again.
EnableInsert ==
    /\ pc[Owner] = "insert" /\ lock = None
    /\ handle' = IF handle = 0 THEN enables ELSE handle
    /\ write_handle_info(IF handle = 0 THEN info ELSE 0)
    /\ pc' = [pc EXCEPT ![Owner] = IF handle = 0 THEN "idle" ELSE "drop"]
    /\ UNCHANGED <<life, lock, cmd, ret, calls, qvars, dev, desc,
                   up, enables, requests, bound, inbox, since, hist>>

\* _nvm_local_intr_put: removing the interrupt succeeds once no callback runs.
RemoveIntr(i) ==
    /\ pc[i] = "idle"
    /\ up' = up \ {i}
    /\ requests' = [requests EXCEPT ![i] = <<>>]

EnableDrop ==
    /\ pc[Owner] = "drop"
    /\ RemoveIntr(enables)
    /\ pc' = [pc EXCEPT ![Owner] = "idle"]
    /\ UNCHANGED <<life, lock, cmd, ret, calls, qvars, dev, desc,
                   info, handle, enables, bound, inbox, since, hist>>

\* nvm_dis_rpc_disable: take the lock and the handle out of the list ...
DisableStart ==
    /\ pc[Owner] = "idle" /\ ref = "bound" /\ handle # 0 /\ lock = None
    /\ lock' = Owner
    /\ write_handle_info(0)
    /\ pc' = [pc EXCEPT ![Owner] = "disable"]
    /\ UNCHANGED <<life, cmd, ret, calls, qvars, dev, desc,
                   handle, up, enables, requests, bound, inbox, since, hist>>

\* ... and release it, still under the lock.
DisableEnd ==
    /\ pc[Owner] = "disable"
    /\ RemoveIntr(handle)
    /\ handle' = 0
    /\ lock' = None
    /\ pc' = [pc EXCEPT ![Owner] = "idle"]
    /\ UNCHANGED <<life, cmd, ret, calls, qvars, dev, desc, info, enables, bound, inbox, since, hist>>

\* No handle of the adapter is in the list: the search ends at NULL, whose next
\* is read, and the process ends with the lock held.  Only the owner stops here:
\* its threads go on as far as they get without the lock, further than in the code.
DisableNull ==
    /\ pc[Owner] = "idle" /\ ref = "bound" /\ handle = 0 /\ lock = None
    /\ lock' = Owner
    /\ pc' = [pc EXCEPT ![Owner] = "fault"]
    /\ UNCHANGED <<life, cmd, ret, calls, qvars, dev, desc, rpcvars, hist>>

\* ~Controller: the queue pairs are deleted without a command to the
\* controller, then nvm_aq_destroy.  No thread is inside a call.
DestroyStart ==
    /\ pc[Owner] = "idle" /\ ref = "bound" /\ lock = None
    /\ \A t \in Threads : pc[t] = "idle"
    /\ lock' = Owner
    /\ desc' = [c \in Callers |-> IF c \in Threads THEN NoQueues ELSE desc[c]]
    /\ write_handle_info(IF handle # 0 THEN 0 ELSE info)
    /\ pc' = [pc EXCEPT ![Owner] = "destroy"]
    /\ UNCHANGED <<life, cmd, ret, calls, qvars, dev,
                   handle, up, enables, requests, bound, inbox, since, hist>>

\* _nvm_ref_put: release the handles, then the queue memory.
DestroyEnd ==
    /\ pc[Owner] = "destroy"
    /\ IF handle # 0 THEN RemoveIntr(handle) ELSE UNCHANGED <<up, requests>>
    /\ handle' = 0
    /\ lock' = None
    /\ ref' = "none"
    /\ pc' = [pc EXCEPT ![Owner] = "idle"]
    /\ UNCHANGED <<lives, cmd, ret, calls, qvars, dev, desc, info, enables, bound, inbox, since, hist>>

Init ==
    /\ ref = "none" /\ lives = 0 /\ lock = None
    /\ pc = [p \in Procs |-> "idle"]
    /\ cmd = [p \in Procs |-> None]
    /\ ret = [c \in Callers |-> NoResult]
    /\ calls = [c \in Callers |-> 0]
    /\ asq = EmptyAsq /\ acq = EmptyAcq
    /\ sqmem = [i \in 0 .. QS - 1 |-> None] /\ cqmem = EmptyCqmem
    /\ dev = ResetDev(FALSE)
    /\ desc = [c \in Callers |-> NoQueues]
    /\ info = 0 /\ handle = 0 /\ up = {} /\ enables = 0
    /\ requests = [i \in Intrs |-> <<>>]
    /\ bound = [c \in Clients |-> 0]
    /\ inbox = [c \in Clients |-> <<>>]
    /\ since = [c \in Clients |-> 0]
    /\ lag = 0 /\ stale = {}

Execute(p) == TakeLock(p) \/ Submit(p) \/ SubmitFull(p) \/ Dequeue(p) \/ Expire(p)

Next ==
    \/ AqCreate \/ DestroyStart \/ DestroyEnd
    \/ EnableCreate \/ EnableFail \/ EnableInsert \/ EnableDrop
    \/ DisableStart \/ DisableEnd \/ DisableNull
    \/ DevFetch
    \/ \E c \in dev.running : DevComplete(c)
    \/ \E t \in Threads, op \in Ops : Call(t, op)
    \/ \E c \in Callers : Return(c)
    \/ \E p \in Executors : Execute(p)
    \/ \E i \in Intrs : CallbackStart(i) \/ CallbackReply(i)
    \/ \E c \in Clients : \/ Bind(c) \/ Unbind(c) \/ RemoteReply(c) \/ RemoteExpire(c)
                          \/ \E op \in ClientOps : RemoteCall(c, op)

Spec == Init /\ [][Next]_vars

-----------------------------------------------------------------------------
Results == [err: {None, "ok", "status", "EAGAIN", "ETIME", "ETIMEDOUT", "ENOTCONN"},
            cpl: Commands \cup {None}]

\* Types: ring positions stay below the size of their queue and a result is an
\* error code, with or without a completion (nvm_sq_enqueue, remote_command).
TypeOK ==
    /\ ref \in {"none", "bound"} /\ lives \in 0 .. MaxLives
    /\ lock \in Executors \cup {Owner, None}
    /\ \A p \in Procs : pc[p] \in {"idle", "lock", "enqueue", "wait", "return", "reply",
                                   "insert", "drop", "disable", "fault", "destroy"}
    /\ ret \in [Callers -> Results]
    /\ calls \in [Callers -> Nat] /\ \A c \in Callers : calls[c] <= MaxCalls[c]
    /\ asq \in [head: 0 .. QS - 1, tail: 0 .. QS - 1, last: 0 .. QS - 1]
    /\ acq \in [head: 0 .. CQS - 1, phase: BOOLEAN]
    /\ sqmem \in [0 .. QS - 1 -> Commands \cup {None}]
    /\ dev.running \subseteq Commands /\ dev.sqs \subseteq dev.cqs
    /\ desc \in [Callers -> [cq: BOOLEAN, sq: BOOLEAN]]
    /\ {info, handle} \subseteq Intrs \cup {0} /\ up \subseteq Intrs
    /\ lag \in Nat /\ stale \subseteq Callers

\* Every wait that expires costs the submission queue an entry for good: the
\* entries between head and tail are those of the expired commands and of the
\* one command that is being waited for (nvm_sq_update, rpc.cpp:298).
RingAccounting ==
    SqUsed = lag + Cardinality({p \in Executors : pc[p] = "wait"})

\* A call that returns a completion returns that of its own command, if no
\* earlier wait has expired (execute_command, remote_command).
OwnCompletion ==
    \A c \in Callers : (pc[c] = "return" /\ c \notin stale /\ ret[c].cpl # None)
                            => ret[c].cpl = cmd[c]

\* Between calls, and if no wait has expired, the descriptors of a thread say
\* which of its queues the controller has (nvm_admin_cq_create .. sq_delete).
DescriptorsTrue ==
    \A t \in Threads : (/\ ref = "bound" /\ pc[Owner] # "destroy"
                           /\ pc[t] = "idle" /\ t \notin stale)
        => /\ desc[t].cq <=> t \in dev.cqs
           /\ desc[t].sq <=> t \in dev.sqs

\* While the owner is not inside a call, an exported interrupt is the one of
\* the listed handle and exists (nvm_dis_rpc_enable, _disable, _nvm_ref_put).
ExportIsLive ==
    (pc[Owner] = "idle" /\ info # 0) => info = handle /\ info \in up

=============================================================================
