------------------------------ MODULE NvmQueue ------------------------------
(***************************************************************************)
(* One NVMe submission/completion queue pair shared by many GPU threads    *)
(* (bam/include/nvm_parallel_queue.h): get_cid, sq_enqueue with move_tail, *)
(* cq_poll, cq_dequeue with move_head_cq, put_cid, in the order in which   *)
(* read_data and write_data call them.  The device is external: it fetches *)
(* what the submission doorbell shows and completes out of order.          *)
(*                                                                         *)
(* No queue lock is held while a command travels: threads meet in tickets, *)
(* marks and two try-locks, and whoever gets a try-lock moves the tail or  *)
(* the head over the marks of the others.  One action is one atomic        *)
(* operation, or several of which at most one touches state that another   *)
(* thread reads or writes in between; a spin that finds nothing to do is a *)
(* stutter.  All counters are 32 bits wide in the code: modulo Word here.  *)
(***************************************************************************)
EXTENDS Integers, FiniteSets

CONSTANTS
  Threads,    \* threads (or asynchronous requests) that use the queue pair
  Ops,        \* commands one thread issues
  SQS, CQS,   \* sizes of the two rings, powers of two
  NCids,      \* command identifiers (65536 in the code)
  Word,       \* the counters wrap here (2^32 in the code)
  None        \* no command

ASSUME SizesAssumption ==
  /\ {SQS, CQS, NCids, Word} \subseteq Nat \ {0}
  /\ SQS > 1 /\ CQS > 1
  /\ Word % SQS = 0 /\ Word % (2 * CQS) = 0
ASSUME OpsAssumption == Ops \in Nat
ASSUME ThreadsAssumption == None \notin Threads

SqPos == 0 .. SQS - 1
CqPos == 0 .. CQS - 1
Cids  == 0 .. NCids - 1

VARIABLES
  cidLocked, cidTicket,              \* sq->cid, sq->cid_ticket
  inTicket, tickets,                 \* sq->in_ticket, sq->tickets
  sqe, tailMark, tailLock, tail,     \* submission ring, sq->tail_mark, tail_lock, tail
  sqHead,                            \* sq->head
  cqe, headMark, headLock, head,     \* completion ring, cq->head_mark, head_lock, head
  posLock,                           \* cq->pos_locks
  sqDb, cqDb,                        \* the doorbells
  devHead, devTail, fetched,         \* device: ring positions, commands it works on
  pc, cid, ticket,                   \* locals: command id, ticket of sq_enqueue
  hd, idx, loc,                      \* locals of cq_poll: head read, i, cur_head
  moved,                             \* locals: count of move_tail / move_head_cq
  issued, executed, returned,        \* history, per thread
  lapped                             \* history: an entry was placed behind the head

sqVars   == <<inTicket, tickets, sqe, tailMark, tailLock, tail, sqHead, sqDb>>
cqVars   == <<cqe, headMark, headLock, head, posLock, cqDb>>
cidVars  == <<cidLocked, cidTicket>>
devVars  == <<devHead, devTail, fetched>>
pollVars == <<hd, idx, loc>>
histVars == <<issued, executed, returned>>
vars == <<cidVars, sqVars, cqVars, devVars, pc, cid, ticket, pollVars, moved, histVars, lapped>>

Add(a, b) == (a + b) % Word

EnqueueLabels == {"ticket", "slot", "tail", "ring"}
DequeueLabels == {"poll", "scan", "lock", "head", "free", "store", "put"}

Goto(t, l) == pc' = [pc EXCEPT ![t] = l]

(* All queue memory is cleared when the queue pair is created.             *)
Init ==
  /\ cidLocked = [c \in Cids |-> FALSE]
  /\ cidTicket = 0
  /\ inTicket = 0
  /\ tickets = [q \in SqPos |-> 0]
  /\ sqe = [q \in SqPos |-> [cid |-> 0, by |-> None]]
  /\ tailMark = [q \in SqPos |-> FALSE]
  /\ tailLock = FALSE /\ tail = 0
  /\ sqHead = 0
  /\ cqe = [q \in CqPos |-> [cid |-> 0, phase |-> 0, sqhd |-> 0]]
  /\ headMark = [q \in CqPos |-> FALSE]
  /\ headLock = FALSE /\ head = 0
  /\ posLock = [q \in CqPos |-> FALSE]
  /\ sqDb = 0 /\ cqDb = 0
  /\ devHead = 0 /\ devTail = 0 /\ fetched = {}
  /\ pc = [t \in Threads |-> "idle"]
  /\ cid = [t \in Threads |-> 0]
  /\ ticket = [t \in Threads |-> 0]
  /\ hd = [t \in Threads |-> 0]
  /\ idx = [t \in Threads |-> 0]
  /\ loc = [t \in Threads |-> 0]
  /\ moved = [t \in Threads |-> 0]
  /\ issued = [t \in Threads |-> 0]
  /\ executed = [t \in Threads |-> 0]
  /\ returned = [t \in Threads |-> 0]
  /\ lapped = FALSE

-----------------------------------------------------------------------------
(* fetch_or(LOCKED) found the identifier unlocked.  The mutant does not    *)
(* look at the old value.                                                  *)
MutCidFree(c) == TRUE

CidFree(c) == ~cidLocked[c]

(* get_cid: one round of its loop; an identifier in use is skipped.        *)
GetCid(t) ==
  /\ pc[t] = "idle"
  /\ issued[t] < Ops
  /\ cidTicket' = (cidTicket + 1) % NCids
  /\ cidLocked' = [cidLocked EXCEPT ![cidTicket] = TRUE]
  /\ IF CidFree(cidTicket)
       THEN cid' = [cid EXCEPT ![t] = cidTicket] /\ Goto(t, "ticket")
       ELSE UNCHANGED <<cid, pc>>
  /\ UNCHANGED <<sqVars, cqVars, devVars, ticket, pollVars, moved, histVars, lapped>>

(* in_ticket after fetch_add(1).  The mutant only loads it.                *)
MutNextTicket(x) == x

NextTicket(x) == Add(x, 1)

(* sq_enqueue: take a ticket.                                              *)
TakeTicket(t) ==
  /\ pc[t] = "ticket"
  /\ ticket' = [ticket EXCEPT ![t] = inTicket]
  /\ inTicket' = NextTicket(inTicket)
  /\ issued' = [issued EXCEPT ![t] = @ + 1]
  /\ Goto(t, "slot")
  /\ UNCHANGED <<cidVars, tickets, sqe, tailMark, tailLock, tail, sqHead, sqDb, cqVars,
                 devVars, cid, pollVars, moved, executed, returned, lapped>>

(* get_id: a ring position is used by its k-th user when its ticket counter*)
(* is 2k: one step for the user before having enqueued, one for the head   *)
(* having passed.                                                          *)
GetId(x) == 2 * (x \div SQS)

(* The position is free: copy the command and set the position's mark.     *)
WriteEntry(t) ==
  LET pos == ticket[t] % SQS IN
  /\ pc[t] = "slot"
  /\ tickets[pos] = GetId(ticket[t])
  /\ sqe' = [sqe EXCEPT ![pos] = [cid |-> cid[t], by |-> t]]
  /\ tailMark' = [tailMark EXCEPT ![pos] = TRUE]
  /\ Goto(t, "tail")
  /\ UNCHANGED <<cidVars, inTicket, tickets, tailLock, tail, sqHead, sqDb, cqVars, devVars,
                 cid, ticket, pollVars, moved, histVars, lapped>>

(* move_tail goes over n marked positions and never makes the ring full.   *)
(* The mutant forgets the room that a ring must keep.                      *)
MutTailRun(n) ==
  /\ \A k \in 0 .. n - 1 : tailMark[(tail + k) % SQS]
  /\ n = SQS \/ ~tailMark[(tail + n) % SQS]

TailRun(n) ==
  LET pass(k) == (tail + k + 1) % SQS # sqHead % SQS /\ tailMark[(tail + k) % SQS]
  IN  (\A k \in 0 .. n - 1 : pass(k)) /\ ~pass(n)

(* A thread whose mark is still set takes tail_lock and clears the run of  *)
(* marks in front of the tail ...                                          *)
MoveTail(t) ==
  /\ pc[t] = "tail"
  /\ tailMark[ticket[t] % SQS]
  /\ ~tailLock
  /\ \E n \in 1 .. SQS :
       /\ TailRun(n)
       /\ moved' = [moved EXCEPT ![t] = n]
       /\ tailMark' = [q \in SqPos |-> tailMark[q] /\ (q - tail) % SQS >= n]
  /\ tailLock' = TRUE
  /\ Goto(t, "ring")
  /\ UNCHANGED <<cidVars, inTicket, tickets, sqe, tail, sqHead, sqDb, cqVars, devVars, cid,
                 ticket, pollVars, histVars, lapped>>

(* ... then rings the doorbell, stores the tail and unlocks.               *)
RingTail(t) ==
  /\ pc[t] = "ring"
  /\ tail' = Add(tail, moved[t])
  /\ sqDb' = (tail + moved[t]) % SQS
  /\ tailLock' = FALSE
  /\ moved' = [moved EXCEPT ![t] = 0]
  /\ Goto(t, "tail")
  /\ UNCHANGED <<cidVars, inTicket, tickets, sqe, tailMark, sqHead, cqVars, devVars, cid,
                 ticket, pollVars, histVars, lapped>>

(* The mark is gone, whoever cleared it: sq_enqueue returns.               *)
Enqueued(t) ==
  LET pos == ticket[t] % SQS IN
  /\ pc[t] = "tail"
  /\ ~tailMark[pos]
  /\ tickets' = [tickets EXCEPT ![pos] = Add(@, 1)]
  /\ Goto(t, "poll")
  /\ UNCHANGED <<cidVars, inTicket, sqe, tailMark, tailLock, tail, sqHead, sqDb, cqVars,
                 devVars, cid, ticket, pollVars, moved, histVars, lapped>>

-----------------------------------------------------------------------------
(* The phase bit of the entries of one round of the completion ring.       *)
SearchPhase(h) == 1 - ((h \div CQS) % 2)

(* The device (external).  It fetches in order what the doorbell shows ... *)
DevFetch ==
  /\ devHead # sqDb
  /\ fetched' = fetched \cup {sqe[devHead]}
  /\ devHead' = (devHead + 1) % SQS
  /\ UNCHANGED <<cidVars, sqVars, cqVars, devTail, pc, cid, ticket, pollVars, moved, histVars, lapped>>

(* ... and completes in any order while the completion ring has room; the  *)
(* phase bit changes with every round of the ring.                         *)
DevComplete ==
  /\ (devTail + 1) % CQS # cqDb
  /\ \E c \in fetched :
       /\ cqe' = [cqe EXCEPT ![devTail % CQS] =
                    [cid |-> c.cid, phase |-> SearchPhase(devTail), sqhd |-> devHead]]
       /\ fetched' = fetched \ {c}
       /\ executed' = [executed EXCEPT ![c.by] = @ + 1]
  /\ devTail' = (devTail + 1) % (2 * CQS)
  /\ UNCHANGED <<cidVars, sqVars, headMark, headLock, head, posLock, cqDb, devHead, pc, cid,
                 ticket, pollVars, moved, issued, returned, lapped>>

-----------------------------------------------------------------------------
(* cq_poll: load the head.                                                 *)
PollHead(t) ==
  /\ pc[t] = "poll"
  /\ hd' = [hd EXCEPT ![t] = head]
  /\ idx' = [idx EXCEPT ![t] = 0]
  /\ Goto(t, "scan")
  /\ UNCHANGED <<cidVars, sqVars, cqVars, devVars, cid, ticket, loc, moved, histVars, lapped>>

(* What cq_poll and cq_try_poll make of the entry at cur_head.  The mutant *)
(* looks at the command id before the phase.                               *)
MutScanned(t, h) ==
  LET e == cqe[h % CQS] IN
  IF e.cid = cid[t] THEN "lock"
  ELSE IF e.phase # SearchPhase(h) \/ idx[t] + 1 = CQS - 1 THEN "poll" ELSE "scan"

Scanned(t, h) ==
  LET e == cqe[h % CQS] IN
  IF e.phase # SearchPhase(h) THEN "poll"
  ELSE IF e.cid = cid[t] THEN "lock"
  ELSE IF idx[t] + 1 = CQS - 1 THEN "poll" ELSE "scan"

(* One round of the scan: the entry is the thread's own, or none is, or    *)
(* the next one is looked at.                                              *)
Scan(t) ==
  LET h == Add(hd[t], idx[t]) IN
  /\ pc[t] = "scan"
  /\ Goto(t, Scanned(t, h))
  /\ idx' = [idx EXCEPT ![t] = IF Scanned(t, h) = "scan" THEN @ + 1 ELSE 0]
  /\ loc' = [loc EXCEPT ![t] = IF Scanned(t, h) = "lock" THEN h ELSE @]
  /\ lapped' = (lapped \/ (Scanned(t, h) = "lock" /\ (head - hd[t]) % Word > idx[t]))
  /\ UNCHANGED <<cidVars, sqVars, cqVars, devVars, cid, ticket, hd, moved, histVars>>

-----------------------------------------------------------------------------
(* cq_dequeue: take the lock of the position and set its mark.             *)
LockPos(t) ==
  LET pos == loc[t] % CQS IN
  /\ pc[t] = "lock"
  /\ ~posLock[pos]
  /\ posLock' = [posLock EXCEPT ![pos] = TRUE]
  /\ headMark' = [headMark EXCEPT ![pos] = TRUE]
  /\ Goto(t, "head")
  /\ UNCHANGED <<cidVars, sqVars, cqe, headLock, head, cqDb, devVars, cid, ticket, pollVars,
                 moved, histVars, lapped>>

(* move_head_cq goes over n marked positions.                              *)
HeadRun(n) ==
  /\ \A k \in 0 .. n - 1 : headMark[(head + k) % CQS]
  /\ ~headMark[(head + n) % CQS]

(* A thread whose mark is still set takes head_lock, clears the run of     *)
(* marks, and gives the submission positions free that the last completion *)
(* of the run reports as fetched ...                                       *)
MoveHead(t) ==
  /\ pc[t] = "head"
  /\ headMark[loc[t] % CQS]
  /\ ~headLock
  /\ headLock' = TRUE
  /\ \E n \in 1 .. CQS :
       LET newSqHead == cqe[(head + n - 1) % CQS].sqhd IN
       /\ HeadRun(n)
       /\ moved' = [moved EXCEPT ![t] = n]
       /\ headMark' = [q \in CqPos |-> headMark[q] /\ (q - head) % CQS >= n]
       /\ tickets' = [q \in SqPos |->
            IF (q - sqHead) % SQS < (newSqHead - sqHead) % SQS THEN Add(tickets[q], 1) ELSE tickets[q]]
  /\ Goto(t, "free")
  /\ UNCHANGED <<cidVars, inTicket, sqe, tailMark, tailLock, tail, sqHead, sqDb, cqe, head,
                 posLock, cqDb, devVars, cid, ticket, pollVars, histVars, lapped>>

(* ... moves the submission head, rings the completion doorbell ...        *)
RingHead(t) ==
  LET newSqHead == cqe[(head + moved[t] - 1) % CQS].sqhd IN
  /\ pc[t] = "free"
  /\ sqHead' = Add(sqHead, (newSqHead - sqHead) % SQS)
  /\ cqDb' = (head + moved[t]) % CQS
  /\ Goto(t, "store")
  /\ UNCHANGED <<cidVars, inTicket, tickets, sqe, tailMark, tailLock, tail, sqDb, cqe,
                 headMark, headLock, head, posLock, devVars, cid, ticket, pollVars, moved,
                 histVars, lapped>>

(* ... stores the head and unlocks.                                        *)
StoreHead(t) ==
  /\ pc[t] = "store"
  /\ head' = Add(head, moved[t])
  /\ headLock' = FALSE
  /\ moved' = [moved EXCEPT ![t] = 0]
  /\ Goto(t, "head")
  /\ UNCHANGED <<cidVars, sqVars, cqe, headMark, posLock, cqDb, devVars, cid, ticket,
                 pollVars, histVars, lapped>>

(* The comparisons with which cq_dequeue finds out that the head has gone  *)
(* past its entry (new, old: heads, l: place of the entry).                *)
Passed(new, old, l) ==
  \/ new > old /\ l >= old /\ l < new
  \/ new < old /\ (l >= old \/ l < new)

(* The mark is gone and the head has passed: cq_dequeue returns.           *)
Dequeued(t) ==
  /\ pc[t] = "head"
  /\ ~headMark[loc[t] % CQS]
  /\ Passed(head, hd[t], loc[t])
  /\ posLock' = [posLock EXCEPT ![loc[t] % CQS] = FALSE]
  /\ Goto(t, "put")
  /\ UNCHANGED <<cidVars, sqVars, cqe, headMark, headLock, head, cqDb, devVars, cid, ticket,
                 pollVars, moved, histVars, lapped>>

(* put_cid; the caller's locals are gone.                                  *)
PutCid(t) ==
  /\ pc[t] = "put"
  /\ cidLocked' = [cidLocked EXCEPT ![cid[t]] = FALSE]
  /\ returned' = [returned EXCEPT ![t] = @ + 1]
  /\ cid' = [cid EXCEPT ![t] = 0]
  /\ ticket' = [ticket EXCEPT ![t] = 0]
  /\ hd' = [hd EXCEPT ![t] = 0]
  /\ loc' = [loc EXCEPT ![t] = 0]
  /\ Goto(t, "idle")
  /\ UNCHANGED <<cidTicket, sqVars, cqVars, devVars, idx, moved, issued, executed, lapped>>

-----------------------------------------------------------------------------
Enqueue(t) == TakeTicket(t) \/ WriteEntry(t) \/ MoveTail(t) \/ RingTail(t) \/ Enqueued(t)

Poll(t) == PollHead(t) \/ Scan(t)

Dequeue(t) == LockPos(t) \/ MoveHead(t) \/ RingHead(t) \/ StoreHead(t) \/ Dequeued(t)

Step(t) == GetCid(t) \/ Enqueue(t) \/ Poll(t) \/ Dequeue(t) \/ PutCid(t)

Device == DevFetch \/ DevComplete

Next == Device \/ \E t \in Threads : Step(t)

Spec == Init /\ [][Next]_vars

(* Resident warps keep being scheduled and the device keeps working.       *)
Fairness ==
  /\ \A t \in Threads : WF_vars(Step(t))
  /\ WF_vars(DevFetch) /\ WF_vars(DevComplete)

FairSpec == Spec /\ Fairness

-----------------------------------------------------------------------------
(* Commands of two threads that are under way have different identifiers,  *)
(* and each identifier under way is locked: get_cid and put_cid bracket    *)
(* the whole life of a command.                                            *)
CidsDistinct ==
  \A t \in Threads : pc[t] # "idle" =>
    /\ cidLocked[cid[t]]
    /\ \A u \in Threads \ {t} : pc[u] # "idle" => cid[u] # cid[t]

(* A command that the device has not fetched yet is still in its position  *)
(* of the ring: no later sq_enqueue writes over it, at a wrap or otherwise.*)
Unfetched(t) ==
  /\ pc[t] \in {"tail", "ring", "poll", "scan"}
  /\ executed[t] < issued[t]
  /\ [cid |-> cid[t], by |-> t] \notin fetched

NoOverwrite ==
  \A t \in Threads : Unfetched(t) => sqe[ticket[t] % SQS] = [cid |-> cid[t], by |-> t]

(* A completion nobody has picked up is where cq_poll looks for it: among  *)
(* the CQS - 1 entries from the head on (the head that the doorbell shows, *)
(* for the moment in which it is not stored yet), with the thread's        *)
(* identifier and the phase of its round, and no entry before it ends the  *)
(* scan.                                                                   *)
ShownHead ==
  IF \E t \in Threads : pc[t] = "store"
    THEN Add(head, moved[CHOOSE t \in Threads : pc[t] = "store"])
    ELSE head

CompletionFound ==
  \A t \in Threads :
    (pc[t] \in {"poll", "scan"} /\ executed[t] = issued[t]) =>
      \E i \in 0 .. CQS - 2 :
        /\ cqe[(ShownHead + i) % CQS].cid = cid[t]
        /\ \A j \in 0 .. i : cqe[(ShownHead + j) % CQS].phase = SearchPhase(Add(ShownHead, j))

(* A thread that cq_poll has returned to has found its own completion, not *)
(* a stale entry with the identifier it was given: its command has been    *)
(* executed.  The exception is a scan that outlived two rounds of the ring:*)
(* it finds its entry at a place behind the head, for which the wait in    *)
(* cq_dequeue does not wait.                                               *)
OwnCompletion ==
  \A t \in Threads :
    (pc[t] \in DequeueLabels \ {"poll", "scan"} /\ ~lapped) => executed[t] = issued[t]

(* The queue pair implements the channel: every command is executed once,  *)
(* after it was handed over, and cq_dequeue returns to its issuer after    *)
(* that; under the fairness above it always does.                          *)
Channel == INSTANCE IOChannel
             WITH issued <- issued, executed <- executed, returned <- returned

ImplementsChannel == Channel!FairSpec
=============================================================================
