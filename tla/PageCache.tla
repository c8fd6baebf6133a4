----------------------------- MODULE PageCache -----------------------------
(***************************************************************************)
(* The software page cache of BaM as the synchronous path uses it:         *)
(* range_d_t::acquire_page, page_cache_d_t::find_slot, read_data and       *)
(* write_data (as completed transfers), range_d_t::release_page, all in    *)
(* bam/include/page_cache.h.                                               *)
(*                                                                         *)
(* A backing page has a 32-bit state word: a reference count in the low 29 *)
(* bits and the flags DIRTY, BUSY and VALID.  The word is only changed by  *)
(* atomic read-modify-writes, so it is kept as four variables that one     *)
(* step may change together.  A cache slot has a page_take_lock and a      *)
(* page_translation.  One process is one coalesced group of GPU lanes (the *)
(* master lane acts with count = popc(eq_mask); here count = 1).           *)
(*                                                                         *)
(* Every action is one atomic operation of the code, or several of which   *)
(* at most one touches state that another process can change.              *)
(***************************************************************************)
EXTENDS Integers, FiniteSets

CONSTANTS
  Procs,      \* coalesced groups of lanes that access the array
  Pages,      \* backing pages (global addresses) of the ranges
  NSlots,     \* page_cache_d_t::n_pages
  Writers,    \* the processes that may acquire a page for writing
  Accesses,   \* page acquisitions one process makes (a kernel's loop is finite)
  None        \* no page

ASSUME NSlotsAssumption == NSlots \in Nat \ {0}
ASSUME WritersAssumption == Writers \subseteq Procs
ASSUME ProcsAssumption == IsFiniteSet(Procs)
ASSUME AccessesAssumption == Accesses \in Nat
ASSUME NoneAssumption == None \notin Pages

Slots == 0 .. NSlots - 1

VARIABLES
  cnt, valid, busy, dirty,   \* the state word of each backing page
  offset,                    \* data_page_t::offset
  lock, trans,               \* cache_page_t::page_take_lock, page_translation
  ticket,                    \* page_ticket, modulo n_pages
  data,                      \* contents of a slot: page it was read from, writes in it
  disk,                      \* writes that the backing store holds, per page
  pc, pg, slot, wr,          \* local state of a process
  left,                      \* acquisitions a process has still to make
  written,                   \* history: writes made to each page
  refilled                   \* history: pages claimed for a fill while VALID

stateVars == <<cnt, valid, busy, dirty>>
slotVars  == <<lock, trans, ticket>>
histVars  == <<written, refilled>>
vars == <<stateVars, offset, slotVars, data, disk, pc, pg, slot, wr, left, histVars>>

-----------------------------------------------------------------------------
(* The two flag bits that acquire_page switches on.                        *)
NV_NB(p) == ~valid[p] /\ ~busy[p]
V_NB(p)  == valid[p] /\ ~busy[p]

(* A process that looks at the state word of its page in acquire_page goes *)
(* to the case the word selects; NV_B and V_B make it look again.          *)
Case(p) == IF NV_NB(p) THEN "claim" ELSE IF V_NB(p) THEN "hit" ELSE "retry"

Goto(t, l) == pc' = [pc EXCEPT ![t] = l]

Init ==
  /\ cnt    = [p \in Pages |-> 0]
  /\ valid  = [p \in Pages |-> FALSE]
  /\ busy   = [p \in Pages |-> FALSE]
  /\ dirty  = [p \in Pages |-> FALSE]
  /\ offset = [p \in Pages |-> 0]
  /\ lock   = [s \in Slots |-> "FREE"]
  /\ trans  = [s \in Slots |-> None]
  /\ ticket = 0
  /\ data   = [s \in Slots |-> [page |-> None, writes |-> {}]]
  /\ disk   = [p \in Pages |-> {}]
  /\ pc     = [t \in Procs |-> "idle"]
  /\ pg     = [t \in Procs |-> None]
  /\ slot   = [t \in Procs |-> 0]
  /\ wr     = [t \in Procs |-> FALSE]
  /\ left   = [t \in Procs |-> Accesses]
  /\ written  = [p \in Pages |-> {}]
  /\ refilled = {}

-----------------------------------------------------------------------------
(* acquire_page: state.fetch_add(count) and the switch on the value read.  *)
Acquire(t, p, w) ==
  /\ pc[t] = "idle"
  /\ w => t \in Writers
  /\ left[t] > 0
  /\ left' = [left EXCEPT ![t] = @ - 1]
  /\ cnt' = [cnt EXCEPT ![p] = @ + 1]
  /\ pg' = [pg EXCEPT ![t] = p]
  /\ wr' = [wr EXCEPT ![t] = w]
  /\ Goto(t, Case(p))
  /\ UNCHANGED <<valid, busy, dirty, offset, slotVars, data, disk, slot, histVars>>

(* The reload of the state word after a failed attempt.                    *)
Retry(t) ==
  /\ pc[t] = "retry"
  /\ Goto(t, Case(pg[t]))
  /\ UNCHANGED <<stateVars, offset, slotVars, data, disk, pg, slot, wr, left, histVars>>

(* Case NV_NB: fetch_or(BUSY).  Only the old BUSY bit decides who fills.   *)
Claim(t) ==
  LET p == pg[t] IN
  /\ pc[t] = "claim"
  /\ busy' = [busy EXCEPT ![p] = TRUE]
  /\ Goto(t, IF busy[p] THEN "retry" ELSE "find")
  /\ refilled' = IF valid[p] /\ ~busy[p] THEN refilled \cup {p} ELSE refilled
  /\ UNCHANGED <<cnt, valid, dirty, offset, slotVars, data, disk, pg, slot, wr, left, written>>

(* Case V_NB: set DIRTY for a write, return the page's slot.               *)
Hit(t) ==
  LET p == pg[t] IN
  /\ pc[t] = "hit"
  /\ dirty' = [dirty EXCEPT ![p] = @ \/ wr[t]]
  /\ slot' = [slot EXCEPT ![t] = offset[p]]
  /\ Goto(t, "hold")
  /\ UNCHANGED <<cnt, valid, busy, offset, slotVars, data, disk, pg, wr, left, histVars>>

-----------------------------------------------------------------------------
(* find_slot: take a ticket.                                               *)
FindTicket(t) ==
  /\ pc[t] = "find"
  /\ slot' = [slot EXCEPT ![t] = ticket]
  /\ ticket' = (ticket + 1) % NSlots
  /\ Goto(t, "take")
  /\ UNCHANGED <<stateVars, offset, lock, trans, data, disk, pg, wr, left, histVars>>

(* The slot was never used: take it at once.                               *)
TakeFree(t) ==
  LET s == slot[t] IN
  /\ pc[t] = "take"
  /\ lock[s] = "FREE"
  /\ lock' = [lock EXCEPT ![s] = "UNLOCKED"]
  /\ trans' = [trans EXCEPT ![s] = pg[t]]
  /\ Goto(t, "read")
  /\ UNCHANGED <<stateVars, offset, ticket, data, disk, pg, slot, wr, left, histVars>>

(* Somebody works on the slot: go on with the next ticket.                 *)
TakeSkip(t) ==
  /\ pc[t] = "take"
  /\ lock[slot[t]] = "LOCKED"
  /\ Goto(t, "find")
  /\ UNCHANGED <<stateVars, offset, slotVars, data, disk, pg, slot, wr, left, histVars>>

(* The slot has a page: lock it ...                                        *)
TakeLock(t) ==
  LET s == slot[t] IN
  /\ pc[t] = "take"
  /\ lock[s] = "UNLOCKED"
  /\ lock' = [lock EXCEPT ![s] = "LOCKED"]
  /\ Goto(t, "look")
  /\ UNCHANGED <<stateVars, offset, trans, ticket, data, disk, pg, slot, wr, left, histVars>>

(* ... and load the page's state: it may go if it is neither referenced    *)
(* nor busy.                                                               *)
LookState(t) ==
  LET q == trans[slot[t]] IN
  /\ pc[t] = "look"
  /\ Goto(t, IF cnt[q] = 0 /\ ~busy[q] THEN "evict" ELSE "unlock")
  /\ UNCHANGED <<stateVars, offset, slotVars, data, disk, pg, slot, wr, left, histVars>>

(* The old value of fetch_or(BUSY) on the page to evict decides: somebody  *)
(* else has it, it was referenced in between, or it can go.  The mutants   *)
(* drop the second look at the count, and the write-back.                  *)
MutEvictNoRecheck(q) ==
  IF busy[q] THEN "unlock" ELSE IF dirty[q] THEN "wback" ELSE "clear"

MutEvictNoWriteBack(q) ==
  IF busy[q] THEN "unlock" ELSE IF cnt[q] # 0 THEN "unbusy" ELSE "clear"

EvictOutcome(q) ==
  IF busy[q] THEN "unlock"
  ELSE IF cnt[q] # 0 THEN "unbusy"
  ELSE IF dirty[q] THEN "wback" ELSE "clear"

Evict(t) ==
  LET q == trans[slot[t]] IN
  /\ pc[t] = "evict"
  /\ busy' = [busy EXCEPT ![q] = TRUE]
  /\ Goto(t, EvictOutcome(q))
  /\ UNCHANGED <<cnt, valid, dirty, offset, slotVars, data, disk, pg, slot, wr, left, histVars>>

(* The page was referenced in between: fetch_and(DISABLE_BUSY_MASK).       *)
DisableBusy(q) == [busy EXCEPT ![q] = FALSE]

Unbusy(t) ==
  LET q == trans[slot[t]] IN
  /\ pc[t] = "unbusy"
  /\ busy' = DisableBusy(q)
  /\ Goto(t, "unlock")
  /\ UNCHANGED <<cnt, valid, dirty, offset, slotVars, data, disk, pg, slot, wr, left, histVars>>

(* The page may not go: the slot is unlocked and the next one tried.  The  *)
(* mutant leaves it locked.                                                *)
MutUnlock(t) ==
  /\ pc[t] = "unlock"
  /\ Goto(t, "find")
  /\ UNCHANGED <<stateVars, offset, slotVars, data, disk, pg, slot, wr, left, histVars>>

Unlock(t) ==
  /\ pc[t] = "unlock"
  /\ lock' = [lock EXCEPT ![slot[t]] = "UNLOCKED"]
  /\ Goto(t, "find")
  /\ UNCHANGED <<stateVars, offset, trans, ticket, data, disk, pg, slot, wr, left, histVars>>

(* write_data of a dirty victim, to completion.                            *)
WriteBack(t) ==
  LET s == slot[t] IN
  /\ pc[t] = "wback"
  /\ disk' = [disk EXCEPT ![trans[s]] = data[s].writes]
  /\ Goto(t, "clear")
  /\ UNCHANGED <<stateVars, offset, slotVars, data, pg, slot, wr, left, histVars>>

(* fetch_and(CNT_MASK) clears VALID, BUSY and DIRTY of the victim; the     *)
(* slot gets its new translation and is unlocked.                          *)
Clear(t) ==
  LET s == slot[t]
      q == trans[s] IN
  /\ pc[t] = "clear"
  /\ valid' = [valid EXCEPT ![q] = FALSE]
  /\ busy'  = [busy EXCEPT ![q] = FALSE]
  /\ dirty' = [dirty EXCEPT ![q] = FALSE]
  /\ trans' = [trans EXCEPT ![s] = pg[t]]
  /\ lock'  = [lock EXCEPT ![s] = "UNLOCKED"]
  /\ Goto(t, "read")
  /\ UNCHANGED <<cnt, offset, ticket, data, disk, pg, slot, wr, left, histVars>>

-----------------------------------------------------------------------------
(* read_data into the slot, to completion.                                 *)
ReadData(t) ==
  /\ pc[t] = "read"
  /\ data' = [data EXCEPT ![slot[t]] = [page |-> pg[t], writes |-> disk[pg[t]]]]
  /\ Goto(t, "offset")
  /\ UNCHANGED <<stateVars, offset, slotVars, disk, pg, slot, wr, left, histVars>>

(* pages[index].offset = page_trans.                                       *)
SetOffset(t) ==
  /\ pc[t] = "offset"
  /\ offset' = [offset EXCEPT ![pg[t]] = slot[t]]
  /\ Goto(t, "publish")
  /\ UNCHANGED <<stateVars, slotVars, data, disk, pg, slot, wr, left, histVars>>

(* fetch_or(DIRTY) for a write, then fetch_xor(DISABLE_BUSY_ENABLE_VALID): *)
(* the exclusive or flips both bits.                                       *)
Publish(t) ==
  LET p == pg[t] IN
  /\ pc[t] = "publish"
  /\ dirty' = [dirty EXCEPT ![p] = @ \/ wr[t]]
  /\ busy'  = [busy EXCEPT ![p] = ~@]
  /\ valid' = [valid EXCEPT ![p] = ~@]
  /\ Goto(t, "hold")
  /\ UNCHANGED <<cnt, offset, slotVars, data, disk, pg, slot, wr, left, histVars>>

(* The caller writes its element through the returned slot.                *)
Write(t) ==
  LET p == pg[t] IN
  /\ pc[t] = "hold"
  /\ wr[t]
  /\ t \notin data[slot[t]].writes
  /\ data' = [data EXCEPT ![slot[t]] = [page |-> @.page, writes |-> @.writes \cup {t}]]
  /\ written' = [written EXCEPT ![p] = @ \cup {t}]
  /\ UNCHANGED <<stateVars, offset, slotVars, disk, pc, pg, slot, wr, left, refilled>>

(* release_page: state.fetch_sub(count); the caller's locals are gone.     *)
(* The mutant gives back one reference more than the page was acquired     *)
(* with.                                                                   *)
MutReleaseTwice(p) == cnt[p] - 2

Released(p) == cnt[p] - 1

Release(t) ==
  /\ pc[t] = "hold"
  /\ cnt' = [cnt EXCEPT ![pg[t]] = Released(pg[t])]
  /\ pg' = [pg EXCEPT ![t] = None]
  /\ slot' = [slot EXCEPT ![t] = 0]
  /\ wr' = [wr EXCEPT ![t] = FALSE]
  /\ Goto(t, "idle")
  /\ UNCHANGED <<valid, busy, dirty, offset, slotVars, data, disk, left, histVars>>

-----------------------------------------------------------------------------
Find(t) == FindTicket(t) \/ TakeFree(t) \/ TakeSkip(t) \/ TakeLock(t) \/ LookState(t)

Replace(t) == Evict(t) \/ Unbusy(t) \/ Unlock(t) \/ WriteBack(t) \/ Clear(t)

Fill(t) == ReadData(t) \/ SetOffset(t) \/ Publish(t)

Step(t) ==
  \/ Retry(t) \/ Claim(t) \/ Hit(t)
  \/ Find(t) \/ Replace(t) \/ Fill(t)
  \/ Release(t)

Next ==
  \E t \in Procs :
    \/ \E p \in Pages, w \in BOOLEAN : Acquire(t, p, w)
    \/ Step(t)
    \/ Write(t)

Spec == Init /\ [][Next]_vars

(* Resident warps keep being scheduled: a process inside acquire_page or   *)
(* holding a page does not stop for ever.  Nothing forces a new access.    *)
Fairness == \A t \in Procs : WF_vars(Step(t))

FairSpec == Spec /\ Fairness

-----------------------------------------------------------------------------
Labels == {"idle", "retry", "claim", "hit", "hold", "find", "take", "look", "evict",
           "unbusy", "unlock", "wback", "clear", "read", "offset", "publish"}

(* Every variable has its type; a used slot has a translation.             *)
TypeOK ==
  /\ cnt \in [Pages -> Nat]
  /\ valid \in [Pages -> BOOLEAN]
  /\ busy \in [Pages -> BOOLEAN]
  /\ dirty \in [Pages -> BOOLEAN]
  /\ offset \in [Pages -> Slots]
  /\ lock \in [Slots -> {"FREE", "UNLOCKED", "LOCKED"}]
  /\ trans \in [Slots -> Pages \cup {None}]
  /\ ticket \in Slots
  /\ data \in [Slots -> [page : Pages \cup {None}, writes : SUBSET Procs]]
  /\ disk \in [Pages -> SUBSET Procs]
  /\ pc \in [Procs -> Labels]
  /\ pg \in [Procs -> Pages \cup {None}]
  /\ \A t \in Procs : pg[t] = None <=> pc[t] = "idle"
  /\ slot \in [Procs -> Slots]
  /\ wr \in [Procs -> BOOLEAN]
  /\ left \in [Procs -> 0 .. Accesses]
  /\ written \in [Pages -> SUBSET Procs]
  /\ refilled \in SUBSET Pages

(* A process that acquire_page has returned to reads its own page: the     *)
(* slot it was given still belongs to its page and holds that page's data, *)
(* whatever find_slot does in other processes until release_page.          *)
HeldSlotIsMine ==
  \A t \in Procs : pc[t] = "hold" =>
    /\ trans[slot[t]] = pg[t]
    /\ data[slot[t]].page = pg[t]

(* The writes that a page must still have are in the cache or on the disk: *)
(* an unreferenced, settled page that was never claimed for a fill while   *)
(* VALID has all its writes in its slot (VALID) or on the disk (not VALID).*)
NoLostWrite ==
  \A p \in Pages :
    (cnt[p] = 0 /\ ~busy[p] /\ p \notin refilled) =>
      written[p] \subseteq IF valid[p] THEN data[offset[p]].writes ELSE disk[p]

(* Every acquire_page returns and every page is given back, even when      *)
(* there are fewer slots than processes, some pinned and some being        *)
(* filled by others: nobody waits for ever in find_slot or on a BUSY bit   *)
(* that is not cleared, as long as no page was claimed for a fill while    *)
(* VALID and those that hold a page give it back (release_page).           *)
AcquireReturns ==
  \A t \in Procs : pc[t] # "idle" ~> (pc[t] = "idle" \/ refilled # {})

(* "if they miss to automatically fetch the needed data from the NVMe      *)
(* device" (bam/README.md): every acquire_page returns, without exception. *)
EveryMissIsFetched == \A t \in Procs : pc[t] # "idle" ~> pc[t] = "idle"
=============================================================================
