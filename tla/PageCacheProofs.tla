-------------------------- MODULE PageCacheProofs --------------------------
(***************************************************************************)
(* HeldSlotIsMine and NoLostWrite for every number of processes, pages and *)
(* slots.                                                                  *)
(*                                                                         *)
(* The argument: the reference count is the number of processes that are   *)
(* inside an access of the page (CountIsHolders), a BUSY bit has exactly   *)
(* one owner, the process that fills the page or the one that evicts it    *)
(* (BusyOwner), and a LOCKED slot has one owner (LockOwner).  So once a    *)
(* process has seen count 0 under BUSY, the processes that come to the     *)
(* page afterwards can only spin (Decided), and no slot that a process     *)
(* uses, or that a VALID page points to, changes hands (SlotOwner,         *)
(* ValidMapping).  A page that was never claimed while VALID therefore has *)
(* one slot at most (Home), and its writes are in it, or on the disk when  *)
(* it is not DIRTY or not VALID (Stored).                                  *)
(***************************************************************************)
EXTENDS PageCache, FiniteSetTheorems, TLAPS

Filling == {"find", "take", "look", "evict", "unbusy", "unlock", "wback", "clear",
            "read", "offset", "publish"}
Locking == {"look", "evict", "unbusy", "unlock", "wback", "clear"}
Evicting == {"unbusy", "wback", "clear"}
Owning  == {"read", "offset", "publish", "hold"}
Loaded  == {"offset", "publish", "hold"}

Holders(p) == {t \in Procs : pg[t] = p}

Victim(t) == trans[slot[t]]

CountIsHolders == \A p \in Pages : cnt[p] = Cardinality(Holders(p))

BusyOwner ==
  /\ \A t \in Procs : pc[t] \in Filling => busy[pg[t]]
  /\ \A t \in Procs : pc[t] \in Evicting => busy[Victim(t)]
  /\ \A t, u \in Procs :
       (t # u /\ pc[t] \in Filling /\ pc[u] \in Filling) => pg[t] # pg[u]
  /\ \A t, u \in Procs :
       (pc[t] \in Filling /\ pc[u] \in Evicting) => pg[t] # Victim(u)
  /\ \A t, u \in Procs :
       (t # u /\ pc[t] \in Evicting /\ pc[u] \in Evicting) => Victim(t) # Victim(u)

LockOwner ==
  /\ \A t \in Procs : pc[t] \in Locking => lock[slot[t]] = "LOCKED"
  /\ \A t, u \in Procs :
       (t # u /\ pc[t] \in Locking /\ pc[u] \in Locking) => slot[t] # slot[u]
  /\ \A s \in Slots : lock[s] # "FREE" => trans[s] \in Pages

Decided ==
  \A t, u \in Procs :
    (pc[t] \in {"wback", "clear"} /\ pg[u] = Victim(t)) => pc[u] = "retry"

SlotOwner ==
  /\ \A t \in Procs : pc[t] \in Owning =>
       lock[slot[t]] # "FREE" /\ trans[slot[t]] = pg[t]
  /\ \A t \in Procs : pc[t] \in Loaded => data[slot[t]].page = pg[t]
  /\ \A t \in Procs : pc[t] = "publish" => offset[pg[t]] = slot[t]

Mapped(p) ==
  /\ lock[offset[p]] # "FREE"
  /\ trans[offset[p]] = p
  /\ data[offset[p]].page = p

ValidMapping ==
  /\ \A p \in Pages : valid[p] => Mapped(p)
  /\ \A t \in Procs : pc[t] = "hit" => Mapped(pg[t])

IndInv ==
  /\ TypeOK
  /\ CountIsHolders
  /\ BusyOwner
  /\ LockOwner
  /\ Decided
  /\ SlotOwner
  /\ ValidMapping

(* What was written to a page that was never claimed for a fill while      *)
(* VALID: it is in the page's slot, and on the disk unless it is DIRTY.    *)
(* A page that is being filled is not VALID ...                            *)
Fresh ==
  \A t \in Procs : (pc[t] \in Filling /\ pg[t] \notin refilled) => ~valid[pg[t]]

(* ... one that is used is, and is DIRTY if it may be written ...          *)
HeldValid ==
  /\ \A t \in Procs : (pc[t] \in {"hit", "hold"} /\ pg[t] \notin refilled) => valid[pg[t]]
  /\ \A t \in Procs : (pc[t] = "hold" /\ wr[t]) => dirty[pg[t]]

(* ... and the slot that has its translation is its only one.              *)
Settling == {"read", "offset", "publish"}

Home ==
  \A s \in Slots : (lock[s] # "FREE" /\ trans[s] \notin refilled) =>
    \/ valid[trans[s]] /\ offset[trans[s]] = s
    \/ \E t \in Procs : pc[t] \in Settling /\ slot[t] = s /\ pg[t] = trans[s]

Stored ==
  /\ \A p \in Pages \ refilled :
       /\ valid[p] => written[p] \subseteq data[offset[p]].writes
       /\ (~valid[p] \/ ~dirty[p]) => written[p] \subseteq disk[p]
  /\ \A t \in Procs : (pc[t] \in {"offset", "publish"} /\ pg[t] \notin refilled) =>
       written[pg[t]] \subseteq data[slot[t]].writes
  /\ \A t \in Procs : (pc[t] = "clear" /\ Victim(t) \notin refilled) =>
       written[Victim(t)] \subseteq disk[Victim(t)]

StoreInv == IndInv /\ Fresh /\ HeldValid /\ Home /\ Stored

-----------------------------------------------------------------------------
(* The count depends on nothing but who holds the page.                    *)
LEMMA CountStable ==
  ASSUME CountIsHolders, UNCHANGED <<cnt, pg>> PROVE CountIsHolders'
BY DEF CountIsHolders, Holders

(* A page with count 0 has no process in an access of it.                  *)
LEMMA NobodyHolds ==
  ASSUME TypeOK, CountIsHolders, NEW p \in Pages, cnt[p] = 0
  PROVE  \A u \in Procs : pg[u] # p
<1>1. IsFiniteSet(Holders(p))
  BY ProcsAssumption, FS_Subset DEF Holders
<1>2. Holders(p) = {}
  BY <1>1, FS_EmptySet DEF CountIsHolders
<1> QED BY <1>2 DEF Holders

(* A second look at the state word (acquire_page) changes no ownership.    *)
LEMMA RetryInv == ASSUME IndInv, NEW t \in Procs, Retry(t) PROVE IndInv'
<1> USE DEF Retry, Case, NV_NB, V_NB, Goto, IndInv, TypeOK, Labels, Slots, stateVars, slotVars, histVars
<1>1. TypeOK'
  BY NSlotsAssumption, NoneAssumption
<1>2. CountIsHolders'
  BY CountStable
<1>3. BusyOwner'
  BY NoneAssumption DEF BusyOwner, Victim, Filling, Evicting
<1>4. LockOwner'
  BY NoneAssumption DEF LockOwner, Locking
<1>5. Decided'
  BY NoneAssumption DEF Decided, BusyOwner, LockOwner, Victim, Filling, Evicting, Locking
<1>6. SlotOwner'
  BY NoneAssumption DEF SlotOwner, Owning, Loaded
<1>7. ValidMapping'
  BY NoneAssumption DEF ValidMapping, Mapped
<1> QED BY <1>1, <1>2, <1>3, <1>4, <1>5, <1>6, <1>7

(* fetch_or(BUSY) of acquire_page: who sets BUSY is its only owner.        *)
LEMMA ClaimInv == ASSUME IndInv, NEW t \in Procs, Claim(t) PROVE IndInv'
<1> USE DEF Claim, Goto, IndInv, TypeOK, Labels, Slots, stateVars, slotVars, histVars
<1>1. TypeOK'
  BY NSlotsAssumption, NoneAssumption
<1>2. CountIsHolders'
  BY CountStable
<1>3. BusyOwner'
  BY NoneAssumption DEF BusyOwner, Victim, Filling, Evicting
<1>4. LockOwner'
  BY NoneAssumption DEF LockOwner, Locking
<1>5. Decided'
  BY NoneAssumption DEF Decided, Victim
<1>6. SlotOwner'
  BY NoneAssumption DEF SlotOwner, Owning, Loaded
<1>7. ValidMapping'
  BY NoneAssumption DEF ValidMapping, Mapped
<1> QED BY <1>1, <1>2, <1>3, <1>4, <1>5, <1>6, <1>7

(* A hit takes the slot of a VALID page, which is mapped.                  *)
LEMMA HitInv == ASSUME IndInv, NEW t \in Procs, Hit(t) PROVE IndInv'
<1> USE DEF Hit, Goto, IndInv, TypeOK, Labels, Slots, stateVars, slotVars, histVars
<1>1. TypeOK'
  BY NSlotsAssumption, NoneAssumption
<1>2. CountIsHolders'
  BY CountStable
<1>3. BusyOwner'
  BY NoneAssumption DEF BusyOwner, Victim, Filling, Evicting
<1>4. LockOwner'
  BY NoneAssumption DEF LockOwner, Locking
<1>5. Decided'
  BY NoneAssumption DEF Decided, Victim
<1>6. SlotOwner'
  BY NoneAssumption DEF SlotOwner, LockOwner, Decided, BusyOwner, ValidMapping, Mapped, Victim, Filling, Evicting, Locking, Owning, Loaded
<1>7. ValidMapping'
  BY NoneAssumption DEF ValidMapping, Mapped
<1> QED BY <1>1, <1>2, <1>3, <1>4, <1>5, <1>6, <1>7

(* find_slot takes a ticket: no slot is owned yet.                         *)
LEMMA FindTicketInv == ASSUME IndInv, NEW t \in Procs, FindTicket(t) PROVE IndInv'
<1> USE DEF FindTicket, Goto, IndInv, TypeOK, Labels, Slots, stateVars, slotVars, histVars
<1>1. TypeOK'
  BY NSlotsAssumption, NoneAssumption
<1>2. CountIsHolders'
  BY CountStable
<1>3. BusyOwner'
  BY NoneAssumption DEF BusyOwner, Victim, Filling, Evicting
<1>4. LockOwner'
  BY NoneAssumption DEF LockOwner, Locking
<1>5. Decided'
  BY NoneAssumption DEF Decided, Victim
<1>6. SlotOwner'
  BY NoneAssumption DEF SlotOwner, Owning, Loaded
<1>7. ValidMapping'
  BY NoneAssumption DEF ValidMapping, Mapped
<1> QED BY <1>1, <1>2, <1>3, <1>4, <1>5, <1>6, <1>7

(* A FREE slot has no owner and no page to lose.                           *)
LEMMA TakeFreeInv == ASSUME IndInv, NEW t \in Procs, TakeFree(t) PROVE IndInv'
<1> USE DEF TakeFree, Goto, IndInv, TypeOK, Labels, Slots, stateVars, slotVars, histVars
<1>1. TypeOK'
  BY NSlotsAssumption, NoneAssumption
<1>2. CountIsHolders'
  BY CountStable
<1>3. BusyOwner'
  BY NoneAssumption DEF BusyOwner, LockOwner, Victim, Filling, Evicting, Locking
<1>4. LockOwner'
  BY NoneAssumption DEF LockOwner, Locking
<1>5. Decided'
  BY NoneAssumption DEF Decided, BusyOwner, LockOwner, Victim, Filling, Evicting, Locking
<1>6. SlotOwner'
  BY NoneAssumption DEF SlotOwner, Owning, Loaded
<1>7. ValidMapping'
  BY NoneAssumption DEF ValidMapping, Mapped
<1> QED BY <1>1, <1>2, <1>3, <1>4, <1>5, <1>6, <1>7

(* A LOCKED slot is left alone.                                            *)
LEMMA TakeSkipInv == ASSUME IndInv, NEW t \in Procs, TakeSkip(t) PROVE IndInv'
<1> USE DEF TakeSkip, Goto, IndInv, TypeOK, Labels, Slots, stateVars, slotVars, histVars
<1>1. TypeOK'
  BY NSlotsAssumption, NoneAssumption
<1>2. CountIsHolders'
  BY CountStable
<1>3. BusyOwner'
  BY NoneAssumption DEF BusyOwner, Victim, Filling, Evicting
<1>4. LockOwner'
  BY NoneAssumption DEF LockOwner, Locking
<1>5. Decided'
  BY NoneAssumption DEF Decided, Victim
<1>6. SlotOwner'
  BY NoneAssumption DEF SlotOwner, Owning, Loaded
<1>7. ValidMapping'
  BY NoneAssumption DEF ValidMapping, Mapped
<1> QED BY <1>1, <1>2, <1>3, <1>4, <1>5, <1>6, <1>7

(* page_take_lock gets one owner.                                          *)
LEMMA TakeLockInv == ASSUME IndInv, NEW t \in Procs, TakeLock(t) PROVE IndInv'
<1> USE DEF TakeLock, Goto, IndInv, TypeOK, Labels, Slots, stateVars, slotVars, histVars
<1>1. TypeOK'
  BY NSlotsAssumption, NoneAssumption
<1>2. CountIsHolders'
  BY CountStable
<1>3. BusyOwner'
  BY NoneAssumption DEF BusyOwner, Victim, Filling, Evicting
<1>4. LockOwner'
  BY NoneAssumption DEF LockOwner, Locking
<1>5. Decided'
  BY NoneAssumption DEF Decided, Victim
<1>6. SlotOwner'
  BY NoneAssumption DEF SlotOwner, Owning, Loaded
<1>7. ValidMapping'
  BY NoneAssumption DEF ValidMapping, Mapped
<1> QED BY <1>1, <1>2, <1>3, <1>4, <1>5, <1>6, <1>7

(* The load of the victim's state decides nothing yet.                     *)
LEMMA LookStateInv == ASSUME IndInv, NEW t \in Procs, LookState(t) PROVE IndInv'
<1> USE DEF LookState, Goto, IndInv, TypeOK, Labels, Slots, stateVars, slotVars, histVars
<1>1. TypeOK'
  BY NSlotsAssumption, NoneAssumption
<1>2. CountIsHolders'
  BY CountStable
<1>3. BusyOwner'
  BY NoneAssumption DEF BusyOwner, Victim, Filling, Evicting
<1>4. LockOwner'
  BY NoneAssumption DEF LockOwner, Locking
<1>5. Decided'
  BY NoneAssumption DEF Decided, Victim
<1>6. SlotOwner'
  BY NoneAssumption DEF SlotOwner, Owning, Loaded
<1>7. ValidMapping'
  BY NoneAssumption DEF ValidMapping, Mapped
<1> QED BY <1>1, <1>2, <1>3, <1>4, <1>5, <1>6, <1>7

(* fetch_or(BUSY) on the victim: with count 0 nobody holds it.             *)
LEMMA EvictInv == ASSUME IndInv, NEW t \in Procs, Evict(t) PROVE IndInv'
<1> USE DEF Evict, Goto, IndInv, TypeOK, Labels, Slots, stateVars, slotVars, histVars
<1> DEFINE q == trans[slot[t]]
<1>a. q \in Pages /\ pc'[t] = EvictOutcome(q)
  BY DEF LockOwner, Locking
<1>b. pc'[t] \in {"unlock", "unbusy", "wback", "clear"}
  BY <1>a DEF EvictOutcome
<1>c. (pc'[t] \in Evicting) => ~busy[q]
  BY <1>a DEF EvictOutcome, Evicting
<1>d. (pc'[t] \in {"wback", "clear"}) => cnt[q] = 0
  BY <1>a DEF EvictOutcome
<1>1. TypeOK'
  BY <1>a, <1>b, NoneAssumption
<1>2. CountIsHolders'
  BY CountStable
<1>3. BusyOwner'
  BY <1>a, <1>b, <1>c DEF BusyOwner, Victim, Filling, Evicting
<1>4. LockOwner'
  BY <1>b DEF LockOwner, Locking
<1>5. Decided'
  <2>1. (pc'[t] \in {"wback", "clear"}) => \A u \in Procs : pg[u] # q
    BY <1>a, <1>d, NobodyHolds
  <2> QED
    BY <1>a, <1>b, <2>1 DEF Decided, Victim
<1>6. SlotOwner'
  BY <1>b DEF SlotOwner, Owning, Loaded
<1>7. ValidMapping'
  BY <1>b DEF ValidMapping, Mapped
<1> QED BY <1>1, <1>2, <1>3, <1>4, <1>5, <1>6, <1>7

(* The evictor that gave up clears only its own BUSY.                      *)
LEMMA UnbusyInv == ASSUME IndInv, NEW t \in Procs, Unbusy(t) PROVE IndInv'
<1> USE DEF Unbusy, DisableBusy, Goto, IndInv, TypeOK, Labels, Slots, stateVars, slotVars, histVars
<1>1. TypeOK'
  BY NSlotsAssumption, NoneAssumption
<1>2. CountIsHolders'
  BY CountStable
<1>3. BusyOwner'
  BY NoneAssumption DEF BusyOwner, Victim, Filling, Evicting
<1>4. LockOwner'
  BY NoneAssumption DEF LockOwner, Locking
<1>5. Decided'
  BY NoneAssumption DEF Decided, Victim
<1>6. SlotOwner'
  BY NoneAssumption DEF SlotOwner, Owning, Loaded
<1>7. ValidMapping'
  BY NoneAssumption DEF ValidMapping, Mapped
<1> QED BY <1>1, <1>2, <1>3, <1>4, <1>5, <1>6, <1>7

(* ... and unlocks only its own slot.                                      *)
LEMMA UnlockInv == ASSUME IndInv, NEW t \in Procs, Unlock(t) PROVE IndInv'
<1> USE DEF Unlock, Goto, IndInv, TypeOK, Labels, Slots, stateVars, slotVars, histVars
<1>1. TypeOK'
  BY NSlotsAssumption, NoneAssumption
<1>2. CountIsHolders'
  BY CountStable
<1>3. BusyOwner'
  BY NoneAssumption DEF BusyOwner, Victim, Filling, Evicting
<1>4. LockOwner'
  BY NoneAssumption DEF LockOwner, Locking
<1>5. Decided'
  BY NoneAssumption DEF Decided, Victim
<1>6. SlotOwner'
  BY NoneAssumption DEF SlotOwner, Owning, Loaded
<1>7. ValidMapping'
  BY NoneAssumption DEF ValidMapping, Mapped
<1> QED BY <1>1, <1>2, <1>3, <1>4, <1>5, <1>6, <1>7

(* write_data of the victim changes the disk only.                         *)
LEMMA WriteBackInv == ASSUME IndInv, NEW t \in Procs, WriteBack(t) PROVE IndInv'
<1> USE DEF WriteBack, Goto, IndInv, TypeOK, Labels, Slots, stateVars, slotVars, histVars
<1>1. TypeOK'
  BY NSlotsAssumption, NoneAssumption
<1>2. CountIsHolders'
  BY CountStable
<1>3. BusyOwner'
  BY NoneAssumption DEF BusyOwner, Victim, Filling, Evicting
<1>4. LockOwner'
  BY NoneAssumption DEF LockOwner, Locking
<1>5. Decided'
  BY NoneAssumption DEF Decided, Victim
<1>6. SlotOwner'
  BY NoneAssumption DEF SlotOwner, Owning, Loaded
<1>7. ValidMapping'
  BY NoneAssumption DEF ValidMapping, Mapped
<1> QED BY <1>1, <1>2, <1>3, <1>4, <1>5, <1>6, <1>7

(* The slot changes hands: its old page is held by nobody but spinners.    *)
LEMMA ClearInv == ASSUME IndInv, NEW t \in Procs, Clear(t) PROVE IndInv'
<1> USE DEF Clear, Goto, IndInv, TypeOK, Labels, Slots, stateVars, slotVars, histVars
<1>1. TypeOK'
  BY NSlotsAssumption, NoneAssumption
<1>2. CountIsHolders'
  BY CountStable
<1>3. BusyOwner'
  <2>1. pc'[t] = "read" /\ pc[t] = "clear" /\ UNCHANGED <<pg, slot>>
    OBVIOUS
  <2>2. \A u \in Procs : u # t => pc'[u] = pc[u]
    OBVIOUS
  <2>3. \A r \in Pages \cup {None} : r # Victim(t) /\ busy[r] => busy'[r]
    BY NoneAssumption DEF Victim
  <2>4. \A u \in Procs : u # t /\ pc[u] \in Evicting => Victim(u) # Victim(t)
    BY DEF BusyOwner, Evicting
  <2>5. \A u \in Procs : u # t /\ pc[u] \in Evicting => Victim(u)' = Victim(u)
    BY <2>4 DEF Victim
  <2>6. \A u \in Procs : Victim(u) \in Pages \cup {None} /\ pg[u] \in Pages \cup {None}
    BY DEF Victim
  <2>7. BusyOwner
    OBVIOUS
  <2> QED BY ONLY <2>1, <2>2, <2>3, <2>4, <2>5, <2>6, <2>7 DEF BusyOwner, Filling, Evicting
<1>4. LockOwner'
  BY NoneAssumption DEF LockOwner, Locking
<1>5. Decided'
  BY NoneAssumption DEF Decided, BusyOwner, LockOwner, Victim, Filling, Evicting, Locking
<1>6. SlotOwner'
  BY NoneAssumption DEF SlotOwner, LockOwner, Decided, BusyOwner, ValidMapping, Mapped, Victim, Filling, Evicting, Locking, Owning, Loaded
<1>7. ValidMapping'
  BY NoneAssumption DEF ValidMapping, Mapped, SlotOwner, LockOwner, Decided, BusyOwner, Victim, Filling, Evicting, Locking, Owning, Loaded
<1> QED BY <1>1, <1>2, <1>3, <1>4, <1>5, <1>6, <1>7

(* read_data fills a slot that no other page is mapped to.                 *)
LEMMA ReadDataInv == ASSUME IndInv, NEW t \in Procs, ReadData(t) PROVE IndInv'
<1> USE DEF ReadData, Goto, IndInv, TypeOK, Labels, Slots, stateVars, slotVars, histVars
<1>1. TypeOK'
  BY NSlotsAssumption, NoneAssumption
<1>2. CountIsHolders'
  BY CountStable
<1>3. BusyOwner'
  BY NoneAssumption DEF BusyOwner, Victim, Filling, Evicting
<1>4. LockOwner'
  BY NoneAssumption DEF LockOwner, Locking
<1>5. Decided'
  BY NoneAssumption DEF Decided, Victim
<1>6. SlotOwner'
  BY NoneAssumption DEF SlotOwner, Owning, Loaded
<1>7. ValidMapping'
  BY NoneAssumption DEF ValidMapping, Mapped, SlotOwner, LockOwner, Decided, BusyOwner, Victim, Filling, Evicting, Locking, Owning, Loaded
<1> QED BY <1>1, <1>2, <1>3, <1>4, <1>5, <1>6, <1>7

(* The filler points its page, not VALID or being refilled, to its slot.   *)
LEMMA SetOffsetInv == ASSUME IndInv, NEW t \in Procs, SetOffset(t) PROVE IndInv'
<1> USE DEF SetOffset, Goto, IndInv, TypeOK, Labels, Slots, stateVars, slotVars, histVars
<1>1. TypeOK'
  BY NSlotsAssumption, NoneAssumption
<1>2. CountIsHolders'
  BY CountStable
<1>3. BusyOwner'
  BY NoneAssumption DEF BusyOwner, Victim, Filling, Evicting
<1>4. LockOwner'
  BY NoneAssumption DEF LockOwner, Locking
<1>5. Decided'
  BY NoneAssumption DEF Decided, Victim
<1>6. SlotOwner'
  BY NoneAssumption DEF SlotOwner, LockOwner, Decided, BusyOwner, ValidMapping, Mapped, Victim, Filling, Evicting, Locking, Owning, Loaded
<1>7. ValidMapping'
  BY NoneAssumption DEF ValidMapping, Mapped, SlotOwner, LockOwner, Decided, BusyOwner, Victim, Filling, Evicting, Locking, Owning, Loaded
<1> QED BY <1>1, <1>2, <1>3, <1>4, <1>5, <1>6, <1>7

(* The XOR publishes a slot that is loaded and pointed to.                 *)
LEMMA PublishInv == ASSUME IndInv, NEW t \in Procs, Publish(t) PROVE IndInv'
<1> USE DEF Publish, Goto, IndInv, TypeOK, Labels, Slots, stateVars, slotVars, histVars
<1>1. TypeOK'
  BY NSlotsAssumption, NoneAssumption
<1>2. CountIsHolders'
  BY CountStable
<1>3. BusyOwner'
  BY NoneAssumption DEF BusyOwner, Victim, Filling, Evicting
<1>4. LockOwner'
  BY NoneAssumption DEF LockOwner, Locking
<1>5. Decided'
  BY NoneAssumption DEF Decided, Victim
<1>6. SlotOwner'
  BY NoneAssumption DEF SlotOwner, Owning, Loaded
<1>7. ValidMapping'
  BY NoneAssumption DEF ValidMapping, Mapped, SlotOwner, LockOwner, Decided, BusyOwner, Victim, Filling, Evicting, Locking, Owning, Loaded
<1> QED BY <1>1, <1>2, <1>3, <1>4, <1>5, <1>6, <1>7

(* A write of the caller leaves the slot with its page.                    *)
LEMMA WriteInv == ASSUME IndInv, NEW t \in Procs, Write(t) PROVE IndInv'
<1> USE DEF Write, Goto, IndInv, TypeOK, Labels, Slots, stateVars, slotVars, histVars
<1> DEFINE s == slot[t]
<1>a. s \in Slots /\ pg[t] \in Pages
  BY NoneAssumption
<1>b. data' \in [Slots -> [page : Pages \cup {None}, writes : SUBSET Procs]]
  BY <1>a
<1>1. TypeOK'
  BY <1>a, <1>b
<1>2. CountIsHolders'
  BY CountStable
<1>3. BusyOwner'
  BY NoneAssumption DEF BusyOwner, Victim, Filling, Evicting
<1>4. LockOwner'
  BY NoneAssumption DEF LockOwner, Locking
<1>5. Decided'
  BY NoneAssumption DEF Decided, Victim
<1>6. SlotOwner'
  BY NoneAssumption DEF SlotOwner, Owning, Loaded
<1>7. ValidMapping'
  BY NoneAssumption DEF ValidMapping, Mapped
<1> QED BY <1>1, <1>2, <1>3, <1>4, <1>5, <1>6, <1>7

(* A new reference meets a BUSY page only as a spinner.                    *)
LEMMA AcquireInv ==
  ASSUME IndInv, NEW t \in Procs, NEW p \in Pages, NEW w \in BOOLEAN, Acquire(t, p, w)
  PROVE  IndInv'
<1> USE DEF Acquire, Goto, IndInv, TypeOK, Labels, Slots, stateVars, slotVars, histVars
<1>a. pc'[t] \in {"claim", "hit", "retry"} /\ (pc'[t] # "retry" => ~busy[p])
      /\ (pc'[t] = "hit" => valid[p])
  BY DEF Case, NV_NB, V_NB
<1>b. pg[t] = None /\ pg'[t] = p /\ p # None
  BY NoneAssumption
<1>1. TypeOK'
  <2>1. left' \in [Procs -> 0 .. Accesses]
    BY AccessesAssumption
  <2> QED BY <1>a, <1>b, <2>1
<1>2. CountIsHolders'
  <2> SUFFICES ASSUME NEW r \in Pages PROVE cnt'[r] = Cardinality(Holders(r)')
    BY DEF CountIsHolders
  <2>1. IsFiniteSet(Holders(r))
    BY ProcsAssumption, FS_Subset DEF Holders
  <2>2. CASE r = p
    <3>1. t \notin Holders(p) /\ Holders(p)' = Holders(p) \cup {t}
      BY <1>b DEF Holders
    <3>2. Cardinality(Holders(p) \cup {t}) = Cardinality(Holders(p)) + 1
      BY ONLY <2>1, <2>2, <3>1, FS_AddElement
    <3> QED BY <2>2, <3>1, <3>2 DEF CountIsHolders
  <2>3. CASE r # p
    <3>1. Holders(r)' = Holders(r)
      BY <1>b, <2>3, NoneAssumption DEF Holders
    <3> QED BY <2>3, <3>1 DEF CountIsHolders
  <2> QED BY <2>2, <2>3
<1>3. BusyOwner'
  <2>1. BusyOwner /\ UNCHANGED <<busy, trans, slot>>
    OBVIOUS
  <2>2. \A u \in Procs : u # t => pc'[u] = pc[u] /\ pg'[u] = pg[u]
    OBVIOUS
  <2> QED BY ONLY <1>a, <2>1, <2>2 DEF BusyOwner, Victim, Filling, Evicting
<1>4. LockOwner'
  BY <1>a DEF LockOwner, Locking
<1>5. Decided'
  BY <1>a DEF Decided, BusyOwner, Victim, Evicting
<1>6. SlotOwner'
  BY <1>a DEF SlotOwner, Owning, Loaded
<1>7. ValidMapping'
  BY <1>a DEF ValidMapping, Mapped
<1> QED BY <1>1, <1>2, <1>3, <1>4, <1>5, <1>6, <1>7

(* release_page gives back one reference of one holder.                    *)
LEMMA ReleaseInv == ASSUME IndInv, NEW t \in Procs, Release(t) PROVE IndInv'
<1> USE DEF Release, Released, Goto, IndInv, TypeOK, Labels, Slots, stateVars, slotVars, histVars
<1>a. PICK p \in Pages : p = pg[t] /\ pg'[t] = None
  BY NoneAssumption
<1>b. IsFiniteSet(Holders(p))
  BY ProcsAssumption, FS_Subset DEF Holders
<1>c. t \in Holders(p) /\ Holders(p)' = Holders(p) \ {t}
  BY <1>a, NoneAssumption DEF Holders
<1>d. /\ Cardinality(Holders(p) \ {t}) = Cardinality(Holders(p)) - 1
      /\ Cardinality(Holders(p) \ {t}) \in Nat
  BY ONLY <1>b, <1>c, FS_RemoveElement, FS_CardinalityType
<1>e. cnt'[p] = cnt[p] - 1 /\ cnt'[p] \in Nat /\ cnt'[p] = Cardinality(Holders(p)')
  BY <1>a, <1>c, <1>d DEF CountIsHolders
<1>1. TypeOK'
  BY <1>a, <1>e, NSlotsAssumption
<1>2. CountIsHolders'
  <2> SUFFICES ASSUME NEW r \in Pages PROVE cnt'[r] = Cardinality(Holders(r)')
    BY DEF CountIsHolders
  <2>1. CASE r = p
    BY <1>e, <2>1
  <2>2. CASE r # p
    <3>1. Holders(r)' = Holders(r)
      BY <1>a, <2>2, NoneAssumption DEF Holders
    <3> QED BY <1>a, <2>2, <3>1 DEF CountIsHolders
  <2> QED BY <2>1, <2>2
<1>3. BusyOwner'
  <2>1. BusyOwner /\ pc'[t] = "idle" /\ UNCHANGED <<busy, trans>>
    OBVIOUS
  <2>2. \A u \in Procs : u # t => pc'[u] = pc[u] /\ pg'[u] = pg[u] /\ slot'[u] = slot[u]
    OBVIOUS
  <2> QED BY ONLY <2>1, <2>2 DEF BusyOwner, Victim, Filling, Evicting
<1>4. LockOwner'
  BY DEF LockOwner, Locking
<1>5. Decided'
  BY <1>a, NoneAssumption DEF Decided, LockOwner, Locking, Victim
<1>6. SlotOwner'
  BY DEF SlotOwner, Owning, Loaded
<1>7. ValidMapping'
  BY DEF ValidMapping, Mapped
<1> QED BY <1>1, <1>2, <1>3, <1>4, <1>5, <1>6, <1>7

-----------------------------------------------------------------------------
(* The empty cache satisfies the invariant.                                *)
LEMMA InitInv == Init => IndInv
<1> SUFFICES ASSUME Init PROVE IndInv
  OBVIOUS
<1>1. TypeOK
  BY NSlotsAssumption, AccessesAssumption DEF Init, TypeOK, Labels, Slots
<1>2. CountIsHolders
  <2>1. \A p \in Pages : Holders(p) = {}
    BY NoneAssumption DEF Init, Holders
  <2> QED BY <2>1, FS_EmptySet DEF Init, CountIsHolders
<1>3. BusyOwner /\ LockOwner /\ Decided /\ SlotOwner /\ ValidMapping
  BY DEF Init, BusyOwner, LockOwner, Decided, SlotOwner, ValidMapping, Slots,
         Filling, Locking, Evicting, Owning, Loaded
<1> QED BY <1>1, <1>2, <1>3 DEF IndInv

(* Every step preserves the invariant.                                     *)
LEMMA NextInv == IndInv /\ [Next]_vars => IndInv'
<1> SUFFICES ASSUME IndInv, [Next]_vars PROVE IndInv'
  OBVIOUS
<1>1. CASE UNCHANGED vars
  <2>1. TypeOK' /\ BusyOwner' /\ LockOwner' /\ Decided' /\ SlotOwner' /\ ValidMapping'
    BY <1>1 DEF IndInv, vars, stateVars, slotVars, histVars, TypeOK, BusyOwner, LockOwner,
                Decided, SlotOwner, ValidMapping, Mapped, Victim
  <2>2. CountIsHolders'
    BY <1>1, CountStable DEF IndInv, vars, stateVars
  <2> QED BY <2>1, <2>2 DEF IndInv
<1>2. ASSUME NEW t \in Procs, NEW p \in Pages, NEW w \in BOOLEAN, Acquire(t, p, w)
      PROVE  IndInv'
  BY <1>2, AcquireInv
<1>3. ASSUME NEW t \in Procs, Step(t)
      PROVE  IndInv'
  <2>1. CASE Retry(t) \/ Claim(t) \/ Hit(t) \/ Release(t)
    BY <2>1, RetryInv, ClaimInv, HitInv, ReleaseInv
  <2>2. CASE Find(t)
    BY <2>2, FindTicketInv, TakeFreeInv, TakeSkipInv, TakeLockInv, LookStateInv DEF Find
  <2>3. CASE Replace(t)
    BY <2>3, EvictInv, UnbusyInv, UnlockInv, WriteBackInv, ClearInv DEF Replace
  <2>4. CASE Fill(t)
    BY <2>4, ReadDataInv, SetOffsetInv, PublishInv DEF Fill
  <2> QED BY <1>3, <2>1, <2>2, <2>3, <2>4 DEF Step
<1>4. ASSUME NEW t \in Procs, Write(t)
      PROVE  IndInv'
  BY <1>4, WriteInv
<1> QED BY <1>1, <1>2, <1>3, <1>4 DEF Next

(* The reference count never goes below zero and every variable keeps its  *)
(* type in acquire_page, find_slot and release_page.                       *)
THEOREM TypeCorrect == Spec => []TypeOK
<1>1. IndInv => TypeOK
  BY DEF IndInv
<1> QED BY <1>1, InitInv, NextInv, PTL DEF Spec

(* find_slot never hands the slot that acquire_page returned to a process  *)
(* to another page before that process calls release_page.                 *)
THEOREM HeldSlotCorrect == Spec => []HeldSlotIsMine
<1>1. IndInv => HeldSlotIsMine
  BY DEF IndInv, SlotOwner, HeldSlotIsMine, Owning, Loaded
<1> QED BY <1>1, InitInv, NextInv, PTL DEF Spec
-----------------------------------------------------------------------------
(* The process t goes on to the label l; no slot and no page changes hands *)
(* and nothing is written.                                                 *)
Calm(t, l) ==
  /\ UNCHANGED <<valid, offset, trans, data, disk, written, refilled>>
  /\ \A s \in Slots : lock'[s] = "FREE" <=> lock[s] = "FREE"
  /\ \A p \in Pages : dirty[p] => dirty'[p]
  /\ pc' = [pc EXCEPT ![t] = l]
  /\ \A u \in Procs : u # t => pg'[u] = pg[u] /\ slot'[u] = slot[u] /\ wr'[u] = wr[u]
  /\ pc[t] \notin Settling /\ l \notin Settling

LEMMA CalmStore ==
  ASSUME StoreInv, IndInv', NEW t \in Procs, NEW l, Calm(t, l),
         l \in Filling => pc[t] \in Filling /\ pg'[t] = pg[t],
         l \in {"hit", "hold"} /\ pg'[t] \notin refilled => valid[pg'[t]],
         l = "hold" /\ wr'[t] => dirty'[pg'[t]],
         l = "clear" /\ trans[slot'[t]] \notin refilled =>
           written[trans[slot'[t]]] \subseteq disk[trans[slot'[t]]]
  PROVE  StoreInv'
<1>1. \A u \in Procs : /\ pc'[u] = (IF u = t THEN l ELSE pc[u])
                       /\ pc[u] # "idle" => pg[u] \in Pages
  BY DEF Calm, StoreInv, IndInv, TypeOK
<1>2. Fresh'
  BY <1>1 DEF Calm, StoreInv, Fresh
<1>3. HeldValid'
  <2>1. \A u \in Procs : (pc'[u] \in {"hit", "hold"} /\ pg'[u] \notin refilled) => valid[pg'[u]]
    BY <1>1 DEF Calm, StoreInv, HeldValid
  <2>2. \A u \in Procs : (pc'[u] = "hold" /\ wr'[u]) => dirty'[pg'[u]]
    BY <1>1 DEF Calm, StoreInv, HeldValid
  <2> QED BY <2>1, <2>2 DEF Calm, HeldValid
<1>4. Home'
  <2> SUFFICES ASSUME NEW s \in Slots, lock[s] # "FREE", trans[s] \notin refilled
               PROVE  \/ valid[trans[s]] /\ offset[trans[s]] = s
                      \/ \E u \in Procs : pc'[u] \in Settling /\ slot'[u] = s /\ pg'[u] = trans[s]
    BY DEF Calm, Home
  <2>1. CASE valid[trans[s]] /\ offset[trans[s]] = s
    BY <2>1
  <2>2. ASSUME NEW u \in Procs, pc[u] \in Settling, slot[u] = s, pg[u] = trans[s]
        PROVE  pc'[u] \in Settling /\ slot'[u] = s /\ pg'[u] = trans[s]
    BY <1>1, <2>2 DEF Calm
  <2> QED BY <2>1, <2>2 DEF StoreInv, Home
<1>5. Stored'
  <2>1. \A p \in Pages \ refilled :
          /\ valid[p] => written[p] \subseteq data[offset[p]].writes
          /\ (~valid[p] \/ ~dirty'[p]) => written[p] \subseteq disk[p]
    BY DEF Calm, StoreInv, Stored
  <2>2. \A u \in Procs : (pc'[u] \in {"offset", "publish"} /\ pg'[u] \notin refilled) =>
          written[pg'[u]] \subseteq data[slot'[u]].writes
    BY <1>1 DEF Calm, StoreInv, Stored, Settling
  <2>3. \A u \in Procs : (pc'[u] = "clear" /\ trans[slot'[u]] \notin refilled) =>
          written[trans[slot'[u]]] \subseteq disk[trans[slot'[u]]]
    BY <1>1 DEF Calm, StoreInv, Stored, Victim
  <2> QED BY <2>1, <2>2, <2>3 DEF Calm, Stored, Victim
<1> QED BY <1>2, <1>3, <1>4, <1>5 DEF StoreInv

(* acquire_page: the switch on the state word, and a hit.                  *)
LEMMA SwitchedTo ==
  \A p : Case(p) \in {"claim", "hit", "retry"} /\ (Case(p) = "hit" => valid[p])
BY DEF Case, V_NB

LEMMA RetryStore == ASSUME StoreInv, IndInv', NEW t \in Procs, Retry(t) PROVE StoreInv'
<1> PICK p \in Pages : p = pg[t]
  BY DEF Retry, StoreInv, IndInv, TypeOK
<1> PICK l \in {"claim", "hit", "retry"} : l = Case(p) /\ (l = "hit" => valid[p])
  BY SwitchedTo
<1>1. Calm(t, l) /\ pg' = pg
  BY DEF Retry, Goto, Calm, Settling, stateVars, slotVars, histVars
<1>2. l \notin Filling /\ l # "hold" /\ l # "clear"
  BY DEF Filling
<1> QED BY <1>1, <1>2, CalmStore

LEMMA AcquireStore ==
  ASSUME StoreInv, IndInv', NEW t \in Procs, NEW p \in Pages, NEW w \in BOOLEAN, Acquire(t, p, w)
  PROVE  StoreInv'
<1> PICK l \in {"claim", "hit", "retry"} : l = Case(p) /\ (l = "hit" => valid[p])
  BY SwitchedTo
<1>1. Calm(t, l)
  BY DEF Acquire, Goto, Calm, Settling, slotVars, histVars, StoreInv, IndInv, TypeOK
<1>2. l \notin Filling /\ l # "hold" /\ l # "clear" /\ pg'[t] = p
  BY DEF Filling, Acquire, StoreInv, IndInv, TypeOK
<1> QED BY <1>1, <1>2, CalmStore

LEMMA HitStore == ASSUME StoreInv, IndInv', NEW t \in Procs, Hit(t) PROVE StoreInv'
<1>1. Calm(t, "hold") /\ pg' = pg /\ wr' = wr /\ pc[t] = "hit"
  BY DEF Hit, Goto, Calm, Settling, slotVars, histVars, StoreInv, IndInv, TypeOK
<1>2. pg[t] \in Pages
  BY <1>1 DEF StoreInv, IndInv, TypeOK
<1>3. wr[t] => dirty'[pg[t]]
  BY <1>2 DEF Hit, StoreInv, IndInv, TypeOK
<1>4. pg[t] \notin refilled => valid[pg[t]]
  BY <1>1 DEF StoreInv, HeldValid
<1>5. "hold" \notin Filling
  BY DEF Filling
<1> QED BY <1>1, <1>3, <1>4, <1>5, CalmStore

LEMMA ReleaseStore == ASSUME StoreInv, IndInv', NEW t \in Procs, Release(t) PROVE StoreInv'
<1>1. Calm(t, "idle")
  BY DEF Release, Goto, Calm, Settling, slotVars, histVars, StoreInv, IndInv, TypeOK
<1>2. "idle" \notin Filling
  BY DEF Filling
<1> QED BY <1>1, <1>2, CalmStore

(* find_slot up to the decision to evict, and giving up.                   *)
LEMMA SearchStore ==
  ASSUME StoreInv, IndInv', NEW t \in Procs,
         FindTicket(t) \/ TakeSkip(t) \/ TakeLock(t) \/ LookState(t) \/ Unbusy(t) \/ Unlock(t)
  PROVE  StoreInv'
<1> PICK l \in {"take", "find", "look", "evict", "unlock"} : pc' = [pc EXCEPT ![t] = l]
  BY DEF FindTicket, TakeSkip, TakeLock, LookState, Unbusy, Unlock, Goto
<1>1. /\ pc[t] \in Filling /\ pc[t] \notin Settling /\ pg' = pg /\ l \notin Settling /\ l # "hold"
      /\ l # "hit" /\ l # "clear"
  BY DEF FindTicket, TakeSkip, TakeLock, LookState, Unbusy, Unlock, Filling, Settling
<1>2. \A s \in Slots : lock'[s] = "FREE" <=> lock[s] = "FREE"
  <2>1. CASE TakeLock(t) \/ Unlock(t)
    BY <2>1 DEF TakeLock, Unlock, StoreInv, IndInv, TypeOK, LockOwner, Locking
  <2>2. CASE FindTicket(t) \/ TakeSkip(t) \/ LookState(t) \/ Unbusy(t)
    BY <2>2 DEF FindTicket, TakeSkip, LookState, Unbusy, slotVars
  <2> QED BY <2>1, <2>2
<1>3. Calm(t, l)
  <2>1. /\ UNCHANGED <<valid, offset, trans, data, disk, written, refilled, dirty, pg, wr>>
        /\ \A u \in Procs : u # t => slot'[u] = slot[u]
    BY DEF FindTicket, TakeSkip, TakeLock, LookState, Unbusy, Unlock, slotVars, stateVars, histVars,
           StoreInv, IndInv, TypeOK
  <2> QED BY <1>1, <1>2, <2>1 DEF Calm
<1> QED BY <1>1, <1>3, CalmStore

(* A page that is not DIRTY is on the disk when it goes without a write.   *)
LEMMA EvictStore == ASSUME StoreInv, IndInv', NEW t \in Procs, Evict(t) PROVE StoreInv'
<1> PICK q \in Pages : q = trans[slot[t]]
  BY DEF Evict, StoreInv, IndInv, LockOwner, Locking, TypeOK
<1> PICK l \in {"unlock", "unbusy", "wback", "clear"} :
      pc' = [pc EXCEPT ![t] = l] /\ (l = "clear" => ~dirty[q])
  BY DEF Evict, Goto, EvictOutcome
<1>1. Calm(t, l) /\ pg' = pg /\ slot' = slot /\ pc[t] \in Filling
  BY DEF Evict, Calm, Settling, Filling, slotVars, histVars
<1>2. l = "clear" /\ q \notin refilled => written[q] \subseteq disk[q]
  BY DEF StoreInv, Stored
<1> QED BY <1>1, <1>2, CalmStore

(* A page that is claimed while VALID is in refilled from then on.         *)
LEMMA ClaimStore == ASSUME StoreInv, IndInv', NEW t \in Procs, Claim(t) PROVE StoreInv'
<1> PICK p \in Pages : p = pg[t]
  BY DEF Claim, StoreInv, IndInv, TypeOK
<1> PICK l \in {"retry", "find"} :
      pc' = [pc EXCEPT ![t] = l] /\ (l = "find" => ~busy[p])
  BY DEF Claim, Goto
<1>1. /\ UNCHANGED <<valid, dirty, offset, lock, trans, data, disk, pg, slot, wr, written>>
      /\ refilled \subseteq refilled' /\ (l = "find" /\ p \notin refilled' => ~valid[p])
  BY DEF Claim, slotVars, StoreInv, IndInv, TypeOK
<1>2. \A u \in Procs : pc'[u] = IF u = t THEN l ELSE pc[u]
  BY DEF StoreInv, IndInv, TypeOK
<1>3. Fresh'
  BY <1>1, <1>2 DEF StoreInv, Fresh, Filling
<1>4. HeldValid'
  BY <1>1, <1>2 DEF StoreInv, HeldValid
<1>5. Home'
  <2>1. \A u \in Procs : pc[u] \in Settling <=> pc'[u] \in Settling
    BY <1>2 DEF Claim, Settling
  <2> QED BY <1>1, <2>1 DEF StoreInv, Home
<1>6. Stored'
  BY <1>1, <1>2 DEF StoreInv, Stored, Victim
<1> QED BY <1>3, <1>4, <1>5, <1>6 DEF StoreInv
(* What StoreInv says of the slots of one page p that t fills.             *)
LEMMA FillsAlone ==
  ASSUME StoreInv, NEW t \in Procs, pc[t] \in Filling, pg[t] \notin refilled
  PROVE  /\ pg[t] \in Pages /\ ~valid[pg[t]] /\ written[pg[t]] \subseteq disk[pg[t]]
         /\ \A u \in Procs : u # t /\ pc[u] \in Filling => pg[u] # pg[t]
         /\ \A u \in Procs : pc[u] \in {"hit", "hold"} => pg[u] # pg[t]
         /\ pc[t] \notin Settling => \A s \in Slots : lock[s] # "FREE" => trans[s] # pg[t]
<1>1. pg[t] \in Pages
  BY DEF StoreInv, IndInv, TypeOK, Filling
<1>2. ~valid[pg[t]]
  BY DEF StoreInv, Fresh
<1>3. written[pg[t]] \subseteq disk[pg[t]]
  BY <1>1, <1>2 DEF StoreInv, Stored
<1>4. \A u \in Procs : u # t /\ pc[u] \in Filling => pg[u] # pg[t]
  BY DEF StoreInv, IndInv, BusyOwner
<1>5. \A u \in Procs : pc[u] \in {"hit", "hold"} => pg[u] # pg[t]
  BY <1>2 DEF StoreInv, HeldValid
<1>6. ASSUME pc[t] \notin Settling, NEW s \in Slots, lock[s] # "FREE", trans[s] = pg[t] PROVE FALSE
  <2>1. PICK u \in Procs : pc[u] \in Settling /\ slot[u] = s /\ pg[u] = trans[s]
    BY <1>2, <1>6 DEF StoreInv, Home
  <2> QED BY <1>4, <1>6, <2>1 DEF Settling, Filling
<1> QED BY <1>1, <1>2, <1>3, <1>4, <1>5, <1>6

(* A free slot gets the translation of a page that has no other.           *)
LEMMA TakeFreeStore == ASSUME StoreInv, IndInv', NEW t \in Procs, TakeFree(t) PROVE StoreInv'
<1> PICK p \in Pages : p = pg[t]
  BY DEF TakeFree, StoreInv, IndInv, TypeOK
<1> PICK s \in Slots : s = slot[t]
  BY DEF StoreInv, IndInv, TypeOK
<1>1. /\ pc[t] = "take" /\ pc[t] \in Filling /\ pc[t] \notin Settling /\ lock[s] = "FREE"
      /\ \A u \in Procs : pc'[u] = IF u = t THEN "read" ELSE pc[u]
      /\ \A r \in Slots : /\ lock'[r] = (IF r = s THEN "UNLOCKED" ELSE lock[r])
                          /\ trans'[r] = (IF r = s THEN p ELSE trans[r])
      /\ UNCHANGED <<valid, dirty, offset, data, disk, pg, slot, wr, written, refilled>>
  BY DEF TakeFree, Goto, Filling, Settling, stateVars, histVars, StoreInv, IndInv, TypeOK
<1>2. Fresh'
  BY <1>1 DEF StoreInv, Fresh
<1>3. HeldValid'
  BY <1>1 DEF StoreInv, HeldValid
<1>4. Home'
  <2> SUFFICES ASSUME NEW r \in Slots, lock'[r] # "FREE", trans'[r] \notin refilled
               PROVE  \/ valid[trans'[r]] /\ offset[trans'[r]] = r
                      \/ \E u \in Procs : pc'[u] \in Settling /\ slot[u] = r /\ pg[u] = trans'[r]
    BY <1>1 DEF Home
  <2>1. CASE r = s
    BY <1>1, <2>1 DEF Settling
  <2>2. CASE r # s
    <3>1. \A u \in Procs : pc[u] \in Settling => pc'[u] \in Settling
      BY <1>1
    <3> QED BY <1>1, <2>2, <3>1 DEF StoreInv, Home
  <2> QED BY <2>1, <2>2
<1>5. Stored'
  <2>1. \A u \in Procs : pc'[u] = "clear" => slot[u] # s /\ pc[u] = "clear"
    BY <1>1 DEF StoreInv, IndInv, LockOwner, Locking
  <2>2. \A u \in Procs : pc'[u] = "clear" => trans'[slot[u]] = trans[slot[u]]
    BY <1>1, <2>1 DEF StoreInv, IndInv, TypeOK
  <2> QED BY <1>1, <2>1, <2>2 DEF StoreInv, Stored, Victim
<1> QED BY <1>2, <1>3, <1>4, <1>5 DEF StoreInv

(* A victim that nobody refilled is VALID in the slot it is evicted from.  *)
LEMMA VictimAtHome ==
  ASSUME StoreInv, NEW t \in Procs, pc[t] \in {"wback", "clear"}, Victim(t) \notin refilled
  PROVE  /\ Victim(t) \in Pages /\ valid[Victim(t)] /\ offset[Victim(t)] = slot[t]
         /\ \A s \in Slots : lock[s] # "FREE" /\ trans[s] = Victim(t) => s = slot[t]
         /\ \A u \in Procs : pg[u] = Victim(t) => pc[u] = "retry"
<1>1. lock[slot[t]] = "LOCKED" /\ slot[t] \in Slots
  BY DEF StoreInv, IndInv, TypeOK, LockOwner, Locking
<1>2. Victim(t) \in Pages /\ Victim(t) = trans[slot[t]]
  BY <1>1 DEF StoreInv, IndInv, LockOwner, Victim
<1>3. \A u \in Procs : pg[u] = Victim(t) => pc[u] = "retry"
  BY DEF StoreInv, IndInv, Decided
<1>4. \A s \in Slots : lock[s] # "FREE" /\ trans[s] = Victim(t) => valid[Victim(t)] /\ offset[Victim(t)] = s
  BY <1>3 DEF StoreInv, Home, Settling
<1> QED BY <1>1, <1>2, <1>3, <1>4

(* The slot that is written back is the one that has the page's writes.    *)
LEMMA WriteBackStore == ASSUME StoreInv, IndInv', NEW t \in Procs, WriteBack(t) PROVE StoreInv'
<1> PICK s \in Slots : s = slot[t]
  BY DEF StoreInv, IndInv, TypeOK
<1>1. pc[t] = "wback" /\ Victim(t) = trans[s] /\ trans[s] \in Pages
  BY DEF WriteBack, Victim, StoreInv, IndInv, TypeOK, LockOwner, Locking
<1> PICK q \in Pages : q = trans[s]
  BY <1>1
<1>2. /\ \A u \in Procs : pc'[u] = IF u = t THEN "clear" ELSE pc[u]
      /\ \A p \in Pages : disk'[p] = IF p = q THEN data[s].writes ELSE disk[p]
      /\ UNCHANGED <<valid, dirty, offset, lock, trans, data, pg, slot, wr, written, refilled>>
  BY DEF WriteBack, Goto, stateVars, slotVars, histVars, StoreInv, IndInv, TypeOK
<1>3. q \notin refilled => valid[q] /\ offset[q] = s /\ written[q] \subseteq data[s].writes
  <2>1. q \notin refilled => valid[q] /\ offset[q] = s
    BY <1>1, VictimAtHome
  <2> QED BY <2>1 DEF StoreInv, Stored
<1>4. Fresh'
  BY <1>1, <1>2 DEF StoreInv, Fresh, Filling
<1>5. HeldValid'
  BY <1>2 DEF StoreInv, HeldValid
<1>6. Home'
  <2>1. \A u \in Procs : pc[u] \in Settling <=> pc'[u] \in Settling
    BY <1>1, <1>2 DEF Settling
  <2> QED BY <1>2, <2>1 DEF StoreInv, Home
<1>7. Stored'
  <2>1. \A p \in Pages \ refilled :
          /\ valid[p] => written[p] \subseteq data[offset[p]].writes
          /\ (~valid[p] \/ ~dirty[p]) => written[p] \subseteq disk'[p]
    BY <1>2, <1>3 DEF StoreInv, Stored
  <2>2. \A u \in Procs : (pc'[u] \in {"offset", "publish"} /\ pg[u] \notin refilled) =>
          written[pg[u]] \subseteq data[slot[u]].writes
    BY <1>2 DEF StoreInv, Stored
  <2>3. ASSUME NEW u \in Procs, pc'[u] = "clear", Victim(u) \notin refilled
        PROVE  written[Victim(u)] \subseteq disk'[Victim(u)]
    <3>1. CASE Victim(u) = q
      BY <1>2, <1>3, <2>3, <3>1
    <3>2. CASE Victim(u) # q
      <4>1. pc[u] = "clear" /\ Victim(u) \in Pages
        BY <1>1, <1>2, <2>3, <3>2, VictimAtHome
      <4> QED BY <1>2, <2>3, <3>2, <4>1 DEF StoreInv, Stored
    <3> QED BY <3>1, <3>2
  <2>4. \A u \in Procs : Victim(u)' = Victim(u)
    BY <1>2 DEF Victim
  <2> QED BY <1>2, <2>1, <2>2, <2>3, <2>4 DEF Stored
<1> QED BY <1>4, <1>5, <1>6, <1>7 DEF StoreInv

(* The page is on the disk when its slot is taken away.                    *)
LEMMA ClearStore == ASSUME StoreInv, IndInv', NEW t \in Procs, Clear(t) PROVE StoreInv'
<1> PICK s \in Slots : s = slot[t]
  BY DEF StoreInv, IndInv, TypeOK
<1> PICK p \in Pages : p = pg[t]
  BY DEF Clear, StoreInv, IndInv, TypeOK
<1>1. pc[t] = "clear" /\ Victim(t) = trans[s] /\ trans[s] \in Pages /\ pc[t] \in Filling /\ pc[t] \notin Settling
  BY DEF Clear, Victim, StoreInv, IndInv, TypeOK, LockOwner, Locking, Filling, Settling
<1> PICK q \in Pages : q = trans[s]
  BY <1>1
<1>2. /\ \A u \in Procs : pc'[u] = IF u = t THEN "read" ELSE pc[u]
      /\ \A r \in Pages : /\ valid'[r] = (IF r = q THEN FALSE ELSE valid[r])
                          /\ dirty'[r] = (IF r = q THEN FALSE ELSE dirty[r])
      /\ \A r \in Slots : /\ lock'[r] = (IF r = s THEN "UNLOCKED" ELSE lock[r])
                          /\ trans'[r] = (IF r = s THEN p ELSE trans[r])
      /\ UNCHANGED <<offset, data, disk, pg, slot, wr, written, refilled>>
  BY DEF Clear, Goto, histVars, StoreInv, IndInv, TypeOK
<1>3. \A u \in Procs : pg[u] = q => pc[u] = "retry"
  BY <1>1 DEF StoreInv, IndInv, Decided
<1>4. \A u \in Procs : pc[u] # "idle" => pg[u] \in Pages
  BY DEF StoreInv, IndInv, TypeOK
<1>5. Fresh'
  BY <1>1, <1>2, <1>4 DEF StoreInv, Fresh, Filling
<1>6. HeldValid'
  <2>1. \A u \in Procs : pc'[u] \in {"hit", "hold"} =>
          pc[u] = pc'[u] /\ valid'[pg[u]] = valid[pg[u]] /\ dirty'[pg[u]] = dirty[pg[u]]
    BY <1>2, <1>3, <1>4
  <2> QED BY <1>2, <2>1 DEF StoreInv, HeldValid
<1>7. Home'
  <2> SUFFICES ASSUME NEW r \in Slots, lock'[r] # "FREE", trans'[r] \notin refilled
               PROVE  \/ valid'[trans'[r]] /\ offset[trans'[r]] = r
                      \/ \E u \in Procs : pc'[u] \in Settling /\ slot[u] = r /\ pg[u] = trans'[r]
    BY <1>2 DEF Home
  <2>1. CASE r = s
    BY <1>2, <2>1 DEF Settling
  <2>2. CASE r # s
    <3>1. lock[r] # "FREE" /\ trans[r] \notin refilled /\ trans'[r] = trans[r] /\ trans[r] \in Pages
      BY <1>2, <2>2 DEF StoreInv, IndInv, LockOwner
    <3>2. trans[r] # q
      BY <1>1, <2>2, <3>1, VictimAtHome
    <3>3. valid'[trans[r]] = valid[trans[r]]
      BY <1>2, <3>1, <3>2
    <3>4. \A u \in Procs : pc[u] \in Settling => pc'[u] \in Settling
      BY <1>1, <1>2
    <3> QED BY <3>1, <3>3, <3>4 DEF StoreInv, Home
  <2> QED BY <2>1, <2>2
<1>8. Stored'
  <2>1. \A r \in Pages \ refilled :
          /\ valid'[r] => written[r] \subseteq data[offset[r]].writes
          /\ (~valid'[r] \/ ~dirty'[r]) => written[r] \subseteq disk[r]
    BY <1>1, <1>2 DEF StoreInv, Stored
  <2>2. \A u \in Procs : (pc'[u] \in {"offset", "publish"} /\ pg[u] \notin refilled) =>
          written[pg[u]] \subseteq data[slot[u]].writes
    BY <1>2 DEF StoreInv, Stored
  <2>3. \A u \in Procs : pc'[u] = "clear" => slot[u] # s /\ pc[u] = "clear"
    BY <1>1, <1>2 DEF StoreInv, IndInv, LockOwner, Locking
  <2>4. \A u \in Procs : pc'[u] = "clear" => Victim(u)' = Victim(u)
    BY <1>2, <2>3 DEF Victim, StoreInv, IndInv, TypeOK
  <2> QED BY <1>2, <2>1, <2>2, <2>3, <2>4 DEF StoreInv, Stored
<1> QED BY <1>5, <1>6, <1>7, <1>8 DEF StoreInv
(* The fill reads every write from the disk, and overwrites no other page. *)
LEMMA ReadDataStore == ASSUME StoreInv, IndInv', NEW t \in Procs, ReadData(t) PROVE StoreInv'
<1> PICK s \in Slots : s = slot[t]
  BY DEF StoreInv, IndInv, TypeOK
<1> PICK p \in Pages : p = pg[t]
  BY DEF ReadData, StoreInv, IndInv, TypeOK
<1>1. pc[t] = "read" /\ pc[t] \in Filling /\ trans[s] = p
  BY DEF ReadData, StoreInv, IndInv, SlotOwner, Owning, Filling
<1>2. /\ \A u \in Procs : pc'[u] = IF u = t THEN "offset" ELSE pc[u]
      /\ \A r \in Slots : data'[r].writes = IF r = s THEN disk[p] ELSE data[r].writes
      /\ UNCHANGED <<valid, dirty, offset, lock, trans, disk, pg, slot, wr, written, refilled>>
  BY DEF ReadData, Goto, stateVars, slotVars, histVars, StoreInv, IndInv, TypeOK
<1>3. Fresh'
  BY <1>1, <1>2 DEF StoreInv, Fresh, Filling
<1>4. HeldValid'
  BY <1>2 DEF StoreInv, HeldValid
<1>5. Home'
  <2>1. \A u \in Procs : pc[u] \in Settling <=> pc'[u] \in Settling
    BY <1>1, <1>2 DEF Settling
  <2> QED BY <1>2, <2>1 DEF StoreInv, Home
<1>6. Stored'
  <2>1. ASSUME NEW r \in Pages, r \notin refilled, valid[r]
        PROVE  written[r] \subseteq data'[offset[r]].writes
    <3>1. trans[offset[r]] = r /\ offset[r] \in Slots
      BY <2>1 DEF StoreInv, IndInv, TypeOK, ValidMapping, Mapped
    <3>2. r # p
      BY <1>1, <2>1 DEF StoreInv, Fresh
    <3> QED BY <1>1, <1>2, <2>1, <3>1, <3>2 DEF StoreInv, Stored
  <2>2. ASSUME NEW u \in Procs, pc'[u] \in {"offset", "publish"}, pg[u] \notin refilled
        PROVE  written[pg[u]] \subseteq data'[slot[u]].writes
    <3>1. CASE u = t
      BY <1>1, <1>2, <2>2, <3>1, FillsAlone
    <3>2. CASE u # t
      <4>1. pc[u] \in {"offset", "publish"} /\ trans[slot[u]] = pg[u] /\ slot[u] \in Slots
        BY <1>2, <2>2, <3>2 DEF StoreInv, IndInv, TypeOK, SlotOwner, Owning
      <4>2. pg[u] # p
        BY <1>1, <3>2, <4>1 DEF StoreInv, IndInv, BusyOwner, Filling
      <4>3. slot[u] # s
        BY <1>1, <4>1, <4>2
      <4> QED BY <1>2, <2>2, <4>1, <4>3 DEF StoreInv, Stored
    <3> QED BY <3>1, <3>2
  <2>3. \A u \in Procs : Victim(u)' = Victim(u)
    BY <1>2 DEF Victim
  <2>4. \A u \in Procs : pc'[u] = "clear" => pc[u] = "clear"
    BY <1>2
  <2> QED BY <1>2, <2>1, <2>2, <2>3, <2>4 DEF StoreInv, Stored
<1> QED BY <1>3, <1>4, <1>5, <1>6 DEF StoreInv

LEMMA SetOffsetStore == ASSUME StoreInv, IndInv', NEW t \in Procs, SetOffset(t) PROVE StoreInv'
<1> PICK p \in Pages : p = pg[t]
  BY DEF SetOffset, StoreInv, IndInv, TypeOK
<1>1. pc[t] = "offset" /\ pc[t] \in Filling
  BY DEF SetOffset, Filling
<1>2. /\ \A u \in Procs : pc'[u] = IF u = t THEN "publish" ELSE pc[u]
      /\ \A r \in Pages : r # p => offset'[r] = offset[r]
      /\ UNCHANGED <<valid, dirty, lock, trans, data, disk, pg, slot, wr, written, refilled>>
  BY DEF SetOffset, Goto, stateVars, slotVars, histVars, StoreInv, IndInv, TypeOK
<1>3. p \notin refilled => ~valid[p]
  BY <1>1 DEF StoreInv, Fresh
<1>4. Fresh'
  BY <1>1, <1>2 DEF StoreInv, Fresh, Filling
<1>5. HeldValid'
  BY <1>2 DEF StoreInv, HeldValid
<1>6. Home'
  <2>1. \A u \in Procs : pc[u] \in Settling <=> pc'[u] \in Settling
    BY <1>1, <1>2 DEF Settling
  <2>2. \A s \in Slots : lock[s] # "FREE" => trans[s] \in Pages
    BY DEF StoreInv, IndInv, LockOwner
  <2> QED BY <1>2, <1>3, <2>1, <2>2 DEF StoreInv, Home
<1>7. Stored'
  <2>1. \A r \in Pages \ refilled : valid[r] => offset'[r] = offset[r]
    BY <1>2, <1>3
  <2>2. \A u \in Procs : /\ Victim(u)' = Victim(u) /\ (pc'[u] = "clear" => pc[u] = "clear")
                         /\ pc'[u] \in {"offset", "publish"} => pc[u] \in {"offset", "publish"}
    BY <1>1, <1>2 DEF Victim
  <2> QED BY <1>2, <2>1, <2>2 DEF StoreInv, Stored
<1> QED BY <1>4, <1>5, <1>6, <1>7 DEF StoreInv

(* The page becomes VALID with all its writes in its slot.                 *)
LEMMA PublishStore == ASSUME StoreInv, IndInv', NEW t \in Procs, Publish(t) PROVE StoreInv'
<1> PICK p \in Pages : p = pg[t]
  BY DEF Publish, StoreInv, IndInv, TypeOK
<1>1. pc[t] = "publish" /\ pc[t] \in Filling /\ offset[p] = slot[t]
  BY DEF Publish, Filling, StoreInv, IndInv, SlotOwner
<1>2. /\ \A u \in Procs : pc'[u] = IF u = t THEN "hold" ELSE pc[u]
      /\ \A r \in Pages : /\ valid'[r] = (IF r = p THEN ~valid[r] ELSE valid[r])
                          /\ dirty'[r] = (IF r = p THEN dirty[r] \/ wr[t] ELSE dirty[r])
      /\ UNCHANGED <<offset, lock, trans, data, disk, pg, slot, wr, written, refilled>>
  BY DEF Publish, Goto, slotVars, histVars, StoreInv, IndInv, TypeOK
<1>3. p \notin refilled => /\ ~valid[p] /\ written[p] \subseteq disk[p]
                           /\ written[p] \subseteq data[offset[p]].writes
  <2>1. p \notin refilled => ~valid[p] /\ written[p] \subseteq disk[p]
    BY <1>1, FillsAlone
  <2> QED BY <1>1, <2>1 DEF StoreInv, Stored
<1>4. \A u \in Procs : pc[u] # "idle" => pg[u] \in Pages
  BY DEF StoreInv, IndInv, TypeOK
<1>5. \A u \in Procs : u # t /\ pc[u] \in Filling => pg[u] # p
  BY <1>1 DEF StoreInv, IndInv, BusyOwner
<1>6. Fresh'
  <2>1. \A u \in Procs : pc'[u] \in Filling => /\ pc[u] \in Filling
                                               /\ valid'[pg[u]] = valid[pg[u]]
    <3>1. \A u \in Procs : pc'[u] \in Filling => u # t /\ pc[u] \in Filling /\ pg[u] \in Pages
      BY <1>2, <1>4 DEF Filling
    <3> QED BY <1>2, <1>5, <3>1
  <2> QED BY <1>2, <2>1 DEF StoreInv, Fresh
<1>7. HeldValid'
  <2>1. ASSUME NEW u \in Procs, pc'[u] \in {"hit", "hold"}, pg[u] \notin refilled PROVE valid'[pg[u]]
    <3>1. CASE pg[u] = p
      BY <1>2, <1>3, <2>1, <3>1
    <3>2. CASE pg[u] # p
      BY <1>2, <1>4, <2>1, <3>2 DEF StoreInv, HeldValid
    <3> QED BY <3>1, <3>2
  <2>2. ASSUME NEW u \in Procs, pc'[u] = "hold", wr[u] PROVE dirty'[pg[u]]
    <3>1. CASE u = t
      BY <1>2, <2>2, <3>1
    <3>2. CASE u # t
      <4>1. pc[u] = "hold" /\ pg[u] \in Pages /\ dirty[pg[u]]
        BY <1>2, <1>4, <2>2, <3>2 DEF StoreInv, HeldValid
      <4> QED BY <1>2, <4>1
    <3> QED BY <3>1, <3>2
  <2> QED BY <1>2, <2>1, <2>2 DEF HeldValid
<1>8. Home'
  <2> SUFFICES ASSUME NEW s \in Slots, lock[s] # "FREE", trans[s] \notin refilled
               PROVE  \/ valid'[trans[s]] /\ offset[trans[s]] = s
                      \/ \E u \in Procs : pc'[u] \in Settling /\ slot[u] = s /\ pg[u] = trans[s]
    BY <1>2 DEF Home
  <2>1. trans[s] \in Pages
    BY DEF StoreInv, IndInv, LockOwner
  <2>2. CASE valid[trans[s]] /\ offset[trans[s]] = s
    BY <1>2, <1>3, <2>1, <2>2
  <2>3. ASSUME NEW u \in Procs, pc[u] \in Settling, slot[u] = s, pg[u] = trans[s]
        PROVE  \/ valid'[trans[s]] /\ offset[trans[s]] = s
               \/ pc'[u] \in Settling
    BY <1>1, <1>2, <1>3, <2>1, <2>3
  <2> QED BY <2>2, <2>3 DEF StoreInv, Home
<1>9. Stored'
  <2>1. ASSUME NEW r \in Pages, r \notin refilled
        PROVE  /\ valid'[r] => written[r] \subseteq data[offset[r]].writes
               /\ (~valid'[r] \/ ~dirty'[r]) => written[r] \subseteq disk[r]
    <3>1. CASE r = p
      BY <1>3, <2>1, <3>1
    <3>2. CASE r # p
      BY <1>2, <2>1, <3>2 DEF StoreInv, Stored
    <3> QED BY <3>1, <3>2
  <2>2. \A u \in Procs : /\ Victim(u)' = Victim(u) /\ (pc'[u] = "clear" => pc[u] = "clear")
                         /\ pc'[u] \in {"offset", "publish"} => pc[u] \in {"offset", "publish"}
    BY <1>1, <1>2 DEF Victim
  <2> QED BY <1>2, <2>1, <2>2 DEF StoreInv, Stored
<1> QED BY <1>6, <1>7, <1>8, <1>9 DEF StoreInv

(* A write goes to the slot of its page, which is marked.                  *)
LEMMA WriteStore == ASSUME StoreInv, IndInv', NEW t \in Procs, Write(t) PROVE StoreInv'
<1> PICK s \in Slots : s = slot[t]
  BY DEF StoreInv, IndInv, TypeOK
<1> PICK p \in Pages : p = pg[t]
  BY DEF Write, StoreInv, IndInv, TypeOK
<1>1. pc[t] = "hold" /\ wr[t] /\ dirty[p] /\ lock[s] # "FREE" /\ trans[s] = p
  BY DEF Write, StoreInv, HeldValid, IndInv, SlotOwner, Owning
<1>2. /\ \A r \in Slots : data'[r].writes = IF r = s THEN data[r].writes \cup {t} ELSE data[r].writes
      /\ \A r \in Pages : written'[r] = IF r = p THEN written[r] \cup {t} ELSE written[r]
      /\ UNCHANGED <<valid, dirty, offset, lock, trans, disk, pc, pg, slot, wr, refilled>>
  BY DEF Write, stateVars, slotVars, StoreInv, IndInv, TypeOK
<1>3. p \notin refilled => valid[p] /\ offset[p] = s
  <2> SUFFICES ASSUME p \notin refilled PROVE valid[p] /\ offset[p] = s
    OBVIOUS
  <2>1. valid[p]
    BY <1>1 DEF StoreInv, HeldValid
  <2>2. \A u \in Procs : pc[u] \in Settling => pg[u] # p
    BY <2>1 DEF StoreInv, Fresh, Filling, Settling
  <2> QED BY <1>1, <2>1, <2>2 DEF StoreInv, Home
<1>4. Fresh' /\ HeldValid'
  BY <1>2 DEF StoreInv, Fresh, HeldValid
<1>5. Home'
  BY <1>2 DEF StoreInv, Home
<1>6. Stored'
  <2>1. ASSUME NEW r \in Pages, r \notin refilled
        PROVE  /\ valid[r] => written'[r] \subseteq data'[offset[r]].writes
               /\ (~valid[r] \/ ~dirty[r]) => written'[r] \subseteq disk[r]
    <3>1. offset[r] \in Slots
      BY DEF StoreInv, IndInv, TypeOK
    <3>2. CASE r = p
      <4>1. valid[p] /\ dirty[p] /\ offset[p] = s /\ written[p] \subseteq data[s].writes
        BY <1>1, <1>3, <2>1, <3>2 DEF StoreInv, Stored
      <4>2. written'[p] = written[p] \cup {t} /\ data'[s].writes = data[s].writes \cup {t}
        BY <1>2
      <4> QED BY <3>2, <4>1, <4>2
    <3>3. CASE r # p
      BY <1>2, <2>1, <3>1, <3>3 DEF StoreInv, Stored
    <3> QED BY <3>2, <3>3
  <2>2. ASSUME NEW u \in Procs, pc[u] \in {"offset", "publish"}, pg[u] \notin refilled
        PROVE  written'[pg[u]] \subseteq data'[slot[u]].writes
    <3>1. pg[u] \in Pages /\ slot[u] \in Slots
      BY <2>2 DEF StoreInv, IndInv, TypeOK
    <3>2. pg[u] # p
      BY <1>3, <2>2 DEF StoreInv, Fresh, Filling
    <3> QED BY <1>2, <2>2, <3>1, <3>2 DEF StoreInv, Stored
  <2>3. ASSUME NEW u \in Procs, pc[u] = "clear", Victim(u) \notin refilled
        PROVE  written'[Victim(u)] \subseteq disk[Victim(u)]
    <3>1. Victim(u) \in Pages /\ Victim(u) # p
      BY <1>1, <2>3, VictimAtHome
    <3> QED BY <1>2, <2>3, <3>1 DEF StoreInv, Stored
  <2>4. \A u \in Procs : Victim(u)' = Victim(u)
    BY <1>2 DEF Victim
  <2> QED BY <1>2, <2>1, <2>2, <2>3, <2>4 DEF Stored
<1> QED BY <1>4, <1>5, <1>6 DEF StoreInv

-----------------------------------------------------------------------------
LEMMA InitStore == Init => StoreInv
<1>1. Init => Fresh /\ HeldValid /\ Home /\ Stored
  BY DEF Init, Fresh, HeldValid, Home, Stored, Filling, Victim
<1> QED BY <1>1, InitInv DEF StoreInv

LEMMA NextStore == StoreInv /\ [Next]_vars => StoreInv'
<1> SUFFICES ASSUME StoreInv, [Next]_vars PROVE StoreInv'
  OBVIOUS
<1>1. IndInv'
  BY NextInv DEF StoreInv
<1>2. CASE UNCHANGED vars
  BY <1>1, <1>2 DEF StoreInv, vars, stateVars, slotVars, histVars, Fresh, HeldValid, Home, Stored, Victim
<1>3. ASSUME NEW t \in Procs, NEW p \in Pages, NEW w \in BOOLEAN, Acquire(t, p, w) PROVE StoreInv'
  BY <1>1, <1>3, AcquireStore
<1>4. ASSUME NEW t \in Procs, Step(t) PROVE StoreInv'
  <2>1. CASE Retry(t) \/ Claim(t) \/ Hit(t) \/ Release(t)
    BY <1>1, <2>1, RetryStore, ClaimStore, HitStore, ReleaseStore
  <2>2. CASE Find(t)
    BY <1>1, <2>2, SearchStore, TakeFreeStore DEF Find
  <2>3. CASE Replace(t)
    BY <1>1, <2>3, EvictStore, SearchStore, WriteBackStore, ClearStore DEF Replace
  <2>4. CASE Fill(t)
    BY <1>1, <2>4, ReadDataStore, SetOffsetStore, PublishStore DEF Fill
  <2> QED BY <1>4, <2>1, <2>2, <2>3, <2>4 DEF Step
<1>5. ASSUME NEW t \in Procs, Write(t) PROVE StoreInv'
  BY <1>1, <1>5, WriteStore
<1> QED BY <1>2, <1>3, <1>4, <1>5 DEF Next

(* No write is lost in an eviction, a write-back or a fill: a settled page *)
(* that was never claimed while VALID has its writes in its slot or on the *)
(* disk.                                                                   *)
THEOREM WritesAreKept == Spec => []NoLostWrite
<1>1. StoreInv => NoLostWrite
  BY DEF StoreInv, Stored, NoLostWrite
<1> QED BY <1>1, InitStore, NextStore, PTL DEF Spec
=============================================================================
