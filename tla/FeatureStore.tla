---------------------------- MODULE FeatureStore ----------------------------
(***************************************************************************)
(* BAM_Feature_Store (gids_nvme.cu, gids_kernel.cu) on the page cache: the *)
(* calls of the host, their kernels with one warp per row, bam_ptr and the *)
(* array interface, the window-buffer pins of acquire_page and             *)
(* release_page, the two reference counts, flush, and the copy of rows in  *)
(* CPU memory.                                                             *)
(*                                                                         *)
(* A row is a page.  What PageCache and AsyncRead take apart, the search   *)
(* for a slot with its write-back and fill, is one step here; the loads of *)
(* the window counter are steps of their own, because the stores that      *)
(* follow them are not conditional on the value loaded.                    *)
(***************************************************************************)
EXTENDS Integers, FiniteSets

CONSTANTS
    NPages,     \* pages of the range
    NSlots,     \* slots of the cache
    Warps,      \* warps of a synchronous kernel
    AsyncWarps, \* warps of an asynchronous request; one is outstanding at most
    Flag,       \* the bit 0x80 of the window counter
    Calls,      \* the calls that the host makes
    None,
    MaxCalls    \* bound: calls of the host

ASSUME StoreAssumption ==
    /\ NPages \in Nat /\ NSlots \in 1 .. NPages
    /\ Flag \in Nat /\ Flag > 2 /\ MaxCalls \in Nat
    /\ IsFiniteSet(Warps) /\ IsFiniteSet(AsyncWarps) /\ Warps \cap AsyncWarps = {}

Pages == 0 .. NPages - 1
Slots == 0 .. NSlots - 1
Procs == Warps \cup AsyncWarps
Junk == -1                          \* contents of a slot that was never filled

VARIABLES
    host,       \* what the host waits for, or "idle"
    calls,      \* calls made
    pc, row,    \* of each warp
    seen,       \* window counter as the warp loaded it
    got,        \* slot that acquire_page returned to it
    out,        \* row that it has copied to the output tensor
    page,       \* data_page_t: cnt, valid, dirty of the state word, ref, slot, win
    ticket,     \* page_ticket
    used,       \* page_take_lock is no longer FREE
    trans,      \* page_translation; that of a FREE slot is uninitialized
    mem, disk,  \* contents of the slots and of the SSD
    cpu,        \* copies in CPU memory
    todo,       \* slots that flush has still to visit
    latest,     \* history: the version each row was given last
    upset,      \* history: pages whose counter changed between a load and its use, or wrapped
    unmarked,   \* history: pages evicted as clean but modified, or written from a FREE slot
    outdated,   \* history: rows stored after they were copied to CPU memory
    synced      \* history: pages accessed synchronously

warpVars == <<pc, row, seen, got, out>>
cacheVars == <<page, ticket, used, trans, mem, disk, latest, unmarked>>
vars == <<host, calls, warpVars, cacheVars, cpu, todo, upset, outdated, synced>>

\* init_controllers: page cache, range, array.
Init ==
    /\ host = "idle" /\ calls = 0 /\ todo = {}
    /\ pc = [w \in Procs |-> "idle"] /\ row = [w \in Procs |-> None]
    /\ seen = [w \in Procs |-> 0] /\ got = [w \in Procs |-> None]
    /\ out = [w \in Procs |-> None]
    /\ page = [p \in Pages |-> [cnt |-> 0, ref |-> 0, valid |-> FALSE, dirty |-> FALSE,
                                slot |-> 0, win |-> 0]]
    /\ ticket = 0 /\ used = [s \in Slots |-> FALSE] /\ trans \in [Slots -> Pages]
    /\ mem = [s \in Slots |-> Junk] /\ disk = [p \in Pages |-> 0]
    /\ latest = [p \in Pages |-> 0] /\ cpu = [p \in Pages |-> None]
    /\ upset = {} /\ unmarked = {} /\ outdated = {} /\ synced = {}

(***************************************************************************)
(* Calls of the host.  It waits for the kernels of a call.                 *)
(***************************************************************************)
MayCall(name) == host = "idle" /\ calls < MaxCalls /\ name \in Calls

Launch(kind, rows) ==
    /\ host' = kind /\ calls' = calls + 1
    /\ pc' = [w \in Procs |-> IF w \in DOMAIN rows THEN "start" ELSE pc[w]]
    /\ row' = [w \in Procs |-> IF w \in DOMAIN rows THEN rows[w] ELSE row[w]]
    /\ out' = [w \in Procs |-> None]
    /\ UNCHANGED <<seen, got, cacheVars, cpu, todo, upset, outdated, synced>>

CpuBuffer == \E p \in Pages : cpu[p] # None         \* cpu_buffer_flag
AsyncIdle == \A a \in AsyncWarps : pc[a] = "idle"
SyncRows == [Warps -> Pages]
AsyncRows == [AsyncWarps -> Pages]

\* Asynchronous, unless a CPU buffer is set or GIDS_FORCE_SYNC_READ is.
read_feature ==
    /\ MayCall("read_feature")
    /\ \/ \E rows \in SyncRows : Launch("read", rows)
       \/ ~CpuBuffer /\ AsyncIdle /\ \E rows \in AsyncRows : Launch("read_async", rows)

\* Several index lists, a stream and a synchronous kernel for each.
read_feature_hetero ==
    /\ MayCall("read_feature_hetero")
    /\ \E rows \in SyncRows : Launch("read", rows)

read_feature_merged_hetero ==
    /\ MayCall("read_feature_merged_hetero")
    /\ \E rows \in SyncRows : Launch("read", rows)

read_feature_merged ==
    /\ MayCall("read_feature_merged")
    /\ IF CpuBuffer THEN \E rows \in SyncRows : Launch("read", rows)
                    ELSE AsyncIdle /\ \E rows \in AsyncRows : Launch("read_async", rows)

\* The two halves as calls of their own.
read_feature_submit_async ==
    /\ MayCall("read_feature_submit_async") /\ AsyncIdle
    /\ \E rows \in AsyncRows : Launch("submit", rows)

\* The wait kernel reads and releases what was submitted.
StartWait ==
    /\ host' = "wait"
    /\ pc' = [w \in Procs |-> IF w \in AsyncWarps THEN "use" ELSE pc[w]]

read_feature_wait_async ==
    /\ MayCall("read_feature_wait_async") /\ ~AsyncIdle
    /\ StartWait /\ calls' = calls + 1
    /\ out' = [w \in Procs |-> None]
    /\ UNCHANGED <<row, seen, got, cacheVars, cpu, todo, upset, outdated, synced>>

store_tensor == MayCall("store_tensor") /\ \E rows \in SyncRows : Launch("store", rows)

\* seq_write and AtomicAdd of the array, in a kernel of the application
array_write == MayCall("array_write") /\ \E rows \in SyncRows : Launch("array", rows)

read_tensor ==
    /\ MayCall("read_tensor")
    /\ \E w \in Warps, p \in Pages : Launch("tensor", [v \in {w} |-> p])

\* cpu_backing_buffer and set_cpu_buffer, as the training scripts call them: once.
set_cpu_buffer ==
    /\ MayCall("set_cpu_buffer") /\ ~CpuBuffer
    /\ \E rows \in SyncRows : Launch("cpu", rows)

flush_cache ==
    /\ MayCall("flush_cache")
    /\ host' = "flush" /\ calls' = calls + 1 /\ todo' = Slots
    /\ out' = [w \in Procs |-> None]
    /\ UNCHANGED <<pc, row, seen, got, cacheVars, cpu, upset, outdated, synced>>

\* The counter is a byte: its upper bit is the flag of the extra pin.
set_window_buffer_counter(win, n) == (win + n) % (2 * Flag)

Wrapped(win, n) == win \div Flag # set_window_buffer_counter(win, n) \div Flag

\* n rows of the window are on page p.
set_window_buffering ==
    /\ MayCall("set_window_buffering")
    /\ \E p \in Pages, n \in 1 .. 2 :
         /\ page' = [page EXCEPT ![p].win = set_window_buffer_counter(@, n)]
         /\ upset' = IF Wrapped(page[p].win, n) THEN upset \cup {p} ELSE upset
    /\ calls' = calls + 1
    /\ out' = [w \in Procs |-> None]
    /\ UNCHANGED <<host, pc, row, seen, got, ticket, used, trans, mem, disk, latest, unmarked,
                   cpu, todo, outdated, synced>>

(***************************************************************************)
(* A warp.                                                                 *)
(***************************************************************************)
Goto(w, label) == pc' = [pc EXCEPT ![w] = label]

\* read_feature_kernel_with_cpu_backing_memory: the row has a copy in CPU memory.
ReadCpu(w) ==
    /\ pc[w] = "start" /\ host = "read" /\ cpu[row[w]] # None
    /\ out' = [out EXCEPT ![w] = cpu[row[w]]]
    /\ Goto(w, "idle")
    /\ UNCHANGED <<host, calls, row, seen, got, cacheVars, cpu, todo, upset, outdated, synced>>

\* acquire_page loads the window counter ...
LoadCounter(w) ==
    /\ pc[w] = "start" /\ (host = "read" => cpu[row[w]] = None)
    /\ seen' = [seen EXCEPT ![w] = page[row[w]].win]
    /\ Goto(w, "count")
    /\ UNCHANGED <<host, calls, row, got, out, cacheVars, cpu, todo, upset, outdated, synced>>

\* The extra reference: more reads are announced, and none was taken for them
\* yet; the last announced read returns it.
Extra(w) == IF seen[w] > 1 /\ seen[w] < Flag THEN 1 ELSE 0
Last(w) == IF seen[w] % Flag = 1 /\ seen[w] >= Flag THEN 1 ELSE 0

\* Another warp is about to store or to subtract by a value of the counter that
\* w changes, or has yet to take the extra reference that w returns.
Disturbs(w) ==
    \E u \in Procs \ {w} :
        /\ row[u] = row[w]
        /\ \/ pc[u] = "count" /\ Extra(u) = 1
           \/ pc[u] = "release" /\ seen[u] % Flag >= 1
           \/ pc[u] = "ref" /\ Last(w) = 1

\* Mutant: the flag is not set.
MutPinned(st) == st

Pinned(st) == st + Flag

\* ... stores it with its flag set, if it will take the extra reference ...
SetFlag(w) ==
    /\ pc[w] = "count" /\ Extra(w) = 1
    /\ page' = [page EXCEPT ![row[w]].win = Pinned(seen[w])]
    /\ upset' = IF Disturbs(w) THEN upset \cup {row[w]} ELSE upset
    /\ Goto(w, "ref")
    /\ UNCHANGED <<host, calls, row, seen, got, out, ticket, used, trans, mem, disk, latest,
                   unmarked, cpu, todo, outdated, synced>>

\* ... and takes its references.
CountIn(w) ==
    LET p == row[w]
    IN /\ pc[w] = "ref" \/ (pc[w] = "count" /\ Extra(w) = 0)
       /\ page' = [page EXCEPT ![p].cnt = @ + 1 + Extra(w),
                               ![p].ref = IF w \in AsyncWarps THEN @ + 1 + Extra(w) ELSE @]
       /\ synced' = IF w \in Warps THEN synced \cup {p} ELSE synced
       /\ Goto(w, "look")
       /\ UNCHANGED <<host, calls, row, seen, got, out, ticket, used, trans, mem, disk, latest,
                      unmarked, cpu, todo, upset, outdated>>

\* Kernels that use the non-const operator[] of bam_ptr.
Marking == {"store", "cpu", "tensor"}

Acquired(w, s) ==
    /\ got' = [got EXCEPT ![w] = s]
    /\ Goto(w, CASE w \in AsyncWarps              -> "held"
                 [] w \in Warps /\ host \in Marking -> "mark"
                 [] OTHER                         -> "use")

\* With write = true, acquire_page marks the page it returns.
Hit(w) ==
    /\ pc[w] = "look" /\ page[row[w]].valid
    /\ Acquired(w, page[row[w]].slot)
    /\ page' = [page EXCEPT ![row[w]].dirty = @ \/ host = "array"]
    /\ UNCHANGED <<host, calls, row, seen, out, ticket, used, trans, mem, disk, latest, unmarked,
                   cpu, todo, upset, outdated, synced>>

\* Mutant: a slot in use is taken away.
MutTakable(w, s) == TRUE

\* find_slot: the slot is FREE, or its page is not referenced; the variant of
\* the asynchronous path looks at ref_count too.
Takable(w, s) ==
    ~used[s] \/ LET v == page[trans[s]]
                IN v.cnt = 0 /\ ~(w \in AsyncWarps /\ v.ref # 0)

\* The slots are tried in the order of the tickets.
find_slot(w, s) ==
    /\ Takable(w, s)
    /\ \A r \in Slots : Takable(w, r) => (s - ticket) % NSlots <= (r - ticket) % NSlots
    /\ ticket' = (s + 1) % NSlots

\* Mutant: the victim is not written back.
MutWrittenBack(s) == disk

WrittenBack(s) ==
    IF used[s] /\ page[trans[s]].dirty THEN [disk EXCEPT ![trans[s]] = mem[s]] ELSE disk

Miss(w) ==
    /\ pc[w] = "look" /\ ~page[row[w]].valid
    /\ \E s \in Slots :
         LET p == row[w]
             v == trans[s]
         IN /\ find_slot(w, s)
            /\ disk' = WrittenBack(s)
            /\ unmarked' = IF used[s] /\ ~page[v].dirty /\ mem[s] # disk[v]
                           THEN unmarked \cup {v} ELSE unmarked
            /\ page' = [q \in Pages |->
                          IF q = p THEN [page[p] EXCEPT !.valid = TRUE, !.slot = s,
                                                        !.dirty = @ \/ host = "array"]
                          ELSE IF used[s] /\ q = v
                          THEN [page[q] EXCEPT !.valid = FALSE, !.dirty = FALSE]
                          ELSE page[q]]
            /\ used' = [used EXCEPT ![s] = TRUE]
            /\ trans' = [trans EXCEPT ![s] = p]
            /\ mem' = [mem EXCEPT ![s] = disk'[p]]
            /\ Acquired(w, s)
    /\ UNCHANGED <<host, calls, row, seen, out, latest, cpu, todo, upset, outdated, synced>>

\* operator[] marks page_, which acquire_page set to the page whose number is
\* that of the slot.
Mark(w) ==
    /\ pc[w] = "mark"
    /\ page' = [page EXCEPT ![got[w]].dirty = TRUE]
    /\ Goto(w, "use")
    /\ UNCHANGED <<host, calls, row, seen, got, out, ticket, used, trans, mem, disk, latest,
                   unmarked, cpu, todo, upset, outdated, synced>>

Write(w) ==
    /\ host \in {"store", "array"}
    /\ mem' = [mem EXCEPT ![got[w]] = calls]
    /\ latest' = [latest EXCEPT ![row[w]] = calls]
    /\ outdated' = IF cpu[row[w]] # None THEN outdated \cup {row[w]} ELSE outdated
    /\ UNCHANGED <<out, cpu>>

CopyToCpu(w) ==
    /\ host = "cpu"
    /\ cpu' = [cpu EXCEPT ![row[w]] = mem[got[w]]]
    /\ UNCHANGED <<out, mem, latest, outdated>>

Read(w) ==
    /\ host \in {"read", "tensor", "wait"}
    /\ out' = [out EXCEPT ![w] = mem[got[w]]]
    /\ UNCHANGED <<mem, latest, cpu, outdated>>

Use(w) ==
    /\ pc[w] = "use"
    /\ Write(w) \/ CopyToCpu(w) \/ Read(w)
    /\ Goto(w, "unload")
    /\ UNCHANGED <<host, calls, row, seen, got, page, ticket, used, trans, disk, unmarked,
                   todo, upset, synced>>

\* release_page loads the window counter ...
Unload(w) ==
    /\ pc[w] = "unload"
    /\ seen' = [seen EXCEPT ![w] = page[row[w]].win]
    /\ Goto(w, "release")
    /\ UNCHANGED <<host, calls, row, got, out, cacheVars, cpu, todo, upset, outdated, synced>>

\* ... takes the read off the counter, if it is announced ...
TakeOff(w) ==
    /\ pc[w] = "release" /\ seen[w] % Flag >= 1
    /\ page' = [page EXCEPT ![row[w]].win =
                  IF Last(w) = 1 THEN 0 ELSE set_window_buffer_counter(@, -1)]
    /\ upset' = IF Disturbs(w) THEN upset \cup {row[w]} ELSE upset
    /\ Goto(w, "drop")
    /\ UNCHANGED <<host, calls, row, seen, got, out, ticket, used, trans, mem, disk, latest,
                   unmarked, cpu, todo, outdated, synced>>

\* Mutant: the reference count is not lowered.
MutReleased(pg, last) == [pg EXCEPT !.cnt = @ - 1 - last]

Released(pg, last) == [pg EXCEPT !.cnt = @ - 1 - last, !.ref = @ - 1 - last]

\* ... and returns its references.
Release(w) ==
    /\ pc[w] = "drop" \/ (pc[w] = "release" /\ seen[w] % Flag = 0)
    /\ page' = [page EXCEPT ![row[w]] = Released(@, Last(w))]
    /\ Goto(w, "idle")
    /\ UNCHANGED <<host, calls, row, seen, got, out, ticket, used, trans, mem, disk, latest,
                   unmarked, cpu, todo, upset, outdated, synced>>

(***************************************************************************)
(* The end of a kernel, and flush.                                         *)
(***************************************************************************)
SyncDone == \A w \in Warps : pc[w] = "idle"
AsyncHeld == \A a \in AsyncWarps : pc[a] = "held"

\* cudaDeviceSynchronize; store_tensor flushes next.
KernelEnd ==
    /\ host \in {"read", "store", "array", "cpu", "tensor"} /\ SyncDone
    /\ host' = IF host = "store" THEN "flush" ELSE "idle"
    /\ todo' = IF host = "store" THEN Slots ELSE todo
    /\ UNCHANGED <<calls, warpVars, cacheVars, cpu, upset, outdated, synced>>

SubmitEnd ==
    /\ \/ host = "submit" /\ AsyncHeld /\ host' = "idle" /\ UNCHANGED pc
       \/ host = "read_async" /\ AsyncHeld /\ StartWait
    /\ UNCHANGED <<calls, row, seen, got, out, cacheVars, cpu, todo, upset, outdated, synced>>

WaitEnd ==
    /\ host = "wait" /\ AsyncIdle
    /\ host' = "idle"
    /\ UNCHANGED <<calls, warpVars, cacheVars, cpu, todo, upset, outdated, synced>>

\* __flush: the thread of a slot goes by page_translation, also when the slot
\* is FREE.
Flush(s) ==
    /\ host = "flush" /\ s \in todo
    /\ LET q == trans[s]
       IN IF page[q].dirty
          THEN /\ disk' = [disk EXCEPT ![q] = mem[s]]
               /\ page' = [page EXCEPT ![q].dirty = FALSE]
               /\ unmarked' = IF used[s] THEN unmarked ELSE unmarked \cup {q}
          ELSE UNCHANGED <<disk, page, unmarked>>
    /\ todo' = todo \ {s}
    /\ UNCHANGED <<host, calls, warpVars, ticket, used, trans, mem, latest, cpu, upset, outdated, synced>>

FlushEnd ==
    /\ host = "flush" /\ todo = {}
    /\ host' = "idle"
    /\ UNCHANGED <<calls, warpVars, cacheVars, cpu, todo, upset, outdated, synced>>

HostCall ==
    \/ read_feature \/ read_feature_hetero \/ read_feature_merged_hetero \/ read_feature_merged
    \/ read_feature_submit_async \/ read_feature_wait_async
    \/ store_tensor \/ array_write \/ read_tensor
    \/ set_cpu_buffer \/ set_window_buffering \/ flush_cache

Warp(w) ==
    \/ ReadCpu(w) \/ LoadCounter(w) \/ SetFlag(w) \/ CountIn(w) \/ Hit(w) \/ Miss(w)
    \/ Mark(w) \/ Use(w) \/ Unload(w) \/ TakeOff(w) \/ Release(w)

\* A count below zero borrows from the flags of the state word: the model ends.
Borrowed == \E p \in Pages : page[p].cnt < 0

Next ==
    /\ ~Borrowed
    /\ \/ HostCall \/ KernelEnd \/ SubmitEnd \/ WaitEnd \/ FlushEnd
       \/ \E s \in Slots : Flush(s)
       \/ \E w \in Procs : Warp(w)

Spec == Init /\ [][Next]_vars

-----------------------------------------------------------------------------
At(p, labels) == {w \in Procs : row[w] = p /\ pc[w] \in labels}
Holders(p) == At(p, {"look", "mark", "use", "held", "unload", "release", "drop"})

\* The references to a page are those of the warps that hold it, and the extra
\* one of the window buffer exactly while the flag of its counter is set, but
\* for the warps between their store to the counter and their use of the count
\* (acquire_page, release_page), if no store to the counter met another's load.
PinsConserved ==
    \A p \in Pages \ upset :
        page[p].cnt + Cardinality(At(p, {"ref"}))
            = Cardinality(Holders(p)) + page[p].win \div Flag
              + Cardinality({w \in At(p, {"drop"}) : Last(w) = 1})

\* ref_count and the count in the state word agree, so that the asynchronous
\* find_slot can evict a page nobody holds, as long as the page was never
\* accessed by a synchronous kernel, whose releases lower both counts although
\* its acquires raise only one.
AsyncCanEvict ==
    \A p \in Pages \ synced : page[p].ref = page[p].cnt

Current(p) == IF page[p].valid THEN mem[page[p].slot] ELSE disk[p]

\* The last version of a row is in the cache or on the SSD, unless the page
\* was evicted without its mark, a FREE slot was flushed in its place, or a
\* window counter was upset (find_slot, __flush).
StoredNotLost ==
    upset = {} => \A p \in Pages \ unmarked : Current(p) = latest[p]

\* What a reading kernel copies out is the row as it was stored last, from the
\* cache, the SSD or CPU memory, under the same conditions and unless the row
\* was stored again after it was copied to CPU memory.
ReadsStored ==
    upset = {} => \A w \in Procs :
        \/ out[w] = None \/ row[w] \in unmarked \cup outdated
        \/ out[w] = latest[row[w]]
=============================================================================
