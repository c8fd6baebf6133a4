------------------------- MODULE FeatureStoreProofs -------------------------
(***************************************************************************)
(* Proofs about FeatureStore, for any cache, number of warps and flag: the *)
(* window buffer's pins are conserved, a referenced page stays where it    *)
(* is, stores are not lost and reads return what was stored, each under    *)
(* the conditions that the property names.                                 *)
(*                                                                         *)
(* The argument: between a warp's load of a window counter and its store   *)
(* the counter keeps its value or the page is in upset (Loaded), and at    *)
(* most one warp is between the flag and the extra reference it announces  *)
(* (OneAtRef).  So a page whose count is zero has no holder, an eviction   *)
(* never meets one, and a holder's slot is the slot of its page (HoldsIt). *)
(***************************************************************************)
EXTENDS FeatureStore, FiniteSetTheorems, TLAPS

Window == 0 .. 2 * Flag - 1
SyncHosts == {"read", "store", "array", "cpu", "tensor"}
AsyncHosts == {"submit", "read_async", "wait"}
Labels == {"idle", "start", "count", "ref", "look", "mark", "use", "held", "unload", "release", "drop"}
PageType == [cnt : Int, ref : Int, valid : BOOLEAN, dirty : BOOLEAN, slot : Slots, win : Window]

Types ==
    /\ host \in SyncHosts \cup AsyncHosts \cup {"idle", "flush"}
    /\ pc \in [Procs -> Labels]
    /\ row \in [Procs -> Pages \cup {None}]
    /\ \A w \in Procs : pc[w] # "idle" => row[w] \in Pages
    /\ seen \in [Procs -> Window]
    /\ page \in [Pages -> PageType]

\* A warp moves only in a call of its kind; between the calls a request may be held.
Busy ==
    /\ host \in SyncHosts \/ SyncDone
    /\ host \in AsyncHosts \/ AsyncIdle \/ AsyncHeld

\* What a warp has loaded is still the counter when it stores by it.
Stores(w) == (pc[w] = "count" /\ Extra(w) = 1) \/ (pc[w] = "release" /\ seen[w] % Flag >= 1)
Loaded == \A w \in Procs : Stores(w) /\ row[w] \notin upset => page[row[w]].win = seen[w]

\* A warp that has set the flag will take the extra reference; nobody else of
\* its page has, and nobody returns it before.
OneAtRef ==
    /\ \A w \in Procs : pc[w] = "ref" => Extra(w) = 1
    /\ \A w \in Procs : pc[w] = "ref" /\ row[w] \notin upset =>
         /\ page[row[w]].win >= Flag
         /\ \A u \in Procs : pc[u] = "ref" /\ row[u] = row[w] => u = w

CountInv == Types /\ Busy /\ Loaded /\ OneAtRef /\ PinsConserved

\* A slot in use and its page know each other.
SlotsTyped == used \in [Slots -> BOOLEAN]

Placed ==
    /\ SlotsTyped /\ trans \in [Slots -> Pages]
    /\ \A p \in Pages : page[p].valid => used[page[p].slot] /\ trans[page[p].slot] = p
    /\ \A s \in Slots : used[s] => page[trans[s]].valid /\ page[trans[s]].slot = s

\* The slot of a warp is that of its page.
SlotLabels == {"mark", "use", "held", "unload", "release", "drop"}

HoldsIt ==
    upset = {} => \A w \in Procs :
        pc[w] \in SlotLabels => page[row[w]].valid /\ got[w] = page[row[w]].slot

\* Nothing is copied out while rows are stored.
Unread == host \in {"store", "array"} => \A w \in Procs : out[w] = None

\* A copy in CPU memory is the row as it was stored last.
CopiesTrue ==
    upset = {} => \A p \in Pages :
        cpu[p] = None \/ p \in unmarked \cup outdated \/ cpu[p] = latest[p]

DataType ==
    /\ mem \in [Slots -> Int] /\ disk \in [Pages -> Int] /\ latest \in [Pages -> Int]
    /\ cpu \in [Pages -> Int \cup {None}] /\ out \in [Procs -> Int \cup {None}]
    /\ got \in [Procs -> Slots \cup {None}]
    /\ \A w \in Procs : pc[w] \in SlotLabels => got[w] \in Slots
    /\ calls \in Nat

DataInv ==
    /\ CountInv /\ Placed /\ HoldsIt
    /\ DataType /\ StoredNotLost /\ Unread /\ CopiesTrue /\ ReadsStored

-----------------------------------------------------------------------------
\* The byte of the window counter: a flag above, a number below.
LEMMA Byte ==
    /\ \A x \in Window : /\ x \div Flag = IF x < Flag THEN 0 ELSE 1
                         /\ x % Flag = IF x < Flag THEN x ELSE x - Flag
                         /\ x % (2 * Flag) = x
    /\ \A x \in Int : x % (2 * Flag) \in Window
<1>1. \A x \in Window : x \div Flag = IF x < Flag THEN 0 ELSE 1
  BY StoreAssumption DEF Window
<1>2. \A x \in Window : x % Flag = IF x < Flag THEN x ELSE x - Flag
  BY StoreAssumption DEF Window
<1>3. \A x \in Window : x % (2 * Flag) = x
  BY StoreAssumption DEF Window
<1>4. \A x \in Int : x % (2 * Flag) \in Window
  BY StoreAssumption DEF Window
<1> QED BY <1>1, <1>2, <1>3, <1>4

\* The tests of acquire_page and release_page in terms of the number loaded.
LEMMA Tests ==
    ASSUME Types, NEW w \in Procs
    PROVE  /\ Extra(w) \in {0, 1} /\ (Extra(w) = 1 <=> seen[w] > 1 /\ seen[w] < Flag)
           /\ Last(w) \in {0, 1} /\ (Last(w) = 1 <=> seen[w] = Flag + 1)
           /\ seen[w] % Flag >= 1 <=> seen[w] # 0 /\ seen[w] # Flag
           /\ seen[w] % Flag = 0 <=> seen[w] = 0 \/ seen[w] = Flag
<1>1. seen[w] \in Window /\ seen[w] \in 0 .. 2 * Flag - 1
  BY DEF Types, Window
<1>2. seen[w] % Flag = IF seen[w] < Flag THEN seen[w] ELSE seen[w] - Flag
  BY <1>1, Byte
<1> QED BY <1>1, <1>2, StoreAssumption DEF Extra, Last

\* The counter that the array announces reads with, or that a release lowers.
LEMMA Lowered ==
    ASSUME NEW x \in Window, x # 0, x # Flag
    PROVE  /\ set_window_buffer_counter(x, -1) = x - 1 /\ x - 1 \in Window
           /\ (x - 1) \div Flag = x \div Flag
<1>1. x - 1 \in Window
  BY StoreAssumption DEF Window
<1>2. (x - 1) % (2 * Flag) = x - 1
  BY <1>1, Byte
<1>3. set_window_buffer_counter(x, -1) = x - 1
  BY <1>2 DEF set_window_buffer_counter
<1>4. (x - 1) \div Flag = x \div Flag
  <2>1. x - 1 < Flag <=> x < Flag
    BY StoreAssumption DEF Window
  <2>2. x \div Flag = (IF x < Flag THEN 0 ELSE 1) /\ (x - 1) \div Flag = IF x - 1 < Flag THEN 0 ELSE 1
    BY <1>1, Byte
  <2> QED BY <2>1, <2>2
<1> QED BY <1>1, <1>3, <1>4

-----------------------------------------------------------------------------
\* One field of a page changes.
LEMMA PageWin ==
    ASSUME page \in [Pages -> PageType], NEW p \in Pages, NEW x \in Window,
           page' = [page EXCEPT ![p].win = x]
    PROVE  /\ page' \in [Pages -> PageType]
           /\ \A q \in Pages : /\ page'[q].win = IF q = p THEN x ELSE page[q].win
                               /\ page'[q].cnt = page[q].cnt /\ page'[q].ref = page[q].ref
                               /\ page'[q].valid = page[q].valid /\ page'[q].dirty = page[q].dirty
                               /\ page'[q].slot = page[q].slot
<1> DEFINE r == [page[p] EXCEPT !.win = x]
<1>1. page[p] \in PageType
  OBVIOUS
<1>2. r \in PageType /\ r.win = x /\ r.cnt = page[p].cnt /\ r.ref = page[p].ref
      /\ r.valid = page[p].valid /\ r.dirty = page[p].dirty /\ r.slot = page[p].slot
  BY ONLY <1>1, x \in Window DEF PageType
<1>3. page' = [page EXCEPT ![p] = r]
  BY Zenon
<1> HIDE DEF r
<1> QED BY <1>2, <1>3

\* Whatever the new value is, the rest of the page stays.
LEMMA WinOnly ==
    ASSUME page \in [Pages -> PageType], NEW p \in Pages, NEW x, page' = [page EXCEPT ![p].win = x]
    PROVE  \A q \in Pages : /\ page'[q].cnt = page[q].cnt /\ page'[q].ref = page[q].ref
                            /\ page'[q].valid = page[q].valid /\ page'[q].slot = page[q].slot
<1> DEFINE r == [page[p] EXCEPT !.win = x]
<1>1. page[p] \in PageType
  OBVIOUS
<1>2. /\ r.cnt = page[p].cnt /\ r.ref = page[p].ref
      /\ r.valid = page[p].valid /\ r.slot = page[p].slot
  BY ONLY <1>1 DEF PageType
<1>3. page' = [page EXCEPT ![p] = r]
  BY Zenon
<1> HIDE DEF r
<1> QED BY <1>2, <1>3

LEMMA PageCount ==
    ASSUME page \in [Pages -> PageType], NEW p \in Pages, NEW a \in Int, NEW b \in Int,
           page' = [page EXCEPT ![p].cnt = a, ![p].ref = b]
    PROVE  /\ page' \in [Pages -> PageType]
           /\ \A q \in Pages : /\ page'[q].win = page[q].win
                               /\ page'[q].cnt = (IF q = p THEN a ELSE page[q].cnt)
                               /\ page'[q].ref = (IF q = p THEN b ELSE page[q].ref)
                               /\ page'[q].valid = page[q].valid /\ page'[q].dirty = page[q].dirty
                               /\ page'[q].slot = page[q].slot
<1> DEFINE r == [page[p] EXCEPT !.cnt = a, !.ref = b]
<1>1. page[p] \in PageType
  OBVIOUS
<1>2. r \in PageType /\ r.win = page[p].win /\ r.cnt = a /\ r.ref = b
      /\ r.valid = page[p].valid /\ r.dirty = page[p].dirty /\ r.slot = page[p].slot
  BY ONLY <1>1, a \in Int, b \in Int DEF PageType
<1>3. page' = [page EXCEPT ![p] = r]
  BY Zenon
<1> HIDE DEF r
<1> QED BY <1>2, <1>3

\* The mark of a page; operator[] gets its number from a slot's.
LEMMA PageMark ==
    ASSUME page \in [Pages -> PageType], NEW p, NEW b \in BOOLEAN,
           page' = [page EXCEPT ![p].dirty = b]
    PROVE  /\ page' \in [Pages -> PageType]
           /\ \A q \in Pages : /\ page'[q].win = page[q].win
                               /\ page'[q].cnt = page[q].cnt /\ page'[q].ref = page[q].ref
                               /\ page'[q].valid = page[q].valid /\ page'[q].slot = page[q].slot
<1> DEFINE r == [page[p] EXCEPT !.dirty = b]
<1>1. p \in Pages => page[p] \in PageType
  OBVIOUS
<1>2. p \in Pages => r \in PageType /\ r.win = page[p].win /\ r.cnt = page[p].cnt /\ r.ref = page[p].ref
                     /\ r.valid = page[p].valid /\ r.slot = page[p].slot
  BY ONLY <1>1, b \in BOOLEAN DEF PageType
<1>3. page' = [page EXCEPT ![p] = r]
  BY Zenon
<1> HIDE DEF r
<1> QED BY <1>2, <1>3

-----------------------------------------------------------------------------
\* Who is where when one warp moves.
Dropping(p) == {w \in At(p, {"drop"}) : Last(w) = 1}
HolderLabels == {"look", "mark", "use", "held", "unload", "release", "drop"}

Pins(p) ==
    page[p].cnt + Cardinality(At(p, {"ref"}))
        = Cardinality(Holders(p)) + page[p].win \div Flag + Cardinality(Dropping(p))

LEMMA PinsAre == PinsConserved <=> \A p \in Pages \ upset : Pins(p)
BY DEF PinsConserved, Pins, Dropping

LEMMA PinsAreNext == PinsConserved' <=> \A p \in Pages \ upset' : Pins(p)'
BY DEF PinsConserved, Pins, Dropping

LEMMA Countable == \A S \in SUBSET Procs : IsFiniteSet(S) /\ Cardinality(S) \in Nat
<1>1. IsFiniteSet(Procs)
  BY StoreAssumption, FS_Union DEF Procs
<1> QED BY <1>1, FS_Subset, FS_CardinalityType

LEMMA WarpSets ==
    \A p : /\ At(p, {"ref"}) \in SUBSET Procs /\ Holders(p) \in SUBSET Procs
           /\ Dropping(p) \in SUBSET Procs
           /\ At(p, {"ref"})' \in SUBSET Procs /\ Holders(p)' \in SUBSET Procs
           /\ Dropping(p)' \in SUBSET Procs
BY DEF At, Holders, Dropping

\* The warp w goes to the label b.
Moves(w, b) ==
    /\ pc' = [pc EXCEPT ![w] = b] /\ row' = row
    /\ \A u \in Procs : u # w => seen'[u] = seen[u]

LEMMA Moved ==
    ASSUME Types, NEW w \in Procs, NEW b \in Labels, Moves(w, b), NEW p
    PROVE  /\ row[w] # p => /\ At(p, {"ref"})' = At(p, {"ref"})
                            /\ Holders(p)' = Holders(p)
                            /\ Dropping(p)' = Dropping(p)
           /\ row[w] = p =>
                /\ At(p, {"ref"})' = IF b = "ref" THEN At(p, {"ref"}) \cup {w} ELSE At(p, {"ref"}) \ {w}
                /\ Holders(p)' = IF b \in HolderLabels THEN Holders(p) \cup {w} ELSE Holders(p) \ {w}
                /\ Dropping(p)' = IF b = "drop" /\ Last(w)' = 1 THEN Dropping(p) \cup {w}
                                                              ELSE Dropping(p) \ {w}
<1>1. \A u \in Procs : /\ pc'[u] = (IF u = w THEN b ELSE pc[u])
                       /\ u # w => Last(u)' = Last(u)
  BY DEF Moves, Types, Last
<1>2. \A L : At(p, L)' = IF row[w] # p THEN At(p, L)
                        ELSE IF b \in L THEN At(p, L) \cup {w} ELSE At(p, L) \ {w}
  BY <1>1 DEF Moves, At
<1>3. At(p, {"ref"})' = IF row[w] # p THEN At(p, {"ref"})
                        ELSE IF b = "ref" THEN At(p, {"ref"}) \cup {w} ELSE At(p, {"ref"}) \ {w}
  BY <1>2
<1>4. Holders(p)' = IF row[w] # p THEN Holders(p)
                    ELSE IF b \in HolderLabels THEN Holders(p) \cup {w} ELSE Holders(p) \ {w}
  BY <1>2 DEF Holders, HolderLabels
<1>5. At(p, {"drop"})' = IF row[w] # p THEN At(p, {"drop"})
                        ELSE IF b = "drop" THEN At(p, {"drop"}) \cup {w} ELSE At(p, {"drop"}) \ {w}
  BY <1>2
<1>6. \A u \in At(p, {"drop"}) : u \in Procs /\ row[u] = p
  BY DEF At
<1>7. row[w] # p => Dropping(p)' = Dropping(p)
  BY <1>1, <1>5, <1>6 DEF Dropping
<1>8. row[w] = p => Dropping(p)' = IF b = "drop" /\ Last(w)' = 1 THEN Dropping(p) \cup {w}
                                                               ELSE Dropping(p) \ {w}
  BY <1>1, <1>5, <1>6 DEF Dropping
<1> QED BY <1>3, <1>4, <1>7, <1>8

-----------------------------------------------------------------------------
\* What a step of a warp leaves alone.
LEMMA WarpFrame ==
    ASSUME Types, Busy, NEW w \in Procs, NEW b \in Labels, pc[w] \notin {"idle", "held"},
           Moves(w, b), host' = host, seen' \in [Procs -> Window], page' \in [Pages -> PageType]
    PROVE  Types' /\ Busy'
<1>1. \A u \in Procs : pc'[u] = IF u = w THEN b ELSE pc[u]
  BY DEF Moves, Types
<1>2. row[w] \in Pages
  BY DEF Types
<1>3. Types'
  BY <1>1, <1>2 DEF Types, Moves
<1>4. CASE w \in Warps
  <2>1. w \notin AsyncWarps /\ AsyncWarps \subseteq Procs
    BY <1>4, StoreAssumption DEF Procs
  <2>2. host \in SyncHosts
    BY <1>4 DEF Busy, SyncDone
  <2>3. \A a \in AsyncWarps : pc'[a] = pc[a]
    BY <1>1, <2>1
  <2>4. (AsyncIdle => AsyncIdle') /\ (AsyncHeld => AsyncHeld')
    BY <2>3 DEF AsyncIdle, AsyncHeld
  <2>5. Busy'
    BY <2>2, <2>4 DEF Busy
  <2> QED BY <1>3, <2>5
<1>5. CASE w \in AsyncWarps
  <2>1. w \notin Warps /\ Warps \subseteq Procs
    BY <1>5, StoreAssumption DEF Procs
  <2>2. host \in AsyncHosts
    BY <1>5 DEF Busy, AsyncIdle, AsyncHeld
  <2>3. \A a \in Warps : pc'[a] = pc[a]
    BY <1>1, <2>1
  <2>4. SyncDone => SyncDone'
    BY <2>3 DEF SyncDone
  <2>5. Busy'
    BY <2>2, <2>4 DEF Busy
  <2> QED BY <1>3, <2>5
<1> QED BY <1>3, <1>4, <1>5 DEF Procs

\* No window counter changes.
LEMMA WinStays ==
    ASSUME Types, Loaded, OneAtRef, NEW w \in Procs, NEW b \in Labels, Moves(w, b),
           b # "ref", upset' = upset, row[w] \in Pages,
           \A p \in Pages : page'[p].win = page[p].win,
           Stores(w)' => seen'[w] = page[row[w]].win
    PROVE  Loaded' /\ OneAtRef'
<1>1. \A u \in Procs : /\ pc'[u] = (IF u = w THEN b ELSE pc[u]) /\ row'[u] = row[u]
                       /\ u # w => seen'[u] = seen[u]
  BY DEF Moves, Types
<1>2. \A u \in Procs : pc[u] # "idle" => row[u] \in Pages
  BY DEF Types
<1>3. \A u \in Procs : u # w => (Stores(u)' <=> Stores(u)) /\ Extra(u)' = Extra(u)
  BY <1>1 DEF Stores, Extra
<1>4. \A u \in Procs : Stores(u) => row[u] \in Pages
  BY <1>2 DEF Stores
<1>5. Loaded'
  <2> SUFFICES ASSUME NEW u \in Procs, Stores(u)', row[u] \notin upset
               PROVE  page'[row[u]].win = seen'[u]
    BY <1>1 DEF Loaded
  <2> QED BY <1>1, <1>3, <1>4 DEF Loaded
<1>6. OneAtRef'
  <2>1. ASSUME NEW u \in Procs, pc'[u] = "ref" PROVE u # w /\ pc[u] = "ref" /\ row[u] \in Pages
    BY <1>1, <1>2, <2>1
  <2>2. ASSUME NEW u \in Procs, pc'[u] = "ref" PROVE Extra(u)' = 1
    BY <1>3, <2>1, <2>2 DEF OneAtRef
  <2>3. ASSUME NEW u \in Procs, pc'[u] = "ref", row'[u] \notin upset'
        PROVE  /\ page'[row'[u]].win >= Flag
               /\ \A v \in Procs : pc'[v] = "ref" /\ row'[v] = row'[u] => v = u
    BY <1>1, <2>1, <2>3 DEF OneAtRef
  <2> QED BY <2>2, <2>3 DEF OneAtRef
<1> QED BY <1>5, <1>6

\* No count changes, and the warp holds its page as before.
LEMMA PinsStay ==
    ASSUME Types, PinsConserved, NEW w \in Procs, NEW b \in Labels, Moves(w, b), upset' = upset,
           \A p \in Pages : page'[p].win = page[p].win /\ page'[p].cnt = page[p].cnt,
           pc[w] \notin {"ref", "drop"}, b \notin {"ref", "drop"},
           pc[w] \in HolderLabels <=> b \in HolderLabels
    PROVE  PinsConserved'
<1> SUFFICES ASSUME NEW p \in Pages, p \notin upset PROVE Pins(p)'
  BY PinsAreNext
<1>1. /\ w \notin At(p, {"ref"}) /\ w \notin Dropping(p)
      /\ row[w] = p => (w \in Holders(p) <=> b \in HolderLabels)
  BY DEF At, Dropping, Holders, HolderLabels
<1>2. At(p, {"ref"})' = At(p, {"ref"}) /\ Holders(p)' = Holders(p) /\ Dropping(p)' = Dropping(p)
  <2>1. CASE row[w] = p
    <3>1. /\ At(p, {"ref"})' = At(p, {"ref"}) \ {w}
          /\ Holders(p)' = (IF b \in HolderLabels THEN Holders(p) \cup {w} ELSE Holders(p) \ {w})
          /\ Dropping(p)' = Dropping(p) \ {w}
      BY <2>1, Moved
    <3>2. At(p, {"ref"})' = At(p, {"ref"}) /\ Dropping(p)' = Dropping(p)
      BY <1>1, <3>1
    <3>3. Holders(p)' = Holders(p)
      BY <1>1, <2>1, <3>1
    <3> QED BY <3>2, <3>3
  <2>2. CASE row[w] # p
    BY <2>2, Moved
  <2> QED BY <2>1, <2>2
<1>3. Pins(p)
  BY PinsAre
<1> QED BY <1>2, <1>3 DEF Pins

\* Steps between two labels of a holder, or of a warp that is none.
LEMMA Quiet ==
    ASSUME CountInv, NEW w \in Procs, NEW b \in Labels, Moves(w, b),
           pc[w] \notin {"idle", "held", "ref", "drop"}, b \notin {"ref", "drop"},
           pc[w] \in HolderLabels <=> b \in HolderLabels,
           host' = host, upset' = upset, seen' \in [Procs -> Window],
           page' \in [Pages -> PageType],
           \A p \in Pages : page'[p].win = page[p].win /\ page'[p].cnt = page[p].cnt,
           Stores(w)' => seen'[w] = page[row[w]].win
    PROVE  CountInv'
<1>1. row[w] \in Pages
  BY DEF CountInv, Types
<1>2. Types' /\ Busy'
  BY WarpFrame DEF CountInv
<1>3. Loaded' /\ OneAtRef'
  BY <1>1, WinStays DEF CountInv
<1>4. PinsConserved'
  BY PinsStay DEF CountInv
<1> QED BY <1>2, <1>3, <1>4 DEF CountInv

\* The warp's next label is none at which it stores to a counter.
LEMMA NoStore ==
    ASSUME Types, NEW w \in Procs, NEW b \in Labels, Moves(w, b), b \notin {"count", "release"}
    PROVE  ~Stores(w)'
BY DEF Types, Moves, Stores

LEMMA ReadCpuCount == ASSUME CountInv, NEW w \in Procs, ReadCpu(w) PROVE CountInv'
<1>1. /\ Moves(w, "idle") /\ "idle" \in Labels /\ pc[w] = "start"
      /\ UNCHANGED <<host, upset, seen, page>>
  BY DEF ReadCpu, Goto, Moves, Labels, cacheVars
<1>2. ~Stores(w)'
  BY <1>1, NoStore DEF CountInv
<1> QED BY <1>1, <1>2, Quiet DEF CountInv, Types, HolderLabels

LEMMA LoadCounterCount == ASSUME CountInv, NEW w \in Procs, LoadCounter(w) PROVE CountInv'
<1>1. row[w] \in Pages
  BY DEF LoadCounter, CountInv, Types
<1>2. page[row[w]].win \in Window
  BY <1>1 DEF CountInv, Types, PageType
<1>3. /\ seen' = [seen EXCEPT ![w] = page[row[w]].win] /\ pc' = [pc EXCEPT ![w] = "count"]
      /\ pc[w] = "start" /\ UNCHANGED <<host, row, upset, page>>
  BY DEF LoadCounter, Goto, cacheVars
<1>4. Moves(w, "count") /\ seen' \in [Procs -> Window] /\ seen'[w] = page[row[w]].win
  BY <1>2, <1>3 DEF Moves, CountInv, Types
<1>5. "count" \in Labels /\ "count" \notin HolderLabels /\ "start" \notin HolderLabels
  BY DEF Labels, HolderLabels
<1> QED BY <1>3, <1>4, <1>5, Quiet DEF CountInv, Types

LEMMA UnloadCount == ASSUME CountInv, NEW w \in Procs, Unload(w) PROVE CountInv'
<1>1. row[w] \in Pages
  BY DEF Unload, CountInv, Types
<1>2. page[row[w]].win \in Window
  BY <1>1 DEF CountInv, Types, PageType
<1>3. /\ seen' = [seen EXCEPT ![w] = page[row[w]].win] /\ pc' = [pc EXCEPT ![w] = "release"]
      /\ pc[w] = "unload" /\ UNCHANGED <<host, row, upset, page>>
  BY DEF Unload, Goto, cacheVars
<1>4. Moves(w, "release") /\ seen' \in [Procs -> Window] /\ seen'[w] = page[row[w]].win
  BY <1>2, <1>3 DEF Moves, CountInv, Types
<1>5. "release" \in Labels /\ "release" \in HolderLabels /\ "unload" \in HolderLabels
  BY DEF Labels, HolderLabels
<1> QED BY <1>3, <1>4, <1>5, Quiet DEF CountInv, Types

LEMMA UseCount == ASSUME CountInv, NEW w \in Procs, Use(w) PROVE CountInv'
<1>1. /\ Moves(w, "unload") /\ "unload" \in Labels /\ pc[w] = "use"
      /\ UNCHANGED <<host, upset, seen, page>>
  BY DEF Use, Goto, Moves, Labels
<1>2. ~Stores(w)'
  BY <1>1, NoStore DEF CountInv
<1> QED BY <1>1, <1>2, Quiet DEF CountInv, Types, HolderLabels

LEMMA MarkCount == ASSUME CountInv, NEW w \in Procs, Mark(w) PROVE CountInv'
<1>1. /\ Moves(w, "use") /\ "use" \in Labels /\ pc[w] = "mark"
      /\ UNCHANGED <<host, upset, seen>>
      /\ page' = [page EXCEPT ![got[w]].dirty = TRUE]
  BY DEF Mark, Goto, Moves, Labels
<1>2. ~Stores(w)'
  BY <1>1, NoStore DEF CountInv
<1> PICK g : g = got[w]
  OBVIOUS
<1>3. page' \in [Pages -> PageType] /\ \A p \in Pages : page'[p].win = page[p].win /\ page'[p].cnt = page[p].cnt
  BY <1>1, PageMark DEF CountInv, Types
<1> QED BY <1>1, <1>2, <1>3, Quiet DEF CountInv, Types, HolderLabels

\* The place a warp goes to with its slot.
LEMMA AcquiredMoves ==
    ASSUME NEW w \in Procs, NEW s, Acquired(w, s), UNCHANGED <<row, seen>>
    PROVE  \E b \in {"held", "mark", "use"} : Moves(w, b)
<1>1. PICK b : /\ b = (CASE w \in AsyncWarps -> "held"
                         [] w \in Warps /\ host \in Marking -> "mark"
                         [] OTHER -> "use")
              /\ pc' = [pc EXCEPT ![w] = b]
  BY DEF Acquired, Goto
<1>2. b \in {"held", "mark", "use"}
  BY <1>1
<1> QED BY <1>1, <1>2 DEF Moves

LEMMA HitCount == ASSUME CountInv, NEW w \in Procs, Hit(w) PROVE CountInv'
<1>1. /\ Acquired(w, page[row[w]].slot) /\ pc[w] = "look"
      /\ UNCHANGED <<host, upset, seen, row>>
      /\ page' = [page EXCEPT ![row[w]].dirty = @ \/ host = "array"]
  BY DEF Hit
<1> PICK g : g = page[row[w]].slot
  OBVIOUS
<1> PICK b \in {"held", "mark", "use"} : Moves(w, b)
  BY <1>1, AcquiredMoves
<1>2. b \in Labels /\ b \in HolderLabels /\ "look" \in HolderLabels
  BY DEF Labels, HolderLabels
<1>3. ~Stores(w)'
  BY <1>2, NoStore DEF CountInv
<1> PICK p : p = row[w]
  OBVIOUS
<1>4. (page[p].dirty \/ host = "array") \in BOOLEAN
  OBVIOUS
<1> PICK d \in BOOLEAN : d = (page[p].dirty \/ host = "array")
  BY <1>4
<1>5. page' = [page EXCEPT ![p].dirty = d]
  BY Zenon, <1>1
<1>6. page' \in [Pages -> PageType] /\ \A q \in Pages : page'[q].win = page[q].win /\ page'[q].cnt = page[q].cnt
  BY <1>5, PageMark DEF CountInv, Types
<1> QED BY <1>1, <1>2, <1>3, <1>6, Quiet DEF CountInv, Types

\* What a miss does, for its slot.
MissAt(w, s) ==
    /\ find_slot(w, s)
    /\ used' = [used EXCEPT ![s] = TRUE] /\ trans' = [trans EXCEPT ![s] = row[w]]
    /\ disk' = WrittenBack(s) /\ mem' = [mem EXCEPT ![s] = disk'[row[w]]]
    /\ unmarked' = IF used[s] /\ ~page[trans[s]].dirty /\ mem[s] # disk[trans[s]]
                   THEN unmarked \cup {trans[s]} ELSE unmarked
    /\ got' = [got EXCEPT ![w] = s]
    /\ page' \in [Pages -> PageType]
    /\ \A q \in Pages : /\ page'[q].win = page[q].win
                        /\ page'[q].cnt = page[q].cnt /\ page'[q].ref = page[q].ref
                        /\ q = row[w] => page'[q].valid /\ page'[q].slot = s
                        /\ q # row[w] => page'[q].slot = page[q].slot
                        /\ q # row[w] /\ used[s] /\ q = trans[s] => ~page'[q].valid /\ ~page'[q].dirty
                        /\ q # row[w] /\ ~(used[s] /\ q = trans[s]) => page'[q] = page[q]
    /\ Acquired(w, s)

LEMMA MissSlot ==
    ASSUME Types, used \in [Slots -> BOOLEAN], NEW w \in Procs, Miss(w)
    PROVE  \E s \in Slots : MissAt(w, s)
<1> PICK s \in Slots :
      /\ find_slot(w, s)
      /\ disk' = WrittenBack(s)
      /\ unmarked' = IF used[s] /\ ~page[trans[s]].dirty /\ mem[s] # disk[trans[s]]
                     THEN unmarked \cup {trans[s]} ELSE unmarked
      /\ page' = [q \in Pages |->
                    IF q = row[w] THEN [page[row[w]] EXCEPT !.valid = TRUE, !.slot = s,
                                                            !.dirty = @ \/ host = "array"]
                    ELSE IF used[s] /\ q = trans[s]
                    THEN [page[q] EXCEPT !.valid = FALSE, !.dirty = FALSE]
                    ELSE page[q]]
      /\ used' = [used EXCEPT ![s] = TRUE]
      /\ trans' = [trans EXCEPT ![s] = row[w]]
      /\ mem' = [mem EXCEPT ![s] = disk'[row[w]]]
      /\ Acquired(w, s)
  BY Zenon DEF Miss
<1> PICK p \in Pages : p = row[w]
  BY DEF Miss, Types
<1> PICK V : V = IF used[s] THEN {trans[s]} ELSE {}
  OBVIOUS
<1>1. (page[p].dirty \/ host = "array") \in BOOLEAN
  OBVIOUS
<1> PICK d \in BOOLEAN : d = (page[p].dirty \/ host = "array")
  BY <1>1
<1>2. page' = [q \in Pages |->
                  IF q = p THEN [page[p] EXCEPT !.valid = TRUE, !.slot = s, !.dirty = d]
                  ELSE IF q \in V THEN [page[q] EXCEPT !.valid = FALSE, !.dirty = FALSE]
                  ELSE page[q]]
  <2>1. \A q : q \in V <=> used[s] /\ q = trans[s]
    OBVIOUS
  <2> QED BY Zenon, <2>1
<1>3. got' = [got EXCEPT ![w] = s]
  BY DEF Acquired
<1>4. /\ page' \in [Pages -> PageType]
      /\ \A q \in Pages : /\ page'[q].win = page[q].win
                          /\ page'[q].cnt = page[q].cnt /\ page'[q].ref = page[q].ref
                          /\ q = p => page'[q].valid /\ page'[q].slot = s
                          /\ q # p => page'[q].slot = page[q].slot
                          /\ q # p /\ q \in V => ~page'[q].valid /\ ~page'[q].dirty
                          /\ q # p /\ q \notin V => page'[q] = page[q]
  <2>1. s \in Slots /\ d \in BOOLEAN /\ \A q \in Pages : page[q] \in PageType
    BY DEF Types
  <2>3. \A r \in PageType :
          LET x == [r EXCEPT !.valid = FALSE, !.dirty = FALSE]
          IN  x \in PageType /\ x.win = r.win /\ x.cnt = r.cnt /\ x.ref = r.ref /\ ~x.valid /\ ~x.dirty
              /\ x.slot = r.slot
    BY DEF PageType
  <2>4. \A q \in Pages : page'[q] = IF q = p THEN [page[p] EXCEPT !.valid = TRUE, !.slot = s, !.dirty = d]
                                   ELSE IF q \in V THEN [page[q] EXCEPT !.valid = FALSE, !.dirty = FALSE]
                                   ELSE page[q]
    BY Zenon, <1>2
  <2>5. ASSUME NEW q \in Pages
        PROVE  /\ page'[q] \in PageType /\ page'[q].win = page[q].win
               /\ page'[q].cnt = page[q].cnt /\ page'[q].ref = page[q].ref
               /\ q = p => page'[q].valid /\ page'[q].slot = s
               /\ q # p => page'[q].slot = page[q].slot
               /\ q # p /\ q \in V => ~page'[q].valid /\ ~page'[q].dirty
               /\ q # p /\ q \notin V => page'[q] = page[q]
    <3>1. CASE q = p
      <4>1. page'[q] = [page[q] EXCEPT !.valid = TRUE, !.slot = s, !.dirty = d]
        BY Zenon, <2>4, <3>1
      <4>2. page'[q] \in PageType /\ page'[q].win = page[q].win /\ page'[q].cnt = page[q].cnt
            /\ page'[q].ref = page[q].ref /\ page'[q].valid /\ page'[q].slot = s
        <5> PICK r \in PageType : r = page[q]
          BY <2>1
        <5> DEFINE x == [r EXCEPT !.valid = TRUE, !.slot = s, !.dirty = d]
        <5>1. x \in PageType /\ x.win = r.win /\ x.cnt = r.cnt /\ x.ref = r.ref /\ x.valid /\ x.slot = s
          BY ONLY r \in PageType, s \in Slots, d \in BOOLEAN DEF PageType
        <5>2. page'[q] = x
          BY ONLY <4>1, r = page[q], Zenon
        <5> HIDE DEF x
        <5> QED BY ONLY <5>1, <5>2, r = page[q]
      <4> QED BY ONLY <3>1, <4>2
    <3>2. CASE q # p /\ q \in V
      <4>1. page'[q] = [page[q] EXCEPT !.valid = FALSE, !.dirty = FALSE]
        BY Zenon, <2>4, <3>2
      <4> QED BY <2>1, <2>3, <3>2, <4>1
    <3>3. CASE q # p /\ q \notin V
      <4>1. page'[q] = page[q]
        BY Zenon, <2>4, <3>3
      <4> QED BY <2>1, <3>3, <4>1
    <3> QED BY <3>1, <3>2, <3>3
  <2>6. page' \in [Pages -> PageType]
    BY <2>5, Zenon
  <2> QED BY <2>5, <2>6
<1>5. MissAt(w, s)
  BY <1>3, <1>4 DEF MissAt
<1> QED BY <1>5

LEMMA MissCount ==
    ASSUME CountInv, used \in [Slots -> BOOLEAN], NEW w \in Procs, Miss(w)
    PROVE  CountInv'
<1>1. pc[w] = "look" /\ UNCHANGED <<host, upset, seen, row>>
  BY DEF Miss
<1> PICK s \in Slots : MissAt(w, s)
  BY MissSlot DEF CountInv
<1>2. /\ page' \in [Pages -> PageType] /\ Acquired(w, s)
      /\ \A q \in Pages : page'[q].win = page[q].win /\ page'[q].cnt = page[q].cnt
  BY DEF MissAt
<1> PICK b \in {"held", "mark", "use"} : Moves(w, b)
  BY <1>1, <1>2, AcquiredMoves
<1>3. b \in Labels /\ b \in HolderLabels /\ "look" \in HolderLabels
  BY DEF Labels, HolderLabels
<1>4. ~Stores(w)'
  BY <1>3, NoStore DEF CountInv
<1> QED BY <1>1, <1>2, <1>3, <1>4, Quiet DEF CountInv, Types

\* A page that is not the warp's.
LEMMA PinsOther ==
    ASSUME Types, PinsConserved, NEW w \in Procs, NEW b \in Labels, Moves(w, b),
           NEW q \in Pages, q # row[w], q \notin upset,
           page'[q].win = page[q].win, page'[q].cnt = page[q].cnt
    PROVE  Pins(q)'
<1>1. At(q, {"ref"})' = At(q, {"ref"}) /\ Holders(q)' = Holders(q) /\ Dropping(q)' = Dropping(q)
  BY Moved
<1>2. Pins(q)
  BY PinsAre
<1> QED BY <1>1, <1>2 DEF Pins

\* One warp more or less in a set.
LEMMA OneMore ==
    ASSUME NEW S \in SUBSET Procs, NEW w \in Procs
    PROVE  /\ w \notin S => Cardinality(S \cup {w}) = Cardinality(S) + 1
           /\ w \in S => Cardinality(S \ {w}) = Cardinality(S) - 1
           /\ w \notin S => S \ {w} = S
           /\ w \in S => S \cup {w} = S
<1>1. IsFiniteSet(S)
  BY Countable
<1> QED BY <1>1, FS_AddElement, FS_RemoveElement

\* What the pages of a state count.
LEMMA PinsNat ==
    \A p : /\ Cardinality(At(p, {"ref"})) \in Nat /\ Cardinality(Holders(p)) \in Nat
           /\ Cardinality(Dropping(p)) \in Nat
BY WarpSets, Countable

\* Somebody whose use of a counter w spoils makes the page upset.
LEMMA Spoils ==
    ASSUME NEW w \in Procs, NEW u \in Procs, u # w, row[u] = row[w], ~Disturbs(w)
    PROVE  ~Stores(u) /\ ~(pc[u] = "ref" /\ Last(w) = 1)
BY DEF Disturbs, Stores

LEMMA SetFlagCount == ASSUME CountInv, NEW w \in Procs, SetFlag(w) PROVE CountInv'
<1> PICK p \in Pages : p = row[w]
  BY DEF SetFlag, CountInv, Types
<1> PICK n \in Window : n = seen[w]
  BY DEF CountInv, Types
<1>1. pc[w] = "count" /\ Extra(w) = 1 /\ Types
  BY DEF SetFlag, CountInv
<1>2. n > 1 /\ n < Flag
  BY <1>1, Tests
<1>3. n + Flag \in Window /\ n \div Flag = 0 /\ (n + Flag) \div Flag = 1
  <2>1. n + Flag \in Window
    BY <1>2, StoreAssumption DEF Window
  <2>2. n + Flag \in Int /\ ~(n + Flag < Flag)
    BY <1>2, StoreAssumption DEF Window
  <2> QED BY <1>2, <2>1, <2>2, Byte
<1> PICK x \in Window : x = n + Flag
  BY <1>3
<1>4. /\ page' = [page EXCEPT ![p].win = x]
      /\ Moves(w, "ref") /\ UNCHANGED <<host, row, seen>>
      /\ upset' = IF Disturbs(w) THEN upset \cup {p} ELSE upset
  BY DEF SetFlag, Pinned, Goto, Moves
<1>5. /\ page' \in [Pages -> PageType]
      /\ \A q \in Pages : /\ page'[q].win = IF q = p THEN x ELSE page[q].win
                          /\ page'[q].cnt = page[q].cnt
  <2>1. page \in [Pages -> PageType] /\ page' = [page EXCEPT ![p].win = x]
    BY <1>1, <1>4 DEF Types
  <2> QED BY ONLY <2>1, p \in Pages, x \in Window, PageWin
<1>6. "ref" \in Labels
  BY DEF Labels
<1>7. Types' /\ Busy'
  BY <1>1, <1>4, <1>5, <1>6, WarpFrame DEF CountInv, Types
<1>8. p \notin upset' => p \notin upset /\ ~Disturbs(w) /\ page[p].win = n
  BY <1>1, <1>4 DEF CountInv, Loaded, Stores
<1>9. \A u \in Procs : /\ pc'[u] = (IF u = w THEN "ref" ELSE pc[u]) /\ row'[u] = row[u]
                       /\ (u # w => (Stores(u)' <=> Stores(u))) /\ Extra(u)' = Extra(u)
                       /\ ~Stores(w)'
  BY <1>1, <1>4 DEF Moves, Types, Stores, Extra
<1>10. \A u \in Procs : Stores(u) \/ pc[u] = "ref" => row[u] \in Pages
  BY <1>1 DEF Types, Stores
<1>11. Loaded'
  <2> SUFFICES ASSUME NEW u \in Procs, Stores(u)', row[u] \notin upset'
               PROVE  page'[row[u]].win = seen[u]
    BY <1>4, <1>9 DEF Loaded
  <2>1. u # w /\ Stores(u) /\ row[u] \notin upset /\ row[u] \in Pages
    BY <1>4, <1>9, <1>10
  <2>2. row[u] # p
    BY <1>8, <2>1, Spoils
  <2> QED BY <1>5, <2>1, <2>2 DEF CountInv, Loaded
<1>12. ASSUME NEW u \in Procs, pc[u] = "ref", row[u] = p, p \notin upset'
       PROVE  FALSE
  BY <1>2, <1>8, <1>12, StoreAssumption DEF CountInv, OneAtRef, Window
<1>13. OneAtRef'
  <2>1. ASSUME NEW u \in Procs, pc'[u] = "ref" PROVE Extra(u)' = 1
    BY <1>1, <1>9, <2>1 DEF CountInv, OneAtRef
  <2>2. ASSUME NEW u \in Procs, pc'[u] = "ref", row[u] \notin upset'
        PROVE  /\ page'[row[u]].win >= Flag
               /\ \A v \in Procs : pc'[v] = "ref" /\ row[v] = row[u] => v = u
    <3>1. CASE row[u] = p
      <4>1. page'[p].win >= Flag
        BY <1>2, <1>5, StoreAssumption DEF Window
      <4>2. \A v \in Procs : pc'[v] = "ref" /\ row[v] = p => v = w
        BY <1>9, <1>12, <2>2, <3>1
      <4> QED BY <2>2, <3>1, <4>1, <4>2
    <3>2. CASE row[u] # p
      <4>1. \A v \in Procs : pc'[v] = "ref" /\ row[v] = row[u] => pc[v] = "ref"
        BY <1>9, <3>2
      <4>2. pc[u] = "ref" /\ row[u] \notin upset /\ row[u] \in Pages
        BY <1>4, <1>10, <2>2, <4>1
      <4> QED BY <1>5, <3>2, <4>1, <4>2 DEF CountInv, OneAtRef
    <3> QED BY <3>1, <3>2
  <2> QED BY <1>9, <2>1, <2>2 DEF OneAtRef
<1>14. PinsConserved'
  <2>1. ASSUME p \notin upset' PROVE Pins(p)'
    <3>1. Pins(p)
      BY <1>8, <2>1, PinsAre DEF CountInv
    <3>2. w \notin At(p, {"ref"}) /\ w \notin Holders(p) /\ w \notin Dropping(p)
      BY <1>1 DEF At, Holders, Dropping
    <3>3. /\ At(p, {"ref"})' = At(p, {"ref"}) \cup {w} /\ Holders(p)' = Holders(p) \ {w}
          /\ Dropping(p)' = Dropping(p) \ {w}
      BY <1>1, <1>4, <1>6, Moved DEF HolderLabels
    <3>4. /\ Cardinality(At(p, {"ref"})') = Cardinality(At(p, {"ref"})) + 1
          /\ Holders(p)' = Holders(p) /\ Dropping(p)' = Dropping(p)
      BY <3>2, <3>3, OneMore, WarpSets
    <3>5. page[p].win \div Flag = 0 /\ page'[p].win \div Flag = 1 /\ page'[p].cnt = page[p].cnt
      BY <1>3, <1>5, <1>8, <2>1
    <3>6. page[p].cnt \in Int
      BY <1>1 DEF Types, PageType
    <3> QED BY <3>1, <3>4, <3>5, <3>6, PinsNat DEF Pins
  <2>2. ASSUME NEW q \in Pages \ upset', q # p PROVE Pins(q)'
    BY <1>1, <1>4, <1>5, <1>6, <2>2, PinsOther DEF CountInv
  <2> QED BY <2>1, <2>2, PinsAreNext
<1> QED BY <1>7, <1>11, <1>13, <1>14 DEF CountInv

LEMMA CountInPages ==
    ASSUME Types, NEW w \in Procs, CountIn(w)
    PROVE  /\ page' \in [Pages -> PageType]
           /\ \A q \in Pages : /\ page'[q].win = page[q].win
                               /\ page'[q].cnt = (IF q = row[w] THEN page[q].cnt + 1 + Extra(w) ELSE page[q].cnt)
                               /\ page'[q].ref = (IF q = row[w] /\ w \in AsyncWarps
                                                  THEN page[q].ref + 1 + Extra(w) ELSE page[q].ref)
                               /\ page'[q].valid = page[q].valid /\ page'[q].dirty = page[q].dirty
                               /\ page'[q].slot = page[q].slot
<1> PICK p \in Pages : p = row[w]
  BY DEF CountIn, Types
<1>1. page[p].cnt \in Int /\ page[p].ref \in Int /\ Extra(w) \in Int
  BY Tests DEF Types, PageType
<1> PICK a \in Int : a = page[p].cnt + 1 + Extra(w)
  BY <1>1
<1> PICK b \in Int : b = IF w \in AsyncWarps THEN page[p].ref + 1 + Extra(w) ELSE page[p].ref
  BY <1>1
<1>2. page' = [page EXCEPT ![p].cnt = a, ![p].ref = b]
  BY Zenon DEF CountIn
<1>3. page \in [Pages -> PageType]
  BY DEF Types
<1>4. /\ page' \in [Pages -> PageType]
      /\ \A q \in Pages : /\ page'[q].win = page[q].win
                          /\ page'[q].cnt = (IF q = p THEN a ELSE page[q].cnt)
                          /\ page'[q].ref = (IF q = p THEN b ELSE page[q].ref)
                          /\ page'[q].valid = page[q].valid /\ page'[q].dirty = page[q].dirty
                          /\ page'[q].slot = page[q].slot
  BY ONLY <1>2, <1>3, p \in Pages, a \in Int, b \in Int, PageCount
<1> QED BY <1>4

LEMMA CountInCount == ASSUME CountInv, NEW w \in Procs, CountIn(w) PROVE CountInv'
<1> PICK p \in Pages : p = row[w]
  BY DEF CountIn, CountInv, Types
<1>1. /\ Types /\ UNCHANGED <<host, row, seen, upset>> /\ Moves(w, "look")
      /\ pc[w] = "ref" \/ (pc[w] = "count" /\ Extra(w) = 0)
  BY DEF CountIn, CountInv, Goto, Moves
<1>2. /\ page' \in [Pages -> PageType]
      /\ \A q \in Pages : /\ page'[q].win = page[q].win
                          /\ page'[q].cnt = (IF q = p THEN page[q].cnt + 1 + Extra(w) ELSE page[q].cnt)
  BY <1>1, CountInPages
<1>3. "look" \in Labels /\ "look" \in HolderLabels
  BY DEF Labels, HolderLabels
<1>4. Types' /\ Busy'
  BY <1>1, <1>2, <1>3, WarpFrame DEF CountInv, Types
<1>5. ~Stores(w)'
  BY <1>1, <1>3, NoStore
<1>6. Loaded' /\ OneAtRef'
  BY <1>1, <1>2, <1>3, <1>5, WinStays DEF CountInv
<1>7. PinsConserved'
  <2>1. ASSUME p \notin upset' PROVE Pins(p)'
    <3>1. Pins(p)
      BY <1>1, <2>1, PinsAre DEF CountInv
    <3>2. w \notin Holders(p) /\ w \notin Dropping(p) /\ (w \in At(p, {"ref"}) <=> pc[w] = "ref")
      BY <1>1 DEF At, Holders, Dropping
    <3>3. /\ At(p, {"ref"})' = At(p, {"ref"}) \ {w} /\ Holders(p)' = Holders(p) \cup {w}
          /\ Dropping(p)' = Dropping(p) \ {w}
      BY <1>1, <1>3, Moved
    <3>4. /\ Cardinality(Holders(p)') = Cardinality(Holders(p)) + 1
          /\ Dropping(p)' = Dropping(p)
      BY <3>2, <3>3, OneMore, WarpSets
    <3>5. Cardinality(At(p, {"ref"})') = Cardinality(At(p, {"ref"})) - Extra(w)
      <4>1. CASE pc[w] = "ref"
        <5>1. Extra(w) = 1
          BY <4>1 DEF CountInv, OneAtRef
        <5>2. Cardinality(At(p, {"ref"}) \ {w}) = Cardinality(At(p, {"ref"})) - 1
          BY <3>2, <4>1, OneMore, WarpSets
        <5> QED BY <3>3, <5>1, <5>2
      <4>2. CASE pc[w] = "count" /\ Extra(w) = 0
        <5>1. At(p, {"ref"})' = At(p, {"ref"})
          BY <3>2, <3>3, <4>2
        <5>2. Cardinality(At(p, {"ref"})) \in Int
          BY PinsNat
        <5> QED BY <4>2, <5>1, <5>2
      <4> QED BY <1>1, <4>1, <4>2
    <3>6. page[p].cnt \in Int /\ Extra(w) \in {0, 1} /\ page[p].win \div Flag \in Int
      <4>1. page[p].cnt \in Int /\ page[p].win \in Window
        BY <1>1 DEF Types, PageType
      <4> QED BY <1>1, <4>1, Tests, Byte
    <3>7. page'[p].cnt = page[p].cnt + 1 + Extra(w) /\ page'[p].win = page[p].win
      BY <1>2
    <3> QED BY <3>1, <3>4, <3>5, <3>6, <3>7, PinsNat DEF Pins
  <2>2. ASSUME NEW q \in Pages \ upset', q # p PROVE Pins(q)'
    BY <1>1, <1>2, <1>3, <2>2, PinsOther DEF CountInv
  <2> QED BY <2>1, <2>2, PinsAreNext
<1> QED BY <1>4, <1>6, <1>7 DEF CountInv

LEMMA ReleasePages ==
    ASSUME Types, NEW w \in Procs, Release(w)
    PROVE  /\ page' \in [Pages -> PageType]
           /\ \A q \in Pages : /\ page'[q].win = page[q].win
                               /\ page'[q].cnt = (IF q = row[w] THEN page[q].cnt - 1 - Last(w) ELSE page[q].cnt)
                               /\ page'[q].ref = (IF q = row[w] THEN page[q].ref - 1 - Last(w) ELSE page[q].ref)
                               /\ page'[q].valid = page[q].valid /\ page'[q].dirty = page[q].dirty
                               /\ page'[q].slot = page[q].slot
<1> PICK p \in Pages : p = row[w]
  BY DEF Release, Types
<1>1. page[p].cnt \in Int /\ page[p].ref \in Int /\ Last(w) \in Int
  BY Tests DEF Types, PageType
<1> PICK a \in Int : a = page[p].cnt - 1 - Last(w)
  BY <1>1
<1> PICK b \in Int : b = page[p].ref - 1 - Last(w)
  BY <1>1
<1>2. page' = [page EXCEPT ![p].cnt = a, ![p].ref = b]
  BY Zenon DEF Release, Released
<1>3. page \in [Pages -> PageType]
  BY DEF Types
<1>4. /\ page' \in [Pages -> PageType]
      /\ \A q \in Pages : /\ page'[q].win = page[q].win
                          /\ page'[q].cnt = (IF q = p THEN a ELSE page[q].cnt)
                          /\ page'[q].ref = (IF q = p THEN b ELSE page[q].ref)
                          /\ page'[q].valid = page[q].valid /\ page'[q].dirty = page[q].dirty
                          /\ page'[q].slot = page[q].slot
  BY ONLY <1>2, <1>3, p \in Pages, a \in Int, b \in Int, PageCount
<1> QED BY <1>4

LEMMA ReleaseCount == ASSUME CountInv, NEW w \in Procs, Release(w) PROVE CountInv'
<1> PICK p \in Pages : p = row[w]
  BY DEF Release, CountInv, Types
<1>1. /\ Types /\ UNCHANGED <<host, row, seen, upset>> /\ Moves(w, "idle")
      /\ pc[w] = "drop" \/ (pc[w] = "release" /\ seen[w] % Flag = 0)
  BY DEF Release, CountInv, Goto, Moves
<1>2. /\ page' \in [Pages -> PageType]
      /\ \A q \in Pages : /\ page'[q].win = page[q].win
                          /\ page'[q].cnt = (IF q = p THEN page[q].cnt - 1 - Last(w) ELSE page[q].cnt)
  BY <1>1, ReleasePages
<1>3. "idle" \in Labels /\ "idle" \notin HolderLabels
  BY DEF Labels, HolderLabels
<1>4. Types' /\ Busy'
  BY <1>1, <1>2, <1>3, WarpFrame DEF CountInv, Types
<1>5. ~Stores(w)'
  BY <1>1, <1>3, NoStore
<1>6. Loaded' /\ OneAtRef'
  BY <1>1, <1>2, <1>3, <1>5, WinStays DEF CountInv
<1>7. Last(w) \in {0, 1} /\ (pc[w] = "release" => Last(w) = 0)
  BY <1>1, Tests, StoreAssumption
<1>8. PinsConserved'
  <2>1. ASSUME p \notin upset' PROVE Pins(p)'
    <3>1. Pins(p)
      BY <1>1, <2>1, PinsAre DEF CountInv
    <3>2. w \in Holders(p) /\ w \notin At(p, {"ref"}) /\ (w \in Dropping(p) <=> Last(w) = 1)
      BY <1>1, <1>7 DEF At, Holders, Dropping
    <3>3. /\ At(p, {"ref"})' = At(p, {"ref"}) \ {w} /\ Holders(p)' = Holders(p) \ {w}
          /\ Dropping(p)' = Dropping(p) \ {w}
      <4>1. /\ At(p, {"ref"})' = IF "idle" = "ref" THEN At(p, {"ref"}) \cup {w} ELSE At(p, {"ref"}) \ {w}
            /\ Holders(p)' = IF "idle" \in HolderLabels THEN Holders(p) \cup {w} ELSE Holders(p) \ {w}
            /\ Dropping(p)' = IF "idle" = "drop" /\ Last(w)' = 1 THEN Dropping(p) \cup {w}
                                                                ELSE Dropping(p) \ {w}
        BY <1>1, <1>3, Moved
      <4> QED BY <1>3, <4>1
    <3>4. /\ Cardinality(Holders(p)') = Cardinality(Holders(p)) - 1
          /\ At(p, {"ref"})' = At(p, {"ref"})
      <4>1. Cardinality(Holders(p) \ {w}) = Cardinality(Holders(p)) - 1
        BY <3>2, OneMore, WarpSets
      <4> QED BY <3>2, <3>3, <4>1
    <3>5. Cardinality(Dropping(p)') = Cardinality(Dropping(p)) - Last(w)
      <4>1. CASE Last(w) = 1
        <5>1. Cardinality(Dropping(p) \ {w}) = Cardinality(Dropping(p)) - 1
          BY <3>2, <4>1, OneMore, WarpSets
        <5> QED BY <3>3, <4>1, <5>1
      <4>2. CASE Last(w) = 0
        <5>1. Dropping(p)' = Dropping(p)
          BY <3>2, <3>3, <4>2
        <5>2. Cardinality(Dropping(p)) \in Int
          BY PinsNat
        <5> QED BY <4>2, <5>1, <5>2
      <4> QED BY <1>7, <4>1, <4>2
    <3>6. page[p].cnt \in Int /\ page[p].win \div Flag \in Int
      <4>1. page[p].cnt \in Int /\ page[p].win \in Window
        BY <1>1 DEF Types, PageType
      <4> QED BY <4>1, Byte
    <3>7. page'[p].cnt = page[p].cnt - 1 - Last(w) /\ page'[p].win = page[p].win
      BY <1>2
    <3> QED BY <1>7, <3>1, <3>4, <3>5, <3>6, <3>7, PinsNat DEF Pins
  <2>2. ASSUME NEW q \in Pages \ upset', q # p PROVE Pins(q)'
    BY <1>1, <1>2, <1>3, <2>2, PinsOther DEF CountInv
  <2> QED BY <2>1, <2>2, PinsAreNext
<1> QED BY <1>4, <1>6, <1>8 DEF CountInv
LEMMA TakeOffCount == ASSUME CountInv, NEW w \in Procs, TakeOff(w) PROVE CountInv'
<1> PICK p \in Pages : p = row[w]
  BY DEF TakeOff, CountInv, Types
<1> PICK n \in Window : n = seen[w]
  BY DEF CountInv, Types
<1>1. /\ Types /\ UNCHANGED <<host, row, seen>> /\ Moves(w, "drop")
      /\ pc[w] = "release" /\ seen[w] % Flag >= 1
      /\ upset' = IF Disturbs(w) THEN upset \cup {p} ELSE upset
  BY DEF TakeOff, CountInv, Goto, Moves
<1>2. n # 0 /\ n # Flag /\ Last(w) \in {0, 1} /\ (Last(w) = 1 <=> n = Flag + 1)
  BY <1>1, Tests
<1>3. page[p].win \in Window
  BY <1>1 DEF Types, PageType
<1>4. page[p].win + -1 \in Int
  BY <1>3, StoreAssumption DEF Window
<1>5. set_window_buffer_counter(page[p].win, -1) \in Window
  BY <1>4, Byte DEF set_window_buffer_counter
<1>6. 0 \in Window
  BY StoreAssumption DEF Window
<1> PICK x \in Window : x = IF Last(w) = 1 THEN 0 ELSE set_window_buffer_counter(page[p].win, -1)
  BY <1>5, <1>6
<1>7. page' = [page EXCEPT ![p].win = x]
  BY Zenon DEF TakeOff
<1>8. /\ page' \in [Pages -> PageType]
      /\ \A q \in Pages : /\ page'[q].win = IF q = p THEN x ELSE page[q].win
                          /\ page'[q].cnt = page[q].cnt
  <2>1. page \in [Pages -> PageType]
    BY <1>1 DEF Types
  <2> QED BY ONLY <1>7, <2>1, p \in Pages, x \in Window, PageWin
<1>9. "drop" \in Labels /\ "drop" \in HolderLabels
  BY DEF Labels, HolderLabels
<1>10. Types' /\ Busy'
  BY <1>1, <1>8, <1>9, WarpFrame DEF CountInv, Types
<1>11. p \notin upset' => p \notin upset /\ ~Disturbs(w) /\ page[p].win = n
  BY <1>1 DEF CountInv, Loaded, Stores
<1>12. Last(w) = 0 /\ p \notin upset' => x = n - 1 /\ x \div Flag = n \div Flag
  BY <1>2, <1>11, Lowered
<1>13. \A u \in Procs : /\ pc'[u] = (IF u = w THEN "drop" ELSE pc[u]) /\ row'[u] = row[u]
                        /\ (u # w => (Stores(u)' <=> Stores(u))) /\ Extra(u)' = Extra(u)
                        /\ ~Stores(w)'
  BY <1>1 DEF Moves, Types, Stores, Extra
<1>14. \A u \in Procs : Stores(u) \/ pc[u] = "ref" => row[u] \in Pages
  BY <1>1 DEF Types, Stores
<1>15. Loaded'
  <2> SUFFICES ASSUME NEW u \in Procs, Stores(u)', row[u] \notin upset'
               PROVE  page'[row[u]].win = seen[u]
    BY <1>1, <1>13 DEF Loaded
  <2>1. u # w /\ Stores(u) /\ row[u] \notin upset /\ row[u] \in Pages
    BY <1>1, <1>13, <1>14
  <2>2. row[u] # p
    BY <1>11, <2>1, Spoils
  <2> QED BY <1>8, <2>1, <2>2 DEF CountInv, Loaded
<1>16. OneAtRef'
  <2>1. ASSUME NEW u \in Procs, pc'[u] = "ref" PROVE u # w /\ pc[u] = "ref" /\ Extra(u)' = 1
    BY <1>13, <2>1 DEF CountInv, OneAtRef
  <2>2. ASSUME NEW u \in Procs, pc'[u] = "ref", row[u] \notin upset'
        PROVE  /\ page'[row[u]].win >= Flag
               /\ \A v \in Procs : pc'[v] = "ref" /\ row[v] = row[u] => v = u
    <3>1. row[u] \notin upset /\ row[u] \in Pages /\ u # w /\ pc[u] = "ref"
      BY <1>1, <1>14, <2>1, <2>2
    <3>2. \A v \in Procs : pc'[v] = "ref" /\ row[v] = row[u] => v = u
      BY <2>1, <3>1 DEF CountInv, OneAtRef
    <3>3. page[row[u]].win >= Flag
      BY <3>1 DEF CountInv, OneAtRef
    <3>4. CASE row[u] = p
      <4>1. Last(w) = 0
        BY <1>2, <1>11, <2>2, <3>1, <3>4, Spoils
      <4>2. n >= Flag /\ x = n - 1
        BY <1>11, <1>12, <2>2, <3>3, <3>4, <4>1
      <4>3. x >= Flag
        BY <1>2, <4>2, StoreAssumption DEF Window
      <4> QED BY <1>8, <3>2, <3>4, <4>3
    <3>5. CASE row[u] # p
      BY <1>8, <3>1, <3>2, <3>3, <3>5
    <3> QED BY <3>4, <3>5
  <2> QED BY <1>13, <2>1, <2>2 DEF OneAtRef
<1>17. PinsConserved'
  <2>1. ASSUME p \notin upset' PROVE Pins(p)'
    <3>1. Pins(p)
      BY <1>11, <2>1, PinsAre DEF CountInv
    <3>2. w \notin At(p, {"ref"}) /\ w \in Holders(p) /\ w \notin Dropping(p)
      BY <1>1 DEF At, Holders, Dropping
    <3>3. Last(w)' = Last(w)
      BY <1>1 DEF Last
    <3>4. /\ At(p, {"ref"})' = IF "drop" = "ref" THEN At(p, {"ref"}) \cup {w} ELSE At(p, {"ref"}) \ {w}
          /\ Holders(p)' = IF "drop" \in HolderLabels THEN Holders(p) \cup {w} ELSE Holders(p) \ {w}
          /\ Dropping(p)' = IF "drop" = "drop" /\ Last(w)' = 1 THEN Dropping(p) \cup {w}
                                                              ELSE Dropping(p) \ {w}
      BY <1>1, <1>9, Moved
    <3>5. At(p, {"ref"})' = At(p, {"ref"}) /\ Holders(p)' = Holders(p)
      BY <1>9, <3>2, <3>4
    <3>6. Cardinality(Dropping(p)') = Cardinality(Dropping(p)) + Last(w)
      <4>1. CASE Last(w) = 1
        <5>1. Cardinality(Dropping(p) \cup {w}) = Cardinality(Dropping(p)) + 1
          BY <3>2, OneMore, WarpSets
        <5> QED BY <3>3, <3>4, <4>1, <5>1
      <4>2. CASE Last(w) = 0
        <5>1. Dropping(p)' = Dropping(p)
          BY <3>2, <3>3, <3>4, <4>2
        <5>2. Cardinality(Dropping(p)) \in Int
          BY PinsNat
        <5> QED BY <4>2, <5>1, <5>2
      <4> QED BY <1>2, <4>1, <4>2
    <3>7. x \div Flag = (page[p].win \div Flag) - Last(w) /\ page[p].win \div Flag \in Int
      <4>1. page[p].win = n /\ n \div Flag = (IF n < Flag THEN 0 ELSE 1) /\ 0 \div Flag = 0
        <5>1. n \div Flag = (IF n < Flag THEN 0 ELSE 1) /\ 0 \div Flag = (IF 0 < Flag THEN 0 ELSE 1)
          BY <1>6, Byte
        <5> QED BY <1>11, <2>1, <5>1, StoreAssumption
      <4>2. CASE Last(w) = 1
        <5>1. x = 0 /\ ~(n < Flag)
          BY <1>2, <4>2, StoreAssumption
        <5> QED BY <4>1, <4>2, <5>1
      <4>3. CASE Last(w) = 0
        BY <1>12, <2>1, <4>1, <4>3
      <4> QED BY <1>2, <4>2, <4>3
    <3>8. page[p].cnt \in Int /\ page'[p].cnt = page[p].cnt /\ page'[p].win = x
      BY <1>1, <1>8 DEF Types, PageType
    <3> QED BY <1>2, <3>1, <3>5, <3>6, <3>7, <3>8, PinsNat DEF Pins
  <2>2. ASSUME NEW q \in Pages \ upset', q # p PROVE Pins(q)'
    BY <1>1, <1>8, <1>9, <2>2, PinsOther DEF CountInv
  <2> QED BY <2>1, <2>2, PinsAreNext
<1> QED BY <1>10, <1>15, <1>16, <1>17 DEF CountInv

\* A step of a warp.
LEMMA WarpCount ==
    ASSUME CountInv, used \in [Slots -> BOOLEAN], NEW w \in Procs, Warp(w) PROVE CountInv'
BY ReadCpuCount, LoadCounterCount, SetFlagCount, CountInCount, HitCount, MissCount, MarkCount,
   UseCount, UnloadCount, TakeOffCount, ReleaseCount DEF Warp
-----------------------------------------------------------------------------
\* Steps of the host: warps are started and resumed, no counter changes.
Resumes ==
    \A w \in Procs :
        /\ \/ pc'[w] = pc[w]
           \/ pc[w] = "idle" /\ pc'[w] = "start"
           \/ pc[w] = "held" /\ pc'[w] = "use"
        /\ row'[w] = row[w] \/ pc[w] = "idle"
        /\ pc'[w] # "idle" => row'[w] \in Pages

LEMMA ResumeCount ==
    ASSUME CountInv, Resumes, pc' \in [Procs -> Labels], row' \in [Procs -> Pages \cup {None}],
           UNCHANGED <<seen, upset>>, page' \in [Pages -> PageType],
           host' \in SyncHosts \cup AsyncHosts \cup {"idle", "flush"}, Busy',
           \A p \in Pages : page'[p].win = page[p].win /\ page'[p].cnt = page[p].cnt
    PROVE  CountInv'
<1>1. Types'
  BY DEF CountInv, Types, Resumes
<1>2. \A w \in Procs : /\ pc'[w] \notin {"idle", "start", "use"} => pc'[w] = pc[w] /\ row'[w] = row[w]
                       /\ Extra(w)' = Extra(w) /\ Last(w)' = Last(w)
  BY DEF Resumes, Extra, Last
<1>3. \A w \in Procs : /\ pc'[w] = "ref" => pc[w] = "ref" /\ row'[w] = row[w] /\ row[w] \in Pages
                       /\ Stores(w)' => Stores(w) /\ row'[w] = row[w] /\ row[w] \in Pages
  BY <1>2 DEF Stores, CountInv, Types
<1>4. Loaded'
  BY <1>3 DEF CountInv, Loaded
<1>5. OneAtRef'
  BY <1>2, <1>3 DEF CountInv, OneAtRef
<1>6. ASSUME NEW p \in Pages \ upset' PROVE Pins(p)'
  <2>1. At(p, {"ref"})' = At(p, {"ref"}) /\ At(p, {"drop"})' = At(p, {"drop"})
    BY DEF Resumes, At
  <2>2. Holders(p)' = Holders(p)
    BY DEF Resumes, At, Holders
  <2>3. Dropping(p)' = Dropping(p)
    <3>1. \A w \in At(p, {"drop"}) : w \in Procs
      BY DEF At
    <3> QED BY <1>2, <2>1, <3>1 DEF Dropping
  <2>4. Pins(p)
    BY <1>6, PinsAre DEF CountInv
  <2> QED BY <2>1, <2>2, <2>3, <2>4 DEF Pins
<1>7. PinsConserved'
  BY <1>6, PinsAreNext
<1> QED BY <1>1, <1>4, <1>5, <1>7 DEF CountInv

\* Between the calls.
LEMMA AtRest ==
    ASSUME Busy, Types, host = "idle"
    PROVE  /\ SyncDone /\ (AsyncIdle \/ AsyncHeld)
           /\ \A w \in Procs : pc[w] \in {"idle", "held"}
<1>1. SyncDone /\ (AsyncIdle \/ AsyncHeld)
  BY DEF Busy, SyncHosts, AsyncHosts
<1> QED BY <1>1 DEF SyncDone, AsyncIdle, AsyncHeld, Procs

LEMMA LaunchCount ==
    ASSUME CountInv, host = "idle", NEW kind, NEW D, NEW rows \in [D -> Pages], Launch(kind, rows),
           \/ kind \in SyncHosts /\ D \subseteq Warps
           \/ kind \in AsyncHosts /\ D \subseteq AsyncWarps /\ AsyncIdle
    PROVE  CountInv'
<1>1. SyncDone /\ (AsyncIdle \/ AsyncHeld) /\ Types
  BY AtRest DEF CountInv
<1>2. /\ host' = kind /\ UNCHANGED <<seen, page, upset>>
      /\ pc' = [w \in Procs |-> IF w \in D THEN "start" ELSE pc[w]]
      /\ row' = [w \in Procs |-> IF w \in D THEN rows[w] ELSE row[w]]
  BY DEF Launch, cacheVars
<1>3. \A w \in D : w \in Procs /\ pc[w] = "idle" /\ rows[w] \in Pages
  BY <1>1 DEF SyncDone, AsyncIdle, Procs
<1>4. pc' \in [Procs -> Labels] /\ row' \in [Procs -> Pages \cup {None}]
  BY <1>1, <1>2, <1>3 DEF Types, Labels
<1>5. Resumes
  BY <1>1, <1>2, <1>3 DEF Resumes, Types
<1>6. Busy'
  <2>1. Warps \subseteq Procs /\ AsyncWarps \subseteq Procs
    BY DEF Procs
  <2>2. CASE kind \in SyncHosts /\ D \subseteq Warps
    <3>1. \A a \in AsyncWarps : pc'[a] = pc[a]
      BY <1>2, <2>1, <2>2, StoreAssumption
    <3> QED BY <1>1, <1>2, <2>2, <3>1 DEF Busy, AsyncIdle, AsyncHeld
  <2>3. CASE kind \in AsyncHosts /\ D \subseteq AsyncWarps
    <3>1. \A a \in Warps : pc'[a] = pc[a]
      BY <1>2, <2>1, <2>3, StoreAssumption
    <3> QED BY <1>1, <1>2, <2>3, <3>1 DEF Busy, SyncDone
  <2> QED BY <2>2, <2>3
<1>7. page' \in [Pages -> PageType] /\ \A p \in Pages : page'[p].win = page[p].win /\ page'[p].cnt = page[p].cnt
  BY <1>1, <1>2 DEF Types
<1>8. host' \in SyncHosts \cup AsyncHosts \cup {"idle", "flush"}
  BY <1>2
<1> QED BY <1>2, <1>4, <1>5, <1>6, <1>7, <1>8, ResumeCount

\* The calls that start a kernel.
Launches ==
    \/ read_feature \/ read_feature_hetero \/ read_feature_merged_hetero \/ read_feature_merged
    \/ read_feature_submit_async \/ store_tensor \/ array_write \/ read_tensor \/ set_cpu_buffer

LEMMA LaunchForms ==
    ASSUME Launches
    PROVE  /\ host = "idle"
           /\ \E kind \in SyncHosts \cup AsyncHosts, D \in {Warps, AsyncWarps} \cup {{w} : w \in Warps} :
                 \E rows \in [D -> Pages] :
                    /\ Launch(kind, rows)
                    /\ \/ kind \in SyncHosts /\ D \subseteq Warps
                       \/ kind \in AsyncHosts /\ D \subseteq AsyncWarps /\ AsyncIdle
<1>1. host = "idle"
  BY DEF Launches, MayCall, read_feature, read_feature_hetero, read_feature_merged_hetero,
         read_feature_merged, read_feature_submit_async, store_tensor, array_write, read_tensor,
         set_cpu_buffer
<1>2. \/ \E kind \in {"read", "store", "array", "cpu"}, rows \in [Warps -> Pages] : Launch(kind, rows)
      \/ AsyncIdle /\ \E kind \in {"read_async", "submit"}, rows \in [AsyncWarps -> Pages] : Launch(kind, rows)
      \/ \E w \in Warps, p \in Pages : Launch("tensor", [v \in {w} |-> p])
  BY DEF Launches, read_feature, read_feature_hetero, read_feature_merged_hetero,
         read_feature_merged, read_feature_submit_async, store_tensor, array_write, read_tensor,
         set_cpu_buffer, SyncRows, AsyncRows
<1>3. CASE \E kind \in {"read", "store", "array", "cpu"}, rows \in [Warps -> Pages] : Launch(kind, rows)
  BY <1>1, <1>3 DEF SyncHosts
<1>4. CASE AsyncIdle /\ \E kind \in {"read_async", "submit"}, rows \in [AsyncWarps -> Pages] : Launch(kind, rows)
  BY <1>1, <1>4 DEF AsyncHosts
<1>5. CASE \E w \in Warps, p \in Pages : Launch("tensor", [v \in {w} |-> p])
  <2> PICK w \in Warps, p \in Pages : Launch("tensor", [v \in {w} |-> p])
    BY <1>5
  <2> DEFINE D == {w}
             rows == [v \in D |-> p]
  <2>1. rows \in [D -> Pages] /\ D \subseteq Warps /\ D \in {{v} : v \in Warps}
    OBVIOUS
  <2>2. Launch("tensor", rows) /\ "tensor" \in SyncHosts
    BY DEF SyncHosts
  <2> HIDE DEF D, rows
  <2> QED BY <1>1, <2>1, <2>2
<1> QED BY <1>2, <1>3, <1>4, <1>5

LEMMA LaunchesCount == ASSUME CountInv, Launches PROVE CountInv'
<1>1. host = "idle"
  BY LaunchForms
<1> PICK kind \in SyncHosts \cup AsyncHosts, D \in {Warps, AsyncWarps} \cup {{w} : w \in Warps} :
           \E rows \in [D -> Pages] :
               /\ Launch(kind, rows)
               /\ \/ kind \in SyncHosts /\ D \subseteq Warps
                  \/ kind \in AsyncHosts /\ D \subseteq AsyncWarps /\ AsyncIdle
  BY LaunchForms
<1> QED BY <1>1, LaunchCount
\* The wait kernel resumes the warps that hold their pages.
LEMMA WaitCount ==
    ASSUME CountInv, AsyncHeld, SyncDone, StartWait, UNCHANGED <<row, seen, page, upset>>
    PROVE  CountInv'
<1>1. AsyncWarps \subseteq Procs /\ Warps \subseteq Procs /\ Warps \cap AsyncWarps = {}
  BY StoreAssumption DEF Procs
<1>2. \A w \in Procs : /\ pc'[w] = (IF w \in AsyncWarps THEN "use" ELSE pc[w])
                       /\ w \in AsyncWarps => pc[w] = "held" /\ row[w] \in Pages
  BY DEF StartWait, AsyncHeld, CountInv, Types
<1>3. pc' \in [Procs -> Labels] /\ row' \in [Procs -> Pages \cup {None}]
  BY DEF StartWait, CountInv, Types, Labels
<1>4. Resumes
  BY <1>2 DEF Resumes, CountInv, Types
<1>5. Busy'
  BY <1>1, <1>2 DEF Busy, StartWait, SyncDone, AsyncHosts
<1>6. page' \in [Pages -> PageType] /\ \A p \in Pages : page'[p].win = page[p].win /\ page'[p].cnt = page[p].cnt
  BY DEF CountInv, Types
<1>7. host' \in SyncHosts \cup AsyncHosts \cup {"idle", "flush"}
  BY DEF StartWait, AsyncHosts
<1> QED BY <1>3, <1>4, <1>5, <1>6, <1>7, ResumeCount

\* The host goes on; the warps are where they were.
LEMMA HostOnly ==
    ASSUME CountInv, UNCHANGED <<pc, row, seen, upset>>, page' \in [Pages -> PageType],
           \A p \in Pages : page'[p].win = page[p].win /\ page'[p].cnt = page[p].cnt,
           host' \in {host, "idle", "flush"},
           host' # host => SyncDone /\ (AsyncIdle \/ AsyncHeld)
    PROVE  CountInv'
<1>1. Resumes
  BY DEF Resumes, CountInv, Types
<1>2. (SyncDone' <=> SyncDone) /\ (AsyncIdle' <=> AsyncIdle) /\ (AsyncHeld' <=> AsyncHeld)
  BY DEF SyncDone, AsyncIdle, AsyncHeld
<1>3. Busy'
  BY <1>2 DEF Busy, CountInv
<1> QED BY <1>1, <1>3, ResumeCount DEF CountInv, Types

LEMMA HostEndsCount ==
    ASSUME CountInv, KernelEnd \/ SubmitEnd \/ WaitEnd \/ FlushEnd \/ flush_cache \/ read_feature_wait_async
    PROVE  CountInv'
<1>1. page = page' => /\ page' \in [Pages -> PageType]
                      /\ \A p \in Pages : page'[p].win = page[p].win /\ page'[p].cnt = page[p].cnt
  BY DEF CountInv, Types
<1>2. CASE KernelEnd
  <2>1. host \notin AsyncHosts /\ SyncDone /\ host' \in {host, "idle", "flush"}
        /\ UNCHANGED <<pc, row, seen, upset, page>>
    BY <1>2 DEF KernelEnd, AsyncHosts, warpVars, cacheVars
  <2>2. AsyncIdle \/ AsyncHeld
    BY <2>1 DEF CountInv, Busy
  <2> QED BY <1>1, <2>1, <2>2, HostOnly
<1>3. CASE SubmitEnd
  <2>1. host \in {"submit", "read_async"} /\ AsyncHeld /\ UNCHANGED <<row, seen, upset, page>>
    BY <1>3 DEF SubmitEnd, cacheVars
  <2>2. SyncDone
    BY <2>1 DEF CountInv, Busy, SyncHosts
  <2>3. CASE host' = "idle" /\ UNCHANGED pc
    BY <1>1, <2>1, <2>2, <2>3, HostOnly
  <2>4. CASE StartWait
    BY <2>1, <2>2, <2>4, WaitCount
  <2> QED BY <1>3, <2>3, <2>4 DEF SubmitEnd
<1>4. CASE WaitEnd
  <2>1. host = "wait" /\ AsyncIdle /\ host' = "idle" /\ UNCHANGED <<pc, row, seen, upset, page>>
    BY <1>4 DEF WaitEnd, warpVars, cacheVars
  <2>2. SyncDone
    BY <2>1 DEF CountInv, Busy, SyncHosts
  <2> QED BY <1>1, <2>1, <2>2, HostOnly
<1>5. CASE FlushEnd
  <2>1. host = "flush" /\ host' = "idle" /\ UNCHANGED <<pc, row, seen, upset, page>>
    BY <1>5 DEF FlushEnd, warpVars, cacheVars
  <2>2. SyncDone /\ (AsyncIdle \/ AsyncHeld)
    BY <2>1 DEF CountInv, Busy, SyncHosts, AsyncHosts
  <2> QED BY <1>1, <2>1, <2>2, HostOnly
<1>6. CASE flush_cache
  <2>1. host = "idle" /\ host' = "flush" /\ UNCHANGED <<pc, row, seen, upset, page>>
    BY <1>6 DEF flush_cache, MayCall, cacheVars
  <2>2. SyncDone /\ (AsyncIdle \/ AsyncHeld)
    BY <2>1, AtRest DEF CountInv
  <2> QED BY <1>1, <2>1, <2>2, HostOnly
<1>7. CASE read_feature_wait_async
  <2>1. host = "idle" /\ ~AsyncIdle /\ StartWait /\ UNCHANGED <<row, seen, upset, page>>
    BY <1>7 DEF read_feature_wait_async, MayCall, cacheVars
  <2>2. SyncDone /\ AsyncHeld
    BY <2>1, AtRest DEF CountInv
  <2> QED BY <2>1, <2>2, WaitCount
<1> QED BY <1>2, <1>3, <1>4, <1>5, <1>6, <1>7

LEMMA FlushPages ==
    ASSUME Types, NEW s \in Slots, Flush(s)
    PROVE  /\ page' \in [Pages -> PageType]
           /\ \A p \in Pages : /\ page'[p].win = page[p].win /\ page'[p].cnt = page[p].cnt
                               /\ page'[p].ref = page[p].ref
                               /\ page'[p].valid = page[p].valid /\ page'[p].slot = page[p].slot
<1> PICK q : q = trans[s]
  OBVIOUS
<1>1. page' = [page EXCEPT ![q].dirty = FALSE] \/ page' = page
  BY DEF Flush
<1>2. page \in [Pages -> PageType]
  BY DEF Types
<1>3. CASE page' = [page EXCEPT ![q].dirty = FALSE]
  BY ONLY <1>2, <1>3, FALSE \in BOOLEAN, PageMark
<1>4. CASE page' = page
  BY <1>2, <1>4
<1> QED BY <1>1, <1>3, <1>4

LEMMA FlushCount == ASSUME CountInv, NEW s \in Slots, Flush(s) PROVE CountInv'
<1>1. UNCHANGED <<host, pc, row, seen, upset>>
  BY DEF Flush, warpVars
<1> QED BY <1>1, FlushPages, HostOnly DEF CountInv

\* Reads are announced between the calls, when nobody uses a counter it loaded.
LEMMA WindowCount == ASSUME CountInv, set_window_buffering PROVE CountInv'
<1>1. /\ UNCHANGED <<host, pc, row, seen>> /\ Types /\ host = "idle"
  BY DEF set_window_buffering, CountInv, MayCall
<1> PICK p \in Pages, n \in 1 .. 2 :
         /\ page' = [page EXCEPT ![p].win = set_window_buffer_counter(@, n)]
         /\ upset' = IF Wrapped(page[p].win, n) THEN upset \cup {p} ELSE upset
  BY DEF set_window_buffering
<1>2. page[p].win \in Window /\ page[p].win + n \in Int
  BY <1>1 DEF Types, PageType, Window
<1>3. set_window_buffer_counter(page[p].win, n) \in Window
  BY <1>2, Byte DEF set_window_buffer_counter
<1> PICK x \in Window : x = set_window_buffer_counter(page[p].win, n)
  BY <1>3
<1>4. page' = [page EXCEPT ![p].win = x]
  BY Zenon
<1>5. page \in [Pages -> PageType]
  BY <1>1 DEF Types
<1>6. /\ page' \in [Pages -> PageType]
      /\ \A q \in Pages : /\ page'[q].win = IF q = p THEN x ELSE page[q].win
                          /\ page'[q].cnt = page[q].cnt
  BY ONLY <1>4, <1>5, p \in Pages, x \in Window, PageWin
<1>7. upset \subseteq upset' /\ (p \notin upset' => page[p].win \div Flag = x \div Flag)
  BY DEF Wrapped
<1>8. \A w \in Procs : pc[w] \in {"idle", "held"}
  BY <1>1, AtRest DEF CountInv
<1>9. Types'
  BY <1>1, <1>6 DEF Types
<1>10. Busy'
  BY <1>1 DEF CountInv, Busy, SyncDone, AsyncIdle, AsyncHeld
<1>11. Loaded' /\ OneAtRef'
  BY <1>1, <1>8 DEF Loaded, OneAtRef, Stores
<1>12. ASSUME NEW q \in Pages \ upset' PROVE Pins(q)'
  <2>1. Pins(q)
    BY <1>7, <1>12, PinsAre DEF CountInv
  <2>2. At(q, {"ref"})' = At(q, {"ref"}) /\ Holders(q)' = Holders(q) /\ Dropping(q)' = Dropping(q)
    BY <1>1 DEF At, Holders, Dropping, Last
  <2>3. page'[q].win \div Flag = page[q].win \div Flag /\ page'[q].cnt = page[q].cnt
    BY <1>6, <1>7, <1>12
  <2> QED BY <2>1, <2>2, <2>3 DEF Pins
<1>13. PinsConserved'
  BY <1>12, PinsAreNext
<1> QED BY <1>9, <1>10, <1>11, <1>13 DEF CountInv

-----------------------------------------------------------------------------
LEMMA InitCount == Init => CountInv /\ SlotsTyped
<1> SUFFICES ASSUME Init PROVE CountInv /\ SlotsTyped
  OBVIOUS
<1>1. 0 \in Window /\ 0 \in Slots /\ 0 \div Flag = 0
  <2>1. 0 \in Window
    BY StoreAssumption DEF Window
  <2>2. 0 \div Flag = IF 0 < Flag THEN 0 ELSE 1
    BY <2>1, Byte
  <2> QED BY <2>1, <2>2, StoreAssumption DEF Slots
<1>2. Types
  BY <1>1 DEF Init, Types, PageType, Labels
<1>3. Busy
  BY DEF Init, Busy, SyncDone, AsyncIdle, Procs
<1>4. Loaded /\ OneAtRef
  BY DEF Init, Loaded, OneAtRef, Stores
<1>5. PinsConserved
  <2>1. \A p : At(p, {"ref"}) = {} /\ Holders(p) = {} /\ Dropping(p) = {}
    BY DEF Init, At, Holders, Dropping
  <2>2. Cardinality({}) = 0
    BY FS_EmptySet
  <2>3. \A p \in Pages : page[p].cnt = 0 /\ page[p].win = 0
    BY DEF Init
  <2>4. ASSUME NEW p \in Pages PROVE Pins(p)
    <3>1. /\ Cardinality(At(p, {"ref"})) = 0 /\ Cardinality(Holders(p)) = 0
          /\ Cardinality(Dropping(p)) = 0 /\ page[p].win \div Flag = 0
      BY <1>1, <2>1, <2>2, <2>3
    <3> QED BY <2>3, <3>1 DEF Pins
  <2> QED BY <2>4, PinsAre
<1>6. SlotsTyped
  BY DEF Init, SlotsTyped
<1> QED BY <1>2, <1>3, <1>4, <1>5, <1>6 DEF CountInv
LEMMA UsedTyped == ASSUME SlotsTyped, Next PROVE SlotsTyped'
<1>1. CASE HostCall \/ KernelEnd \/ SubmitEnd \/ WaitEnd \/ FlushEnd
  BY <1>1 DEF SlotsTyped, HostCall, read_feature, read_feature_hetero, read_feature_merged_hetero,
     read_feature_merged, read_feature_submit_async, read_feature_wait_async, store_tensor,
     array_write, read_tensor, set_cpu_buffer, set_window_buffering, flush_cache, Launch,
     KernelEnd, SubmitEnd, WaitEnd, FlushEnd, cacheVars
<1>2. ASSUME NEW s \in Slots, Flush(s) PROVE SlotsTyped'
  BY <1>2 DEF SlotsTyped, Flush
<1>3. ASSUME NEW w \in Procs, Warp(w) PROVE SlotsTyped'
  <2>1. CASE Miss(w)
    BY <2>1 DEF SlotsTyped, Miss
  <2>2. CASE ReadCpu(w) \/ LoadCounter(w) \/ SetFlag(w) \/ CountIn(w) \/ Hit(w)
    BY <2>2 DEF SlotsTyped, ReadCpu, LoadCounter, SetFlag, CountIn, Hit, cacheVars
  <2>3. CASE Mark(w) \/ Use(w) \/ Unload(w) \/ TakeOff(w) \/ Release(w)
    BY <2>3 DEF SlotsTyped, Mark, Use, Unload, TakeOff, Release, cacheVars
  <2> QED BY <1>3, <2>1, <2>2, <2>3 DEF Warp
<1> QED BY <1>1, <1>2, <1>3 DEF Next

LEMMA NextCount == CountInv /\ SlotsTyped /\ [Next]_vars => CountInv' /\ SlotsTyped'
<1> SUFFICES ASSUME CountInv, SlotsTyped, [Next]_vars PROVE CountInv' /\ SlotsTyped'
  OBVIOUS
<1>1. CASE UNCHANGED vars
  <2>1. UNCHANGED <<host, pc, row, seen, upset, page, used>>
    BY <1>1 DEF vars, warpVars, cacheVars
  <2>2. CountInv'
    BY <2>1, HostOnly DEF CountInv, Types
  <2> QED BY <2>1, <2>2 DEF SlotsTyped
<1>2. CASE Next
  <2>1. SlotsTyped'
    BY <1>2, UsedTyped
  <2>2. CASE HostCall
    <3>1. Launches \/ read_feature_wait_async \/ set_window_buffering \/ flush_cache
      BY <2>2 DEF HostCall, Launches
    <3> QED BY <2>1, <3>1, LaunchesCount, HostEndsCount, WindowCount
  <2>3. CASE KernelEnd \/ SubmitEnd \/ WaitEnd \/ FlushEnd
    BY <2>1, <2>3, HostEndsCount
  <2>4. ASSUME NEW s \in Slots, Flush(s) PROVE CountInv'
    BY <2>4, FlushCount
  <2>5. ASSUME NEW w \in Procs, Warp(w) PROVE CountInv'
    BY <2>5, WarpCount DEF SlotsTyped
  <2> QED BY <1>2, <2>1, <2>2, <2>3, <2>4, <2>5 DEF Next
<1> QED BY <1>1, <1>2

\* A page has as many references as holders, one more while the window buffer
\* pins it, unless a store to its counter met another warp's load.
THEOREM PinsAreConserved == Spec => []PinsConserved
<1>1. CountInv => PinsConserved
  BY DEF CountInv
<1> QED BY <1>1, InitCount, NextCount, PTL DEF Spec

-----------------------------------------------------------------------------
\* The two counts of a page move together, but in the acquire of a
\* synchronous kernel, and in no other step.
LEMMA CountsMove ==
    ASSUME CountInv, SlotsTyped, NEW w \in Procs, Warp(w), AsyncCanEvict
    PROVE  AsyncCanEvict'
<1>1. CASE CountIn(w)
  <2>1. \A q \in Pages : /\ page'[q].cnt = (IF q = row[w] THEN page[q].cnt + 1 + Extra(w) ELSE page[q].cnt)
                         /\ page'[q].ref = (IF q = row[w] /\ w \in AsyncWarps
                                            THEN page[q].ref + 1 + Extra(w) ELSE page[q].ref)
    BY <1>1, CountInPages DEF CountInv
  <2>2. synced' = IF w \in Warps THEN synced \cup {row[w]} ELSE synced
    BY <1>1 DEF CountIn
  <2>3. w \in Warps \/ w \in AsyncWarps
    BY DEF Procs
  <2> QED BY <2>1, <2>2, <2>3 DEF AsyncCanEvict
<1>2. CASE Release(w)
  <2>1. \A q \in Pages : /\ page'[q].cnt = (IF q = row[w] THEN page[q].cnt - 1 - Last(w) ELSE page[q].cnt)
                         /\ page'[q].ref = (IF q = row[w] THEN page[q].ref - 1 - Last(w) ELSE page[q].ref)
    BY <1>2, ReleasePages DEF CountInv
  <2>2. synced' = synced
    BY <1>2 DEF Release
  <2> QED BY <2>1, <2>2 DEF AsyncCanEvict
<1>3. CASE SetFlag(w) \/ TakeOff(w)
  <2> PICK p \in Pages : p = row[w]
    BY <1>3 DEF SetFlag, TakeOff, CountInv, Types
  <2>1. synced' = synced /\ \E x : page' = [page EXCEPT ![p].win = x]
    BY <1>3, Zenon DEF SetFlag, TakeOff
  <2> PICK x : page' = [page EXCEPT ![p].win = x]
    BY <2>1
  <2>2. page \in [Pages -> PageType]
    BY DEF CountInv, Types
  <2> QED BY <2>1, <2>2, WinOnly DEF AsyncCanEvict
<1>4. CASE Hit(w) \/ Mark(w)
  <2>1. synced' = synced /\ \E p : page' = [page EXCEPT ![p].dirty = TRUE]
                                   \/ page' = [page EXCEPT ![p].dirty = @ \/ host = "array"]
    BY <1>4, Zenon DEF Hit, Mark
  <2> PICK p : page' = [page EXCEPT ![p].dirty = TRUE] \/ page' = [page EXCEPT ![p].dirty = @ \/ host = "array"]
    BY <2>1
  <2>2. (page[p].dirty \/ host = "array") \in BOOLEAN
    OBVIOUS
  <2> PICK d \in BOOLEAN : page' = [page EXCEPT ![p].dirty = d]
    BY Zenon, <2>2
  <2>3. page \in [Pages -> PageType]
    BY DEF CountInv, Types
  <2>4. \A q \in Pages : page'[q].cnt = page[q].cnt /\ page'[q].ref = page[q].ref
    BY ONLY <2>3, d \in BOOLEAN, page' = [page EXCEPT ![p].dirty = d], PageMark
  <2> QED BY <2>1, <2>4 DEF AsyncCanEvict
<1>5. CASE Miss(w)
  <2>1. \A q \in Pages : page'[q].cnt = page[q].cnt /\ page'[q].ref = page[q].ref
    BY <1>5, MissSlot DEF CountInv, SlotsTyped, MissAt
  <2> QED BY <1>5, <2>1 DEF Miss, AsyncCanEvict
<1>6. CASE ReadCpu(w) \/ LoadCounter(w) \/ Use(w) \/ Unload(w)
  BY <1>6 DEF ReadCpu, LoadCounter, Use, Unload, cacheVars, AsyncCanEvict
<1> QED BY <1>1, <1>2, <1>3, <1>4, <1>5, <1>6 DEF Warp

\* A page that only asynchronous requests have accessed can be evicted by them
\* whenever nobody holds it: ref_count and the count in the state word agree.
THEOREM CountsAgree == Spec => []AsyncCanEvict
<1>1. Init => AsyncCanEvict
  BY DEF Init, AsyncCanEvict
<1>2. CountInv /\ SlotsTyped /\ AsyncCanEvict /\ [Next]_vars => AsyncCanEvict'
  <2> SUFFICES ASSUME CountInv, SlotsTyped, AsyncCanEvict, [Next]_vars PROVE AsyncCanEvict'
    OBVIOUS
  <2>1. CASE UNCHANGED vars
    BY <2>1 DEF vars, cacheVars, AsyncCanEvict
  <2>2. CASE Launches \/ read_feature_wait_async \/ flush_cache
    BY <2>2 DEF AsyncCanEvict, Launches, read_feature, read_feature_hetero, read_feature_merged_hetero,
       read_feature_merged, read_feature_submit_async, read_feature_wait_async, store_tensor,
       array_write, read_tensor, set_cpu_buffer, flush_cache, Launch, cacheVars
  <2>3. CASE KernelEnd \/ SubmitEnd \/ WaitEnd \/ FlushEnd
    BY <2>3 DEF AsyncCanEvict, KernelEnd, SubmitEnd, WaitEnd, FlushEnd, cacheVars
  <2>4. CASE set_window_buffering
    <3> PICK p \in Pages, n \in 1 .. 2 : page' = [page EXCEPT ![p].win = set_window_buffer_counter(@, n)]
      BY <2>4 DEF set_window_buffering
    <3> PICK x : x = set_window_buffer_counter(page[p].win, n)
      OBVIOUS
    <3>1. page' = [page EXCEPT ![p].win = x]
      BY Zenon
    <3>2. page \in [Pages -> PageType] /\ synced' = synced
      BY <2>4 DEF CountInv, Types, set_window_buffering
    <3> QED BY <3>1, <3>2, WinOnly DEF AsyncCanEvict
  <2>5. ASSUME NEW s \in Slots, Flush(s) PROVE AsyncCanEvict'
    <3>1. synced' = synced
      BY <2>5 DEF Flush
    <3> QED BY <2>5, <3>1, FlushPages DEF CountInv, AsyncCanEvict
  <2>6. ASSUME NEW w \in Procs, Warp(w) PROVE AsyncCanEvict'
    BY <2>6, CountsMove
  <2> QED BY <2>1, <2>2, <2>3, <2>4, <2>5, <2>6 DEF Next, HostCall, Launches
<1> QED BY <1>1, <1>2, InitCount, NextCount, PTL DEF Spec
-----------------------------------------------------------------------------
\* A step that neither fills a slot nor empties one.
PagesKept ==
    \A q \in Pages : page'[q].valid = page[q].valid /\ page'[q].slot = page[q].slot

LEMMA CacheKept ==
    ASSUME Types, Placed, HoldsIt, PagesKept, UNCHANGED <<used, trans>>, upset \subseteq upset',
           \A u \in Procs : pc'[u] \in SlotLabels => /\ pc[u] \in SlotLabels
                                                     /\ got'[u] = got[u] /\ row'[u] = row[u]
    PROVE  Placed' /\ HoldsIt'
<1>1. \A u \in Procs : pc[u] \in SlotLabels => row[u] \in Pages
  BY DEF Types, SlotLabels
<1>2. Placed'
  BY DEF Placed, PagesKept, SlotsTyped
<1>3. HoldsIt'
  BY <1>1 DEF HoldsIt, PagesKept
<1> QED BY <1>2, <1>3

\* A step that leaves alone what is stored.
LEMMA StoredKept ==
    ASSUME StoredNotLost, CopiesTrue, PagesKept, UNCHANGED <<mem, disk, latest, cpu, outdated>>,
           upset \subseteq upset', unmarked \subseteq unmarked'
    PROVE  StoredNotLost' /\ CopiesTrue'
<1>1. \A p \in Pages : Current(p)' = Current(p)
  BY DEF Current, PagesKept
<1>2. StoredNotLost'
  BY <1>1 DEF StoredNotLost
<1>3. CopiesTrue'
  BY DEF CopiesTrue
<1> QED BY <1>2, <1>3

\* ... and what was read.
LEMMA ReadKept ==
    ASSUME ReadsStored, Unread, UNCHANGED <<out, row, latest, outdated>>,
           host' = host \/ host' \notin {"store", "array"},
           upset \subseteq upset', unmarked \subseteq unmarked'
    PROVE  ReadsStored' /\ Unread'
BY DEF ReadsStored, Unread

LEMMA ReadReset ==
    ASSUME out' = [u \in Procs |-> None]
    PROVE  ReadsStored' /\ Unread'
BY DEF ReadsStored, Unread

\* Steps that read and write no data.
LEMMA Kept ==
    ASSUME DataInv, CountInv', PagesKept,
           UNCHANGED <<used, trans, mem, disk, latest, cpu, got, outdated>>,
           upset \subseteq upset', unmarked \subseteq unmarked', calls' \in Nat,
           \A u \in Procs : pc'[u] \in SlotLabels => pc[u] \in SlotLabels /\ row'[u] = row[u],
           \/ UNCHANGED <<out, row>> /\ (host' = host \/ host' \notin {"store", "array"})
           \/ out' = [u \in Procs |-> None]
    PROVE  DataInv'
<1>1. Placed' /\ HoldsIt'
  BY CacheKept DEF DataInv, CountInv
<1>2. StoredNotLost' /\ CopiesTrue'
  BY StoredKept DEF DataInv
<1>3. ReadsStored' /\ Unread'
  BY ReadKept, ReadReset DEF DataInv
<1>4. DataType'
  BY DEF DataInv, DataType
<1> QED BY <1>1, <1>2, <1>3, <1>4 DEF DataInv

\* A warp at none of these steps touches data.
LEMMA KeepingData ==
    ASSUME DataInv, CountInv', NEW w \in Procs,
           LoadCounter(w) \/ SetFlag(w) \/ CountIn(w) \/ Mark(w) \/ Unload(w) \/ TakeOff(w) \/ Release(w)
    PROVE  DataInv'
<1>1. page \in [Pages -> PageType] /\ pc \in [Procs -> Labels] /\ Types /\ calls \in Nat
  BY DEF DataInv, DataType, CountInv, Types
<1>2. /\ UNCHANGED <<host, calls, row, got, out, used, trans, mem, disk, latest, unmarked, cpu, outdated>>
      /\ \E b : pc' = [pc EXCEPT ![w] = b] /\ (b \in SlotLabels => pc[w] \in SlotLabels)
  BY DEF LoadCounter, SetFlag, CountIn, Mark, Unload, TakeOff, Release, Goto, cacheVars, SlotLabels
<1>3. upset \subseteq upset'
  BY DEF LoadCounter, SetFlag, CountIn, Mark, Unload, TakeOff, Release
<1>4. PagesKept
  <2>1. CASE LoadCounter(w) \/ Unload(w)
    BY <2>1 DEF LoadCounter, Unload, cacheVars, PagesKept
  <2>2. CASE SetFlag(w) \/ TakeOff(w)
    <3> PICK p \in Pages : p = row[w]
      BY <1>1, <2>2 DEF SetFlag, TakeOff, Types
    <3> PICK x : page' = [page EXCEPT ![p].win = x]
      BY <2>2, Zenon DEF SetFlag, TakeOff
    <3> QED BY <1>1, WinOnly DEF PagesKept
  <2>3. CASE CountIn(w)
    BY <1>1, <2>3, CountInPages DEF PagesKept
  <2>4. CASE Release(w)
    BY <1>1, <2>4, ReleasePages DEF PagesKept
  <2>5. CASE Mark(w)
    <3> PICK g : g = got[w]
      OBVIOUS
    <3>1. page' = [page EXCEPT ![g].dirty = TRUE]
      BY <2>5 DEF Mark
    <3> QED BY <1>1, <3>1, PageMark DEF PagesKept
  <2> QED BY <2>1, <2>2, <2>3, <2>4, <2>5
<1>5. \A u \in Procs : pc'[u] \in SlotLabels => pc[u] \in SlotLabels /\ row'[u] = row[u]
  BY <1>1, <1>2
<1> QED BY <1>1, <1>2, <1>3, <1>4, <1>5, Kept

\* The calls and the ends of the kernels.
LEMMA HostData ==
    ASSUME DataInv, CountInv', HostCall \/ KernelEnd \/ SubmitEnd \/ WaitEnd \/ FlushEnd \/ UNCHANGED vars
    PROVE  DataInv'
<1>1. page \in [Pages -> PageType] /\ Types /\ calls \in Nat /\ calls + 1 \in Nat
  BY DEF DataInv, DataType, CountInv, Types
<1>2. CASE Launches
  <2>1. host = "idle"
    BY <1>2, LaunchForms
  <2> PICK kind \in SyncHosts \cup AsyncHosts, D \in {Warps, AsyncWarps} \cup {{w} : w \in Warps} :
           \E rows \in [D -> Pages] :
               /\ Launch(kind, rows)
               /\ \/ kind \in SyncHosts /\ D \subseteq Warps
                  \/ kind \in AsyncHosts /\ D \subseteq AsyncWarps /\ AsyncIdle
    BY <1>2, LaunchForms
  <2> PICK rows \in [D -> Pages] :
               /\ Launch(kind, rows)
               /\ \/ kind \in SyncHosts /\ D \subseteq Warps
                  \/ kind \in AsyncHosts /\ D \subseteq AsyncWarps /\ AsyncIdle
    OBVIOUS
  <2>2. /\ UNCHANGED <<used, trans, mem, disk, latest, cpu, got, outdated, upset, unmarked, page>>
        /\ calls' = calls + 1 /\ out' = [w \in Procs |-> None]
        /\ pc' = [w \in Procs |-> IF w \in D THEN "start" ELSE pc[w]]
        /\ row' = [w \in Procs |-> IF w \in D THEN rows[w] ELSE row[w]]
    BY DEF Launch, cacheVars
  <2>3. \A u \in Procs : pc'[u] \in SlotLabels => pc[u] \in SlotLabels /\ row'[u] = row[u]
    BY <2>2 DEF SlotLabels
  <2>4. PagesKept
    BY <2>2 DEF PagesKept
  <2> QED BY <1>1, <2>2, <2>3, <2>4, Kept
<1>3. CASE read_feature_wait_async
  <2>1. /\ UNCHANGED <<used, trans, mem, disk, latest, cpu, got, outdated, upset, unmarked, page, row>>
        /\ calls' = calls + 1 /\ out' = [w \in Procs |-> None] /\ StartWait
        /\ host = "idle" /\ ~AsyncIdle
    BY <1>3 DEF read_feature_wait_async, cacheVars, MayCall
  <2>2. AsyncHeld
    BY <2>1, AtRest DEF DataInv, CountInv
  <2>3. \A u \in Procs : pc'[u] \in SlotLabels => pc[u] \in SlotLabels /\ row'[u] = row[u]
    BY <2>1, <2>2 DEF SlotLabels, StartWait, AsyncHeld
  <2>4. PagesKept
    BY <2>1 DEF PagesKept
  <2> QED BY <1>1, <2>1, <2>3, <2>4, Kept
<1>4. CASE flush_cache
  <2>1. /\ UNCHANGED <<used, trans, mem, disk, latest, cpu, got, outdated, upset, unmarked, page, row, pc>>
        /\ calls' = calls + 1 /\ out' = [w \in Procs |-> None]
    BY <1>4 DEF flush_cache, cacheVars
  <2> QED BY <1>1, <2>1, Kept DEF PagesKept
<1>5. CASE set_window_buffering
  <2>1. /\ UNCHANGED <<used, trans, mem, disk, latest, cpu, got, outdated, unmarked, row, pc>>
        /\ calls' = calls + 1 /\ out' = [w \in Procs |-> None] /\ upset \subseteq upset'
    BY <1>5 DEF set_window_buffering
  <2> PICK p \in Pages, n \in 1 .. 2 : page' = [page EXCEPT ![p].win = set_window_buffer_counter(@, n)]
    BY <1>5 DEF set_window_buffering
  <2> PICK x : x = set_window_buffer_counter(page[p].win, n)
    OBVIOUS
  <2>2. page' = [page EXCEPT ![p].win = x]
    BY Zenon
  <2>3. PagesKept
    BY <1>1, <2>2, WinOnly DEF PagesKept
  <2> QED BY <1>1, <2>1, <2>3, Kept
<1>6. CASE SubmitEnd
  <2>1. /\ UNCHANGED <<used, trans, mem, disk, latest, cpu, got, outdated, upset, unmarked, page, row,
                       calls, out>>
        /\ AsyncHeld
        /\ (host' = "idle" /\ pc' = pc) \/ StartWait
    BY <1>6 DEF SubmitEnd, cacheVars
  <2>2. AsyncHeld
    BY <1>6 DEF SubmitEnd
  <2>3. \A u \in Procs : pc'[u] \in SlotLabels => pc[u] \in SlotLabels /\ row'[u] = row[u]
    BY <2>1, <2>2 DEF SlotLabels, StartWait, AsyncHeld
  <2>4. host' \notin {"store", "array"}
    BY <2>1 DEF StartWait
  <2> QED BY <1>1, <2>1, <2>3, <2>4, Kept DEF PagesKept
<1>7. CASE KernelEnd \/ WaitEnd \/ FlushEnd \/ UNCHANGED vars
  <2>1. /\ UNCHANGED <<used, trans, mem, disk, latest, cpu, got, outdated, upset, unmarked, page, row,
                       calls, out, pc>>
        /\ host' \in {"idle", "flush"} \/ host' = host
    BY <1>7 DEF KernelEnd, WaitEnd, FlushEnd, vars, warpVars, cacheVars
  <2> QED BY <1>1, <2>1, Kept DEF PagesKept
<1> QED BY <1>2, <1>3, <1>4, <1>5, <1>6, <1>7 DEF HostCall, Launches
LEMMA ReadCpuData == ASSUME DataInv, CountInv', NEW w \in Procs, ReadCpu(w) PROVE DataInv'
<1>1. /\ UNCHANGED <<page, used, trans, mem, disk, latest, cpu, got, outdated, upset, unmarked, row, host, calls>>
      /\ out' = [out EXCEPT ![w] = cpu[row[w]]] /\ pc' = [pc EXCEPT ![w] = "idle"]
      /\ host = "read" /\ cpu[row[w]] # None /\ Types /\ pc[w] = "start"
  BY DEF ReadCpu, Goto, cacheVars, DataInv, CountInv
<1>2. row[w] \in Pages
  BY <1>1 DEF Types
<1>3. \A u \in Procs : pc'[u] \in SlotLabels => /\ pc[u] \in SlotLabels
                                                /\ got'[u] = got[u] /\ row'[u] = row[u]
  BY <1>1 DEF SlotLabels, Types
<1>4. Placed' /\ HoldsIt'
  BY <1>1, <1>3, CacheKept DEF DataInv, PagesKept
<1>5. StoredNotLost' /\ CopiesTrue'
  BY <1>1, StoredKept DEF DataInv, PagesKept
<1>6. ReadsStored'
  BY <1>1, <1>2 DEF DataInv, DataType, ReadsStored, CopiesTrue
<1>7. Unread' /\ DataType'
  BY <1>1, <1>2, <1>3 DEF DataInv, DataType, Unread
<1> QED BY <1>4, <1>5, <1>6, <1>7 DEF DataInv

\* What a holder finds in its slot.
LEMMA SlotIsCurrent ==
    ASSUME DataInv, NEW w \in Procs, pc[w] \in SlotLabels, upset = {}
    PROVE  /\ row[w] \in Pages /\ page[row[w]].valid /\ got[w] = page[row[w]].slot
           /\ mem[got[w]] = Current(row[w])
           /\ row[w] \in unmarked \/ mem[got[w]] = latest[row[w]]
<1>1. row[w] \in Pages
  BY DEF DataInv, CountInv, Types, SlotLabels
<1>2. page[row[w]].valid /\ got[w] = page[row[w]].slot
  BY DEF DataInv, HoldsIt
<1>3. mem[got[w]] = Current(row[w])
  BY <1>2 DEF Current
<1>4. row[w] \in unmarked \/ Current(row[w]) = latest[row[w]]
  BY <1>1 DEF DataInv, StoredNotLost
<1> QED BY <1>1, <1>2, <1>3, <1>4

LEMMA UseData == ASSUME DataInv, CountInv', NEW w \in Procs, Use(w) PROVE DataInv'
<1>1. /\ UNCHANGED <<page, used, trans, disk, got, upset, unmarked, row, host, calls>>
      /\ pc' = [pc EXCEPT ![w] = "unload"] /\ pc[w] = "use" /\ Types /\ calls \in Nat
      /\ Write(w) \/ CopyToCpu(w) \/ Read(w)
  BY DEF Use, Goto, DataInv, CountInv, DataType
<1>2. pc[w] \in SlotLabels
  BY <1>1 DEF SlotLabels
<1>3. row[w] \in Pages /\ got[w] \in Slots
  BY <1>1, <1>2 DEF Types, DataInv, DataType
<1>4. \A u \in Procs : pc'[u] \in SlotLabels => /\ pc[u] \in SlotLabels
                                                /\ got'[u] = got[u] /\ row'[u] = row[u]
  BY <1>1, <1>2 DEF Types
<1>5. Placed' /\ HoldsIt'
  BY <1>1, <1>4, CacheKept DEF DataInv, PagesKept
<1>6. upset = {} => /\ page[row[w]].valid /\ got[w] = page[row[w]].slot
                    /\ row[w] \in unmarked \/ mem[got[w]] = latest[row[w]]
  BY <1>2, SlotIsCurrent
<1>7. CASE Write(w)
  <2>1. /\ host \in {"store", "array"} /\ UNCHANGED <<out, cpu>>
        /\ mem' = [mem EXCEPT ![got[w]] = calls] /\ latest' = [latest EXCEPT ![row[w]] = calls]
        /\ outdated' = IF cpu[row[w]] # None THEN outdated \cup {row[w]} ELSE outdated
    BY <1>7 DEF Write
  <2>2. DataType'
    BY <1>1, <1>3, <1>4, <2>1 DEF DataInv, DataType
  <2>3. Unread' /\ ReadsStored'
    BY <1>1, <2>1 DEF DataInv, Unread, ReadsStored
  <2>4. CopiesTrue'
    BY <1>1, <1>3, <2>1 DEF DataInv, DataType, CopiesTrue
  <2>5. ASSUME upset = {}, NEW p \in Pages, p \notin unmarked PROVE Current(p)' = latest'[p]
    <3>1. CASE p = row[w]
      BY <1>1, <1>3, <1>6, <2>1, <2>5, <3>1 DEF Current, DataInv, DataType
    <3>2. CASE p # row[w]
      <4>1. page[p].valid => page[p].slot # got[w]
        BY <1>3, <1>6, <2>5, <3>2 DEF DataInv, Placed
      <4>2. Current(p)' = Current(p)
        BY <1>1, <1>3, <2>1, <4>1 DEF Current, DataInv, DataType
      <4>3. latest'[p] = latest[p]
        BY <2>1, <3>2 DEF DataInv, DataType
      <4> QED BY <2>5, <4>2, <4>3 DEF DataInv, StoredNotLost
    <3> QED BY <3>1, <3>2
  <2>6. StoredNotLost'
    BY <1>1, <2>5 DEF StoredNotLost
  <2> QED BY <1>5, <2>2, <2>3, <2>4, <2>6 DEF DataInv
<1>8. CASE CopyToCpu(w)
  <2>1. /\ cpu' = [cpu EXCEPT ![row[w]] = mem[got[w]]] /\ UNCHANGED <<out, mem, latest, outdated>>
    BY <1>8 DEF CopyToCpu
  <2>2. DataType'
    BY <1>1, <1>3, <1>4, <2>1 DEF DataInv, DataType
  <2>3. Unread' /\ ReadsStored'
    BY <1>1, <2>1, ReadKept DEF DataInv
  <2>4. CopiesTrue'
    BY <1>1, <1>3, <1>6, <2>1 DEF DataInv, DataType, CopiesTrue
  <2>5. StoredNotLost'
    BY <1>1, <2>1 DEF DataInv, StoredNotLost, Current
  <2> QED BY <1>5, <2>2, <2>3, <2>4, <2>5 DEF DataInv
<1>9. CASE Read(w)
  <2>1. /\ host \in {"read", "tensor", "wait"} /\ UNCHANGED <<mem, latest, cpu, outdated>>
        /\ out' = [out EXCEPT ![w] = mem[got[w]]]
    BY <1>9 DEF Read
  <2>2. DataType'
    BY <1>1, <1>3, <1>4, <2>1 DEF DataInv, DataType
  <2>3. Unread'
    BY <1>1, <2>1 DEF Unread
  <2>4. ReadsStored'
    BY <1>1, <1>3, <1>6, <2>1 DEF DataInv, DataType, ReadsStored
  <2>5. StoredNotLost' /\ CopiesTrue'
    BY <1>1, <2>1, StoredKept DEF DataInv, PagesKept
  <2> QED BY <1>5, <2>2, <2>3, <2>4, <2>5 DEF DataInv
<1> QED BY <1>1, <1>7, <1>8, <1>9

LEMMA HitData == ASSUME DataInv, CountInv', NEW w \in Procs, Hit(w) PROVE DataInv'
<1>1. /\ Acquired(w, page[row[w]].slot) /\ pc[w] = "look" /\ page[row[w]].valid
      /\ UNCHANGED <<host, calls, row, seen, out, used, trans, mem, disk, latest, unmarked,
                     cpu, upset, outdated>>
      /\ page' = [page EXCEPT ![row[w]].dirty = @ \/ host = "array"] /\ Types /\ Types'
  BY DEF Hit, DataInv, CountInv
<1> PICK p \in Pages : p = row[w]
  BY <1>1 DEF Types
<1>2. page[p].slot \in Slots /\ page \in [Pages -> PageType]
  BY <1>1 DEF Types, PageType
<1>3. (page[p].dirty \/ host = "array") \in BOOLEAN
  OBVIOUS
<1> PICK d \in BOOLEAN : d = (page[p].dirty \/ host = "array")
  BY <1>3
<1>4. page' = [page EXCEPT ![p].dirty = d]
  BY Zenon, <1>1
<1>5. PagesKept
  <2>1. \A q \in Pages : page'[q].valid = page[q].valid /\ page'[q].slot = page[q].slot
    BY ONLY <1>2, <1>4, d \in BOOLEAN, PageMark
  <2> QED BY <2>1 DEF PagesKept
<1> PICK g \in Slots : g = page[p].slot
  BY <1>2
<1>6. Acquired(w, g)
  BY <1>1
<1> PICK b \in {"held", "mark", "use"} : Moves(w, b)
  BY <1>1, <1>6, AcquiredMoves
<1>7. /\ \A u \in Procs : pc'[u] = IF u = w THEN b ELSE pc[u]
      /\ \A u \in Procs : got'[u] = IF u = w THEN g ELSE got[u]
      /\ got' \in [Procs -> Slots \cup {None}]
  BY <1>1, <1>6 DEF Acquired, Moves, Types, DataInv, DataType
<1>8. DataType'
  BY <1>1, <1>7 DEF DataInv, DataType
<1>9. Placed'
  BY <1>1, <1>5 DEF DataInv, Placed, PagesKept, SlotsTyped
<1>10. HoldsIt'
  <2> SUFFICES ASSUME upset = {}, NEW u \in Procs, pc'[u] \in SlotLabels
               PROVE  page'[row[u]].valid /\ got'[u] = page'[row[u]].slot
    BY <1>1 DEF HoldsIt
  <2>1. CASE u = w
    BY <1>1, <1>5, <1>7, <2>1 DEF PagesKept
  <2>2. CASE u # w
    <3>1. row[u] \in Pages /\ pc[u] \in SlotLabels
      BY <1>1, <1>7, <2>2 DEF Types, SlotLabels
    <3> QED BY <1>5, <1>7, <2>2, <3>1 DEF DataInv, HoldsIt, PagesKept
  <2> QED BY <2>1, <2>2
<1>11. StoredNotLost' /\ CopiesTrue'
  BY <1>1, <1>5, StoredKept DEF DataInv
<1>12. ReadsStored' /\ Unread'
  BY <1>1, ReadKept DEF DataInv
<1> QED BY <1>8, <1>9, <1>10, <1>11, <1>12 DEF DataInv

\* __flush writes to the SSD what is in the slot, of the page it goes by.
LEMMA FlushData == ASSUME DataInv, CountInv', NEW s \in Slots, Flush(s) PROVE DataInv'
<1>1. /\ UNCHANGED <<host, calls, pc, row, seen, got, out, used, trans, mem, latest, cpu, upset, outdated>>
      /\ Types
  BY DEF Flush, warpVars, DataInv, CountInv
<1>2. PagesKept
  BY <1>1, FlushPages DEF PagesKept
<1>3. Placed' /\ HoldsIt'
  BY <1>1, <1>2, CacheKept DEF DataInv
<1>4. CASE UNCHANGED <<disk, unmarked>>
  BY <1>1, <1>2, <1>4, Kept DEF DataInv, DataType
<1>5. CASE /\ disk' = [disk EXCEPT ![trans[s]] = mem[s]]
           /\ unmarked' = IF used[s] THEN unmarked ELSE unmarked \cup {trans[s]}
  <2> PICK q \in Pages : q = trans[s]
    BY DEF DataInv, Placed
  <2>1. ASSUME NEW p \in Pages, p \notin unmarked' PROVE Current(p)' = Current(p)
    <3>1. p = q => page[p].valid
      BY <1>5, <2>1 DEF DataInv, Placed
    <3>2. page'[p].valid => Current(p)' = Current(p)
      BY <1>1, <1>2 DEF Current, PagesKept
    <3>3. ~page'[p].valid => Current(p)' = Current(p)
      BY <1>2, <1>5, <3>1 DEF Current, PagesKept, DataInv, DataType
    <3> QED BY <3>2, <3>3
  <2>2. StoredNotLost'
    BY <1>1, <1>5, <2>1 DEF DataInv, StoredNotLost
  <2>3. CopiesTrue'
    BY <1>1, <1>5 DEF DataInv, CopiesTrue
  <2>4. ReadsStored' /\ Unread'
    BY <1>1, <1>5, ReadKept DEF DataInv
  <2>5. DataType'
    BY <1>1, <1>5 DEF DataInv, DataType
  <2> QED BY <1>3, <2>2, <2>3, <2>4, <2>5 DEF DataInv
<1> QED BY <1>4, <1>5 DEF Flush
\* A page whose count is zero has no holder: the warps that have yet to take
\* the extra reference are no more than the flag accounts for.
LEMMA NoHolder ==
    ASSUME CountInv, upset = {}, NEW p \in Pages, page[p].cnt = 0
    PROVE  Holders(p) = {}
<1>1. Pins(p)
  BY PinsAre DEF CountInv
<1>2. page[p].win \in Window
  BY DEF CountInv, Types, PageType
<1>3. page[p].win \div Flag = IF page[p].win < Flag THEN 0 ELSE 1
  BY <1>2, Byte
<1>4. Cardinality(At(p, {"ref"})) <= page[p].win \div Flag
  <2>1. CASE At(p, {"ref"}) = {}
    <3>1. Cardinality(At(p, {"ref"})) = 0
      BY <2>1, FS_EmptySet
    <3> QED BY <1>3, <3>1
  <2>2. CASE At(p, {"ref"}) # {}
    <3> PICK w \in At(p, {"ref"}) : TRUE
      BY <2>2
    <3>1. w \in Procs /\ pc[w] = "ref" /\ row[w] = p
      BY DEF At
    <3>2. At(p, {"ref"}) = {w}
      BY <3>1 DEF At, CountInv, OneAtRef
    <3>3. page[p].win >= Flag
      BY <3>1 DEF CountInv, OneAtRef
    <3>4. Cardinality({w}) = 1
      BY FS_Singleton
    <3>5. page[p].win \div Flag = 1
      BY <1>2, <1>3, <3>3, StoreAssumption DEF Window
    <3>6. Cardinality(At(p, {"ref"})) = 1
      BY <3>2, <3>4
    <3> QED BY <3>5, <3>6
  <2> QED BY <2>1, <2>2
<1>5. /\ Cardinality(At(p, {"ref"})) \in Nat /\ Cardinality(Holders(p)) \in Nat
      /\ Cardinality(Dropping(p)) \in Nat
  BY PinsNat
<1>6. Cardinality(Holders(p)) = 0
  BY <1>1, <1>3, <1>4, <1>5 DEF Pins
<1>7. IsFiniteSet(Holders(p))
  BY Countable, WarpSets
<1> QED BY <1>6, <1>7, FS_EmptySet

LEMMA MissData == ASSUME DataInv, CountInv', NEW w \in Procs, Miss(w) PROVE DataInv'
<1>1. /\ pc[w] = "look" /\ ~page[row[w]].valid /\ Types
      /\ UNCHANGED <<host, calls, row, seen, out, latest, cpu, upset, outdated>>
  BY DEF Miss, DataInv, CountInv
<1> PICK p \in Pages : p = row[w]
  BY <1>1 DEF Types
<1> PICK s \in Slots : MissAt(w, s)
  BY MissSlot DEF DataInv, CountInv, Placed, SlotsTyped
<1> PICK v \in Pages : v = trans[s]
  BY DEF DataInv, Placed
<1>2. /\ used' = [used EXCEPT ![s] = TRUE] /\ trans' = [trans EXCEPT ![s] = p]
      /\ mem' = [mem EXCEPT ![s] = disk'[p]]
      /\ disk' = IF used[s] /\ page[v].dirty THEN [disk EXCEPT ![v] = mem[s]] ELSE disk
      /\ unmarked' = IF used[s] /\ ~page[v].dirty /\ mem[s] # disk[v] THEN unmarked \cup {v} ELSE unmarked
      /\ got' = [got EXCEPT ![w] = s] /\ page' \in [Pages -> PageType]
      /\ Takable(w, s) /\ Acquired(w, s)
  BY DEF MissAt, WrittenBack, find_slot
<1>3. page'[p].valid /\ page'[p].slot = s
  BY DEF MissAt
<1>4. used[s] => v # p /\ page[v].valid /\ page[v].slot = s /\ page[v].cnt = 0 /\ ~page'[v].valid
  <2>1. used[s] => page[v].valid /\ page[v].slot = s
    BY DEF DataInv, Placed
  <2>2. used[s] => v # p
    BY <1>1, <2>1
  <2>3. used[s] => page[v].cnt = 0
    BY <1>2 DEF Takable
  <2>4. used[s] => ~page'[v].valid
    BY <2>2 DEF MissAt
  <2> QED BY <2>1, <2>2, <2>3, <2>4
<1>5. \A q \in Pages : q # p /\ ~(used[s] /\ q = v) => page'[q] = page[q]
  BY DEF MissAt
<1>6. \A q \in Pages : q # p /\ ~(used[s] /\ q = v) /\ page[q].valid => page[q].slot \in Slots /\ page[q].slot # s
  BY <1>1 DEF DataInv, Placed, Types, PageType
<1> PICK b \in {"held", "mark", "use"} : Moves(w, b)
  BY <1>1, <1>2, AcquiredMoves
<1>7. \A u \in Procs : /\ pc'[u] = (IF u = w THEN b ELSE pc[u])
                       /\ got'[u] = (IF u = w THEN s ELSE got[u])
  BY <1>1, <1>2 DEF Moves, Types, DataInv, DataType
<1>8. DataType'
  <2>1. disk' \in [Pages -> Int]
    BY <1>2 DEF DataInv, DataType
  <2>2. mem' \in [Slots -> Int] /\ got' \in [Procs -> Slots \cup {None}]
    BY <1>2, <2>1 DEF DataInv, DataType
  <2> QED BY <1>1, <1>7, <2>1, <2>2 DEF DataInv, DataType
<1>9. Placed'
  <2>1. SlotsTyped' /\ trans' \in [Slots -> Pages]
    BY <1>2 DEF DataInv, Placed, SlotsTyped
  <2>2. \A r \in Slots : /\ used'[r] = (IF r = s THEN TRUE ELSE used[r])
                         /\ trans'[r] = (IF r = s THEN p ELSE trans[r])
    BY <1>2 DEF DataInv, Placed, SlotsTyped
  <2>3. ASSUME NEW q \in Pages, page'[q].valid PROVE used'[page'[q].slot] /\ trans'[page'[q].slot] = q
    <3>1. CASE q = p
      BY <1>3, <2>2, <3>1
    <3>2. CASE q # p
      <4>1. ~(used[s] /\ q = v) /\ page'[q] = page[q]
        BY <1>4, <1>5, <2>3, <3>2
      <4> QED BY <1>6, <2>2, <2>3, <3>2, <4>1 DEF DataInv, Placed
    <3> QED BY <3>1, <3>2
  <2>4. ASSUME NEW r \in Slots, used'[r] PROVE page'[trans'[r]].valid /\ page'[trans'[r]].slot = r
    <3>1. CASE r = s
      BY <1>3, <2>2, <3>1
    <3>2. CASE r # s
      <4>1. used[r] /\ trans'[r] = trans[r] /\ trans[r] \in Pages
            /\ page[trans[r]].valid /\ page[trans[r]].slot = r
        BY <2>2, <2>4, <3>2 DEF DataInv, Placed
      <4>2. trans[r] # p /\ ~(used[s] /\ trans[r] = v)
        BY <1>1, <1>4, <3>2, <4>1
      <4> QED BY <1>5, <4>1, <4>2
    <3> QED BY <3>1, <3>2
  <2> QED BY <2>1, <2>3, <2>4 DEF Placed
<1>10. HoldsIt'
  <2> SUFFICES ASSUME upset = {}, NEW u \in Procs, pc'[u] \in SlotLabels
               PROVE  page'[row[u]].valid /\ got'[u] = page'[row[u]].slot
    BY <1>1 DEF HoldsIt
  <2>1. CASE u = w
    BY <1>3, <1>7, <2>1
  <2>2. CASE u # w
    <3>1. row[u] \in Pages /\ pc[u] \in SlotLabels /\ page[row[u]].valid /\ got[u] = page[row[u]].slot
      BY <1>1, <1>7, <2>2 DEF Types, SlotLabels, DataInv, HoldsIt
    <3>2. row[u] # p
      BY <1>1, <3>1
    <3>3. u \in Holders(row[u])
      BY <3>1 DEF Holders, At, SlotLabels
    <3>4. ~(used[s] /\ row[u] = v)
      BY <1>4, <3>3, NoHolder DEF DataInv
    <3> QED BY <1>5, <1>7, <2>2, <3>1, <3>2, <3>4
  <2> QED BY <2>1, <2>2
<1>11. ASSUME upset = {}, NEW q \in Pages, q \notin unmarked' PROVE Current(q)' = latest[q]
  <2>1. q \notin unmarked /\ Current(q) = latest[q]
    BY <1>2, <1>11 DEF DataInv, StoredNotLost
  <2>2. CASE q = p
    <3>1. disk'[p] = disk[p]
      BY <1>2, <1>4 DEF DataInv, DataType
    <3>2. mem'[s] = disk[p]
      BY <1>2, <3>1 DEF DataInv, DataType
    <3> QED BY <1>1, <1>3, <2>1, <2>2, <3>2 DEF Current
  <2>3. CASE q # p /\ used[s] /\ q = v
    <3>1. disk'[v] = mem[s]
      BY <1>2, <1>11, <2>3 DEF DataInv, DataType
    <3> QED BY <1>4, <2>1, <2>3, <3>1 DEF Current
  <2>4. CASE q # p /\ ~(used[s] /\ q = v)
    <3>1. page'[q] = page[q] /\ disk'[q] = disk[q]
      BY <1>2, <1>5, <2>4 DEF DataInv, DataType
    <3>2. page[q].valid => mem'[page[q].slot] = mem[page[q].slot]
      BY <1>2, <1>6, <2>4 DEF DataInv, DataType
    <3> QED BY <2>1, <3>1, <3>2 DEF Current
  <2> QED BY <2>2, <2>3, <2>4
<1>12. StoredNotLost'
  BY <1>1, <1>11 DEF StoredNotLost
<1>13. CopiesTrue' /\ ReadsStored' /\ Unread'
  BY <1>1, <1>2 DEF DataInv, CopiesTrue, ReadsStored, Unread
<1> QED BY <1>8, <1>9, <1>10, <1>12, <1>13 DEF DataInv

-----------------------------------------------------------------------------
LEMMA InitData == Init => DataInv
<1> SUFFICES ASSUME Init PROVE DataInv
  OBVIOUS
<1>1. CountInv
  BY InitCount
<1>2. Placed /\ HoldsIt
  BY DEF Init, Placed, SlotsTyped, HoldsIt, SlotLabels
<1>3. DataType
  BY DEF Init, DataType, Junk, SlotLabels
<1>4. StoredNotLost /\ Unread /\ CopiesTrue /\ ReadsStored
  BY DEF Init, StoredNotLost, Unread, CopiesTrue, ReadsStored, Current
<1> QED BY <1>1, <1>2, <1>3, <1>4 DEF DataInv

LEMMA NextData == DataInv /\ [Next]_vars => DataInv'
<1> SUFFICES ASSUME DataInv, [Next]_vars PROVE DataInv'
  OBVIOUS
<1>1. CountInv'
  BY NextCount DEF DataInv, Placed
<1>2. CASE HostCall \/ KernelEnd \/ SubmitEnd \/ WaitEnd \/ FlushEnd \/ UNCHANGED vars
  BY <1>1, <1>2, HostData
<1>3. ASSUME NEW s \in Slots, Flush(s) PROVE DataInv'
  BY <1>1, <1>3, FlushData
<1>4. ASSUME NEW w \in Procs, Warp(w) PROVE DataInv'
  BY <1>1, <1>4, ReadCpuData, HitData, MissData, UseData, KeepingData DEF Warp
<1> QED BY <1>2, <1>3, <1>4 DEF Next

\* The last version of a row is in the cache or on the SSD, whatever the
\* host's calls evict, flush and pin, under the conditions of StoredNotLost.
THEOREM StoresAreKept == Spec => []StoredNotLost
<1>1. DataInv => StoredNotLost
  BY DEF DataInv
<1> QED BY <1>1, InitData, NextData, PTL DEF Spec

\* A kernel copies out the row as it was stored last, under the conditions of
\* ReadsStored.
THEOREM ReadsReturnStored == Spec => []ReadsStored
<1>1. DataInv => ReadsStored
  BY DEF DataInv
<1> QED BY <1>1, InitData, NextData, PTL DEF Spec
=============================================================================
