--------------------------- MODULE DmaStackProofs ---------------------------
(***************************************************************************)
(* Proofs about DmaMap and about DmaStack with the HelperDriver in it, for *)
(* any controllers, devices, threads, descriptors, handles, ways of        *)
(* mapping, buffers and numbers of controllers.                            *)
(*                                                                         *)
(* DmaMap: descriptors count their handles, controllers their holders,     *)
(* nothing is left behind, and handles keep the promise of SharedMapping.  *)
(* The argument: a descriptor without handles is dead or waits for its     *)
(* remove_map with nothing but its own controller reference (Remains), a   *)
(* live one has that reference (Live), and one with handles has all that   *)
(* its call acquired (Complete).  So the holders of a controller change by *)
(* exactly what a call adds to or takes off the count (RefsExact), and the *)
(* device is open as long as the count is not zero (OpenIffCounted).       *)
(*                                                                         *)
(* DmaStack: the argument has four parts next to that invariant.  The      *)
(* controllers: a device is in the list, ignored or unknown, so the count  *)
(* follows the list (ListInv).  The GPU mappings: no entry has more        *)
(* mappings than there are controllers, so releasing by the list misses    *)
(* none (P2PInv).  The buffers: a buffer belongs to one mapping, an entry  *)
(* of the device list to a buffer that is still allocated (BufInv).  The   *)
(* searches: map_find goes by the address of the page or of its 64 KiB     *)
(* block, so an unmap can take an entry that is not its own only between   *)
(* host buffers of one block, one of them at its start, which are never    *)
(* mapped at once without a trace in crowded (Mistakable,                  *)
(* FoundIsMistakable); a GPU buffer has its blocks for itself.  As long as *)
(* nothing is excepted no two entries are of one buffer either (EntryInv), *)
(* so the first one found is the caller's and none is left behind.         *)
(***************************************************************************)
EXTENDS DmaStack, FiniteSetTheorems, SequenceTheorems, TLAPS

(***************************************************************************)
(* Descriptors, handles and controllers: DmaMap                            *)
(***************************************************************************)
AllKinds == {"user", "api", "host", "cuda", "lseg", "rseg", "lown", "rown", "lmem"}
Resources == {"dref", "mref", "seg", "conn", "devseg", "va", "avail", "io"}
Everything(kind) == Got(kind, Len(Path(kind)))

CtrlType == [live : BOOLEAN, count : Int, open : BOOLEAN, user : BOOLEAN]
MapType == [live : BOOLEAN, dev : Devs \cup {None}, kind : AllKinds \cup {None},
            count : Int, va : BOOLEAN, task : Tasks \cup {None}]

Types ==
    /\ ctrl \in [Devs -> CtrlType]
    /\ map \in [Maps -> MapType]
    /\ handle \in [Handles -> Maps \cup {None}]
    /\ res \in [Maps -> SUBSET Resources]
    /\ at \in [Tasks -> Maps \cup {None}]
    /\ corrupt \in BOOLEAN

\* A live descriptor refers to a controller and counts in it; only a live one
\* has handles.
Live ==
    /\ \A m \in Maps : map[m].live =>
         map[m].dev \in Devs /\ map[m].kind \in AllKinds /\ "mref" \in res[m]
    /\ \A h \in Handles : handle[h] # None => map[handle[h]].live

\* What a descriptor without a range still has.
Remains ==
    \A m \in Maps : ~map[m].va =>
        res[m] \subseteq IF map[m].live THEN {"devseg", "mref"} ELSE {"devseg", "avail"}

\* A mapping with a range has all that its call acquired.
Complete == \A m \in Maps : map[m].va => Everything(map[m].kind) \subseteq res[m]

RefsExact ==
    \A d \in Devs : ctrl[d].count = Cardinality(Holders(d)) + (IF ctrl[d].user THEN 1 ELSE 0)

OpenIffCounted ==
    \A d \in Devs : /\ ctrl[d].live <=> ctrl[d].count # 0
                    /\ ctrl[d].open <=> ctrl[d].count # 0

MapInv == Types /\ Live /\ CountsHandles /\ Remains /\ Complete

IndInv == MapInv /\ RefsExact /\ OpenIffCounted

-----------------------------------------------------------------------------
Has(p, r) == p \in Seq(Resources) /\ \E i \in 1 .. Len(p) : p[i] = r

\* What is in the middle of a sequence is in the sequence.
LEMMA Among ==
    ASSUME NEW s \in Seq(Resources), NEW w \in Seq(Resources), NEW t \in Seq(Resources),
           NEW r, Has(w, r)
    PROVE  Has(s \o w \o t, r)
<1> PICK j \in 1 .. Len(w) : w[j] = r
  BY DEF Has
<1>1. /\ s \o w \in Seq(Resources)
      /\ Len(s) + j \in 1 .. Len(s \o w)
      /\ (s \o w)[Len(s) + j] = w[j]
  BY ConcatProperties
<1>2. \A u \in Seq(Resources) : Len(s) + j \in 1 .. Len(u) =>
        /\ u \o t \in Seq(Resources)
        /\ Len(s) + j \in 1 .. Len(u \o t)
        /\ (u \o t)[Len(s) + j] = u[Len(s) + j]
  BY ConcatProperties
<1> QED BY <1>1, <1>2 DEF Has

\* The calls of dma.cpp, linux/dma.cpp and dis/dma.c as sequences.
LEMMA Paths == \A kind \in AllKinds : Has(Path(kind), "mref")
<1>1. {nvm_ctrl_get, nvm_local_memory_get, nvm_device_memory_get, va_map_local, va_map_remote,
       ioctl_map, io_map_local, io_map_remote, <<"devseg">>} \subseteq Seq(Resources)
  BY DEF nvm_ctrl_get, nvm_local_memory_get, nvm_device_memory_get, va_map_local, va_map_remote,
         ioctl_map, io_map_local, io_map_remote, Resources
<1>2. \A s, t \in Seq(Resources) : s \o t \in Seq(Resources)
  OBVIOUS
<1>3. Has(nvm_dma_init, "mref") /\ nvm_dma_init \in Seq(Resources)
  BY DEF Has, nvm_dma_init, Resources
<1>4. Has(nvm_dma_map, "mref")
  BY <1>3 DEF nvm_dma_map
<1>5. Has(nvm_dma_create, "mref") /\ Has(nvm_dma_map_host, "mref") /\ Has(nvm_dma_map_device, "mref")
  BY DEF Has, nvm_dma_create, nvm_dma_map_host, nvm_dma_map_device, nvm_dma_init, ioctl_map, Resources
<1>6. Has(nvm_dis_dma_map_local, "mref")
  BY <1>1, <1>2, <1>3, Among DEF nvm_dis_dma_map_local
<1>7. Has(nvm_dis_dma_map_remote, "mref")
  BY <1>1, <1>2, <1>3, Among DEF nvm_dis_dma_map_remote
<1>8. Has(nvm_dis_dma_create_local, "mref")
  BY <1>1, <1>2, <1>3, Among DEF nvm_dis_dma_create_local, create_local_segment
<1>9. Has(nvm_dis_dma_create_remote, "mref")
  BY <1>1, <1>2, <1>3, Among DEF nvm_dis_dma_create_remote, create_remote_segment
<1>10. Has(nvm_dis_dma_map_host, "mref")
  BY <1>1, <1>2, <1>3, Among DEF nvm_dis_dma_map_host, attach_local_segment
<1> QED BY <1>4, <1>5, <1>6, <1>7, <1>8, <1>9, <1>10 DEF Path, AllKinds

-----------------------------------------------------------------------------
\* What a successful call has acquired.
LEMMA EverythingType ==
    \A kind \in AllKinds : Everything(kind) \subseteq Resources /\ "mref" \in Everything(kind)
<1> SUFFICES ASSUME NEW kind \in AllKinds
             PROVE  Everything(kind) \subseteq Resources /\ "mref" \in Everything(kind)
  OBVIOUS
<1>1. Has(Path(kind), "mref")
  BY Paths
<1> HIDE DEF Has
<1>2. \A p : Has(p, "mref") => /\ {p[i] : i \in 1 .. Len(p)} \subseteq Resources
                               /\ "mref" \in {p[i] : i \in 1 .. Len(p)}
  BY DEF Has
<1> QED BY <1>1, <1>2 DEF Everything, Got

\* ... and one that fails.
LEMMA GotType ==
    ASSUME NEW kind \in AllKinds, NEW k \in 0 .. Len(Path(kind)) - 1
    PROVE  Got(kind, k) \subseteq Resources
<1>1. Has(Path(kind), "mref")
  BY Paths
<1>2. \A p : Has(p, "mref") => \A j \in 0 .. Len(p) - 1 : {p[i] : i \in 1 .. j} \subseteq Resources
  BY DEF Has
<1> QED BY <1>1, <1>2 DEF Got

\* The error paths keep nothing but a device segment or an available one.
LEMMA UndoneAll ==
    ASSUME NEW kind, NEW got
    PROVE  got \ Undone(kind, got) \subseteq {"devseg", "avail"}
BY DEF Undone

LEMMA KindsType == \A d \in Devs : \A kind \in KindsOf(d) : kind \in AllKinds
BY DEF KindsOf, AllKinds

LEMMA HandlesFinite == \A S \in SUBSET Handles : IsFiniteSet(S)
BY DmaAssumption, FS_Subset

-----------------------------------------------------------------------------
\* The steps and MapInv: what descriptors and handles know of each other.
LEMMA NothingType == NoCtrl \in CtrlType /\ NoMap \in MapType
<1>1. NoCtrl \in CtrlType
  BY DEF NoCtrl, CtrlType
<1>2. NoMap \in MapType
  BY DEF NoMap, MapType
<1> QED BY <1>1, <1>2

LEMMA InitMap == Init => MapInv
<1> SUFFICES ASSUME Init PROVE MapInv
  OBVIOUS
<1>1. Types
  BY NothingType DEF Init, Types
<1>2. \A m \in Maps : HandlesOf(m) = {}
  BY DmaAssumption DEF Init, HandlesOf
<1> QED BY <1>1, <1>2, FS_EmptySet DEF Init, MapInv, Live, CountsHandles, Remains, Complete, NoMap

LEMMA ExitMap == Exit => MapInv'
<1> SUFFICES ASSUME Exit PROVE MapInv'
  OBVIOUS
<1>1. Types'
  BY NothingType DEF Exit, Types
<1>2. \A m \in Maps : HandlesOf(m)' = {}
  BY DmaAssumption DEF Exit, HandlesOf
<1> QED BY <1>1, <1>2, FS_EmptySet DEF Exit, MapInv, Live, CountsHandles, Remains, Complete, NoMap

\* MapInv says nothing about controllers but their type.
LEMMA CtrlMap ==
    ASSUME MapInv, ctrl' \in [Devs -> CtrlType], UNCHANGED <<map, handle, res>>,
           at' \in [Tasks -> Maps \cup {None}], corrupt' \in BOOLEAN
    PROVE  MapInv'
<1>1. Types'
  BY DEF MapInv, Types
<1>2. CountsHandles'
  BY DEF MapInv, CountsHandles, HandlesOf
<1> QED BY <1>1, <1>2 DEF MapInv, Live, Remains, Complete

LEMMA AfterPutType ==
    ASSUME NEW c \in CtrlType, NEW n \in Int
    PROVE  AfterPut(c, n) \in CtrlType
<1>1. c.count - n \in Int /\ (c.count # n) \in BOOLEAN /\ (c.open /\ c.count # n) \in BOOLEAN
      /\ c.user \in BOOLEAN
  BY DEF CtrlType
<1> QED BY <1>1 DEF AfterPut, CtrlType

LEMMA CreateMap ==
    ASSUME MapInv, NEW t \in Tasks, NEW d \in Devs, NEW kind, NEW m \in Maps, NEW h \in Handles,
           Create(t, d, kind, m, h), ctrl' \in [Devs -> CtrlType]
    PROVE  MapInv'
<1> DEFINE new == [live |-> TRUE, dev |-> d, kind |-> kind, count |-> 1, va |-> TRUE, task |-> t]
<1>1. kind \in AllKinds /\ ~map[m].live /\ handle[h] = None
  BY KindsType DEF Create
<1>2. /\ res' = [res EXCEPT ![m] = Everything(kind)]
      /\ map' = [map EXCEPT ![m] = new]
      /\ handle' = [handle EXCEPT ![h] = m]
      /\ UNCHANGED <<at, corrupt>>
  BY DEF Create, Everything
<1>3. Types'
  BY <1>1, <1>2, EverythingType DEF MapInv, Types, MapType
<1>4. \A n \in Maps : n # m => HandlesOf(n)' = HandlesOf(n)
  BY <1>1, <1>2, DmaAssumption DEF MapInv, Types, HandlesOf
<1>5. HandlesOf(m)' = {h}
  BY <1>1, <1>2, DmaAssumption DEF MapInv, Types, Live, HandlesOf
<1>6. CountsHandles'
  BY <1>2, <1>4, <1>5, FS_Singleton DEF MapInv, Types, CountsHandles
<1>7. Live'
  BY <1>1, <1>2, EverythingType, DmaAssumption DEF MapInv, Types, Live
<1>8. Remains' /\ Complete'
  BY <1>2 DEF MapInv, Types, Remains, Complete
<1> QED BY <1>3, <1>6, <1>7, <1>8 DEF MapInv

LEMMA CreateFailMap ==
    ASSUME MapInv, NEW t \in Tasks, NEW d \in Devs, NEW kind, NEW m \in Maps, NEW k,
           CreateFail(t, d, kind, m, k), ctrl' \in [Devs -> CtrlType]
    PROVE  MapInv'
<1> DEFINE rest == Got(kind, k) \ Undone(kind, Got(kind, k))
<1>1. kind \in AllKinds /\ ~map[m].live
  BY KindsType DEF CreateFail
<1>2. rest \subseteq Resources /\ rest \subseteq {"devseg", "avail"}
  BY UndoneAll DEF Resources
<1>3. res' = [res EXCEPT ![m] = rest] /\ UNCHANGED <<map, handle, at, corrupt>>
  BY DEF CreateFail
<1> HIDE DEF rest
<1>4. HandlesOf(m) = {} /\ ~map[m].va
  <2>1. HandlesOf(m) = {}
    BY <1>1, DmaAssumption DEF MapInv, Live, HandlesOf
  <2> QED BY <2>1 DEF MapInv, CountsHandles
<1>5. Types'
  BY <1>2, <1>3 DEF MapInv, Types
<1>6. CountsHandles'
  BY <1>3 DEF MapInv, CountsHandles, HandlesOf
<1> QED BY <1>1, <1>2, <1>3, <1>4, <1>5, <1>6 DEF MapInv, Types, Live, Remains, Complete

LEMMA RemapMap ==
    ASSUME MapInv, NEW t \in Tasks, NEW h \in Handles, NEW new \in Handles, Remap(t, h, new)
    PROVE  MapInv'
<1> PICK m \in Maps : m = handle[h]
  BY DEF Remap, MapInv, Types
<1> DEFINE r == [map[m] EXCEPT !.count = @ + 1]
<1>1. handle[new] = None /\ map[m].live /\ map[m].va
  <2>1. handle[new] = None /\ h \in HandlesOf(m)
    BY DEF Remap, HandlesOf
  <2> QED BY <2>1 DEF MapInv, Live, CountsHandles, HandlesOf, Remap
<1>2. /\ map' = [map EXCEPT ![m] = r]
      /\ handle' = [handle EXCEPT ![new] = m]
      /\ UNCHANGED <<ctrl, res, at, corrupt>>
  BY Zenon DEF Remap
<1>3. /\ r \in MapType
      /\ r.live = map[m].live /\ r.dev = map[m].dev /\ r.kind = map[m].kind
      /\ r.va = map[m].va /\ r.count = map[m].count + 1
  <2>1. map[m] \in MapType
    BY <1>1 DEF MapInv, Types
  <2> QED BY ONLY <2>1 DEF MapType
<1> HIDE DEF r
<1>4. Types'
  BY <1>1, <1>2, <1>3 DEF MapInv, Types
<1>5. \A n \in Maps : n # m => HandlesOf(n)' = HandlesOf(n)
  BY <1>1, <1>2, DmaAssumption DEF MapInv, Types, HandlesOf
<1>6. HandlesOf(m)' = HandlesOf(m) \cup {new} /\ new \notin HandlesOf(m)
  <2>1. \A g \in Handles : handle'[g] = m <=> g = new \/ handle[g] = m
    BY <1>2 DEF MapInv, Types
  <2>2. new \notin HandlesOf(m)
    BY <1>1, DmaAssumption DEF HandlesOf
  <2> QED BY <2>1, <2>2 DEF HandlesOf
<1>7. Cardinality(HandlesOf(m)') = Cardinality(HandlesOf(m)) + 1
  BY <1>6, HandlesFinite, FS_AddElement DEF HandlesOf
<1>8. \A n \in Maps : map'[n].live = map[n].live /\ map'[n].dev = map[n].dev
                      /\ map'[n].kind = map[n].kind /\ map'[n].va = map[n].va
                      /\ map'[n].count = IF n = m THEN map[n].count + 1 ELSE map[n].count
  BY <1>1, <1>2, <1>3 DEF MapInv, Types
<1>9. CountsHandles'
  <2>1. \A n \in Maps : n # m => map'[n].count = Cardinality(HandlesOf(n)')
                               /\ (map'[n].va <=> HandlesOf(n)' # {})
    BY <1>5, <1>8 DEF MapInv, CountsHandles
  <2>2. map'[m].count = Cardinality(HandlesOf(m)')
    BY <1>1, <1>7, <1>8 DEF MapInv, CountsHandles
  <2>3. map'[m].va /\ HandlesOf(m)' # {}
    BY <1>1, <1>6, <1>8
  <2> QED BY <2>1, <2>2, <2>3 DEF CountsHandles
<1>10. Live'
  BY <1>1, <1>2, <1>8 DEF MapInv, Types, Live
<1>11. Remains' /\ Complete'
  BY <1>2, <1>8 DEF MapInv, Remains, Complete
<1> QED BY <1>4, <1>9, <1>10, <1>11 DEF MapInv

\* What the last handle gives back with the range.
LastGone == io_unmap \cup release_range

LEMMA UnmapMap ==
    ASSUME MapInv, NEW t \in Tasks, NEW h \in Handles, Unmap(t, h), ctrl' \in [Devs -> CtrlType]
    PROVE  MapInv'
<1> PICK m \in Maps : m = handle[h]
  BY DEF Unmap, MapInv, Types
<1> DEFINE last == map[m].count = 1
<1>1. map[m].live /\ map[m].va /\ h \in HandlesOf(m)
  <2>1. h \in HandlesOf(m)
    BY DEF HandlesOf
  <2> QED BY <2>1 DEF MapInv, Live, CountsHandles, HandlesOf, Unmap
<1>2. /\ map' = [map EXCEPT ![m].count = @ - 1, ![m].va = ~last]
      /\ res' = [res EXCEPT ![m] = IF last THEN @ \ LastGone ELSE @]
      /\ handle' = [handle EXCEPT ![h] = None]
      /\ at' = [at EXCEPT ![t] = m]
      /\ UNCHANGED corrupt
  BY DEF Unmap, LastGone
<1>3. /\ map' \in [Maps -> MapType]
      /\ \A n \in Maps : /\ map'[n].live = map[n].live
                         /\ map'[n].dev = map[n].dev
                         /\ map'[n].kind = map[n].kind
                         /\ map'[n].va = (IF n = m THEN ~last ELSE map[n].va)
                         /\ map'[n].count = (IF n = m THEN map[n].count - 1 ELSE map[n].count)
  <2>1. map[m] \in MapType /\ (~last) \in BOOLEAN
    BY DEF MapInv, Types
  <2> PICK v \in BOOLEAN : v = ~last
    BY <2>1
  <2> PICK c \in Int : c = map[m].count - 1
    BY <2>1 DEF MapType
  <2> DEFINE r == [map[m] EXCEPT !.count = c, !.va = v]
  <2>2. map' = [map EXCEPT ![m] = r]
    BY Zenon, <1>2
  <2>3. /\ r \in MapType
        /\ r.live = map[m].live /\ r.dev = map[m].dev /\ r.kind = map[m].kind
        /\ r.va = v /\ r.count = map[m].count - 1
    BY ONLY <2>1, v \in BOOLEAN, c \in Int, c = map[m].count - 1 DEF MapType
  <2> HIDE DEF r
  <2>4. map' \in [Maps -> MapType]
    BY <2>2, <2>3 DEF MapInv, Types
  <2>5. \A n \in Maps : map'[n] = IF n = m THEN r ELSE map[n]
    BY <2>2 DEF MapInv, Types
  <2> QED BY <2>3, <2>4, <2>5
<1>5. Types'
  BY <1>1, <1>2, <1>3 DEF MapInv, Types
<1>6. \A n \in Maps : n # m => HandlesOf(n)' = HandlesOf(n)
  BY <1>1, <1>2, DmaAssumption DEF MapInv, Types, HandlesOf
<1>7. HandlesOf(m)' = HandlesOf(m) \ {h}
  <2>1. \A g \in Handles : handle'[g] = m <=> g # h /\ handle[g] = m
    BY <1>1, <1>2, DmaAssumption DEF MapInv, Types
  <2> QED BY <2>1 DEF HandlesOf
<1>8. /\ Cardinality(HandlesOf(m)') = Cardinality(HandlesOf(m)) - 1
      /\ HandlesOf(m)' = {} <=> Cardinality(HandlesOf(m)) = 1
  <2>1. IsFiniteSet(HandlesOf(m)) /\ IsFiniteSet(HandlesOf(m)')
    BY HandlesFinite DEF HandlesOf
  <2>2. Cardinality(HandlesOf(m)') = Cardinality(HandlesOf(m)) - 1
    BY <1>1, <1>7, <2>1, FS_RemoveElement
  <2>3. Cardinality(HandlesOf(m)') = 0 <=> HandlesOf(m)' = {}
    BY <2>1, FS_EmptySet
  <2>4. Cardinality(HandlesOf(m)) \in Nat
    BY <2>1, FS_CardinalityType
  <2> QED BY <2>2, <2>3, <2>4
<1>9. CountsHandles'
  <2>1. \A n \in Maps : n # m => map'[n].count = Cardinality(HandlesOf(n)')
                               /\ (map'[n].va <=> HandlesOf(n)' # {})
    BY <1>3, <1>6 DEF MapInv, CountsHandles
  <2>2. map'[m].count = Cardinality(HandlesOf(m)')
    BY <1>1, <1>3, <1>8 DEF MapInv, CountsHandles
  <2>3. map'[m].va <=> HandlesOf(m)' # {}
    BY <1>1, <1>3, <1>8 DEF MapInv, CountsHandles
  <2> QED BY <2>1, <2>2, <2>3 DEF CountsHandles
<1>10. \A g \in Handles : handle'[g] # None => handle'[g] = handle[g]
  BY <1>2 DEF MapInv, Types
<1>11. "mref" \notin LastGone /\ Resources \ LastGone \subseteq {"devseg", "mref"}
  BY DEF LastGone, Resources, io_unmap, release_range, remove_local_desc, remove_remote_desc, va_unmap,
         nvm_local_memory_put, nvm_device_memory_put
<1>12. \A n \in Maps : "mref" \in res[n] => "mref" \in res'[n]
  BY <1>2, <1>11 DEF MapInv, Types
<1>13. Live'
  <2>1. \A n \in Maps : map'[n].live =>
            map'[n].dev \in Devs /\ map'[n].kind \in AllKinds /\ "mref" \in res'[n]
    BY <1>3, <1>12 DEF MapInv, Live
  <2>2. ASSUME NEW g \in Handles, handle'[g] # None
        PROVE  map'[handle'[g]].live
    <3>1. handle[g] # None /\ handle'[g] = handle[g] /\ handle[g] \in Maps
      BY <1>10, <2>2 DEF MapInv, Types
    <3> QED BY <3>1, <1>3 DEF MapInv, Live
  <2> QED BY <2>1, <2>2 DEF Live
<1>14. Remains'
  <2>1. \A n \in Maps : n # m => res'[n] = res[n]
    BY <1>2 DEF MapInv, Types
  <2>2. last => res'[m] \subseteq {"devseg", "mref"}
    BY <1>1, <1>2, <1>11 DEF MapInv, Types
  <2>3. \A n \in Maps : n # m /\ ~map'[n].va =>
          res'[n] \subseteq IF map'[n].live THEN {"devseg", "mref"} ELSE {"devseg", "avail"}
    BY <1>3, <2>1 DEF MapInv, Remains
  <2>4. ~map'[m].va => map'[m].live /\ last
    BY <1>1, <1>3
  <2> QED BY <2>2, <2>3, <2>4 DEF Remains
<1>15. Complete'
  BY <1>1, <1>2, <1>3 DEF MapInv, Types, Complete
<1> QED BY <1>5, <1>9, <1>13, <1>14, <1>15 DEF MapInv

LEMMA PutRemoveMap ==
    ASSUME MapInv, NEW t \in Tasks, PutRemove(t), ctrl' \in [Devs -> CtrlType]
    PROVE  MapInv'
<1> PICK m \in Maps : m = at[t]
  BY DEF PutRemove, MapInv, Types
<1>1. map[m].live /\ ~map[m].va
  BY DEF PutRemove
<1>2. /\ res' = [res EXCEPT ![m] = @ \ {"mref"}]
      /\ map' = [map EXCEPT ![m] = NoMap]
      /\ at' = [at EXCEPT ![t] = None]
      /\ UNCHANGED <<handle, corrupt>>
  BY DEF PutRemove
<1>3. Types'
  BY <1>1, <1>2, NothingType DEF MapInv, Types
<1>4. HandlesOf(m) = {}
  BY <1>1 DEF MapInv, CountsHandles
<1>5. CountsHandles'
  BY <1>1, <1>2, <1>4, FS_EmptySet DEF MapInv, Types, CountsHandles, HandlesOf, NoMap
<1>6. Live'
  BY <1>1, <1>2, <1>4 DEF MapInv, Types, Live, HandlesOf, NoMap
<1>7. Remains' /\ Complete'
  BY <1>1, <1>2 DEF MapInv, Types, Remains, Complete, NoMap
<1> QED BY <1>3, <1>5, <1>6, <1>7 DEF MapInv

-----------------------------------------------------------------------------
\* Holders and how many there are.
Pairs == SUBSET (Maps \X Refs)

LEMMA PairsFinite ==
    /\ \A S \in Pairs : IsFiniteSet(S) /\ Cardinality(S) \in Nat
    /\ \A X \in SUBSET Refs : IsFiniteSet(X) /\ Cardinality(X) \in Nat
<1>1. IsFiniteSet(Refs)
  <2>1. Refs = {"dref"} \cup {"mref"}
    BY DEF Refs
  <2> QED BY <2>1, FS_Singleton, FS_Union
<1>2. IsFiniteSet(Maps \X Refs)
  BY <1>1, DmaAssumption, FS_Product
<1>3. \A S \in Pairs : IsFiniteSet(S)
  BY <1>2, FS_Subset DEF Pairs
<1>4. \A X \in SUBSET Refs : IsFiniteSet(X)
  BY <1>1, FS_Subset
<1> QED BY <1>3, <1>4, FS_CardinalityType

\* The references of one descriptor.
LEMMA RefsOf ==
    ASSUME NEW m \in Maps, NEW X \in SUBSET Refs
    PROVE  {m} \X X \in Pairs /\ Cardinality({m} \X X) = Cardinality(X)
<1>1. {m} \X X \in Pairs
  BY DEF Pairs
<1>2. IsFiniteSet(X) /\ Cardinality(X) \in Nat /\ IsFiniteSet({m}) /\ Cardinality({m}) = 1
  BY PairsFinite, FS_Singleton
<1>3. Cardinality({m} \X X) = Cardinality({m}) * Cardinality(X)
  BY <1>2, FS_Product
<1> QED BY <1>1, <1>2, <1>3

LEMMA AddRefs ==
    ASSUME NEW S \in Pairs, NEW m \in Maps, NEW X \in SUBSET Refs, S \cap ({m} \X X) = {}
    PROVE  Cardinality(S \cup ({m} \X X)) = Cardinality(S) + Cardinality(X)
<1>1. IsFiniteSet(S) /\ Cardinality(S) \in Nat /\ IsFiniteSet({m} \X X) /\ Cardinality(X) \in Nat
  BY PairsFinite, RefsOf
<1>2. Cardinality(S \cup ({m} \X X)) = Cardinality(S) + Cardinality({m} \X X) - Cardinality({})
  BY <1>1, FS_Union
<1> QED BY <1>1, <1>2, RefsOf, FS_EmptySet

LEMMA RemoveRefs ==
    ASSUME NEW S \in Pairs, NEW m \in Maps, NEW X \in SUBSET Refs, {m} \X X \subseteq S
    PROVE  Cardinality(S \ ({m} \X X)) = Cardinality(S) - Cardinality(X)
<1>1. S \cap ({m} \X X) = {m} \X X
  OBVIOUS
<1>2. IsFiniteSet(S)
  BY PairsFinite
<1>3. Cardinality(S \ ({m} \X X)) = Cardinality(S) - Cardinality(S \cap ({m} \X X))
  BY <1>2, FS_Difference
<1> QED BY <1>1, <1>3, RefsOf

LEMMA HoldersType == \A d \in Devs : Holders(d) \in Pairs
BY DEF Holders, Pairs

LEMMA HoldersTypeNext == \A d \in Devs : Holders(d)' \in Pairs
BY DEF Holders, Pairs

-----------------------------------------------------------------------------
\* The steps and the counts of the controllers.
CtrlInv == RefsExact /\ OpenIffCounted

LEMMA InitCtrl == Init => CtrlInv
<1> SUFFICES ASSUME Init PROVE CtrlInv
  OBVIOUS
<1>1. \A d \in Devs : Holders(d) = {}
  BY DEF Init, Holders
<1>2. \A d \in Devs : ctrl[d] = NoCtrl
  BY DEF Init
<1> QED BY <1>1, <1>2, FS_EmptySet DEF CtrlInv, RefsExact, OpenIffCounted, NoCtrl

LEMMA ExitCtrl == Exit => CtrlInv' /\ ctrl' \in [Devs -> CtrlType]
<1> SUFFICES ASSUME Exit PROVE CtrlInv' /\ ctrl' \in [Devs -> CtrlType]
  OBVIOUS
<1>1. \A d \in Devs : Holders(d)' = {}
  BY DEF Exit, Holders
<1>2. \A d \in Devs : ctrl'[d] = NoCtrl
  BY DEF Exit
<1>3. ctrl' \in [Devs -> CtrlType]
  BY NothingType DEF Exit
<1>4. \A d \in Devs : /\ ctrl'[d].count = 0 /\ ctrl'[d].user = FALSE
                      /\ ctrl'[d].live = FALSE /\ ctrl'[d].open = FALSE
  BY <1>2 DEF NoCtrl
<1>5. RefsExact'
  BY <1>1, <1>4, FS_EmptySet DEF RefsExact
<1>6. OpenIffCounted'
  BY <1>4 DEF OpenIffCounted
<1> QED BY <1>3, <1>5, <1>6 DEF CtrlInv

\* Nothing about holders or controllers changes.
LEMMA SameCtrl ==
    ASSUME CtrlInv, UNCHANGED ctrl, \A d \in Devs : Holders(d)' = Holders(d)
    PROVE  CtrlInv'
BY DEF CtrlInv, RefsExact, OpenIffCounted

\* One controller changes, and its holders.
LEMMA OneCtrl ==
    ASSUME CtrlInv, Types, NEW d \in Devs, NEW c \in CtrlType,
           ctrl' = [ctrl EXCEPT ![d] = c],
           \A e \in Devs : e # d => Holders(e)' = Holders(e),
           c.count = Cardinality(Holders(d)') + (IF c.user THEN 1 ELSE 0),
           c.live <=> c.count # 0, c.open <=> c.count # 0
    PROVE  CtrlInv' /\ ctrl' \in [Devs -> CtrlType]
<1>1. \A e \in Devs : ctrl'[e] = IF e = d THEN c ELSE ctrl[e]
  BY DEF Types
<1>2. ctrl' \in [Devs -> CtrlType]
  BY DEF Types
<1>3. RefsExact'
  <2>1. ASSUME NEW e \in Devs, e # d
        PROVE  ctrl'[e].count = Cardinality(Holders(e)') + (IF ctrl'[e].user THEN 1 ELSE 0)
    <3>1. ctrl'[e] = ctrl[e] /\ Holders(e)' = Holders(e)
      BY <1>1, <2>1
    <3> QED BY <3>1 DEF CtrlInv, RefsExact
  <2>2. ctrl'[d].count = Cardinality(Holders(d)') + (IF ctrl'[d].user THEN 1 ELSE 0)
    BY <1>1
  <2> QED BY <2>1, <2>2 DEF RefsExact
<1>4. OpenIffCounted'
  BY <1>1 DEF CtrlInv, OpenIffCounted
<1> QED BY <1>2, <1>3, <1>4 DEF CtrlInv

LEMMA CtrlInitCtrl ==
    ASSUME IndInv, NEW d \in Devs, nvm_ctrl_init(d)
    PROVE  CtrlInv' /\ ctrl' \in [Devs -> CtrlType]
<1>0. [live |-> TRUE, count |-> 1, open |-> TRUE, user |-> TRUE] \in CtrlType
  BY DEF CtrlType
<1> PICK c \in CtrlType : c = [live |-> TRUE, count |-> 1, open |-> TRUE, user |-> TRUE]
  BY <1>0
<1>1. ctrl' = [ctrl EXCEPT ![d] = c]
  BY DEF nvm_ctrl_init
<1>2. \A e \in Devs : Holders(e)' = Holders(e)
  BY DEF nvm_ctrl_init, Holders
<1>3. Cardinality(Holders(d)) = 0
  <2>1. ctrl[d].count = 0
    BY DEF nvm_ctrl_init, IndInv, OpenIffCounted
  <2>2. Cardinality(Holders(d)) \in Nat
    BY HoldersType, PairsFinite
  <2> QED BY <2>1, <2>2 DEF IndInv, RefsExact
<1>4. /\ c.count = Cardinality(Holders(d)') + (IF c.user THEN 1 ELSE 0)
      /\ c.live <=> c.count # 0
      /\ c.open <=> c.count # 0
  BY <1>2, <1>3
<1> QED BY <1>1, <1>2, <1>4, OneCtrl DEF IndInv, MapInv, CtrlInv

LEMMA CtrlFreeCtrl ==
    ASSUME IndInv, NEW d \in Devs, CtrlFree(d)
    PROVE  CtrlInv' /\ ctrl' \in [Devs -> CtrlType]
<1>1. ctrl[d] \in CtrlType /\ ctrl[d].user
  BY DEF IndInv, MapInv, Types, CtrlFree
<1> DEFINE b == [ctrl[d] EXCEPT !.user = FALSE]
<1>2. b \in CtrlType /\ b.count = ctrl[d].count /\ b.user = FALSE /\ b.open = ctrl[d].open
  BY ONLY <1>1 DEF CtrlType
<1> HIDE DEF b
<1> PICK c \in CtrlType : c = AfterPut(b, 1)
  BY <1>2, AfterPutType
<1>3. ctrl' = [ctrl EXCEPT ![d] = c]
  BY Zenon DEF CtrlFree, b
<1>4. \A e \in Devs : Holders(e)' = Holders(e)
  BY DEF CtrlFree, Holders
<1>5. Cardinality(Holders(d)) \in Nat
  BY HoldersType, PairsFinite
<1>6. ctrl[d].count = Cardinality(Holders(d)) + 1 /\ (ctrl[d].open <=> ctrl[d].count # 0)
  BY <1>1 DEF IndInv, RefsExact, OpenIffCounted
<1>7. /\ c.count = Cardinality(Holders(d)') + (IF c.user THEN 1 ELSE 0)
      /\ c.live <=> c.count # 0
      /\ c.open <=> c.count # 0
  <2>1. /\ c.count = b.count - 1 /\ c.user = b.user
        /\ c.live <=> b.count # 1
        /\ c.open <=> b.open /\ b.count # 1
    BY DEF AfterPut
  <2>2. Cardinality(Holders(d)') = Cardinality(Holders(d))
    BY <1>4
  <2> QED BY <2>1, <2>2, <1>2, <1>5, <1>6
<1> QED BY <1>3, <1>4, <1>7, OneCtrl DEF IndInv, MapInv, CtrlInv

LEMMA CreateCtrl ==
    ASSUME IndInv, NEW t \in Tasks, NEW d \in Devs, NEW kind, NEW m \in Maps, NEW h \in Handles,
           Create(t, d, kind, m, h)
    PROVE  CtrlInv' /\ ctrl' \in [Devs -> CtrlType]
<1> DEFINE X == Everything(kind) \cap Refs
<1>1. ~map[m].live /\ ctrl[d].user /\ ctrl[d] \in CtrlType
  BY DEF Create, IndInv, MapInv, Types
<1>2. X \in SUBSET Refs /\ Cardinality(X) \in Nat
  BY PairsFinite
<1>3. HandlesOf(m) = {} /\ ~map[m].va
  <2>1. HandlesOf(m) = {}
    BY <1>1, DmaAssumption DEF IndInv, MapInv, Live, HandlesOf
  <2> QED BY <2>1 DEF IndInv, MapInv, CountsHandles
<1>4. res[m] \cap Refs = {}
  BY <1>1, <1>3 DEF IndInv, MapInv, Remains, Refs
<1>5. \A n \in Maps : /\ res'[n] = IF n = m THEN Everything(kind) ELSE res[n]
                      /\ map'[n].dev = IF n = m THEN d ELSE map[n].dev
  BY DEF Create, Everything, IndInv, MapInv, Types
<1>6. \A e \in Devs : e # d => Holders(e)' = Holders(e)
  BY <1>4, <1>5 DEF Holders
<1>7. Holders(d)' = Holders(d) \cup ({m} \X X) /\ Holders(d) \cap ({m} \X X) = {}
  BY <1>4, <1>5 DEF Holders
<1>8. Cardinality(Holders(d)') = Cardinality(Holders(d)) + Cardinality(X)
  BY <1>2, <1>7, HoldersType, AddRefs
<1>9. Cardinality(Holders(d)) \in Nat
  BY HoldersType, PairsFinite
<1>10. ctrl[d].count = Cardinality(Holders(d)) + 1 /\ ctrl[d].live /\ ctrl[d].open
  BY <1>1, <1>9 DEF IndInv, RefsExact, OpenIffCounted
<1> HIDE DEF X
<1> PICK n \in Nat : n = Cardinality(X)
  BY <1>2
<1> PICK k \in Int : k = ctrl[d].count + n
  BY <1>1 DEF CtrlType
<1> DEFINE b == [ctrl[d] EXCEPT !.count = k]
<1>11. /\ b \in CtrlType /\ b.count = ctrl[d].count + n
       /\ b.user = ctrl[d].user /\ b.open = ctrl[d].open /\ b.live = ctrl[d].live
  BY ONLY <1>1, k \in Int, k = ctrl[d].count + n DEF CtrlType
<1>12. ctrl' = [ctrl EXCEPT ![d] = b]
  BY Zenon DEF Create, Everything, X
<1> HIDE DEF b
<1> PICK c \in CtrlType : c = b
  BY <1>11
<1>13. /\ c.count = Cardinality(Holders(d)') + (IF c.user THEN 1 ELSE 0)
       /\ c.live <=> c.count # 0
       /\ c.open <=> c.count # 0
  BY <1>1, <1>8, <1>9, <1>10, <1>11
<1> QED BY <1>6, <1>12, <1>13, OneCtrl DEF IndInv, MapInv, CtrlInv

LEMMA CreateFailCtrl ==
    ASSUME IndInv, NEW t \in Tasks, NEW d \in Devs, NEW kind, NEW m \in Maps, NEW k,
           CreateFail(t, d, kind, m, k)
    PROVE  CtrlInv' /\ ctrl' \in [Devs -> CtrlType]
<1> DEFINE got == Got(kind, k)
           undone == Undone(kind, got)
<1>1. ~map[m].live /\ ctrl[d] \in CtrlType
  BY DEF CreateFail, IndInv, MapInv, Types
<1>2. /\ res' = [res EXCEPT ![m] = got \ undone]
      /\ ctrl' = [ctrl EXCEPT ![d].count = @ + Cardinality(got \cap Refs) - Cardinality(undone \cap Refs)]
      /\ UNCHANGED map
  BY DEF CreateFail
<1>3. undone \cap Refs = got \cap Refs /\ (got \ undone) \cap Refs = {}
  BY DEF Undone, Refs
<1> HIDE DEF got, undone
<1>4. HandlesOf(m) = {} /\ ~map[m].va
  <2>1. HandlesOf(m) = {}
    BY <1>1, DmaAssumption DEF IndInv, MapInv, Live, HandlesOf
  <2> QED BY <2>1 DEF IndInv, MapInv, CountsHandles
<1>5. res[m] \cap Refs = {}
  BY <1>1, <1>4 DEF IndInv, MapInv, Remains, Refs
<1>6. \A n \in Maps : /\ res'[n] \cap Refs = res[n] \cap Refs
                      /\ map'[n].dev = map[n].dev
  BY <1>2, <1>3, <1>5 DEF IndInv, MapInv, Types
<1>7. \A e \in Devs : Holders(e)' = Holders(e)
  BY <1>6 DEF Holders
<1>8. Cardinality(got \cap Refs) \in Nat
  BY PairsFinite
<1> PICK a \in Nat : a = Cardinality(got \cap Refs)
  BY <1>8
<1> PICK n \in Int : n = ctrl[d].count
  BY <1>1 DEF CtrlType
<1> DEFINE b == [ctrl[d] EXCEPT !.count = n]
<1>9. /\ b \in CtrlType /\ b.count = ctrl[d].count
      /\ b.user = ctrl[d].user /\ b.open = ctrl[d].open /\ b.live = ctrl[d].live
  BY ONLY <1>1, n \in Int, n = ctrl[d].count DEF CtrlType
<1>10. ctrl[d].count + Cardinality(got \cap Refs) - Cardinality(undone \cap Refs) = n
  <2>1. Cardinality(undone \cap Refs) = a
    BY <1>3
  <2>2. n + a - a = n
    OBVIOUS
  <2> QED BY <2>1, <2>2
<1>11. ctrl' = [ctrl EXCEPT ![d] = b]
  BY Zenon, <1>2, <1>10
<1> HIDE DEF b
<1> PICK c \in CtrlType : c = b
  BY <1>9
<1>12. /\ c.count = Cardinality(Holders(d)') + (IF c.user THEN 1 ELSE 0)
       /\ c.live <=> c.count # 0
       /\ c.open <=> c.count # 0
  <2>1. Cardinality(Holders(d)') = Cardinality(Holders(d))
    BY <1>7
  <2> QED BY <2>1, <1>9 DEF IndInv, RefsExact, OpenIffCounted
<1> QED BY <1>7, <1>11, <1>12, OneCtrl DEF IndInv, MapInv, CtrlInv

LEMMA RemapCtrl ==
    ASSUME IndInv, NEW t \in Tasks, NEW h \in Handles, NEW new \in Handles, Remap(t, h, new)
    PROVE  CtrlInv' /\ ctrl' \in [Devs -> CtrlType]
<1> PICK m \in Maps : m = handle[h]
  BY DEF Remap, IndInv, MapInv, Types
<1> DEFINE r == [map[m] EXCEPT !.count = @ + 1]
<1>1. /\ map' = [map EXCEPT ![m] = r]
      /\ UNCHANGED <<ctrl, res>>
  BY Zenon DEF Remap
<1>2. map[m] \in MapType
  BY DEF IndInv, MapInv, Types
<1>3. r.dev = map[m].dev
  BY ONLY <1>2 DEF MapType
<1> HIDE DEF r
<1>4. \A n \in Maps : map'[n].dev = map[n].dev
  BY <1>1, <1>3 DEF IndInv, MapInv, Types
<1>5. \A e \in Devs : Holders(e)' = Holders(e)
  BY <1>1, <1>4 DEF Holders
<1> QED BY <1>1, <1>5, SameCtrl DEF IndInv, MapInv, Types, CtrlInv

\* The reading thread's part of put_map that changes nothing but its place.
LEMMA PutKeepCtrl ==
    ASSUME IndInv, UNCHANGED <<ctrl, map, res>>
    PROVE  CtrlInv' /\ ctrl' \in [Devs -> CtrlType]
<1>1. \A e \in Devs : Holders(e)' = Holders(e)
  BY DEF Holders
<1> QED BY <1>1, SameCtrl DEF IndInv, MapInv, Types, CtrlInv

\* References of a live mapping are given back, but not the last of them.
LEMMA PutRefs ==
    ASSUME IndInv, NEW m \in Maps, map[m].live, NEW X \in SUBSET Refs,
           X \subseteq res[m], NEW d \in Devs, d = map[m].dev,
           ctrl' = [ctrl EXCEPT ![d] = AfterPut(@, Cardinality(X))],
           \A n \in Maps : res'[n] \cap Refs = IF n = m THEN (res[n] \cap Refs) \ X
                                                       ELSE res[n] \cap Refs,
           \A n \in Maps : map'[n].dev = map[n].dev \/ (n = m /\ res'[n] \cap Refs = {})
    PROVE  CtrlInv' /\ ctrl' \in [Devs -> CtrlType]
<1>1. ctrl[d] \in CtrlType
  BY DEF IndInv, MapInv, Types
<1>2. Cardinality(X) \in Nat
  BY PairsFinite
<1> PICK n \in Nat : n = Cardinality(X)
  BY <1>2
<1>3. AfterPut(ctrl[d], n) \in CtrlType
  BY <1>1, AfterPutType
<1> PICK c \in CtrlType : c = AfterPut(ctrl[d], n)
  BY <1>3
<1>4. ctrl' = [ctrl EXCEPT ![d] = c]
  BY Zenon
<1>5. \A e \in Devs : e # d => Holders(e)' = Holders(e)
  BY DEF Holders
<1>6. {m} \X X \subseteq Holders(d) /\ Holders(d)' = Holders(d) \ ({m} \X X)
  BY DEF Holders
<1>7. Holders(d) \in Pairs /\ Cardinality(Holders(d)) \in Nat
  BY HoldersType, PairsFinite
<1>8. Cardinality(Holders(d)') = Cardinality(Holders(d)) - n
  BY <1>6, <1>7, RemoveRefs
<1>9. Cardinality(Holders(d)') \in Nat
  BY HoldersTypeNext, PairsFinite
<1>10. ctrl[d].count = Cardinality(Holders(d)) + (IF ctrl[d].user THEN 1 ELSE 0)
       /\ (ctrl[d].open <=> ctrl[d].count # 0)
  BY DEF IndInv, RefsExact, OpenIffCounted
<1>11. /\ c.count = ctrl[d].count - n /\ c.user = ctrl[d].user
       /\ c.live <=> ctrl[d].count # n
       /\ c.open <=> ctrl[d].open /\ ctrl[d].count # n
  BY DEF AfterPut
<1>12. /\ c.count = Cardinality(Holders(d)') + (IF c.user THEN 1 ELSE 0)
       /\ c.live <=> c.count # 0
       /\ c.open <=> c.count # 0
  BY <1>7, <1>8, <1>9, <1>10, <1>11
<1> QED BY <1>4, <1>5, <1>12, OneCtrl DEF IndInv, MapInv, CtrlInv

LEMMA UnmapCtrl ==
    ASSUME IndInv, NEW t \in Tasks, NEW h \in Handles, Unmap(t, h)
    PROVE  CtrlInv' /\ ctrl' \in [Devs -> CtrlType]
<1> PICK m \in Maps : m = handle[h]
  BY DEF Unmap, IndInv, MapInv, Types
<1>1. map[m].live
  BY DEF Unmap, IndInv, MapInv, Live
<1> PICK d \in Devs : d = map[m].dev
  BY <1>1 DEF IndInv, MapInv, Live
<1>2. \A n \in Maps : map'[n].dev = map[n].dev
  <2>1. map[m] \in MapType /\ (map[m].count # 1) \in BOOLEAN
    BY DEF IndInv, MapInv, Types
  <2> PICK v \in BOOLEAN : v = (map[m].count # 1)
    BY <2>1
  <2> PICK c \in Int : c = map[m].count - 1
    BY <2>1 DEF MapType
  <2> DEFINE r == [map[m] EXCEPT !.count = c, !.va = v]
  <2>2. map' = [map EXCEPT ![m] = r]
    BY Zenon DEF Unmap
  <2>3. r.dev = map[m].dev
    BY ONLY <2>1, v \in BOOLEAN, c \in Int DEF MapType
  <2> HIDE DEF r
  <2> QED BY <2>2, <2>3 DEF IndInv, MapInv, Types
<1>3. CASE map[m].count = 1
  <2> PICK X \in SUBSET Refs : X = res[m] \cap release_range \cap Refs
    OBVIOUS
  <2>0. X \subseteq res[m]
    OBVIOUS
  <2>1. ctrl' = [ctrl EXCEPT ![d] = AfterPut(@, Cardinality(X))]
    BY <1>3 DEF Unmap
  <2>2. res' = [res EXCEPT ![m] = @ \ (io_unmap \cup release_range)]
    BY <1>3 DEF Unmap
  <2>3. io_unmap \cap Refs = {}
    BY DEF io_unmap, Refs
  <2>4. \A n \in Maps : res'[n] \cap Refs = IF n = m THEN (res[n] \cap Refs) \ X
                                                   ELSE res[n] \cap Refs
    BY <2>2, <2>3 DEF IndInv, MapInv, Types
  <2>5. \A n \in Maps : map'[n].dev = map[n].dev \/ (n = m /\ res'[n] \cap Refs = {})
    BY <1>2
  <2> QED BY ONLY IndInv, m \in Maps, <1>1, X \in SUBSET Refs, <2>0, d \in Devs, d = map[m].dev,
                  <2>1, <2>4, <2>5, PutRefs
<1>4. CASE map[m].count # 1
  <2>1. ctrl' = ctrl /\ res' = res
    BY <1>4 DEF Unmap, IndInv, MapInv, Types
  <2>2. \A e \in Devs : Holders(e)' = Holders(e)
    BY <1>2, <2>1 DEF Holders
  <2> QED BY <2>1, <2>2, SameCtrl DEF IndInv, MapInv, Types, CtrlInv
<1> QED BY <1>3, <1>4

LEMMA PutRemoveCtrl ==
    ASSUME IndInv, NEW t \in Tasks, PutRemove(t)
    PROVE  CtrlInv' /\ ctrl' \in [Devs -> CtrlType]
<1> PICK m \in Maps : m = at[t]
  BY DEF PutRemove, IndInv, MapInv, Types
<1>1. map[m].live /\ ~map[m].va
  BY DEF PutRemove
<1> PICK d \in Devs : d = map[m].dev
  BY <1>1 DEF IndInv, MapInv, Live
<1> PICK X \in SUBSET Refs : X = {"mref"}
  BY DEF Refs
<1>2. X \subseteq res[m] /\ res[m] \cap Refs = X
  BY <1>1 DEF IndInv, MapInv, Live, Remains, Refs
<1>3. Cardinality(X) = 1
  BY FS_Singleton
<1>4. ctrl' = [ctrl EXCEPT ![d] = AfterPut(@, Cardinality(X))]
  BY <1>3 DEF PutRemove
<1>5. res' = [res EXCEPT ![m] = @ \ X] /\ map' = [map EXCEPT ![m] = NoMap]
  BY DEF PutRemove
<1>6. \A n \in Maps : res'[n] \cap Refs = IF n = m THEN (res[n] \cap Refs) \ X
                                                 ELSE res[n] \cap Refs
  BY <1>5 DEF IndInv, MapInv, Types
<1>7. \A n \in Maps : map'[n].dev = map[n].dev \/ (n = m /\ res'[n] \cap Refs = {})
  BY <1>2, <1>5, <1>6 DEF IndInv, MapInv, Types
<1> QED BY <1>1, <1>2, <1>4, <1>6, <1>7, PutRefs

-----------------------------------------------------------------------------
\* Every step preserves the invariant.
LEMMA InitInv == Init => IndInv
BY InitMap, InitCtrl DEF IndInv, CtrlInv

LEMMA StepInv == IndInv /\ [Next]_vars => IndInv'
<1> SUFFICES ASSUME IndInv, [Next]_vars PROVE IndInv'
  OBVIOUS
<1> SUFFICES MapInv' /\ CtrlInv'
  BY DEF IndInv, CtrlInv
<1>0. MapInv /\ CtrlInv /\ ctrl \in [Devs -> CtrlType] /\ at \in [Tasks -> Maps \cup {None}]
      /\ corrupt \in BOOLEAN
  BY DEF IndInv, MapInv, Types, CtrlInv
<1>1. ASSUME NEW d \in Devs, CtrlInit(d)
      PROVE  MapInv' /\ CtrlInv'
  <2>1. nvm_ctrl_init(d)
    BY <1>1 DEF CtrlInit, open_device, borrow_device
  <2>2. CtrlInv' /\ ctrl' \in [Devs -> CtrlType]
    BY <2>1, CtrlInitCtrl
  <2> QED BY <1>0, <2>1, <2>2, CtrlMap DEF nvm_ctrl_init
<1>2. ASSUME NEW d \in Devs, CtrlFree(d)
      PROVE  MapInv' /\ CtrlInv'
  BY <1>0, <1>2, CtrlFreeCtrl, CtrlMap DEF CtrlFree
<1>3. ASSUME NEW t \in Tasks, NEW d \in Devs, NEW kind \in Kinds, NEW m \in Maps, NEW h \in Handles,
             Create(t, d, kind, m, h)
      PROVE  MapInv' /\ CtrlInv'
  BY <1>0, <1>3, CreateCtrl, CreateMap
<1>4. ASSUME NEW t \in Tasks, NEW d \in Devs, NEW kind \in Kinds, NEW m \in Maps, NEW k \in 0 .. 5,
             CreateFail(t, d, kind, m, k)
      PROVE  MapInv' /\ CtrlInv'
  BY <1>0, <1>4, CreateFailCtrl, CreateFailMap
<1>5. ASSUME NEW t \in Tasks, NEW h \in Handles, Unmap(t, h)
      PROVE  MapInv' /\ CtrlInv'
  BY <1>0, <1>5, UnmapCtrl, UnmapMap
<1>6. ASSUME NEW t \in Tasks, NEW h \in Handles, NEW new \in Handles, Remap(t, h, new)
      PROVE  MapInv' /\ CtrlInv'
  BY <1>0, <1>6, RemapCtrl, RemapMap
<1>7. ASSUME NEW t \in Tasks, PutKeep(t) \/ PutFreed(t)
      PROVE  MapInv' /\ CtrlInv'
  <2>1. UNCHANGED <<ctrl, map, handle, res>> /\ at' \in [Tasks -> Maps \cup {None}] /\ corrupt' \in BOOLEAN
    BY <1>0, <1>7 DEF PutKeep, PutFreed
  <2> QED BY <1>0, <2>1, PutKeepCtrl, CtrlMap
<1>8. ASSUME NEW t \in Tasks, PutRemove(t)
      PROVE  MapInv' /\ CtrlInv'
  BY <1>0, <1>8, PutRemoveCtrl, PutRemoveMap
<1>9. ASSUME Exit PROVE MapInv' /\ CtrlInv'
  BY <1>9, ExitMap, ExitCtrl
<1>10. ASSUME UNCHANGED vars PROVE MapInv' /\ CtrlInv'
  BY <1>0, <1>10, CtrlMap, PutKeepCtrl DEF vars
<1> QED BY <1>1, <1>2, <1>3, <1>4, <1>5, <1>6, <1>7, <1>8, <1>9, <1>10 DEF Next

LEMMA Invariant == Spec => []IndInv
<1>1. Init => IndInv
  BY InitInv
<1>2. IndInv /\ [Next]_vars => IndInv'
  BY StepInv
<1> QED BY <1>1, <1>2, PTL DEF Spec

-----------------------------------------------------------------------------
\* The count of a mapping is the number of its handles, and it has its range
\* as long as it has one (get_map, put_map in dma.cpp).
THEOREM MappingsCountHandles == Spec => []CountsHandles
<1>1. IndInv => CountsHandles
  BY DEF IndInv, MapInv
<1> QED BY <1>1, Invariant, PTL

\* The count of a controller is the number of its holders on every path of
\* mapping and unmapping, and after nvm_ctrl_free (_nvm_ctrl_get, _nvm_ctrl_put).
THEOREM ControllersCountHolders == Spec => []RefsCounted
<1>1. IndInv => RefsCounted
  BY DEF IndInv, RefsExact, RefsCounted
<1> QED BY <1>1, Invariant, PTL

\* The mapping's own reference keeps its controller open.
LEMMA OpenWhileMapped ==
    ASSUME IndInv, NEW m \in Maps, map[m].va
    PROVE  ctrl[map[m].dev].open
<1>1. PICK h \in Handles : handle[h] = m
  BY DEF IndInv, MapInv, CountsHandles, HandlesOf
<1>2. map[m].live
  BY <1>1, DmaAssumption DEF IndInv, MapInv, Live
<1> PICK d \in Devs : d = map[m].dev
  BY <1>2 DEF IndInv, MapInv, Live
<1>3. <<m, "mref">> \in Holders(d)
  BY <1>2 DEF IndInv, MapInv, Live, Holders, Refs
<1>4. IsFiniteSet(Holders(d)) /\ Cardinality(Holders(d)) \in Nat
  BY HoldersType, PairsFinite
<1>5. Cardinality(Holders(d)) # 0
  BY <1>3, <1>4, FS_EmptySet
<1>6. ctrl[d].count # 0
  BY <1>4, <1>5 DEF IndInv, RefsExact
<1> QED BY <1>6 DEF IndInv, OpenIffCounted

\* A mapping with a range is mapped through an open device, also when the user
\* has freed the controller before (~Controller in ctrl.h).
THEOREM DeviceOutlivesMappings == Spec => []MappedWhileOpen
<1>1. IndInv => MappedWhileOpen
  BY OpenWhileMapped DEF MappedWhileOpen
<1> QED BY <1>1, Invariant, PTL

\* A call that fails and a mapping that is gone leave nothing behind but a
\* segment in device memory, or a caller's segment that was made available
\* (the error paths of linux/dma.cpp and dis/dma.c).
THEOREM ErrorPathsGiveBack == Spec => []NothingLeft
<1>1. IndInv => NothingLeft
  <2> SUFFICES ASSUME IndInv, NEW m \in Maps, ~map[m].live
               PROVE  res[m] \subseteq {"devseg", "avail"}
    BY DEF NothingLeft
  <2>1. HandlesOf(m) = {}
    BY DmaAssumption DEF IndInv, MapInv, Live, HandlesOf
  <2>2. ~map[m].va
    BY <2>1 DEF IndInv, MapInv, CountsHandles
  <2> QED BY <2>2 DEF IndInv, MapInv, Remains
<1> QED BY <1>1, Invariant, PTL

-----------------------------------------------------------------------------
\* The refinement mapping: by the invariant a mapping is in place exactly when
\* it has a handle, so a step is known by what it does to the handles.
Held == [m \in Maps |-> HandlesOf(m)]
InPlace == [m \in Maps |-> map[m].va /\ Everything(map[m].kind) \subseteq res[m]]

LEMMA InPlaceIffHeld ==
    /\ IndInv => InPlace = [m \in Maps |-> HandlesOf(m) # {}]
    /\ IndInv' => InPlace' = [m \in Maps |-> HandlesOf(m)' # {}]
<1>1. ASSUME IndInv, NEW m \in Maps
      PROVE  (map[m].va /\ Everything(map[m].kind) \subseteq res[m]) = (HandlesOf(m) # {})
  BY <1>1 DEF IndInv, MapInv, CountsHandles, Complete
<1>2. ASSUME IndInv', NEW m \in Maps
      PROVE  (map'[m].va /\ Everything(map'[m].kind) \subseteq res'[m]) = (HandlesOf(m)' # {})
  BY <1>2 DEF IndInv, MapInv, CountsHandles, Complete
<1> QED BY <1>1, <1>2 DEF InPlace

LEMMA Taken ==
    ASSUME IndInv, IndInv', NEW m \in Maps, NEW h \in Handles, handle[h] = None,
           handle' = [handle EXCEPT ![h] = m]
    PROVE  Shared!Hold(m, h)
<1>1. \A n \in Maps : HandlesOf(n)' = IF n = m THEN HandlesOf(n) \cup {h} ELSE HandlesOf(n)
  <2> SUFFICES ASSUME NEW n \in Maps
               PROVE  HandlesOf(n)' = IF n = m THEN HandlesOf(n) \cup {h} ELSE HandlesOf(n)
    OBVIOUS
  <2>1. \A g \in Handles : handle'[g] = IF g = h THEN m ELSE handle[g]
    BY DEF IndInv, MapInv, Types
  <2> QED BY <2>1, DmaAssumption DEF HandlesOf
<1>2. \A n \in Maps : h \notin HandlesOf(n)
  BY DmaAssumption DEF HandlesOf
<1>3. Held' = [Held EXCEPT ![m] = @ \cup {h}]
  BY <1>1 DEF Held
<1>4. InPlace' = [InPlace EXCEPT ![m] = TRUE]
  <2>1. InPlace = [n \in Maps |-> HandlesOf(n) # {}]
    BY InPlaceIffHeld
  <2>2. InPlace' = [n \in Maps |-> HandlesOf(n)' # {}]
    BY InPlaceIffHeld
  <2>3. HandlesOf(m)' # {} /\ \A n \in Maps : n # m => HandlesOf(n)' = HandlesOf(n)
    BY <1>1
  <2> QED BY <2>1, <2>2, <2>3
<1> QED BY <1>2, <1>3, <1>4 DEF Shared!Hold, Held, InPlace, Everything

LEMMA Released ==
    ASSUME IndInv, IndInv', NEW m \in Maps, NEW h \in Handles, handle[h] = m,
           handle' = [handle EXCEPT ![h] = None]
    PROVE  Shared!Drop(m, h)
<1>1. \A n \in Maps : HandlesOf(n)' = IF n = m THEN HandlesOf(n) \ {h} ELSE HandlesOf(n)
  <2> SUFFICES ASSUME NEW n \in Maps
               PROVE  HandlesOf(n)' = IF n = m THEN HandlesOf(n) \ {h} ELSE HandlesOf(n)
    OBVIOUS
  <2>1. \A g \in Handles : handle'[g] = IF g = h THEN None ELSE handle[g]
    BY DEF IndInv, MapInv, Types
  <2> QED BY <2>1, DmaAssumption DEF HandlesOf
<1>2. h \in HandlesOf(m)
  BY DEF HandlesOf
<1>3. Held' = [Held EXCEPT ![m] = @ \ {h}]
  BY <1>1 DEF Held
<1>4. InPlace' = [InPlace EXCEPT ![m] = HandlesOf(m) # {h}]
  <2>1. InPlace = [n \in Maps |-> HandlesOf(n) # {}]
    BY InPlaceIffHeld
  <2>2. InPlace' = [n \in Maps |-> HandlesOf(n)' # {}]
    BY InPlaceIffHeld
  <2>3. (HandlesOf(m)' # {}) = (HandlesOf(m) # {h}) /\ \A n \in Maps : n # m => HandlesOf(n)' = HandlesOf(n)
    BY <1>1, <1>2
  <2> QED BY <2>1, <2>2, <2>3
<1>5. Held[m] = HandlesOf(m)
  BY DEF Held
<1> QED BY <1>2, <1>3, <1>4, <1>5 DEF Shared!Drop, Held, InPlace, Everything

LEMMA Gone == ASSUME Exit PROVE Shared!End
<1>1. \A m \in Maps : HandlesOf(m)' = {}
  BY DmaAssumption DEF Exit, HandlesOf
<1>2. \A m \in Maps : map'[m].va = FALSE
  BY DEF Exit, NoMap
<1> QED BY <1>1, <1>2 DEF Shared!End

LEMMA Unmoved ==
    ASSUME IndInv, IndInv', UNCHANGED handle
    PROVE  UNCHANGED Shared!vars
<1>1. \A m \in Maps : HandlesOf(m)' = HandlesOf(m)
  BY DEF HandlesOf
<1>2. Held' = Held
  BY <1>1 DEF Held
<1>3. InPlace' = InPlace
  BY <1>1, InPlaceIffHeld
<1> QED BY <1>2, <1>3 DEF Shared!vars, Held, InPlace, Everything

LEMMA StepShared == IndInv /\ IndInv' /\ [Next]_vars => [Shared!Next]_(Shared!vars)
<1> SUFFICES ASSUME IndInv, IndInv', [Next]_vars PROVE [Shared!Next]_(Shared!vars)
  OBVIOUS
<1>1. ASSUME NEW d \in Devs, CtrlInit(d) \/ CtrlFree(d) PROVE UNCHANGED handle
  BY <1>1 DEF CtrlInit, open_device, borrow_device, nvm_ctrl_init, CtrlFree
<1>2. ASSUME NEW t \in Tasks, NEW d \in Devs, NEW kind \in Kinds, NEW m \in Maps, NEW h \in Handles,
             Create(t, d, kind, m, h)
      PROVE  Shared!Hold(m, h)
  BY <1>2, Taken DEF Create
<1>3. ASSUME NEW t \in Tasks, NEW d \in Devs, NEW kind \in Kinds, NEW m \in Maps, NEW k \in 0 .. 5,
             CreateFail(t, d, kind, m, k)
      PROVE  UNCHANGED handle
  BY <1>3 DEF CreateFail
<1>4. ASSUME NEW t \in Tasks, NEW h \in Handles, Unmap(t, h)
      PROVE  \E m \in Maps : Shared!Drop(m, h)
  <2> PICK m \in Maps : m = handle[h]
    BY <1>4 DEF Unmap, IndInv, MapInv, Types
  <2>1. handle' = [handle EXCEPT ![h] = None]
    BY <1>4 DEF Unmap
  <2> QED BY <2>1, Released
<1>5. ASSUME NEW t \in Tasks, NEW h \in Handles, NEW new \in Handles, Remap(t, h, new)
      PROVE  \E m \in Maps : Shared!Hold(m, new)
  <2> PICK m \in Maps : m = handle[h]
    BY <1>5 DEF Remap, IndInv, MapInv, Types
  <2>1. handle[new] = None /\ handle' = [handle EXCEPT ![new] = m]
    BY <1>5 DEF Remap
  <2> QED BY <2>1, Taken
<1>6. ASSUME NEW t \in Tasks, PutKeep(t) \/ PutRemove(t) \/ PutFreed(t) PROVE UNCHANGED handle
  BY <1>6 DEF PutKeep, PutRemove, PutFreed
<1>7. ASSUME Exit PROVE Shared!End
  BY <1>7, Gone
<1>8. ASSUME UNCHANGED vars PROVE UNCHANGED handle
  BY <1>8 DEF vars
<1>9. UNCHANGED handle => UNCHANGED Shared!vars
  BY Unmoved
<1> QED BY <1>1, <1>2, <1>3, <1>4, <1>5, <1>6, <1>7, <1>8, <1>9 DEF Next, Shared!Next

\* Handles keep their promise: memory is mapped for the device from the first
\* handle to the last, whoever gives them up in whatever order (nvm_dma_remap,
\* nvm_dma_unmap); every step is a step of SharedMapping or none.
THEOREM SharingImplemented == Spec => ImplementsSharing
<1>1. Init => Shared!Init
  <2> SUFFICES ASSUME Init PROVE Shared!Init
    OBVIOUS
  <2>1. \A m \in Maps : HandlesOf(m) = {} /\ map[m].va = FALSE
    BY DmaAssumption DEF Init, HandlesOf, NoMap
  <2> QED BY <2>1 DEF Shared!Init
<1>2. IndInv /\ IndInv' /\ [Next]_vars => [Shared!Next]_(Shared!vars)
  BY StepShared
<1> QED BY <1>1, <1>2, Invariant, PTL DEF Spec, ImplementsSharing, Shared!Spec

(***************************************************************************)
(* The process and the kernel module: DmaStack                             *)
(***************************************************************************)
CtrlEntry == [dev : Pci, number : Int, cdev : Cdevs]
HostEntry == {e \in [id : Ids, owner : Tasks, vaddr : Int, buf : HostBufs] : e.vaddr = e.buf}
DeviceEntry == {e \in [id : Ids, owner : Tasks, vaddr : Int, buf : GpuBufs, n : Nat] :
                  e.vaddr = Block(e.buf)}

\* Controllers: the count follows the list.
ListInv ==
    /\ ctrlList \in Seq(CtrlEntry) /\ currCtrls \in Int
    /\ probing = {} \/ \E d \in Pci : probing = {d}
    /\ \A d \in probing : Listed(d)
    /\ \A d \in ignored : ~Listed(d)
    /\ NumbersValid

\* GPU mappings: an entry has no more of them than the list has controllers.
P2PInv ==
    /\ deviceList \in Seq(DeviceEntry)
    /\ \A i, j \in DOMAIN deviceList : deviceList[i].id = deviceList[j].id => i = j
    /\ ~unplugged => \A i \in DOMAIN deviceList : deviceList[i].n <= Len(ctrlList)
    /\ P2PBalanced

\* Buffers: of one mapping each; entries for GPU memory are of allocated
\* buffers, and of those that were mapped as GPU memory.
BufInv ==
    /\ bufOf \in [Maps -> Bufs \cup {None}]
    /\ \A m, n \in Maps : (bufOf[m] = bufOf[n] /\ bufOf[m] # None) => m = n
    /\ \A i, j \in DOMAIN deviceList : deviceList[i].buf = deviceList[j].buf => i = j
    /\ \A i \in DOMAIN deviceList :
         deviceList[i].buf \in lost \/ \E m \in Maps : bufOf[m] = deviceList[i].buf
    /\ \A m \in Maps : (map[m].va /\ map[m].kind # "cuda") =>
         \A i \in DOMAIN deviceList : deviceList[i].buf # bufOf[m]

\* Mappings and the kernel's entries; two mappings that map_find may mistake for
\* one another are never in place without a trace in crowded.
Mistakable(m, n) ==
    /\ m # n /\ map[m].va /\ map[n].va
    /\ bufOf[m] # None /\ bufOf[n] # None /\ Confusable(bufOf[m], bufOf[n])

EntryInv ==
    /\ hostList \in Seq(HostEntry)
    /\ \A m \in Maps : map[m].va =>
         IF map[m].kind \in Kernel THEN bufOf[m] \in BufsOf(map[m].kind) /\ map[m].dev \in Ioctl
         ELSE bufOf[m] = None
    /\ \A m, n \in Maps : Mistakable(m, n) => crowded
    /\ MappedInKernel
    /\ Excepted \/ /\ \A i, j \in DOMAIN hostList : hostList[i].buf = hostList[j].buf => i = j
                   /\ \A i \in DOMAIN hostList, j \in DOMAIN deviceList :
                        hostList[i].buf # deviceList[j].buf
    /\ NoStaleEntries

StackInv == IndInv /\ ListInv /\ P2PInv /\ BufInv /\ EntryInv

-----------------------------------------------------------------------------
\* Taking one entry out of a list keeps the others, in their order.
LEMMA Removed ==
    ASSUME NEW S, NEW s \in Seq(S), NEW i \in 1 .. Len(s)
    PROVE  /\ list_remove(s, i) \in Seq(S)
           /\ Len(list_remove(s, i)) = Len(s) - 1
           /\ \A j \in 1 .. Len(s) - 1 : list_remove(s, i)[j] = s[IF j < i THEN j ELSE j + 1]
<1>1. /\ SubSeq(s, 1, i - 1) \in Seq(S) /\ Len(SubSeq(s, 1, i - 1)) = i - 1
      /\ \A j \in 1 .. i - 1 : SubSeq(s, 1, i - 1)[j] = s[j]
  OBVIOUS
<1>2. /\ SubSeq(s, i + 1, Len(s)) \in Seq(S) /\ Len(SubSeq(s, i + 1, Len(s))) = Len(s) - i
      /\ \A j \in 1 .. Len(s) - i : SubSeq(s, i + 1, Len(s))[j] = s[i + j]
  OBVIOUS
<1>a. PICK a \in Seq(S) : a = SubSeq(s, 1, i - 1)
  BY <1>1
<1>b. PICK b \in Seq(S) : b = SubSeq(s, i + 1, Len(s))
  BY <1>2
<1>3. /\ a \o b \in Seq(S) /\ Len(a \o b) = Len(a) + Len(b)
      /\ \A j \in 1 .. Len(a) + Len(b) : (a \o b)[j] = IF j <= Len(a) THEN a[j] ELSE b[j - Len(a)]
  BY ConcatProperties
<1>4. list_remove(s, i) = a \o b
  BY <1>a, <1>b DEF list_remove, RemoveAt
<1>5. Len(a) = i - 1 /\ Len(b) = Len(s) - i /\ Len(s) \in Nat
  BY <1>1, <1>2, <1>a, <1>b
<1>6. ASSUME NEW j \in 1 .. Len(s) - 1
      PROVE  (a \o b)[j] = s[IF j < i THEN j ELSE j + 1]
  <2>1. CASE j < i
    BY <2>1, <1>1, <1>3, <1>5, <1>a
  <2>2. CASE ~(j < i)
    <3>1. (a \o b)[j] = b[j - (i - 1)] /\ j - (i - 1) \in 1 .. Len(s) - i
      BY <2>2, <1>3, <1>5
    <3>2. b[j - (i - 1)] = s[i + (j - (i - 1))] /\ i + (j - (i - 1)) = j + 1
      BY <3>1, <1>2, <1>b
    <3> QED BY <2>2, <3>1, <3>2
  <2> QED BY <2>1, <2>2
<1>7. Len(a \o b) = Len(s) - 1
  BY <1>3, <1>5
<1> QED BY <1>3, <1>4, <1>6, <1>7

\* What a search returns is one of the places that match.
LEMMA FirstIn == ASSUME NEW n \in Nat, NEW is, is \subseteq 1 .. n, is # {} PROVE First(is) \in is
<1> DEFINE R == {x \in Nat \X Nat : x[1] < x[2]}
<1>1. IsWellFoundedOn(R, Nat)
  BY NatLessThanWellFounded DEF OpToRel
<1> HIDE DEF R
<1>a. is \subseteq Nat
  OBVIOUS
<1>2. PICK i \in is : \A j \in is : ~(<<j, i>> \in R)
  BY <1>1, <1>a, WFMin, Zenon
<1>3. \A j \in is : i <= j
  <2> SUFFICES ASSUME NEW j \in is, ~(i <= j) PROVE FALSE
    OBVIOUS
  <2>1. j \in Nat /\ i \in Nat /\ j < i
    OBVIOUS
  <2>2. <<j, i>> \in R
    BY <2>1 DEF R
  <2> QED BY <1>2, <2>2
<1> QED BY <1>3 DEF First

-----------------------------------------------------------------------------
\* Controllers.
ctrlVars == <<ctrlList, probing, ignored, currCtrls, undercount>>

LEMMA CtrlStays == ASSUME ListInv, UNCHANGED ctrlVars PROVE ListInv'
BY DEF ListInv, ctrlVars, Listed, NumbersValid

LEMMA SingleCard == \A d : Cardinality({d}) = 1
BY FS_Singleton

LEMMA NoneCard == Cardinality({}) = 0
BY FS_EmptySet

LEMMA ProbeCtrl == ASSUME ListInv, NEW d \in Pci, Probe(d) PROVE ListInv'
<1>1. CASE currCtrls >= MaxCtrls
  BY <1>1 DEF ListInv, Probe, Listed, NumbersValid
<1>2. CASE ~(currCtrls >= MaxCtrls)
  <2> PICK c \in Cdevs : ctrlList' = Append(ctrlList, [dev |-> d, number |-> currCtrls, cdev |-> c])
    BY <1>2 DEF Probe, ctrl_get, list_insert
  <2>1. /\ ctrlList' = Append(ctrlList, [dev |-> d, number |-> currCtrls, cdev |-> c])
        /\ probing' = {d} /\ UNCHANGED <<ignored, currCtrls, undercount>>
        /\ probing = {} /\ d \notin ignored
    BY <1>2 DEF Probe
  <2>2. [dev |-> d, number |-> currCtrls, cdev |-> c] \in CtrlEntry
    BY DEF ListInv, CtrlEntry
  <2> PICK e \in CtrlEntry : e = [dev |-> d, number |-> currCtrls, cdev |-> c]
    BY <2>2
  <2>3. /\ ctrlList' \in Seq(CtrlEntry) /\ Len(ctrlList') = Len(ctrlList) + 1
        /\ DOMAIN ctrlList' = 1 .. Len(ctrlList) + 1 /\ DOMAIN ctrlList = 1 .. Len(ctrlList)
        /\ ctrlList'[Len(ctrlList) + 1] = e
        /\ \A i \in 1 .. Len(ctrlList) : ctrlList'[i] = ctrlList[i]
    BY <2>1, AppendProperties DEF ListInv
  <2>4. Listed(d)'
    BY <2>3 DEF Listed
  <2>5. \A x \in ignored : ~Listed(x)'
    BY <2>1, <2>3 DEF Listed, ListInv
  <2>6. NumbersValid'
    <3>1. CASE undercount
      BY <3>1, <2>1 DEF NumbersValid
    <3>2. CASE ~undercount
      <4>1. currCtrls = Len(ctrlList)
        BY <3>2, <2>1, NoneCard DEF ListInv, NumbersValid
      <4>2. currCtrls \in 0 .. MaxCtrls - 1
        BY <4>1, <1>2, StackAssumption DEF ListInv
      <4>3. \A i \in DOMAIN ctrlList' : ctrlList'[i].number \in 0 .. MaxCtrls - 1
        BY <3>2, <2>3, <4>2 DEF ListInv, NumbersValid
      <4>4. Cardinality(probing') = 1
        BY <2>1, SingleCard, Zenon
      <4>5. currCtrls' = Len(ctrlList') - Cardinality(probing')
        BY <4>1, <4>4, <2>1, <2>3 DEF ListInv
      <4> QED BY <4>3, <4>5 DEF NumbersValid
    <3> QED BY <3>1, <3>2
  <2> QED BY <2>1, <2>3, <2>4, <2>5, <2>6 DEF ListInv
<1> QED BY <1>1, <1>2

LEMMA ProbeDoneCtrl == ASSUME ListInv, ProbeDone PROVE ListInv'
<1>1. /\ currCtrls' = currCtrls + 1 /\ probing' = {} /\ UNCHANGED <<ctrlList, ignored, undercount>>
      /\ \E d \in Pci : probing = {d}
  BY DEF ProbeDone, ListInv
<1>2. Cardinality(probing) = 1 /\ Cardinality(probing') = 0
  BY <1>1, SingleCard, NoneCard, Zenon
<1>3. NumbersValid'
  BY <1>1, <1>2 DEF NumbersValid, ListInv
<1> QED BY <1>1, <1>3 DEF ListInv, Listed

\* ctrl_put takes the controller out of the list and leaves the others.
LEMMA PutList ==
    ASSUME ListInv, NEW d \in Pci, ctrl_put(d), Listed(d)
    PROVE  /\ ctrlList' \in Seq(CtrlEntry) /\ Len(ctrlList') = Len(ctrlList) - 1
           /\ \A i \in DOMAIN ctrlList' : \E j \in DOMAIN ctrlList : ctrlList'[i] = ctrlList[j]
           /\ \A x : x # d /\ Listed(x) => Listed(x)'
           /\ \A x : Listed(x)' => Listed(x)
<1> DEFINE is == {i \in DOMAIN ctrlList : ctrlList[i].dev = d}
<1>1. PICK i : i = First(is)
  OBVIOUS
<1>2. ctrlList \in Seq(CtrlEntry) /\ DOMAIN ctrlList = 1 .. Len(ctrlList) /\ Len(ctrlList) \in Nat
  BY DEF ListInv
<1>3. is # {} /\ is \subseteq 1 .. Len(ctrlList)
  BY <1>2 DEF Listed
<1>4. i \in is
  BY <1>1, <1>2, <1>3, FirstIn
<1>5. i \in 1 .. Len(ctrlList) /\ ctrlList[i].dev = d
  BY <1>2, <1>4
<1>6. ctrlList' = list_remove(ctrlList, i)
  BY <1>1 DEF ctrl_put
<1>7. /\ ctrlList' \in Seq(CtrlEntry) /\ Len(ctrlList') = Len(ctrlList) - 1
      /\ \A j \in 1 .. Len(ctrlList) - 1 : ctrlList'[j] = ctrlList[IF j < i THEN j ELSE j + 1]
  BY <1>2, <1>5, <1>6, Removed
<1>8. DOMAIN ctrlList' = 1 .. Len(ctrlList) - 1
  BY <1>7
<1>9. \A j \in DOMAIN ctrlList' : \E k \in DOMAIN ctrlList : ctrlList'[j] = ctrlList[k]
  BY <1>2, <1>5, <1>7, <1>8
<1>10. ASSUME NEW x, x # d, Listed(x) PROVE Listed(x)'
  <2>1. PICK k \in 1 .. Len(ctrlList) : ctrlList[k].dev = x
    BY <1>10, <1>2 DEF Listed
  <2>2. PICK j \in 1 .. Len(ctrlList) - 1 : k = IF j < i THEN j ELSE j + 1
    <3>1. k < i \/ k > i
      BY <2>1, <1>5, <1>10, <1>2
    <3>2. CASE k < i
      BY <3>2, <1>2, <1>5
    <3>3. CASE k > i
      <4>1. k - 1 \in 1 .. Len(ctrlList) - 1 /\ ~(k - 1 < i) /\ k = (k - 1) + 1
        BY <3>3, <1>2, <1>5
      <4> QED BY <4>1
    <3> QED BY <3>1, <3>2, <3>3
  <2> QED BY <2>1, <2>2, <1>7, <1>8 DEF Listed
<1>11. \A x : Listed(x)' => Listed(x)
  BY <1>9 DEF Listed
<1> QED BY <1>7, <1>9, <1>10, <1>11

LEMMA ProbeFailCtrl == ASSUME ListInv, ProbeFail PROVE ListInv'
<1>1. PICK d \in Pci : probing = {d} /\ ctrl_put(d)
  BY DEF ProbeFail, ListInv
<1>2. probing' = {} /\ UNCHANGED <<ignored, currCtrls, undercount>>
  BY DEF ProbeFail
<1>3. Listed(d)
  BY <1>1 DEF ListInv
<1>4. /\ ctrlList' \in Seq(CtrlEntry) /\ Len(ctrlList') = Len(ctrlList) - 1
      /\ \A i \in DOMAIN ctrlList' : \E j \in DOMAIN ctrlList : ctrlList'[i] = ctrlList[j]
      /\ \A x : Listed(x)' => Listed(x)
  BY <1>1, <1>3, PutList
<1>5. NumbersValid'
  <2>1. CASE undercount
    BY <2>1, <1>2 DEF NumbersValid
  <2>2. CASE ~undercount
    <3>1. \A i \in DOMAIN ctrlList' : ctrlList'[i].number \in 0 .. MaxCtrls - 1
      BY <2>2, <1>4 DEF ListInv, NumbersValid
    <3>2. Cardinality(probing) = 1 /\ Cardinality(probing') = 0
      BY <1>1, <1>2, SingleCard, NoneCard, Zenon
    <3>3. currCtrls' = Len(ctrlList') - Cardinality(probing')
      BY <2>2, <1>2, <1>4, <3>2 DEF ListInv, NumbersValid
    <3> QED BY <3>1, <3>3 DEF NumbersValid
  <2> QED BY <2>1, <2>2
<1> QED BY <1>2, <1>4, <1>5 DEF ListInv

LEMMA RemoveDevCtrl == ASSUME ListInv, NEW d \in Pci, RemoveDev(d) PROVE ListInv'
<1>1. /\ currCtrls' = currCtrls - 1 /\ ctrl_put(d) /\ ignored' = ignored \ {d}
      /\ undercount' = (undercount \/ d \in ignored) /\ UNCHANGED probing /\ d \notin probing
      /\ Listed(d) \/ d \in ignored
  BY DEF RemoveDev
<1>2. CASE ~Listed(d)
  <2>1. UNCHANGED ctrlList /\ undercount'
    BY <1>1, <1>2 DEF ctrl_put
  <2> QED BY <1>1, <2>1 DEF ListInv, NumbersValid, Listed
<1>3. CASE Listed(d)
  <2>1. /\ ctrlList' \in Seq(CtrlEntry) /\ Len(ctrlList') = Len(ctrlList) - 1
        /\ \A i \in DOMAIN ctrlList' : \E j \in DOMAIN ctrlList : ctrlList'[i] = ctrlList[j]
        /\ \A x : x # d /\ Listed(x) => Listed(x)'
        /\ \A x : Listed(x)' => Listed(x)
    BY <1>1, <1>3, PutList
  <2>2. undercount => undercount'
    BY <1>1, <1>3 DEF ListInv
  <2>3. Cardinality(probing) \in Nat
    <3>1. CASE probing = {}
      BY <3>1, NoneCard
    <3>2. ASSUME NEW x \in Pci, probing = {x} PROVE Cardinality(probing) \in Nat
      <4>1. Cardinality(probing) = 1
        BY <3>2, SingleCard, Zenon
      <4> QED BY <4>1
    <3> QED BY <3>1, <3>2 DEF ListInv
  <2>4. NumbersValid'
    <3>1. CASE undercount
      BY <3>1, <2>2 DEF NumbersValid
    <3>2. CASE ~undercount
      <4>1. \A i \in DOMAIN ctrlList' : ctrlList'[i].number \in 0 .. MaxCtrls - 1
        BY <3>2, <2>1 DEF ListInv, NumbersValid
      <4>2. currCtrls' = Len(ctrlList') - Cardinality(probing')
        BY <3>2, <1>1, <2>1, <2>3 DEF ListInv, NumbersValid
      <4> QED BY <4>1, <4>2 DEF NumbersValid
    <3> QED BY <3>1, <3>2
  <2>5. \A x \in probing' : Listed(x)'
    BY <1>1, <2>1 DEF ListInv
  <2>6. \A x \in ignored' : ~Listed(x)'
    BY <1>1, <2>1 DEF ListInv
  <2> QED BY <1>1, <2>1, <2>4, <2>5, <2>6 DEF ListInv
<1> QED BY <1>2, <1>3

LEMMA EmptyList ==
    ASSUME ctrlList = <<>>, probing = {}, ignored = {}, currCtrls = 0
    PROVE  ListInv
BY NoneCard DEF ListInv, NumbersValid, Listed

-----------------------------------------------------------------------------
\* Addresses: blocks, and what a GPU buffer shares with no other.
LEMMA BlockFacts ==
    \A b \in Bufs : Block(b) \in Int /\ Block(Block(b)) = Block(b)
BY AddressAssumption DEF Block, PagesPerBlock

LEMMA OwnBlock == \A g \in GpuBufs, b \in Bufs : Block(g) = Block(b) => g = b
BY AddressAssumption

LEMMA NotNone == \A kind : \A b \in BufsOf(kind) : b \in Bufs /\ b # None
BY StackAssumption DEF BufsOf, Bufs

-----------------------------------------------------------------------------
\* GPU mappings.
gpuVars == <<deviceList, p2p, unplugged>>

\* What the NVIDIA driver holds for the entries of a list
HeldFor(list) == UNION {{e.id} \X (1 .. e.n) : e \in Range(list)}

LEMMA EntryType ==
    ASSUME deviceList \in Seq(DeviceEntry)
    PROVE  \A i \in DOMAIN deviceList : deviceList[i] \in DeviceEntry /\ deviceList[i].n \in Nat
<1> SUFFICES ASSUME NEW i \in DOMAIN deviceList
             PROVE  deviceList[i] \in DeviceEntry /\ deviceList[i].n \in Nat
  OBVIOUS
<1>1. deviceList[i] \in DeviceEntry
  OBVIOUS
<1> QED BY <1>1 DEF DeviceEntry

LEMMA P2PStays ==
    ASSUME P2PInv, UNCHANGED gpuVars, Len(ctrlList) \in Nat, Len(ctrlList') \in Nat,
           Len(ctrlList) <= Len(ctrlList')
    PROVE  P2PInv'
<1>1. UNCHANGED <<deviceList, p2p, unplugged>>
  BY DEF gpuVars
<1>2. P2PBalanced'
  BY <1>1 DEF P2PInv, P2PBalanced, Range
<1>3. ~unplugged' => \A i \in DOMAIN deviceList' : deviceList'[i].n <= Len(ctrlList')
  <2> SUFFICES ASSUME ~unplugged, NEW i \in DOMAIN deviceList PROVE deviceList[i].n <= Len(ctrlList')
    BY <1>1
  <2>1. deviceList[i].n <= Len(ctrlList) /\ deviceList[i].n \in Nat
    BY EntryType DEF P2PInv
  <2> QED BY <2>1
<1> QED BY <1>1, <1>2, <1>3 DEF P2PInv

\* Without GPU mappings anything goes.
LEMMA NoneHeld ==
    ASSUME deviceList' = <<>>, unplugged' \/ p2p' = {}
    PROVE  P2PInv'
BY DEF P2PInv, P2PBalanced, Range

LEMMA PutP2P ==
    ASSUME P2PInv, NEW d, ctrl_put(d), UNCHANGED <<deviceList, p2p>>,
           Len(ctrlList) \in Nat
    PROVE  P2PInv'
<1>1. CASE ~Listed(d)
  <2>1. UNCHANGED ctrlList /\ unplugged' = (unplugged \/ FALSE)
    BY <1>1 DEF ctrl_put
  <2> QED BY <2>1 DEF P2PInv, P2PBalanced, Range
<1>2. CASE Listed(d) /\ deviceList # <<>>
  <2>1. unplugged'
    BY <1>2 DEF ctrl_put
  <2> QED BY <2>1 DEF P2PInv, P2PBalanced
<1>3. CASE Listed(d) /\ deviceList = <<>>
  <2>1. unplugged \/ p2p = {}
    BY <1>3 DEF P2PInv, P2PBalanced, Range
  <2>2. deviceList' = <<>> /\ (unplugged' \/ p2p' = {})
    BY <1>3, <2>1 DEF ctrl_put
  <2> QED BY <2>2, NoneHeld
<1> QED BY <1>1, <1>2, <1>3

\* A new entry has an identity of its own and as many mappings as controllers.
LEMMA MapP2P ==
    ASSUME P2PInv, NEW t \in Tasks, NEW b \in GpuBufs, NEW id \in FreeIds,
           MapDeviceMemory(t, b, id), UNCHANGED <<ctrlList, unplugged>>, Len(ctrlList) \in Nat
    PROVE  P2PInv'
<1> PICK e : e = [id |-> id, owner |-> t, vaddr |-> Block(b), buf |-> b, n |-> Len(ctrlList)]
  OBVIOUS
<1>1. e \in DeviceEntry /\ e.id = id /\ e.n = Len(ctrlList)
  BY BlockFacts DEF DeviceEntry, FreeIds, Bufs
<1>2. /\ deviceList' \in Seq(DeviceEntry)
      /\ DOMAIN deviceList' = 1 .. Len(deviceList) + 1 /\ DOMAIN deviceList = 1 .. Len(deviceList)
      /\ deviceList'[Len(deviceList) + 1] = e
      /\ \A i \in 1 .. Len(deviceList) : deviceList'[i] = deviceList[i]
      /\ Len(deviceList) \in Nat
  BY <1>1, AppendProperties DEF P2PInv, MapDeviceMemory, list_insert
<1>3. \A i \in DOMAIN deviceList : deviceList[i].id # id
  BY DEF FreeIds, Entries, Range
<1>4. \A i, j \in DOMAIN deviceList' : deviceList'[i].id = deviceList'[j].id => i = j
  <2> SUFFICES ASSUME NEW i \in 1 .. Len(deviceList) + 1, NEW j \in 1 .. Len(deviceList) + 1,
                      deviceList'[i].id = deviceList'[j].id
               PROVE  i = j
    BY <1>2
  <2>1. CASE i \in 1 .. Len(deviceList) /\ j \in 1 .. Len(deviceList)
    BY <2>1, <1>2 DEF P2PInv
  <2>2. CASE i = Len(deviceList) + 1 /\ j \in 1 .. Len(deviceList)
    BY <2>2, <1>1, <1>2, <1>3
  <2>3. CASE j = Len(deviceList) + 1 /\ i \in 1 .. Len(deviceList)
    BY <2>3, <1>1, <1>2, <1>3
  <2>4. CASE i = Len(deviceList) + 1 /\ j = Len(deviceList) + 1
    BY <2>4
  <2> QED BY <1>2, <2>1, <2>2, <2>3, <2>4
<1>5. Range(deviceList') = Range(deviceList) \cup {e}
  BY <1>2 DEF Range
<1>6. P2PBalanced'
  <2>1. CASE unplugged
    BY <2>1 DEF P2PBalanced
  <2>2. CASE p2p = HeldFor(deviceList)
    <3>1. HeldFor(deviceList') = HeldFor(deviceList) \cup ({e.id} \X (1 .. e.n))
      BY <1>5 DEF HeldFor
    <3>2. {e.id} \X (1 .. e.n) = {<<id, k>> : k \in 1 .. Len(ctrlList)}
      BY <1>1
    <3> QED BY <2>2, <3>1, <3>2 DEF MapDeviceMemory, P2PBalanced, HeldFor
  <2> QED BY <2>1, <2>2 DEF P2PInv, P2PBalanced, HeldFor
<1>7. ~unplugged' => \A i \in DOMAIN deviceList' : deviceList'[i].n <= Len(ctrlList')
  <2> SUFFICES ASSUME ~unplugged, NEW i \in 1 .. Len(deviceList) + 1
               PROVE  deviceList'[i].n <= Len(ctrlList)
    BY <1>2
  <2>1. CASE i = Len(deviceList) + 1
    BY <2>1, <1>1, <1>2
  <2>2. CASE i # Len(deviceList) + 1
    BY <2>2, <1>2 DEF P2PInv
  <2> QED BY <2>1, <2>2
<1> QED BY <1>2, <1>4, <1>6, <1>7 DEF P2PInv

\* What is left of a list when one entry is taken out: where an entry was before.
Before(i, j) == IF j < i THEN j ELSE j + 1

LEMMA Rest ==
    ASSUME NEW S, NEW s \in Seq(S), NEW i \in 1 .. Len(s), NEW r, r = list_remove(s, i)
    PROVE  /\ r \in Seq(S)
           /\ \A j \in DOMAIN r : Before(i, j) \in DOMAIN s /\ Before(i, j) # i /\ r[j] = s[Before(i, j)]
           /\ \A j, k \in DOMAIN r : Before(i, j) = Before(i, k) => j = k
           /\ \A k \in DOMAIN s : k # i => \E j \in DOMAIN r : r[j] = s[k]
<1>1. /\ r \in Seq(S) /\ Len(r) = Len(s) - 1 /\ Len(s) \in Nat
      /\ \A j \in 1 .. Len(s) - 1 : r[j] = s[IF j < i THEN j ELSE j + 1]
  BY Removed
<1>2. DOMAIN r = 1 .. Len(s) - 1 /\ DOMAIN s = 1 .. Len(s)
  BY <1>1
<1>4. \A j \in DOMAIN r : Before(i, j) \in DOMAIN s /\ Before(i, j) # i /\ r[j] = s[Before(i, j)]
  BY <1>1, <1>2 DEF Before
<1>5. \A j, k \in DOMAIN r : Before(i, j) = Before(i, k) => j = k
  BY <1>1, <1>2 DEF Before
<1>6. ASSUME NEW k \in DOMAIN s, k # i PROVE \E j \in DOMAIN r : r[j] = s[k]
  <2>1. CASE k < i
    BY <2>1, <1>1, <1>2
  <2>2. CASE k > i
    <3>1. k - 1 \in DOMAIN r /\ ~(k - 1 < i) /\ (k - 1) + 1 = k
      BY <2>2, <1>1, <1>2
    <3>2. r[k - 1] = s[k]
      BY <3>1, <1>1, <1>2
    <3> QED BY <3>1, <3>2
  <2> QED BY <2>1, <2>2, <1>6, <1>1, <1>2
<1> QED BY <1>1, <1>4, <1>5, <1>6

\* An entry of a list that is taken out is released completely, the others
\* keep their mappings.
LEMMA ReleaseP2P ==
    ASSUME P2PInv, NEW i \in DOMAIN deviceList, deviceList' = list_remove(deviceList, i),
           p2p' = p2p \ Unmapped({deviceList[i]}, Len(ctrlList)),
           UNCHANGED <<ctrlList, unplugged>>, Len(ctrlList) \in Nat
    PROVE  P2PInv'
<1>1. i \in 1 .. Len(deviceList) /\ deviceList \in Seq(DeviceEntry)
  BY DEF P2PInv
<1>2. /\ \A j \in DOMAIN deviceList' : /\ Before(i, j) \in DOMAIN deviceList /\ Before(i, j) # i
                                       /\ deviceList'[j] = deviceList[Before(i, j)]
      /\ \A j, k \in DOMAIN deviceList' : Before(i, j) = Before(i, k) => j = k
  BY <1>1, Rest
<1>3. \A k \in DOMAIN deviceList : k # i => \E j \in DOMAIN deviceList' : deviceList'[j] = deviceList[k]
  BY <1>1, Rest
<1>4. deviceList' \in Seq(DeviceEntry)
  BY <1>1, Rest
<1>5. \A j, k \in DOMAIN deviceList' : deviceList'[j].id = deviceList'[k].id => j = k
  BY <1>2 DEF P2PInv
<1>6. ~unplugged' => \A j \in DOMAIN deviceList' : deviceList'[j].n <= Len(ctrlList')
  BY <1>2 DEF P2PInv
<1>7. P2PBalanced'
  <2>1. CASE unplugged
    BY <2>1 DEF P2PBalanced
  <2>2. CASE ~unplugged
    <3>1. p2p = HeldFor(deviceList)
      BY <2>2 DEF P2PInv, P2PBalanced, HeldFor
    <3> PICK e \in DeviceEntry : e = deviceList[i]
      BY <1>1
    <3>2. e.n <= Len(ctrlList) /\ e.n \in Nat
      BY <2>2 DEF P2PInv, DeviceEntry
    <3>3. \A x \in Range(deviceList') : x \in Range(deviceList) /\ x.id # e.id
      BY <1>2 DEF P2PInv, Range
    <3>4. \A x \in Range(deviceList) : x = e \/ x \in Range(deviceList')
      BY <1>3 DEF Range
    <3>5. p2p' = p2p \ {<<e.id, k>> : k \in 1 .. Len(ctrlList)}
      BY DEF Unmapped
    <3>6. p2p' \subseteq HeldFor(deviceList')
      <4> SUFFICES ASSUME NEW y \in p2p' PROVE y \in HeldFor(deviceList')
        OBVIOUS
      <4>1. PICK x \in Range(deviceList) : y \in {x.id} \X (1 .. x.n)
        BY <3>1, <3>5 DEF HeldFor
      <4>2. x # e
        BY <4>1, <3>2, <3>5
      <4> QED BY <4>1, <4>2, <3>4 DEF HeldFor
    <3>7. HeldFor(deviceList') \subseteq p2p'
      <4> SUFFICES ASSUME NEW x \in Range(deviceList'), NEW y \in {x.id} \X (1 .. x.n)
                   PROVE  y \in p2p'
        BY DEF HeldFor
      <4>1. y \in p2p
        BY <3>1, <3>3 DEF HeldFor
      <4>2. \A k : y # <<e.id, k>>
        BY <3>3
      <4> QED BY <4>1, <4>2, <3>5
    <3> QED BY <3>6, <3>7 DEF P2PBalanced, HeldFor
  <2> QED BY <2>1, <2>2
<1> QED BY <1>4, <1>5, <1>6, <1>7 DEF P2PInv

LEMMA ClearP2P ==
    ASSUME P2PInv, clear_device_list, UNCHANGED unplugged, Len(ctrlList) \in Nat
    PROVE  P2PInv'
<1>1. CASE unplugged
  BY <1>1, NoneHeld DEF clear_device_list
<1>2. CASE ~unplugged
  <2>1. p2p = HeldFor(deviceList)
    BY <1>2 DEF P2PInv, P2PBalanced, HeldFor
  <2>2. \A x \in Range(deviceList) : x.n \in Nat /\ x.n <= Len(ctrlList)
    BY <1>2, EntryType DEF P2PInv, Range
  <2>3. p2p' = {}
    BY <2>1, <2>2 DEF clear_device_list, HeldFor, Unmapped
  <2> QED BY <2>3, NoneHeld DEF clear_device_list
<1> QED BY <1>1, <1>2

-----------------------------------------------------------------------------
\* Buffers and entries.
listVars == <<hostList, deviceList>>

\* What a mapping with a range is stays as it is.
SameMap(m) ==
    /\ map'[m].va <=> map[m].va
    /\ map[m].va => /\ map'[m].kind = map[m].kind /\ map'[m].dev = map[m].dev
                    /\ map'[m].task = map[m].task

\* Steps that touch no entry and no mapping that has its range
LEMMA BufStays ==
    ASSUME BufInv, EntryInv, UNCHANGED <<listVars, bufOf, lost>>, Excepted => Excepted', crowded => crowded',
           \A m \in Maps : SameMap(m)
    PROVE  BufInv' /\ EntryInv'
<1> USE DEF SameMap
<1>1. UNCHANGED <<hostList, deviceList, bufOf, lost>>
  BY DEF listVars
<1>2. UNCHANGED Entries
  BY <1>1 DEF Entries, Range
<1>3. BufInv'
  BY <1>1 DEF BufInv
<1>4. MappedInKernel'
  BY <1>1, <1>2 DEF EntryInv, MappedInKernel, EntriesOf
<1>5. NoStaleEntries'
  BY <1>1, <1>2 DEF EntryInv, NoStaleEntries, EntriesOf
<1>6. \A m, n \in Maps : Mistakable(m, n)' => crowded'
  BY <1>1 DEF EntryInv, Mistakable
<1>7. \A m \in Maps : map'[m].va =>
         IF map'[m].kind \in Kernel
         THEN bufOf'[m] \in BufsOf(map'[m].kind) /\ map'[m].dev \in Ioctl
         ELSE bufOf'[m] = None
  BY <1>1 DEF EntryInv
<1> QED BY <1>1, <1>3, <1>4, <1>5, <1>6, <1>7 DEF EntryInv

\* No mapping that the kernel knows has its range, and the lists are empty.
LEMMA BufNone ==
    ASSUME bufOf' \in [Maps -> Bufs \cup {None}],
           \A m, n \in Maps : (bufOf'[m] = bufOf'[n] /\ bufOf'[m] # None) => m = n,
           hostList' \in Seq(HostEntry), deviceList' = <<>>,
           hostList' = <<>> \/ excused',
           \A m \in Maps : map'[m].va => map'[m].kind \notin Kernel /\ bufOf'[m] = None
    PROVE  BufInv' /\ EntryInv'
<1>1. BufInv'
  BY DEF BufInv
<1>2. NoStaleEntries'
  <2>1. CASE excused'
    BY <2>1 DEF NoStaleEntries, Excepted
  <2>2. CASE hostList' = <<>>
    <3>1. Entries' = {}
      BY <2>2 DEF Entries, Range
    <3> QED BY <3>1 DEF NoStaleEntries
  <2> QED BY <2>1, <2>2
<1>3. MappedInKernel'
  BY DEF MappedInKernel
<1>4. \A m, n \in Maps : ~Mistakable(m, n)'
  BY DEF Mistakable
<1>5. Excepted' \/ /\ \A i, j \in DOMAIN hostList' : hostList'[i].buf = hostList'[j].buf => i = j
                   /\ \A i \in DOMAIN hostList', j \in DOMAIN deviceList' :
                        hostList'[i].buf # deviceList'[j].buf
  BY DEF Excepted
<1> QED BY <1>2, <1>1, <1>3, <1>4, <1>5 DEF EntryInv

\* Entries are taken away and not added; what the lists promise stays.
Shrunk ==
    /\ hostList' \in Seq(HostEntry)
    /\ \A j \in DOMAIN deviceList' : \E k \in DOMAIN deviceList : deviceList'[j] = deviceList[k]
    /\ \A i, j \in DOMAIN deviceList' : deviceList'[i].buf = deviceList'[j].buf => i = j
    /\ Entries' \subseteq Entries
    /\ Excepted \/ /\ \A i, j \in DOMAIN hostList' : hostList'[i].buf = hostList'[j].buf => i = j
                   /\ \A i \in DOMAIN hostList', j \in DOMAIN deviceList' :
                        hostList'[i].buf # deviceList'[j].buf

\* No entry is taken away but those of one buffer ...
Spared(b) == \A e \in Entries : e.buf # b => e \in Entries'

\* ... and no mapping but m loses its entry, or it may be mistaken for m.
OthersKept(m) ==
    \A n \in Maps : (n # m /\ map[n].va /\ map[n].kind \in Kernel) =>
        \/ \A e \in Entries : e.buf = bufOf[n] => e \in Entries'
        \/ crowded /\ map[n].kind # "cuda" /\ bufOf[n] = Block(bufOf[n])

LEMMA SparedKept ==
    ASSUME BufInv, EntryInv, NEW m \in Maps, Spared(bufOf[m])
    PROVE  OthersKept(m)
<1> SUFFICES ASSUME NEW n \in Maps, n # m, map[n].va, map[n].kind \in Kernel,
                    NEW e \in Entries, e.buf = bufOf[n]
             PROVE  e \in Entries'
  BY DEF OthersKept
<1>1. bufOf[n] # None
  BY NotNone DEF EntryInv
<1>2. bufOf[n] # bufOf[m]
  BY <1>1 DEF BufInv
<1> QED BY <1>2 DEF Spared

LEMMA NothingTaken ==
    ASSUME BufInv, EntryInv, UNCHANGED listVars
    PROVE  Shrunk /\ \A b : Spared(b)
<1>1. UNCHANGED <<hostList, deviceList>>
  BY DEF listVars
<1>2. UNCHANGED Entries
  BY <1>1 DEF Entries, Range
<1>3. Shrunk
  BY <1>1, <1>2 DEF BufInv, EntryInv, Shrunk
<1> QED BY <1>2, <1>3 DEF Spared

\* An entry of the device list is taken out: the only one of its buffer.
LEMMA DeviceTaken ==
    ASSUME BufInv, EntryInv, deviceList \in Seq(DeviceEntry),
           NEW i \in DOMAIN deviceList, deviceList' = list_remove(deviceList, i), UNCHANGED hostList
    PROVE  /\ Shrunk /\ Spared(deviceList[i].buf)
           /\ \A j \in DOMAIN deviceList' : deviceList'[j].buf # deviceList[i].buf
           /\ Excepted \/ \A e \in Entries' : e.buf # deviceList[i].buf
<1>1. i \in 1 .. Len(deviceList)
  OBVIOUS
<1>2. /\ \A j \in DOMAIN deviceList' : /\ Before(i, j) \in DOMAIN deviceList /\ Before(i, j) # i
                                       /\ deviceList'[j] = deviceList[Before(i, j)]
      /\ \A j, k \in DOMAIN deviceList' : Before(i, j) = Before(i, k) => j = k
  BY <1>1, Rest
<1>3. \A k \in DOMAIN deviceList : k # i => \E j \in DOMAIN deviceList' : deviceList'[j] = deviceList[k]
  BY <1>1, Rest
<1>4. \A j, k \in DOMAIN deviceList' : deviceList'[j].buf = deviceList'[k].buf => j = k
  BY <1>2 DEF BufInv
<1>5. \A j \in DOMAIN deviceList' : deviceList'[j].buf # deviceList[i].buf
  BY <1>2 DEF BufInv
<1>6. Entries' \subseteq Entries
  BY <1>2 DEF Entries, Range
<1>7. Shrunk
  BY <1>2, <1>4, <1>6 DEF Shrunk, EntryInv
<1>8. Spared(deviceList[i].buf)
  BY <1>3 DEF Spared, Entries, Range
<1>9. Excepted \/ \A e \in Entries' : e.buf # deviceList[i].buf
  BY <1>5 DEF EntryInv, Entries, Range
<1> QED BY <1>5, <1>7, <1>8, <1>9

LEMMA HostTaken ==
    ASSUME BufInv, EntryInv,
           NEW i \in DOMAIN hostList, hostList' = list_remove(hostList, i), UNCHANGED deviceList
    PROVE  /\ Shrunk /\ Spared(hostList[i].buf)
           /\ Excepted \/ \A e \in Entries' : e.buf # hostList[i].buf
<1>1. i \in 1 .. Len(hostList) /\ hostList \in Seq(HostEntry)
  BY DEF EntryInv
<1>2. /\ hostList' \in Seq(HostEntry)
      /\ \A j \in DOMAIN hostList' : /\ Before(i, j) \in DOMAIN hostList /\ Before(i, j) # i
                                     /\ hostList'[j] = hostList[Before(i, j)]
      /\ \A j, k \in DOMAIN hostList' : Before(i, j) = Before(i, k) => j = k
  BY <1>1, Rest
<1>3. \A k \in DOMAIN hostList : k # i => \E j \in DOMAIN hostList' : hostList'[j] = hostList[k]
  BY <1>1, Rest
<1>6. Entries' \subseteq Entries
  BY <1>2 DEF Entries, Range
<1>7. Shrunk
  <2>1. \A j \in DOMAIN deviceList' : \E k \in DOMAIN deviceList : deviceList'[j] = deviceList[k]
    OBVIOUS
  <2>2. \A j, k \in DOMAIN deviceList' : deviceList'[j].buf = deviceList'[k].buf => j = k
    BY DEF BufInv
  <2>3. Excepted \/ \A j, k \in DOMAIN hostList' : hostList'[j].buf = hostList'[k].buf => j = k
    BY <1>2 DEF EntryInv
  <2>4. Excepted \/ \A j \in DOMAIN hostList', k \in DOMAIN deviceList' :
                     hostList'[j].buf # deviceList'[k].buf
    BY <1>2 DEF EntryInv
  <2> QED BY <1>2, <1>6, <2>1, <2>2, <2>3, <2>4 DEF Shrunk
<1>8. Spared(hostList[i].buf)
  BY <1>3 DEF Spared, Entries, Range
<1>9. Excepted \/ \A e \in Entries' : e.buf # hostList[i].buf
  BY <1>2 DEF EntryInv, Entries, Range
<1> QED BY <1>7, <1>8, <1>9

\* A mapping loses its range or, later, its buffer; no other one is touched.
LEMMA BufLetGo ==
    ASSUME BufInv, EntryInv, NEW m \in Maps, ~map'[m].va,
           \A n \in Maps : n # m => SameMap(n),
           Shrunk, OthersKept(m), lost' = lost, Excepted => Excepted', crowded => crowded',
           ~map[m].va \/ Excepted' \/ \A e \in Entries' : e.buf # bufOf[m],
           \/ bufOf' = bufOf
           \/ /\ bufOf' = [bufOf EXCEPT ![m] = None]
              /\ \A j \in DOMAIN deviceList' : deviceList'[j].buf # bufOf[m]
    PROVE  BufInv' /\ EntryInv'
<1> USE DEF SameMap
<1>1. /\ bufOf' \in [Maps -> Bufs \cup {None}]
      /\ \A n \in Maps : n # m => bufOf'[n] = bufOf[n]
      /\ bufOf'[m] = bufOf[m] \/ bufOf'[m] = None
  BY DEF BufInv
<1>2. \A n, k \in Maps : (bufOf'[n] = bufOf'[k] /\ bufOf'[n] # None) => n = k
  BY <1>1 DEF BufInv
<1>3. \A i \in DOMAIN deviceList' :
         deviceList'[i].buf \in lost' \/ \E n \in Maps : bufOf'[n] = deviceList'[i].buf
  BY <1>1 DEF BufInv, Shrunk
<1>4. \A n \in Maps : (map'[n].va /\ map'[n].kind # "cuda") =>
         \A i \in DOMAIN deviceList' : deviceList'[i].buf # bufOf'[n]
  <2> SUFFICES ASSUME NEW n \in Maps, map'[n].va, map'[n].kind # "cuda", NEW i \in DOMAIN deviceList'
               PROVE  deviceList'[i].buf # bufOf'[n]
    OBVIOUS
  <2>1. n # m /\ map[n].va /\ map[n].kind # "cuda" /\ bufOf'[n] = bufOf[n]
    BY <1>1
  <2>2. PICK k \in DOMAIN deviceList : deviceList'[i] = deviceList[k]
    BY DEF Shrunk
  <2> QED BY <2>1, <2>2 DEF BufInv
<1>5. BufInv'
  BY <1>1, <1>2, <1>3, <1>4 DEF BufInv, Shrunk
<1>6. MappedInKernel'
  <2> SUFFICES ASSUME NEW n \in Maps, map'[n].va, map'[n].kind \in Kernel
               PROVE  \/ \E e \in Entries' : e.owner = map'[n].task /\ e.buf = bufOf'[n]
                      \/ crowded' /\ map'[n].kind # "cuda" /\ bufOf'[n] = Block(bufOf'[n])
    BY DEF MappedInKernel, EntriesOf
  <2>1. n # m /\ map[n].va /\ map[n].kind \in Kernel /\ bufOf'[n] = bufOf[n]
    BY <1>1
  <2>2. CASE crowded /\ map[n].kind # "cuda" /\ bufOf[n] = Block(bufOf[n])
    BY <2>1, <2>2
  <2>3. CASE ~(crowded /\ map[n].kind # "cuda" /\ bufOf[n] = Block(bufOf[n]))
    <3>1. PICK e \in Entries : e.owner = map[n].task /\ e.buf = bufOf[n]
      BY <2>1, <2>3 DEF EntryInv, MappedInKernel, EntriesOf
    <3>2. e \in Entries'
      BY <2>1, <2>3, <3>1 DEF OthersKept
    <3> QED BY <2>1, <3>1, <3>2
  <2> QED BY <2>2, <2>3
<1>7. NoStaleEntries'
  <2> SUFFICES ASSUME ~Excepted', NEW e \in Entries'
               PROVE  \E n \in Maps : /\ map'[n].va /\ e.owner = map'[n].task
                                      /\ e.buf = bufOf'[n]
    BY DEF NoStaleEntries, EntriesOf
  <2>1. e \in Entries
    BY DEF Shrunk
  <2>2. PICK n \in Maps : map[n].va /\ e.owner = map[n].task /\ e.buf = bufOf[n]
    BY <2>1 DEF EntryInv, NoStaleEntries, EntriesOf
  <2>3. n # m
    BY <2>2
  <2> QED BY <1>1, <2>2, <2>3
<1>8. \A n \in Maps : map'[n].va =>
         IF map'[n].kind \in Kernel
         THEN bufOf'[n] \in BufsOf(map'[n].kind) /\ map'[n].dev \in Ioctl
         ELSE bufOf'[n] = None
  BY <1>1 DEF EntryInv
<1>9. \A k, n \in Maps : Mistakable(k, n)' => crowded'
  BY <1>1 DEF EntryInv, Mistakable
<1> QED BY <1>5, <1>6, <1>7, <1>8, <1>9 DEF EntryInv, Shrunk

\* The memory of a mapping and memory that an unmap of it may find
LEMMA FoundIsMistakable ==
    ASSUME BufInv, EntryInv, NEW m \in Maps, map[m].va, map[m].kind \in Kernel,
           NEW n \in Maps, n # m, map[n].va,
           bufOf[n] \in HostBufs, bufOf[n] = Block(bufOf[m])
    PROVE  crowded /\ map[n].kind # "cuda" /\ bufOf[n] = Block(bufOf[n])
<1>1. bufOf[m] \in Bufs /\ bufOf[m] # None /\ bufOf[m] \in BufsOf(map[m].kind)
  BY NotNone DEF EntryInv
<1>2. bufOf[n] \in Bufs /\ bufOf[n] # None
  BY StackAssumption DEF Bufs
<1>3. bufOf[n] = Block(bufOf[n])
  BY <1>1, BlockFacts
<1>4. map[n].kind # "cuda"
  <2> SUFFICES ASSUME map[n].kind = "cuda" PROVE FALSE
    OBVIOUS
  <2>1. bufOf[n] \in GpuBufs
    BY DEF EntryInv, Kernel, BufsOf
  <2> QED BY <2>1, AddressAssumption
<1>5. Confusable(bufOf[m], bufOf[n])
  BY <1>3 DEF Confusable
<1>6. Mistakable(m, n)
  BY <1>1, <1>2, <1>5 DEF Mistakable
<1> QED BY <1>3, <1>4, <1>6 DEF EntryInv

\* NVM_UNMAP_MEMORY: the entries of other mappings stay, and the caller's goes
\* when it is there, if nothing is excepted.
LEMMA UnmapTakes ==
    ASSUME BufInv, EntryInv, P2PInv, NEW c, NEW t,
           NEW m \in Maps, map[m].va, map[m].kind \in Kernel, UnmapMemory(c, t, bufOf[m])
    PROVE  /\ Shrunk /\ OthersKept(m)
           /\ (FileKnown(c) /\ \E e \in Entries : e.owner = t /\ e.buf = bufOf[m]) =>
                Excepted \/ \A e \in Entries' : e.buf # bufOf[m]
<1> DEFINE b == bufOf[m]
           host == Found(hostList, t, b)
           gpu == Found(deviceList, t, b)
<1>a. deviceList \in Seq(DeviceEntry) /\ hostList \in Seq(HostEntry) /\ b \in Bufs
  BY NotNone DEF P2PInv, EntryInv
<1>1. CASE ~FileKnown(c)
  <2>1. UNCHANGED listVars
    BY <1>1 DEF UnmapMemory, mapVars, listVars
  <2> QED BY <1>1, <2>1, NothingTaken, SparedKept
<1>2. CASE FileKnown(c) /\ host # {}
  <2>1. PICK i : i = First(host)
    OBVIOUS
  <2>2. hostList' = list_remove(hostList, i) /\ UNCHANGED deviceList
    BY <1>2, <2>1 DEF UnmapMemory
  <2>3. host \subseteq 1 .. Len(hostList) /\ Len(hostList) \in Nat
    BY DEF Found, EntryInv
  <2>4. i \in host
    BY <1>2, <2>1, <2>3, FirstIn
  <2>5. i \in DOMAIN hostList /\ hostList[i].vaddr \in {b, Block(b)}
    BY <2>4 DEF Found
  <2>6. hostList[i] \in HostEntry
    BY <2>5, <1>a
  <2>7. hostList[i].buf \in HostBufs /\ hostList[i].buf \in {b, Block(b)}
    BY <2>5, <2>6 DEF HostEntry
  <2>8. Shrunk /\ Spared(hostList[i].buf) /\ (Excepted \/ \A e \in Entries' : e.buf # hostList[i].buf)
    BY <2>2, <2>5, HostTaken
  <2>9. CASE hostList[i].buf = b
    BY <2>8, <2>9, SparedKept
  <2>10. CASE hostList[i].buf # b
    <3>1. hostList[i].buf = Block(b)
      BY <2>7, <2>10
    <3>2. OthersKept(m)
      <4> SUFFICES ASSUME NEW n \in Maps, n # m, map[n].va, map[n].kind \in Kernel,
                          NEW e \in Entries, e.buf = bufOf[n], e \notin Entries'
                   PROVE  crowded /\ map[n].kind # "cuda" /\ bufOf[n] = Block(bufOf[n])
        BY DEF OthersKept
      <4>1. bufOf[n] = hostList[i].buf
        BY <2>8 DEF Spared
      <4> QED BY <4>1, <3>1, <2>7, FoundIsMistakable
    <3>3. Excepted
      <4> SUFFICES ASSUME ~Excepted PROVE FALSE
        OBVIOUS
      <4>1. hostList[i] \in Entries
        BY <2>5 DEF Entries, Range
      <4>2. PICK n \in Maps : map[n].va /\ hostList[i].buf = bufOf[n]
        BY <4>1 DEF EntryInv, NoStaleEntries, EntriesOf
      <4>3. crowded
        BY <4>2, <3>1, <2>7, <2>10, FoundIsMistakable
      <4> QED BY <4>3 DEF Excepted
    <3> QED BY <2>8, <3>2, <3>3
  <2> QED BY <2>9, <2>10
<1>3. CASE FileKnown(c) /\ host = {} /\ gpu # {}
  <2>1. PICK i : i = First(gpu)
    OBVIOUS
  <2>2. deviceList' = list_remove(deviceList, i) /\ UNCHANGED hostList
    BY <1>3, <2>1 DEF UnmapMemory
  <2>3. gpu \subseteq 1 .. Len(deviceList) /\ Len(deviceList) \in Nat
    BY <1>a DEF Found
  <2>4. i \in gpu
    BY <1>3, <2>1, <2>3, FirstIn
  <2>5. i \in DOMAIN deviceList /\ deviceList[i].vaddr \in {b, Block(b)}
    BY <2>4 DEF Found
  <2>6. deviceList[i] \in DeviceEntry
    BY <2>5, <1>a
  <2>7. deviceList[i].buf = b
    <3>1. PICK g \in GpuBufs : g = deviceList[i].buf /\ Block(g) \in {b, Block(b)}
      BY <2>5, <2>6 DEF DeviceEntry
    <3>2. Block(Block(g)) = Block(g)
      BY <3>1, BlockFacts DEF Bufs
    <3>3. Block(g) = Block(b)
      BY <3>1, <3>2
    <3> QED BY <3>1, <3>3, <1>a, OwnBlock
  <2> QED BY <1>a, <2>2, <2>5, <2>7, DeviceTaken, SparedKept
<1>4. CASE FileKnown(c) /\ host = {} /\ gpu = {}
  <2>1. UNCHANGED listVars
    BY <1>4 DEF UnmapMemory, mapVars, listVars
  <2>2. \A i \in DOMAIN hostList : hostList[i].vaddr = hostList[i].buf
    <3> SUFFICES ASSUME NEW i \in DOMAIN hostList PROVE hostList[i].vaddr = hostList[i].buf
      OBVIOUS
    <3>1. hostList[i] \in HostEntry
      BY <1>a
    <3> QED BY <3>1 DEF HostEntry
  <2>3. \A i \in DOMAIN deviceList : deviceList[i].vaddr = Block(deviceList[i].buf)
    <3> SUFFICES ASSUME NEW i \in DOMAIN deviceList
                 PROVE  deviceList[i].vaddr = Block(deviceList[i].buf)
      OBVIOUS
    <3>1. deviceList[i] \in DeviceEntry
      BY <1>a
    <3> QED BY <3>1 DEF DeviceEntry
  <2>4. ~\E e \in Entries : e.owner = t /\ e.buf = b
    BY <1>4, <2>2, <2>3 DEF Entries, Range, Found
  <2> QED BY <2>1, <2>4, NothingTaken, SparedKept
<1> QED BY <1>1, <1>2, <1>3, <1>4

LEMMA UnmapP2P ==
    ASSUME P2PInv, NEW c, NEW t, NEW b, UnmapMemory(c, t, b), UNCHANGED <<ctrlList, unplugged>>,
           Len(ctrlList) \in Nat
    PROVE  P2PInv'
<1> DEFINE host == Found(hostList, t, b)
           gpu == Found(deviceList, t, b)
<1>1. CASE UNCHANGED <<deviceList, p2p>>
  BY <1>1, P2PStays DEF gpuVars
<1>2. CASE FileKnown(c) /\ host = {} /\ gpu # {}
  <2>1. PICK i : i = First(gpu)
    OBVIOUS
  <2>2. /\ deviceList' = list_remove(deviceList, i)
        /\ p2p' = p2p \ Unmapped({deviceList[i]}, Len(ctrlList))
    BY <1>2, <2>1 DEF UnmapMemory
  <2>3. gpu \subseteq 1 .. Len(deviceList) /\ Len(deviceList) \in Nat
    BY DEF Found, P2PInv
  <2>4. i \in gpu
    BY <1>2, <2>1, <2>3, FirstIn
  <2>5. i \in DOMAIN deviceList
    BY <2>4 DEF Found
  <2> QED BY <2>2, <2>5, ReleaseP2P
<1> QED BY <1>1, <1>2 DEF UnmapMemory, mapVars

\* The NVIDIA driver's callback: the buffer's entry and no other.
LEMMA FreeTakes ==
    ASSUME BufInv, EntryInv, P2PInv, NEW b, FreeGpuMemory(b), UNCHANGED <<ctrlList, unplugged>>,
           Len(ctrlList) \in Nat
    PROVE  /\ Shrunk /\ Spared(b) /\ P2PInv'
           /\ \A j \in DOMAIN deviceList' : deviceList'[j].buf # b
<1> DEFINE gone == {i \in DOMAIN deviceList : deviceList[i].buf = b}
<1>1. CASE gone = {}
  <2>1. UNCHANGED <<hostList, deviceList, p2p>>
    BY <1>1 DEF FreeGpuMemory, mapVars
  <2>2. P2PInv'
    BY <2>1, P2PStays DEF gpuVars
  <2>3. Shrunk /\ Spared(b)
    BY <2>1, NothingTaken DEF listVars
  <2> QED BY <1>1, <2>1, <2>2, <2>3
<1>2. CASE gone # {}
  <2>1. PICK i : i = First(gone)
    OBVIOUS
  <2>2. /\ deviceList' = list_remove(deviceList, i) /\ UNCHANGED hostList
        /\ p2p' = p2p \ Unmapped({deviceList[i]}, Len(ctrlList))
    BY <1>2, <2>1 DEF FreeGpuMemory
  <2>3. /\ gone \subseteq 1 .. Len(deviceList) /\ Len(deviceList) \in Nat
        /\ deviceList \in Seq(DeviceEntry)
    BY DEF P2PInv
  <2>4. i \in gone
    BY <1>2, <2>1, <2>3, FirstIn
  <2>5. i \in DOMAIN deviceList /\ deviceList[i].buf = b
    BY <2>4
  <2>6. P2PInv'
    BY <2>2, <2>5, ReleaseP2P
  <2> QED BY <2>2, <2>3, <2>5, <2>6, DeviceTaken
<1> QED BY <1>1, <1>2

\* An entry of a fresh buffer is added to one of the lists.
Added(t, kind, b) ==
    /\ \E e : e.owner = t /\ e.buf = b /\ Entries' = Entries \cup {e}
    /\ hostList' \in Seq(HostEntry)
    /\ \A i \in DOMAIN deviceList' : \/ kind = "cuda" /\ deviceList'[i].buf = b
                                     \/ \E k \in DOMAIN deviceList : deviceList'[i] = deviceList[k]
    /\ \A i, j \in DOMAIN deviceList' : deviceList'[i].buf = deviceList'[j].buf => i = j
    /\ Excepted \/ /\ \A i, j \in DOMAIN hostList' : hostList'[i].buf = hostList'[j].buf => i = j
                   /\ \A i \in DOMAIN hostList', j \in DOMAIN deviceList' :
                        hostList'[i].buf # deviceList'[j].buf

\* A fresh buffer has no entry in the device list, nor in the other one unless
\* something is excepted.
LEMMA FreshUnlisted ==
    ASSUME BufInv, EntryInv, NEW kind, NEW b \in FreshBufs(kind)
    PROVE  /\ b \in Bufs /\ b \notin lost /\ \A m \in Maps : bufOf[m] # b
           /\ \A i \in DOMAIN deviceList : deviceList[i].buf # b
           /\ Excepted \/ \A i \in DOMAIN hostList : hostList[i].buf # b
<1>1. b \in Bufs /\ b \notin lost /\ \A m \in Maps : bufOf[m] # b
  BY DEF FreshBufs, BufsOf, Bufs
<1>2. \A i \in DOMAIN deviceList : deviceList[i].buf # b
  BY <1>1 DEF BufInv
<1>3. ASSUME ~Excepted, NEW i \in DOMAIN hostList PROVE hostList[i].buf # b
  <2>1. hostList[i] \in Entries
    BY DEF Entries, Range
  <2> QED BY <1>1, <1>3, <2>1 DEF EntryInv, NoStaleEntries, EntriesOf
<1> QED BY <1>1, <1>2, <1>3

LEMMA HostAdded ==
    ASSUME BufInv, EntryInv, NEW t \in Tasks, NEW kind, NEW b \in FreshBufs(kind), NEW id \in FreeIds,
           MapHostMemory(t, b, id), kind # "cuda"
    PROVE  Added(t, kind, b)
<1> PICK e : e = [id |-> id, owner |-> t, vaddr |-> b, buf |-> b]
  OBVIOUS
<1>1. e \in HostEntry /\ e.owner = t /\ e.buf = b
  BY AddressAssumption DEF HostEntry, FreeIds, FreshBufs, BufsOf, Bufs
<1>2. /\ hostList' \in Seq(HostEntry)
      /\ DOMAIN hostList' = 1 .. Len(hostList) + 1 /\ DOMAIN hostList = 1 .. Len(hostList)
      /\ hostList'[Len(hostList) + 1] = e
      /\ \A i \in 1 .. Len(hostList) : hostList'[i] = hostList[i]
      /\ Len(hostList) \in Nat /\ UNCHANGED deviceList
  BY <1>1, AppendProperties DEF EntryInv, MapHostMemory, list_insert
<1>3. Entries' = Entries \cup {e}
  <2>1. Range(hostList') = Range(hostList) \cup {e}
    BY <1>2 DEF Range
  <2> QED BY <1>2, <2>1 DEF Entries
<1>4. ASSUME ~Excepted, NEW i \in 1 .. Len(hostList) + 1
      PROVE  /\ \A j \in 1 .. Len(hostList) + 1 : hostList'[i].buf = hostList'[j].buf => i = j
             /\ \A j \in DOMAIN deviceList : hostList'[i].buf # deviceList[j].buf
  <2>1. \A k \in 1 .. Len(hostList) : hostList[k].buf # b
    BY <1>2, <1>4, FreshUnlisted
  <2>2. \A j \in DOMAIN deviceList : deviceList[j].buf # b
    BY FreshUnlisted
  <2>3. CASE i = Len(hostList) + 1
    BY <2>3, <1>1, <1>2, <2>1, <2>2
  <2>4. CASE i \in 1 .. Len(hostList)
    <3>1. hostList'[i] = hostList[i] /\ i \in DOMAIN hostList
      BY <2>4, <1>2
    <3>2. \A j \in DOMAIN deviceList : hostList[i].buf # deviceList[j].buf
      BY <3>1, <1>4 DEF EntryInv
    <3>3. ASSUME NEW j \in 1 .. Len(hostList), hostList[i].buf = hostList[j].buf PROVE i = j
      BY <3>1, <3>3, <1>2, <1>4 DEF EntryInv
    <3>4. hostList'[i].buf # hostList'[Len(hostList) + 1].buf
      BY <3>1, <2>1, <2>4, <1>1, <1>2
    <3> QED BY <3>1, <3>2, <3>3, <3>4, <1>2
  <2> QED BY <1>2, <2>3, <2>4
<1>5. \A i, j \in DOMAIN deviceList' : deviceList'[i].buf = deviceList'[j].buf => i = j
  BY <1>2 DEF BufInv
<1>6. \A i \in DOMAIN deviceList' : \E k \in DOMAIN deviceList : deviceList'[i] = deviceList[k]
  BY <1>2
<1> QED BY <1>1, <1>2, <1>3, <1>4, <1>5, <1>6 DEF Added

LEMMA DeviceAdded ==
    ASSUME BufInv, EntryInv, deviceList \in Seq(DeviceEntry), Len(ctrlList) \in Nat,
           NEW t \in Tasks, NEW b \in FreshBufs("cuda"), NEW id \in FreeIds, MapDeviceMemory(t, b, id)
    PROVE  Added(t, "cuda", b)
<1> PICK e : e = [id |-> id, owner |-> t, vaddr |-> Block(b), buf |-> b, n |-> Len(ctrlList)]
  OBVIOUS
<1>1. e \in DeviceEntry /\ e.owner = t /\ e.buf = b
  BY BlockFacts DEF DeviceEntry, FreeIds, FreshBufs, BufsOf, Bufs
<1>2. /\ DOMAIN deviceList' = 1 .. Len(deviceList) + 1 /\ DOMAIN deviceList = 1 .. Len(deviceList)
      /\ deviceList'[Len(deviceList) + 1] = e
      /\ \A i \in 1 .. Len(deviceList) : deviceList'[i] = deviceList[i]
      /\ Len(deviceList) \in Nat /\ UNCHANGED hostList
  BY <1>1, AppendProperties DEF MapDeviceMemory, list_insert
<1>3. Entries' = Entries \cup {e}
  <2>1. Range(deviceList') = Range(deviceList) \cup {e}
    BY <1>2 DEF Range
  <2> QED BY <1>2, <2>1 DEF Entries
<1>4. \A k \in 1 .. Len(deviceList) : deviceList[k].buf # b
  BY <1>2, FreshUnlisted
<1>5. ASSUME NEW i \in 1 .. Len(deviceList) + 1
      PROVE  \A j \in 1 .. Len(deviceList) + 1 : deviceList'[i].buf = deviceList'[j].buf => i = j
  <2>1. CASE i = Len(deviceList) + 1
    BY <2>1, <1>1, <1>2, <1>4
  <2>2. ASSUME i \in 1 .. Len(deviceList), NEW j \in 1 .. Len(deviceList),
               deviceList'[i].buf = deviceList'[j].buf
        PROVE  i = j
    <3>1. deviceList[i].buf = deviceList[j].buf /\ i \in DOMAIN deviceList /\ j \in DOMAIN deviceList
      BY <2>2, <1>2
    <3> QED BY <3>1 DEF BufInv
  <2>3. ASSUME i \in 1 .. Len(deviceList), NEW j, j = Len(deviceList) + 1
        PROVE  deviceList'[i].buf # deviceList'[j].buf
    BY <2>3, <1>1, <1>2, <1>4
  <2> QED BY <1>2, <2>1, <2>2, <2>3
<1>6. \A i \in DOMAIN deviceList' : \/ deviceList'[i].buf = b
                                    \/ \E k \in DOMAIN deviceList : deviceList'[i] = deviceList[k]
  BY <1>1, <1>2
<1>7. Excepted \/ \A i \in DOMAIN hostList, j \in DOMAIN deviceList' :
                    hostList[i].buf # deviceList'[j].buf
  BY <1>6, FreshUnlisted DEF EntryInv
<1> QED BY <1>1, <1>2, <1>3, <1>5, <1>6, <1>7 DEF Added, EntryInv

LEMMA IoctlAdds ==
    ASSUME BufInv, EntryInv, P2PInv, Len(ctrlList) \in Nat, UNCHANGED <<ctrlList, unplugged>>,
           NEW t \in Tasks, NEW kind, NEW b \in FreshBufs(kind), NEW id \in FreeIds, IoctlMap(t, kind, b, id)
    PROVE  Added(t, kind, b) /\ P2PInv'
<1>1. CASE kind = "cuda"
  <2>1. MapDeviceMemory(t, b, id) /\ b \in GpuBufs /\ deviceList \in Seq(DeviceEntry)
    BY <1>1 DEF IoctlMap, FreshBufs, BufsOf, P2PInv
  <2>2. P2PInv'
    BY <2>1, MapP2P
  <2> QED BY <1>1, <2>1, <2>2, DeviceAdded
<1>2. CASE kind # "cuda"
  <2>1. MapHostMemory(t, b, id)
    BY <1>2 DEF IoctlMap
  <2>2. UNCHANGED gpuVars
    BY <2>1 DEF MapHostMemory, gpuVars
  <2> QED BY <1>2, <2>1, <2>2, HostAdded, P2PStays
<1> QED BY <1>1, <1>2

\* A mapping gets its range, with the entry for its buffer.
LEMMA BufMapped ==
    ASSUME BufInv, EntryInv, NEW m \in Maps, NEW t, NEW kind \in Kernel, NEW b \in FreshBufs(kind),
           Added(t, kind, b), ~map[m].va, bufOf[m] = None,
           map'[m].va, map'[m].kind = kind, map'[m].task = t, map'[m].dev \in Ioctl,
           \A n \in Maps : n # m => SameMap(n),
           bufOf' = [bufOf EXCEPT ![m] = b], lost' = lost, Excepted => Excepted', crowded => crowded',
           \A i \in DOMAIN deviceList : deviceList[i].buf \in Bufs,
           \A n \in Maps : (map[n].va /\ bufOf[n] # None /\ Confusable(bufOf[n], b)) => crowded'
    PROVE  BufInv' /\ EntryInv'
<1> USE DEF SameMap
<1>1. /\ b \in Bufs /\ \A n \in Maps : bufOf[n] # b
      /\ \A i \in DOMAIN deviceList : deviceList[i].buf # b
  BY FreshUnlisted
<1>2. /\ bufOf' \in [Maps -> Bufs \cup {None}] /\ bufOf'[m] = b
      /\ \A n \in Maps : n # m => bufOf'[n] = bufOf[n]
  BY <1>1 DEF BufInv
<1>3. \A n, k \in Maps : (bufOf'[n] = bufOf'[k] /\ bufOf'[n] # None) => n = k
  BY <1>1, <1>2 DEF BufInv
<1>4. ASSUME NEW i \in DOMAIN deviceList'
      PROVE  deviceList'[i].buf \in lost' \/ \E n \in Maps : bufOf'[n] = deviceList'[i].buf
  <2>1. CASE deviceList'[i].buf = b
    BY <2>1, <1>2
  <2>2. ASSUME NEW k \in DOMAIN deviceList, deviceList'[i] = deviceList[k]
        PROVE  deviceList'[i].buf \in lost' \/ \E n \in Maps : bufOf'[n] = deviceList'[i].buf
    <3>1. deviceList[k].buf \in lost \/ \E n \in Maps : bufOf[n] = deviceList[k].buf
      BY DEF BufInv
    <3>2. bufOf[m] # deviceList[k].buf
      BY StackAssumption
    <3> QED BY <2>2, <3>1, <3>2, <1>2
  <2> QED BY <2>1, <2>2 DEF Added
<1>5. ASSUME NEW n \in Maps, map'[n].va, map'[n].kind # "cuda", NEW i \in DOMAIN deviceList'
      PROVE  deviceList'[i].buf # bufOf'[n]
  <2>1. CASE n = m
    BY <2>1, <1>5, <1>1, <1>2 DEF Added
  <2>2. CASE n # m
    <3>1. map[n].va /\ map[n].kind # "cuda" /\ bufOf'[n] = bufOf[n]
      BY <2>2, <1>5, <1>2
    <3>2. CASE deviceList'[i].buf = b
      BY <3>1, <3>2, <1>1
    <3>3. ASSUME NEW k \in DOMAIN deviceList, deviceList'[i] = deviceList[k]
          PROVE  deviceList'[i].buf # bufOf'[n]
      BY <3>1, <3>3 DEF BufInv
    <3> QED BY <3>2, <3>3 DEF Added
  <2> QED BY <2>1, <2>2
<1>6. BufInv'
  BY <1>2, <1>3, <1>4, <1>5 DEF BufInv, Added
<1>7. PICK e : e.owner = t /\ e.buf = b /\ Entries' = Entries \cup {e}
  BY DEF Added
<1>8. MappedInKernel'
  <2> SUFFICES ASSUME NEW n \in Maps, map'[n].va, map'[n].kind \in Kernel
               PROVE  \/ \E x \in Entries' : x.owner = map'[n].task /\ x.buf = bufOf'[n]
                      \/ crowded' /\ map'[n].kind # "cuda" /\ bufOf'[n] = Block(bufOf'[n])
    BY DEF MappedInKernel, EntriesOf
  <2>1. CASE n = m
    BY <2>1, <1>2, <1>7
  <2>2. CASE n # m
    BY <2>2, <1>2, <1>7 DEF EntryInv, MappedInKernel, EntriesOf
  <2> QED BY <2>1, <2>2
<1>9. NoStaleEntries'
  <2> SUFFICES ASSUME ~Excepted', NEW x \in Entries'
               PROVE  \E n \in Maps : /\ map'[n].va /\ x.owner = map'[n].task
                                      /\ x.buf = bufOf'[n]
    BY DEF NoStaleEntries, EntriesOf
  <2>1. CASE x = e
    BY <2>1, <1>2, <1>7
  <2>2. CASE x \in Entries
    <3>1. PICK n \in Maps : map[n].va /\ x.owner = map[n].task /\ x.buf = bufOf[n]
      BY <2>2 DEF EntryInv, NoStaleEntries, EntriesOf
    <3> QED BY <3>1, <1>2
  <2> QED BY <2>1, <2>2, <1>7
<1>10. \A n \in Maps : map'[n].va =>
         IF map'[n].kind \in Kernel
         THEN bufOf'[n] \in BufsOf(map'[n].kind) /\ map'[n].dev \in Ioctl
         ELSE bufOf'[n] = None
  BY <1>1, <1>2 DEF EntryInv, FreshBufs
<1>11. ASSUME NEW k \in Maps, NEW n \in Maps, Mistakable(k, n)' PROVE crowded'
  <2>1. CASE k = m
    <3>1. n # m /\ map[n].va /\ bufOf[n] # None /\ Confusable(b, bufOf[n])
      BY <2>1, <1>11, <1>2 DEF Mistakable
    <3> QED BY <3>1 DEF Confusable
  <2>2. CASE n = m
    BY <2>2, <1>11, <1>2 DEF Mistakable
  <2>3. CASE k # m /\ n # m
    BY <2>3, <1>11, <1>2 DEF Mistakable, EntryInv
  <2> QED BY <2>1, <2>2, <2>3
<1> QED BY <1>6, <1>8, <1>9, <1>10, <1>11 DEF EntryInv, Added

\* An entry of which the caller does not know.
LEMMA BufLeft ==
    ASSUME BufInv, EntryInv, NEW t, NEW kind, NEW b \in FreshBufs(kind), Added(t, kind, b),
           UNCHANGED <<map, bufOf, crowded>>, excused',
           lost' = IF kind = "cuda" THEN lost \cup {b} ELSE lost
    PROVE  BufInv' /\ EntryInv'
<1>1. \A n \in Maps : bufOf[n] # b
  BY FreshUnlisted
<1>2. \A i \in DOMAIN deviceList' :
         deviceList'[i].buf \in lost' \/ \E n \in Maps : bufOf'[n] = deviceList'[i].buf
  BY DEF Added, BufInv
<1>3. ASSUME NEW n \in Maps, map[n].va, map[n].kind # "cuda", NEW i \in DOMAIN deviceList'
      PROVE  deviceList'[i].buf # bufOf[n]
  BY <1>1, <1>3 DEF Added, BufInv
<1>4. BufInv'
  BY <1>2, <1>3 DEF BufInv, Added
<1>5. Entries \subseteq Entries'
  BY DEF Added
<1>6. MappedInKernel'
  BY <1>5 DEF EntryInv, MappedInKernel, EntriesOf
<1>7. NoStaleEntries' /\ Excepted'
  BY DEF NoStaleEntries, Excepted
<1>8. \A k, n \in Maps : Mistakable(k, n)' => crowded'
  BY DEF EntryInv, Mistakable
<1> QED BY <1>4, <1>6, <1>7, <1>8 DEF EntryInv, Added

\* A mapping that the kernel module has no part in.
LEMMA BufOther ==
    ASSUME BufInv, EntryInv, NEW m \in Maps, ~map[m].va, bufOf[m] = None,
           map'[m].va, map'[m].kind \notin Kernel,
           \A n \in Maps : n # m => SameMap(n), UNCHANGED <<listVars, bufOf, lost>>,
           Excepted => Excepted', crowded => crowded', \A i \in DOMAIN deviceList : deviceList[i].buf \in Bufs
    PROVE  BufInv' /\ EntryInv'
<1> USE DEF SameMap
<1>1. UNCHANGED <<hostList, deviceList, bufOf, lost>>
  BY DEF listVars
<1>2. UNCHANGED Entries
  BY <1>1 DEF Entries, Range
<1>3. ASSUME NEW n \in Maps, map'[n].va, map'[n].kind # "cuda", NEW i \in DOMAIN deviceList
      PROVE  deviceList[i].buf # bufOf[n]
  <2>1. CASE n = m
    BY <2>1, StackAssumption
  <2>2. CASE n # m
    BY <2>2, <1>3 DEF BufInv
  <2> QED BY <2>1, <2>2
<1>4. BufInv'
  BY <1>1, <1>3 DEF BufInv
<1>5. MappedInKernel'
  BY <1>1, <1>2 DEF EntryInv, MappedInKernel, EntriesOf
<1>6. NoStaleEntries'
  BY <1>1, <1>2 DEF EntryInv, NoStaleEntries, EntriesOf
<1>7. \A n \in Maps : map'[n].va =>
         IF map'[n].kind \in Kernel
         THEN bufOf'[n] \in BufsOf(map'[n].kind) /\ map'[n].dev \in Ioctl
         ELSE bufOf'[n] = None
  BY <1>1 DEF EntryInv
<1>8. \A k, n \in Maps : Mistakable(k, n)' => crowded'
  BY <1>1 DEF EntryInv, Mistakable
<1> QED BY <1>1, <1>4, <1>5, <1>6, <1>7, <1>8 DEF EntryInv

-----------------------------------------------------------------------------
\* The steps.
LEMMA DeadNotMapped == ASSUME IndInv, NEW m \in Maps, ~map[m].live PROVE ~map[m].va
BY DmaAssumption DEF IndInv, MapInv, CountsHandles, HandlesOf, Live

LEMMA LenType == ASSUME ListInv PROVE Len(ctrlList) \in Nat
BY DEF ListInv

LEMMA DeviceBufs == ASSUME P2PInv PROVE \A i \in DOMAIN deviceList : deviceList[i].buf \in Bufs
<1>1. \A i \in DOMAIN deviceList : deviceList[i] \in DeviceEntry
  BY EntryType DEF P2PInv
<1> QED BY <1>1 DEF DeviceEntry, Bufs

LEMMA HostEntryBufs == ASSUME EntryInv PROVE \A i \in DOMAIN hostList : hostList[i].buf \in Bufs
<1>1. \A i \in DOMAIN hostList : hostList[i] \in HostEntry
  BY DEF EntryInv
<1> QED BY <1>1 DEF HostEntry, Bufs

\* Every step of the stack is one of DmaMap or leaves its variables alone.
LEMMA StackStep == StackNext => [Next]_vars
<1> SUFFICES ASSUME StackNext PROVE [Next]_vars
  OBVIOUS
<1>1. CASE ~corrupt /\ \E d \in Devs : Open(d) \/ Close(d)
  BY <1>1 DEF Open, Close, Next
<1>2. ASSUME ~corrupt, NEW t \in Tasks, NEW d \in Devs, NEW kind \in Kinds, NEW m \in Maps,
             \/ \E h \in Handles : createDma(t, d, kind, m, h)
             \/ \E k \in 0 .. 5 : createDmaFail(t, d, kind, m, k)
      PROVE  Next
  BY <1>2 DEF createDma, createDmaFail, Next
<1>3. CASE ~corrupt /\ \E t \in Tasks, h \in Handles : UnmapDma(t, h)
  BY <1>3 DEF UnmapDma, Next
<1>4. CASE ~corrupt /\ \E t \in Tasks : PutDma(t)
  BY <1>4 DEF PutDma, Next
<1>5. CASE \E m \in Maps : Free(m)
  BY <1>5 DEF Free
<1>6. CASE ExitProcess
  BY <1>6 DEF ExitProcess, Next
<1>7. CASE Driver
  BY <1>7 DEF Driver
<1> QED BY <1>1, <1>2, <1>3, <1>4, <1>5, <1>6, <1>7 DEF StackNext

\* What the driver knows does not change.
LEMMA DriverStays ==
    ASSUME ListInv, P2PInv, BufInv, EntryInv,
           UNCHANGED <<driverVars, bufOf, lost, excused, crowded>>,
           \A m \in Maps : SameMap(m)
    PROVE  ListInv' /\ P2PInv' /\ BufInv' /\ EntryInv'
<1>1. ListInv'
  BY CtrlStays DEF driverVars, ctrlVars
<1>2. P2PInv'
  <2>1. UNCHANGED gpuVars /\ UNCHANGED ctrlList
    BY DEF driverVars, mapVars, gpuVars
  <2> QED BY <2>1, LenType, P2PStays
<1>3. UNCHANGED <<listVars, bufOf, lost>> /\ (Excepted => Excepted') /\ (crowded => crowded')
  BY DEF driverVars, mapVars, listVars, Excepted
<1> QED BY <1>1, <1>2, <1>3, BufStays

LEMMA CreateStack ==
    ASSUME IndInv, ListInv, P2PInv, BufInv, EntryInv,
           NEW t \in Tasks, NEW d \in Devs, NEW kind, NEW m \in Maps, NEW h \in Handles,
           createDma(t, d, kind, m, h)
    PROVE  ListInv' /\ P2PInv' /\ BufInv' /\ EntryInv'
<1>1. /\ UNCHANGED <<ctrlList, probing, ignored, currCtrls, unplugged, undercount, lost, excused>>
      /\ crowded => crowded'
      /\ bufOf[m] = None /\ kind \in KindsOf(d) /\ ~map[m].live
      /\ map' = [map EXCEPT ![m] = [live |-> TRUE, dev |-> d, kind |-> kind, count |-> 1,
                                    va |-> TRUE, task |-> t]]
  BY DEF createDma, Create
<1>a. Excepted => Excepted'
  BY <1>1 DEF Excepted
<1>2. ~map[m].va
  BY <1>1, DeadNotMapped
<1>3. /\ map'[m].va /\ map'[m].kind = kind /\ map'[m].task = t /\ map'[m].dev = d
      /\ \A n \in Maps : n # m => SameMap(n)
  BY <1>1 DEF IndInv, MapInv, Types, SameMap
<1>4. ListInv'
  BY <1>1, CtrlStays DEF ctrlVars
<1>5. CASE kind \in Kernel
  <2>1. PICK b \in FreshBufs(kind), id \in FreeIds :
          /\ bufOf' = [bufOf EXCEPT ![m] = b] /\ IoctlMap(t, kind, b, id)
          /\ crowded' = (crowded \/ \E n \in Maps : map[n].va /\ bufOf[n] # None
                                                   /\ Confusable(bufOf[n], b))
    BY <1>5 DEF createDma
  <2>2. Added(t, kind, b) /\ P2PInv'
    BY <1>1, <2>1, LenType, IoctlAdds
  <2>3. d \in Ioctl
    BY <1>1, <1>5 DEF KindsOf, Kernel
  <2>4. BufInv' /\ EntryInv'
    BY <1>1, <1>a, <1>2, <1>3, <1>5, <2>1, <2>2, <2>3, DeviceBufs, BufMapped
  <2> QED BY <1>4, <2>2, <2>4
<1>6. CASE kind \notin Kernel
  <2>1. UNCHANGED <<bufOf, hostList, deviceList, p2p>>
    BY <1>6 DEF createDma, mapVars
  <2>2. P2PInv'
    BY <1>1, <2>1, LenType, P2PStays DEF gpuVars
  <2>3. BufInv' /\ EntryInv'
    BY <1>1, <1>a, <1>2, <1>3, <1>6, <2>1, DeviceBufs, BufOther DEF listVars
  <2> QED BY <1>4, <2>2, <2>3
<1> QED BY <1>5, <1>6

LEMMA CreateFailStack ==
    ASSUME ListInv, P2PInv, BufInv, EntryInv,
           NEW t \in Tasks, NEW d \in Devs, NEW kind, NEW m \in Maps, NEW k,
           createDmaFail(t, d, kind, m, k)
    PROVE  ListInv' /\ P2PInv' /\ BufInv' /\ EntryInv'
<1>1. UNCHANGED <<ctrlList, probing, ignored, currCtrls, unplugged, undercount, bufOf, map, crowded>>
  BY DEF createDmaFail, CreateFail
<1>2. ListInv'
  BY <1>1, CtrlStays DEF ctrlVars
<1>3. CASE UNCHANGED <<mapVars, lost, excused>>
  <2>1. UNCHANGED <<hostList, deviceList, p2p, lost, excused>>
    BY <1>3 DEF mapVars
  <2>2. P2PInv'
    BY <1>1, <2>1, LenType, P2PStays DEF gpuVars
  <2>3. BufInv' /\ EntryInv'
    BY <1>1, <2>1, BufStays DEF listVars, SameMap, Excepted
  <2> QED BY <1>2, <2>2, <2>3
<1>4. CASE ~UNCHANGED <<mapVars, lost, excused>>
  <2>1. PICK b \in FreshBufs(kind), id \in FreeIds :
          IoctlMap(t, kind, b, id) /\ lost' = IF kind = "cuda" THEN lost \cup {b} ELSE lost
    BY <1>4 DEF createDmaFail
  <2>2. excused'
    BY <1>4 DEF createDmaFail
  <2>3. Added(t, kind, b) /\ P2PInv'
    BY <1>1, <2>1, LenType, IoctlAdds
  <2>4. BufInv' /\ EntryInv'
    BY <1>1, <2>1, <2>2, <2>3, BufLeft
  <2> QED BY <1>2, <2>3, <2>4
<1> QED BY <1>3, <1>4

\* put_map of the last handle unmaps the caller's buffer.
LEMMA UnmapStack ==
    ASSUME IndInv, ListInv, P2PInv, BufInv, EntryInv,
           NEW t \in Tasks, NEW h \in Handles, UnmapDma(t, h)
    PROVE  ListInv' /\ P2PInv' /\ BufInv' /\ EntryInv'
<1>1. UNCHANGED <<ctrlList, probing, ignored, currCtrls, unplugged, undercount, lost, crowded>>
  BY DEF UnmapDma
<1>2. ListInv'
  BY <1>1, CtrlStays DEF ctrlVars
<1>3. PICK m \in Maps : m = handle[h]
  BY DEF UnmapDma, Unmap, IndInv, MapInv, Types
<1>4. map[m].va
  BY <1>3 DEF IndInv, MapInv, CountsHandles, HandlesOf
<1>5. map' = [map EXCEPT ![m].count = @ - 1, ![m].va = ~(map[m].count = 1)]
  BY <1>3 DEF UnmapDma, Unmap
<1>6. /\ map'[m].va = ~(map[m].count = 1)
      /\ map'[m].kind = map[m].kind /\ map'[m].dev = map[m].dev /\ map'[m].task = map[m].task
      /\ \A n \in Maps : n # m => SameMap(n)
  BY <1>5 DEF IndInv, MapInv, Types, MapType, SameMap
<1> DEFINE ioctl == map[m].count = 1 /\ map[m].kind \in Kernel
<1>7. /\ IF ioctl THEN UnmapMemory(cdevOf[map[m].dev], t, bufOf[m]) ELSE UNCHANGED mapVars
      /\ excused' = (excused \/ (ioctl /\ (t # map[m].task \/ ~FileKnown(cdevOf[map[m].dev]))))
      /\ bufOf' = [bufOf EXCEPT ![m] = IF ioctl /\ map[m].kind = "api" THEN None ELSE @]
  BY <1>3 DEF UnmapDma
<1>8. deviceList \in Seq(DeviceEntry) /\ bufOf \in [Maps -> Bufs \cup {None}]
  BY DEF P2PInv, BufInv
<1>a. Excepted => Excepted'
  BY <1>1, <1>7 DEF Excepted
<1>9. CASE ~ioctl
  <2>1. UNCHANGED <<hostList, deviceList, p2p>>
    BY <1>7, <1>9 DEF mapVars
  <2>2. bufOf' = bufOf
    BY <1>7, <1>8, <1>9
  <2>3. P2PInv'
    BY <1>1, <2>1, LenType, P2PStays DEF gpuVars
  <2>4. CASE map[m].count # 1
    <3>1. \A n \in Maps : SameMap(n)
      BY <2>4, <1>4, <1>6 DEF SameMap
    <3> QED BY <1>1, <1>a, <1>2, <2>1, <2>2, <2>3, <3>1, BufStays DEF listVars
  <2>5. CASE map[m].count = 1
    <3>1. bufOf[m] = None
      BY <2>5, <1>4, <1>9 DEF EntryInv
    <3>2. Shrunk /\ OthersKept(m)
      BY <2>1, NothingTaken, SparedKept DEF listVars
    <3>3. \A e \in Entries : e.buf # bufOf[m]
      BY <3>1, DeviceBufs, HostEntryBufs, StackAssumption DEF Entries, Range
    <3>4. \A e \in Entries' : e.buf # bufOf[m]
      BY <3>2, <3>3 DEF Shrunk
    <3>5. ~map'[m].va
      BY <2>5, <1>6
    <3>6. BufInv' /\ EntryInv'
      BY <1>1, <1>a, <1>6, <2>1, <2>2, <3>2, <3>4, <3>5, BufLetGo
    <3> QED BY <1>2, <2>3, <3>6
  <2> QED BY <2>4, <2>5
<1>10. CASE ioctl
  <2> PICK c : c = cdevOf[map[m].dev]
    OBVIOUS
  <2>1. UnmapMemory(c, t, bufOf[m]) /\ ~map'[m].va
    BY <1>6, <1>7, <1>10
  <2>2. P2PInv'
    BY <1>1, <2>1, LenType, UnmapP2P
  <2>3. /\ Shrunk /\ OthersKept(m)
        /\ (FileKnown(c) /\ \E e \in Entries : e.owner = t /\ e.buf = bufOf[m]) =>
             Excepted \/ \A e \in Entries' : e.buf # bufOf[m]
    BY <1>4, <1>10, <2>1, UnmapTakes
  <2>4. Excepted' \/ \A e \in Entries' : e.buf # bufOf[m]
    <3>1. CASE t # map[m].task \/ ~FileKnown(c)
      BY <3>1, <1>7, <1>10 DEF Excepted
    <3>2. CASE t = map[m].task /\ FileKnown(c)
      <4>1. crowded \/ \E e \in Entries : e.owner = t /\ e.buf = bufOf[m]
        BY <3>2, <1>4, <1>10 DEF EntryInv, MappedInKernel, EntriesOf
      <4> QED BY <3>2, <4>1, <1>a, <2>3 DEF Excepted
    <3> QED BY <3>1, <3>2
  <2>5. \/ bufOf' = bufOf
        \/ /\ bufOf' = [bufOf EXCEPT ![m] = None]
           /\ \A j \in DOMAIN deviceList' : deviceList'[j].buf # bufOf[m]
    <3>1. CASE map[m].kind = "api"
      <4>1. bufOf' = [bufOf EXCEPT ![m] = None]
        BY <3>1, <1>7, <1>10
      <4>2. \A j \in DOMAIN deviceList : deviceList[j].buf # bufOf[m]
        BY <3>1, <1>4 DEF BufInv
      <4>3. \A j \in DOMAIN deviceList' : deviceList'[j].buf # bufOf[m]
        BY <4>2, <2>3 DEF Shrunk
      <4> QED BY <4>1, <4>3
    <3>2. CASE map[m].kind # "api"
      BY <3>2, <1>7, <1>8
    <3> QED BY <3>1, <3>2
  <2>6. BufInv' /\ EntryInv'
    BY <1>1, <1>a, <1>6, <2>1, <2>3, <2>4, <2>5, BufLetGo
  <2> QED BY <1>2, <2>2, <2>6
<1> QED BY <1>9, <1>10

LEMMA PutMaps ==
    ASSUME IndInv, NEW t \in Tasks, PutKeep(t) \/ PutRemove(t) \/ PutFreed(t)
    PROVE  \A m \in Maps : SameMap(m)
<1>1. CASE PutKeep(t) \/ PutFreed(t)
  BY <1>1 DEF PutKeep, PutFreed, SameMap
<1>2. CASE PutRemove(t)
  <2>1. PICK m \in Maps : m = at[t]
    BY <1>2 DEF PutRemove, IndInv, MapInv, Types
  <2>2. ~map[m].va /\ map' = [map EXCEPT ![m] = NoMap]
    BY <1>2, <2>1 DEF PutRemove
  <2> QED BY <2>2 DEF SameMap, NoMap, IndInv, MapInv, Types
<1> QED BY <1>1, <1>2

LEMMA FreeStack ==
    ASSUME ListInv, P2PInv, BufInv, EntryInv, NEW m \in Maps, Free(m)
    PROVE  ListInv' /\ P2PInv' /\ BufInv' /\ EntryInv'
<1>1. /\ UNCHANGED <<map, ctrlList, probing, ignored, currCtrls, unplugged, undercount, lost, excused, crowded>>
      /\ ~map[m].va /\ FreeGpuMemory(bufOf[m]) /\ bufOf' = [bufOf EXCEPT ![m] = None]
  BY DEF Free, vars
<1>2. ListInv'
  BY <1>1, CtrlStays DEF ctrlVars
<1>3. /\ Shrunk /\ OthersKept(m) /\ P2PInv'
      /\ \A j \in DOMAIN deviceList' : deviceList'[j].buf # bufOf[m]
  BY <1>1, LenType, FreeTakes, SparedKept
<1>4. \A n \in Maps : SameMap(n)
  BY <1>1 DEF SameMap
<1>5. ~map'[m].va /\ (Excepted => Excepted') /\ (crowded => crowded')
  BY <1>1 DEF Excepted
<1> QED BY <1>1, <1>2, <1>3, <1>4, <1>5, BufLetGo

LEMMA ExitStack ==
    ASSUME ListInv, P2PInv, BufInv, EntryInv, ExitProcess
    PROVE  ListInv' /\ P2PInv' /\ BufInv' /\ EntryInv'
<1>1. /\ UNCHANGED <<ctrlList, probing, ignored, currCtrls, unplugged, undercount, hostList>>
      /\ clear_device_list /\ bufOf' = [n \in Maps |-> None]
      /\ excused' = (excused \/ hostList # <<>>) /\ map' = [n \in Maps |-> NoMap]
  BY DEF ExitProcess, Exit
<1>2. ListInv'
  BY <1>1, CtrlStays DEF ctrlVars
<1>3. P2PInv'
  BY <1>1, LenType, ClearP2P
<1>4. \A n \in Maps : ~map'[n].va
  BY <1>1 DEF NoMap
<1>5. hostList' \in Seq(HostEntry) /\ (hostList' = <<>> \/ excused') /\ deviceList' = <<>>
  BY <1>1 DEF EntryInv, clear_device_list
<1>6. /\ bufOf' \in [Maps -> Bufs \cup {None}]
      /\ \A m, n \in Maps : (bufOf'[m] = bufOf'[n] /\ bufOf'[m] # None) => m = n
  BY <1>1
<1> QED BY <1>2, <1>3, <1>4, <1>5, <1>6, BufNone

LEMMA DriverStack ==
    ASSUME IndInv, ListInv, P2PInv, BufInv, EntryInv, Driver
    PROVE  ListInv' /\ P2PInv' /\ BufInv' /\ EntryInv'
<1>1. /\ \A m \in Maps : SameMap(m)
      /\ UNCHANGED <<bufOf, lost, excused, crowded, map>>
      /\ Excepted => Excepted'
  BY DEF Driver, vars, bufVars, SameMap, Excepted
<1>2. ASSUME UNCHANGED listVars PROVE BufInv' /\ EntryInv'
  BY <1>1, <1>2, BufStays
<1>3. ASSUME NEW d \in Pci, Probe(d) PROVE ListInv' /\ P2PInv' /\ BufInv' /\ EntryInv'
  <2>1. ListInv'
    BY <1>3, ProbeCtrl
  <2>2. UNCHANGED gpuVars /\ UNCHANGED listVars
    BY <1>3 DEF Probe, mapVars, gpuVars, listVars
  <2>3. Len(ctrlList) \in Nat /\ Len(ctrlList') \in Nat /\ Len(ctrlList) <= Len(ctrlList')
    <3>1. Len(ctrlList) \in Nat /\ Len(ctrlList') \in Nat
      BY <2>1, LenType DEF ListInv
    <3>2. CASE UNCHANGED ctrlList
      BY <3>1, <3>2
    <3>3. ASSUME NEW c \in Cdevs,
                 ctrlList' = Append(ctrlList, [dev |-> d, number |-> currCtrls, cdev |-> c])
          PROVE  Len(ctrlList) <= Len(ctrlList')
      <4> PICK e \in CtrlEntry : e = [dev |-> d, number |-> currCtrls, cdev |-> c]
        BY DEF ListInv, CtrlEntry
      <4>1. ctrlList' = Append(ctrlList, e) /\ ctrlList \in Seq(CtrlEntry)
        BY <3>3 DEF ListInv
      <4> QED BY <3>1, <4>1, AppendProperties
    <3> QED BY <1>3, <3>1, <3>2, <3>3 DEF Probe, ctrl_get, list_insert
  <2> QED BY <1>2, <2>1, <2>2, <2>3, P2PStays
<1>4. ASSUME NEW d \in Pci, RemoveDev(d) PROVE ListInv' /\ P2PInv' /\ BufInv' /\ EntryInv'
  <2>1. ListInv'
    BY <1>4, RemoveDevCtrl
  <2>2. ctrl_put(d) /\ UNCHANGED <<deviceList, p2p>> /\ UNCHANGED listVars
    BY <1>4 DEF RemoveDev, mapVars, listVars
  <2> QED BY <1>2, <2>1, <2>2, LenType, PutP2P
<1>5. CASE ProbeDone
  <2>1. UNCHANGED gpuVars /\ UNCHANGED listVars /\ UNCHANGED ctrlList
    BY <1>5 DEF ProbeDone, mapVars, gpuVars, listVars
  <2> QED BY <1>2, <1>5, <2>1, LenType, ProbeDoneCtrl, P2PStays
<1>6. CASE ProbeFail
  <2>1. PICK d \in probing : ctrl_put(d)
    BY <1>6 DEF ProbeFail
  <2>2. UNCHANGED <<deviceList, p2p>> /\ UNCHANGED listVars
    BY <1>6 DEF ProbeFail, mapVars, listVars
  <2> QED BY <1>2, <1>6, <2>1, <2>2, LenType, ProbeFailCtrl, PutP2P
<1>7. CASE Load
  <2>1. UNCHANGED gpuVars /\ UNCHANGED listVars /\ UNCHANGED ctrlVars /\ UNCHANGED ctrlList
    BY <1>7 DEF Load, mapVars, gpuVars, listVars, ctrlVars
  <2> QED BY <1>2, <2>1, LenType, CtrlStays, P2PStays
<1>8. CASE Unload /\ \A d \in Ioctl : ~ctrl[d].open
  <2>1. /\ ctrlList' = <<>> /\ probing' = {} /\ ignored' = {} /\ currCtrls' = 0
        /\ hostList' = <<>> /\ clear_device_list /\ UNCHANGED unplugged
    BY <1>8 DEF Unload
  <2>2. ListInv'
    BY <2>1, NoneCard DEF ListInv, NumbersValid, Listed
  <2>3. P2PInv'
    BY <2>1, LenType, ClearP2P
  <2>4. \A m \in Maps : map'[m].va => map'[m].kind \notin Kernel /\ bufOf'[m] = None
    <3> SUFFICES ASSUME NEW m \in Maps, map[m].va
                 PROVE  map[m].kind \notin Kernel /\ bufOf[m] = None
      BY <1>1
    <3>1. ctrl[map[m].dev].open
      BY OpenWhileMapped
    <3> QED BY <3>1, <1>8 DEF EntryInv
  <2>5. hostList' \in Seq(HostEntry) /\ deviceList' = <<>>
    BY <2>1 DEF clear_device_list
  <2>6. /\ bufOf' \in [Maps -> Bufs \cup {None}]
        /\ \A m, n \in Maps : (bufOf'[m] = bufOf'[n] /\ bufOf'[m] # None) => m = n
    BY <1>1 DEF BufInv
  <2> QED BY <2>1, <2>2, <2>3, <2>4, <2>5, <2>6, BufNone
<1> QED BY <1>3, <1>4, <1>5, <1>6, <1>7, <1>8 DEF Driver

-----------------------------------------------------------------------------
LEMMA StackInitInv == StackInit => StackInv
<1> SUFFICES ASSUME StackInit PROVE StackInv
  OBVIOUS
<1>1. IndInv
  BY InitInv DEF StackInit
<1>2. ListInv
  BY EmptyList DEF StackInit, DriverInit
<1>3. deviceList = <<>> /\ hostList = <<>> /\ p2p = {} /\ bufOf = [m \in Maps |-> None]
  BY DEF StackInit, DriverInit
<1>4. P2PInv
  BY <1>3 DEF P2PInv, P2PBalanced, Range
<1>5. \A m \in Maps : ~map[m].va
  BY DEF StackInit, Init, NoMap
<1>6. BufInv
  BY <1>3 DEF BufInv
<1>7. Entries = {}
  BY <1>3 DEF Entries, Range
<1>8. EntryInv
  BY <1>3, <1>5, <1>7 DEF EntryInv, MappedInKernel, NoStaleEntries, Mistakable
<1> QED BY <1>1, <1>2, <1>4, <1>6, <1>8 DEF StackInv

LEMMA StackStepInv == StackInv /\ [StackNext]_stackVars => StackInv'
<1> SUFFICES ASSUME StackInv, [StackNext]_stackVars PROVE StackInv'
  OBVIOUS
<1> USE DEF StackInv
<1>1. IndInv'
  <2>1. CASE StackNext
    BY <2>1, StackStep, StepInv
  <2>2. CASE UNCHANGED stackVars
    <3>1. UNCHANGED vars
      BY <2>2 DEF stackVars
    <3> QED BY <3>1, StepInv
  <2> QED BY <2>1, <2>2
<1> SUFFICES ListInv' /\ P2PInv' /\ BufInv' /\ EntryInv'
  BY <1>1
<1>2. CASE UNCHANGED stackVars
  <2>1. UNCHANGED <<driverVars, bufOf, lost, excused, crowded>> /\ UNCHANGED map
    BY <1>2 DEF stackVars, vars, bufVars
  <2>2. \A m \in Maps : SameMap(m)
    BY <2>1 DEF SameMap
  <2> QED BY <2>1, <2>2, DriverStays
<1>3. ASSUME NEW d \in Devs, Open(d) \/ Close(d)
      PROVE  ListInv' /\ P2PInv' /\ BufInv' /\ EntryInv'
  <2>1. UNCHANGED <<driverVars, bufOf, lost, excused, crowded>> /\ UNCHANGED map
    BY <1>3 DEF Open, Close, CtrlInit, CtrlFree, open_device, borrow_device, nvm_ctrl_init
  <2>2. \A m \in Maps : SameMap(m)
    BY <2>1 DEF SameMap
  <2> QED BY <2>1, <2>2, DriverStays
<1>4. ASSUME NEW t \in Tasks, NEW d \in Devs, NEW kind \in Kinds, NEW m \in Maps, NEW h \in Handles,
             createDma(t, d, kind, m, h)
      PROVE  ListInv' /\ P2PInv' /\ BufInv' /\ EntryInv'
  BY <1>4, CreateStack
<1>5. ASSUME NEW t \in Tasks, NEW d \in Devs, NEW kind \in Kinds, NEW m \in Maps, NEW k \in 0 .. 5,
             createDmaFail(t, d, kind, m, k)
      PROVE  ListInv' /\ P2PInv' /\ BufInv' /\ EntryInv'
  BY <1>5, CreateFailStack
<1>6. ASSUME NEW t \in Tasks, NEW h \in Handles, UnmapDma(t, h)
      PROVE  ListInv' /\ P2PInv' /\ BufInv' /\ EntryInv'
  BY <1>6, UnmapStack
<1>7. ASSUME NEW t \in Tasks, PutDma(t)
      PROVE  ListInv' /\ P2PInv' /\ BufInv' /\ EntryInv'
  <2>1. UNCHANGED <<driverVars, bufOf, lost, excused, crowded>> /\ (PutKeep(t) \/ PutRemove(t) \/ PutFreed(t))
    BY <1>7 DEF PutDma
  <2>2. \A m \in Maps : SameMap(m)
    BY <2>1, PutMaps
  <2> QED BY <2>1, <2>2, DriverStays
<1>8. ASSUME NEW m \in Maps, Free(m)
      PROVE  ListInv' /\ P2PInv' /\ BufInv' /\ EntryInv'
  BY <1>8, FreeStack
<1>9. CASE ExitProcess
  BY <1>9, ExitStack
<1>10. CASE Driver
  BY <1>10, DriverStack
<1> QED BY <1>2, <1>3, <1>4, <1>5, <1>6, <1>7, <1>8, <1>9, <1>10 DEF StackNext

LEMMA StackInvariant == StackSpec => []StackInv
<1>1. StackInit => StackInv
  BY StackInitInv
<1>2. StackInv /\ [StackNext]_stackVars => StackInv'
  BY StackStepInv
<1> QED BY <1>1, <1>2, PTL DEF StackSpec

-----------------------------------------------------------------------------
\* Controllers in the list are as many as counted and have numbers of the
\* region, if no ignored device was removed (add_pci_dev, remove_pci_dev).
THEOREM NumbersStayValid == StackSpec => []NumbersValid
<1>1. StackInv => NumbersValid
  BY DEF StackInv, ListInv
<1> QED BY <1>1, StackInvariant, PTL

\* The NVIDIA driver holds DMA mappings only for mapped GPU memory, one for each
\* controller there was when it was mapped, as long as no controller has gone
\* away meanwhile (map_gpu_memory, release_gpu_memory, libnvm_helper_exit).
THEOREM GpuMappingsBalanced == StackSpec => []P2PBalanced
<1>1. StackInv => P2PBalanced
  BY DEF StackInv, P2PInv
<1> QED BY <1>1, StackInvariant, PTL

\* Memory that the process has mapped stays mapped in the kernel: no unmap of
\* another buffer, end of another process or removal of a device takes it away,
\* except from host memory at the start of a 64 KiB block of which other host
\* memory was mapped at the same time (map_find, map_ioctl, libnvm_helper_exit).
THEOREM MappingsStayInKernel == StackSpec => []MappedInKernel
<1>1. StackInv => MappedInKernel
  BY DEF StackInv, EntryInv
<1> QED BY <1>1, StackInvariant, PTL

\* The driver keeps an entry without a mapping of the process only after an
\* unmap by another thread or through a file whose controller is gone, a failed
\* copy of the addresses, the end of a process, or an unmap for which map_find
\* could take another buffer of the block (map_find, map_ioctl).
THEOREM EntriesAreUsed == StackSpec => []NoStaleEntries
<1>1. StackInv => NoStaleEntries
  BY DEF StackInv, EntryInv
<1> QED BY <1>1, StackInvariant, PTL

\* The process's part of the stack behaves as DmaMap says, so what is proved of
\* DmaMap holds here too (the calls of linux/dma.cpp next to the kernel module).
THEOREM StackRunsDmaMap == StackSpec => Spec
<1>1. StackInit => Init
  BY DEF StackInit
<1>2. [StackNext]_stackVars => [Next]_vars
  BY StackStep DEF stackVars
<1> QED BY <1>1, <1>2, PTL DEF StackSpec, Spec
=============================================================================
