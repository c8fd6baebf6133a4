------------------------------- MODULE DmaMap -------------------------------
(***************************************************************************)
(* DMA mappings of libnvm (dma.cpp, linux/dma.cpp, dis/dma.c) and the      *)
(* controller handles they refer to (ctrl.cpp, linux/device.cpp,           *)
(* dis/device.c).                                                          *)
(*                                                                         *)
(* A mapping descriptor is shared by the handles made by nvm_dma_remap and *)
(* counted by them; it holds one reference to the controller, a SISCI      *)
(* segment descriptor holds another.  Calls of several threads interleave  *)
(* between the locked part of put_map and what follows it; the rest of a   *)
(* call touches only what it has made itself and counters under a lock.    *)
(***************************************************************************)
EXTENDS Integers, Sequences, FiniteSets

CONSTANTS
    Ioctl,      \* controllers opened through the helper's device file
    Sci,        \* controllers borrowed through SmartIO
    Tasks,      \* threads
    Maps,       \* mapping descriptors
    Handles,    \* DMA handles
    Kinds,      \* ways of mapping that are used
    None

Devs == Ioctl \cup Sci

ASSUME DmaAssumption ==
    /\ IsFiniteSet(Maps) /\ IsFiniteSet(Handles) /\ IsFiniteSet(Tasks)
    /\ None \notin Maps \cup Handles

VARIABLES
    ctrl,       \* struct controller: allocated, count, device # NULL, user's handle
    map,        \* struct map: allocated, ctrl, kind, count, va # NULL, task that made it
    handle,     \* container->map of each handle, or None
    res,        \* what a mapping has acquired and not given back
    at,         \* mapping whose va a thread reads next, after put_map's lock, or None
    corrupt     \* history: a descriptor was freed twice

vars == <<ctrl, map, handle, res, at, corrupt>>

NoCtrl == [live |-> FALSE, count |-> 0, open |-> FALSE, user |-> FALSE]
NoMap == [live |-> FALSE, dev |-> None, kind |-> None, count |-> 0, va |-> FALSE, task |-> None]

(***************************************************************************)
(* What a call acquires, in order.                                         *)
(*   dref, mref  controller reference of a segment, of the mapping         *)
(*   seg, conn   SISCI segment created, connected                          *)
(*   devseg      segment in device memory created                          *)
(*   va          segment mapped into the address space                     *)
(*   avail       local segment made available                              *)
(*   io          mapped for the device                                     *)
(***************************************************************************)
Refs == {"dref", "mref"}

nvm_ctrl_get == <<"dref">>
nvm_local_memory_get == <<"seg">>
nvm_device_memory_get == <<"conn">>
va_map_local == <<"va">>
va_map_remote == <<"va">>
nvm_dma_init == <<"mref">>
ioctl_map == <<"io">>
io_map_local == <<"avail", "io">>
io_map_remote == <<"io">>

create_local_segment == nvm_ctrl_get \o nvm_local_memory_get \o va_map_local
attach_local_segment == nvm_ctrl_get \o nvm_local_memory_get      \* for given memory
create_remote_segment == nvm_ctrl_get \o <<"devseg">> \o nvm_device_memory_get \o va_map_remote

\* The calls of linux/dma.cpp ...
nvm_dma_map == nvm_dma_init
nvm_dma_create == nvm_dma_init \o ioctl_map
nvm_dma_map_host == nvm_dma_init \o ioctl_map
nvm_dma_map_device == nvm_dma_init \o ioctl_map

\* ... and of dis/dma.c
nvm_dis_dma_map_local == nvm_ctrl_get \o va_map_local \o nvm_dma_init \o io_map_local
nvm_dis_dma_map_remote == nvm_ctrl_get \o va_map_remote \o nvm_dma_init \o io_map_remote
nvm_dis_dma_create_local == create_local_segment \o nvm_dma_init \o io_map_local
nvm_dis_dma_create_remote == create_remote_segment \o nvm_dma_init \o io_map_remote
nvm_dis_dma_map_host == attach_local_segment \o nvm_dma_init \o io_map_local

Path(kind) ==
    CASE kind = "user" -> nvm_dma_map
      [] kind = "api"  -> nvm_dma_create
      [] kind = "host" -> nvm_dma_map_host
      [] kind = "cuda" -> nvm_dma_map_device
      [] kind = "lseg" -> nvm_dis_dma_map_local
      [] kind = "rseg" -> nvm_dis_dma_map_remote
      [] kind = "lown" -> nvm_dis_dma_create_local
      [] kind = "rown" -> nvm_dis_dma_create_remote
      [] kind = "lmem" -> nvm_dis_dma_map_host

Got(kind, k) == {Path(kind)[i] : i \in 1 .. k}

KindsOf(d) == IF d \in Ioctl THEN {"user", "host", "cuda", "api"}
              ELSE {"user", "lseg", "rseg", "lown", "lmem", "rown"}

(***************************************************************************)
(* What is given back.                                                     *)
(***************************************************************************)
va_unmap == {"va"}
nvm_local_memory_put == {"seg"}
nvm_device_memory_put == {"conn"}
remove_local_desc == va_unmap \cup nvm_local_memory_put \cup {"dref"}
remove_remote_desc == va_unmap \cup nvm_device_memory_put \cup {"dref"}
release_range == remove_local_desc \cup remove_remote_desc
io_unmap == {"io", "avail"}                 \* in the kernel module's case: the ioctl

\* Mutant: the reference of the mapping stays after an error.
MutUndone(kind, got) == got \ {"devseg", "mref"}

\* What the error paths give back: everything but the device segment, which
\* is never removed, and the availability of a segment of the caller.
Undone(kind, got) == got \ (IF kind = "lseg" THEN {"devseg", "avail"} ELSE {"devseg"})

(***************************************************************************)
(* Controller references.                                                  *)
(***************************************************************************)
\* Mutant: the device is released with the user's handle.
MutAfterPut(c, n) ==
    [live |-> c.count # n, count |-> c.count - n, open |-> c.open /\ c.user /\ c.count # n,
     user |-> c.user]

\* n calls of _nvm_ctrl_put
AfterPut(c, n) ==
    [live |-> c.count # n, count |-> c.count - n, open |-> c.open /\ c.count # n, user |-> c.user]

nvm_ctrl_init(d) ==
    /\ ~ctrl[d].live
    /\ ctrl' = [ctrl EXCEPT ![d] = [live |-> TRUE, count |-> 1, open |-> TRUE, user |-> TRUE]]
    /\ UNCHANGED <<map, handle, res, at, corrupt>>

\* The device file is mapped, or the device borrowed; a failure leaves nothing behind.
open_device(d) == d \in Ioctl /\ nvm_ctrl_init(d)
borrow_device(d) == d \in Sci /\ nvm_ctrl_init(d)

CtrlInit(d) == open_device(d) \/ borrow_device(d)

\* nvm_ctrl_free: mappings may outlive the user's handle
CtrlFree(d) ==
    /\ ctrl[d].user
    /\ ctrl' = [ctrl EXCEPT ![d] = AfterPut([@ EXCEPT !.user = FALSE], 1)]
    /\ UNCHANGED <<map, handle, res, at, corrupt>>

(***************************************************************************)
(* Mappings.                                                               *)
(***************************************************************************)
\* A call that makes a mapping and succeeds ...
Create(t, d, kind, m, h) ==
    /\ at[t] = None /\ ctrl[d].user /\ kind \in KindsOf(d)
    /\ ~map[m].live /\ handle[h] = None
    /\ LET got == Got(kind, Len(Path(kind)))
       IN /\ res' = [res EXCEPT ![m] = got]
          /\ ctrl' = [ctrl EXCEPT ![d].count = @ + Cardinality(got \cap Refs)]
    /\ map' = [map EXCEPT ![m] = [live |-> TRUE, dev |-> d, kind |-> kind, count |-> 1,
                                  va |-> TRUE, task |-> t]]
    /\ handle' = [handle EXCEPT ![h] = m]
    /\ UNCHANGED <<at, corrupt>>

\* ... or that fails when it has acquired the first k things
CreateFail(t, d, kind, m, k) ==
    /\ at[t] = None /\ ctrl[d].user /\ kind \in KindsOf(d) /\ ~map[m].live
    /\ k \in 0 .. Len(Path(kind)) - 1
    /\ LET got == Got(kind, k)
           undone == Undone(kind, got)
       IN /\ res' = [res EXCEPT ![m] = got \ undone]
          /\ ctrl' = [ctrl EXCEPT ![d].count = @ + Cardinality(got \cap Refs)
                                                 - Cardinality(undone \cap Refs)]
    /\ UNCHANGED <<map, handle, at, corrupt>>

\* nvm_dma_remap; when the container cannot be allocated, put_map takes the
\* reference back
Remap(t, h, new) ==
    /\ at[t] = None /\ handle[h] # None /\ handle[new] = None
    /\ map' = [map EXCEPT ![handle[h]].count = @ + 1]
    /\ handle' = [handle EXCEPT ![new] = handle[h]]
    /\ UNCHANGED <<ctrl, res, at, corrupt>>

\* Mutant: the range is released with any handle.
MutUnmap(t, h) ==
    /\ at[t] = None /\ handle[h] # None
    /\ LET m == handle[h]
       IN /\ map' = [map EXCEPT ![m].count = @ - 1, ![m].va = FALSE]
          /\ res' = [res EXCEPT ![m] = @ \ (io_unmap \cup release_range)]
          /\ ctrl' = [ctrl EXCEPT ![map[m].dev] = AfterPut(@, Cardinality(res[m] \cap release_range \cap Refs))]
          /\ at' = [at EXCEPT ![t] = m]
    /\ handle' = [handle EXCEPT ![h] = None]
    /\ UNCHANGED corrupt

\* nvm_dma_unmap: put_map up to the unlock
Unmap(t, h) ==
    /\ at[t] = None /\ handle[h] # None
    /\ LET m == handle[h]
           last == map[m].count = 1
       IN /\ map' = [map EXCEPT ![m].count = @ - 1, ![m].va = ~last]
          /\ res' = [res EXCEPT ![m] = IF last THEN @ \ (io_unmap \cup release_range) ELSE @]
          /\ ctrl' = [ctrl EXCEPT ![map[m].dev] =
                         IF last THEN AfterPut(@, Cardinality(res[m] \cap release_range \cap Refs)) ELSE @]
          /\ at' = [at EXCEPT ![t] = m]
    /\ handle' = [handle EXCEPT ![h] = None]
    /\ UNCHANGED corrupt

\* put_map after the unlock finds a range: another handle is left.
PutKeep(t) ==
    /\ at[t] # None
    /\ map[at[t]].va \/ ~map[at[t]].live
    /\ at' = [at EXCEPT ![t] = None]
    /\ UNCHANGED <<ctrl, map, handle, res, corrupt>>

\* It finds none: remove_map.
PutRemove(t) ==
    /\ at[t] # None
    /\ map[at[t]].live /\ ~map[at[t]].va
    /\ LET m == at[t]
       IN /\ ctrl' = [ctrl EXCEPT ![map[m].dev] = AfterPut(@, 1)]
          /\ res' = [res EXCEPT ![m] = @ \ {"mref"}]
          /\ map' = [map EXCEPT ![m] = NoMap]
    /\ at' = [at EXCEPT ![t] = None]
    /\ UNCHANGED <<handle, corrupt>>

\* It reads a descriptor that another thread has freed meanwhile and finds
\* none (or some: PutKeep): freed a second time.
PutFreed(t) ==
    /\ at[t] # None
    /\ ~map[at[t]].live
    /\ corrupt' = TRUE
    /\ at' = [at EXCEPT ![t] = None]
    /\ UNCHANGED <<ctrl, map, handle, res>>

\* The process ends, by itself or not; SISCI and the kernel take back what is theirs.
Exit ==
    /\ ctrl' = [d \in Devs |-> NoCtrl]
    /\ map' = [m \in Maps |-> NoMap]
    /\ handle' = [h \in Handles |-> None]
    /\ res' = [m \in Maps |-> {}]
    /\ at' = [t \in Tasks |-> None]
    /\ corrupt' = FALSE

Init ==
    /\ ctrl = [d \in Devs |-> NoCtrl]
    /\ map = [m \in Maps |-> NoMap]
    /\ handle = [h \in Handles |-> None]
    /\ res = [m \in Maps |-> {}]
    /\ at = [t \in Tasks |-> None]
    /\ corrupt = FALSE

Next ==
    \/ /\ ~corrupt
       /\ \/ \E d \in Devs : CtrlInit(d) \/ CtrlFree(d)
          \/ \E t \in Tasks, d \in Devs, kind \in Kinds, m \in Maps :
               \/ \E h \in Handles : Create(t, d, kind, m, h)
               \/ \E k \in 0 .. 5 : CreateFail(t, d, kind, m, k)
          \/ \E t \in Tasks, h \in Handles : Unmap(t, h)
          \/ \E t \in Tasks, h, new \in Handles : Remap(t, h, new)
          \/ \E t \in Tasks : PutKeep(t) \/ PutRemove(t) \/ PutFreed(t)
    \/ Exit

Spec == Init /\ [][Next]_vars

-----------------------------------------------------------------------------
HandlesOf(m) == {h \in Handles : handle[h] = m}

\* The count of a mapping is the number of its handles, and it has its range
\* as long as it has one (get_map, put_map).
CountsHandles ==
    \A m \in Maps : /\ map[m].count = Cardinality(HandlesOf(m))
                    /\ map[m].va <=> HandlesOf(m) # {}

\* The count of a controller is the number of its holders: the user, mappings
\* and segment descriptors, on every path (_nvm_ctrl_get, _nvm_ctrl_put), until
\* two threads have freed one descriptor.
Holders(d) == {x \in Maps \X Refs : map[x[1]].dev = d /\ x[2] \in res[x[1]]}

RefsCounted ==
    ~corrupt => \A d \in Devs :
        ctrl[d].count = Cardinality(Holders(d)) + (IF ctrl[d].user THEN 1 ELSE 0)

\* What is mapped for a device is mapped through an open device, also after
\* nvm_ctrl_free (~Controller frees the controller before its queue memory).
MappedWhileOpen ==
    ~corrupt => \A m \in Maps : map[m].va => ctrl[map[m].dev].open

\* A call that fails and a mapping that is gone leave nothing behind but a
\* segment in device memory, or a caller's segment that was made available.
NothingLeft ==
    \A m \in Maps : ~map[m].live => res[m] \subseteq {"devseg", "avail"}

\* What handles promise: a mapping is in place as long as somebody holds it.
Shared == INSTANCE SharedMapping WITH
    Users <- Handles,
    holders <- [m \in Maps |-> HandlesOf(m)],
    mapped <- [m \in Maps |-> map[m].va /\ Got(map[m].kind, Len(Path(map[m].kind))) \subseteq res[m]]

ImplementsSharing == Shared!Spec
=============================================================================
