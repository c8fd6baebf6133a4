------------------------------ MODULE DmaStack ------------------------------
(***************************************************************************)
(* One process that maps memory through libnvm (DmaMap) and the kernel     *)
(* module that does it (HelperDriver): controllers come and go, threads    *)
(* map and unmap buffers (createDma, nvm_dma_create), the process may end  *)
(* with mappings in place and start again.  nvm_dma_remap makes no call of *)
(* the kernel module and is left to DmaMap.                                *)
(***************************************************************************)
EXTENDS DmaMap, HelperDriver

ASSUME StackAssumption == Ioctl \subseteq Pci /\ MaxCtrls \in Nat /\ None \notin Bufs \cup Cdevs

VARIABLES
    bufOf,      \* buffer of each mapping until it is freed, or None
    cdevOf,     \* cdev that the open file of each device refers to, or None
    lost,       \* GPU buffers that createDma did not free after an error
    excused,    \* history: something happened after which entries stay in the driver
    crowded     \* history: host buffers of one block, one at its start, were mapped at once

bufVars == <<bufOf, cdevOf, lost, excused, crowded>>
stackVars == <<vars, driverVars, bufVars>>

Kernel == {"host", "cuda", "api"}
BufsOf(kind) == IF kind = "cuda" THEN GpuBufs ELSE HostBufs
FreshBufs(kind) == BufsOf(kind) \ ({bufOf[m] : m \in Maps} \cup lost)

\* map_find may take one of two buffers for the other.
Confusable(a, b) == Block(a) = Block(b) /\ Block(a) \in {a, b}

(***************************************************************************)
(* Calls of the process.                                                   *)
(***************************************************************************)
\* Controller::Controller opens the device file.
Open(d) ==
    /\ d \in Ioctl => loaded /\ Listed(d) /\ d \notin probing
    /\ CtrlInit(d)
    /\ cdevOf' = [cdevOf EXCEPT ![d] =
                     IF d \in Ioctl
                     THEN ctrlList[First({i \in DOMAIN ctrlList : ctrlList[i].dev = d})].cdev ELSE None]
    /\ UNCHANGED <<driverVars, bufOf, lost, excused, crowded>>

\* The file of a device is closed with the last reference to its controller.
FilesClosed == cdevOf' = [d \in Devs |-> IF ctrl'[d].open THEN cdevOf[d] ELSE None]

Close(d) ==
    /\ CtrlFree(d) /\ FilesClosed
    /\ UNCHANGED <<driverVars, bufOf, lost, excused, crowded>>

\* ioctl_map of a buffer
IoctlMap(t, kind, b, id) ==
    IF kind = "cuda" THEN MapDeviceMemory(t, b, id) ELSE MapHostMemory(t, b, id)

createDma(t, d, kind, m, h) ==
    /\ Create(t, d, kind, m, h)
    /\ bufOf[m] = None
    /\ IF kind \in Kernel
       THEN /\ FileKnown(cdevOf[d])
            /\ \E b \in FreshBufs(kind), id \in FreeIds :
                 /\ bufOf' = [bufOf EXCEPT ![m] = b]
                 /\ IoctlMap(t, kind, b, id)
                 /\ crowded' = (crowded \/ \E n \in Maps : map[n].va /\ bufOf[n] # None
                                                          /\ Confusable(bufOf[n], b))
       ELSE UNCHANGED <<bufOf, mapVars, crowded>>
    /\ UNCHANGED <<loaded, ctrlList, probing, ignored, currCtrls, unplugged, undercount,
                   cdevOf, lost, excused>>

\* An error: the ioctl has done nothing, or it has mapped the buffer and could
\* not copy the addresses out.  A host buffer is freed, a GPU buffer is not.
createDmaFail(t, d, kind, m, k) ==
    /\ CreateFail(t, d, kind, m, k)
    /\ bufOf[m] = None
    /\ \/ UNCHANGED <<mapVars, lost, excused>>
       \/ /\ kind \in Kernel /\ k = 1 /\ FileKnown(cdevOf[d])
          /\ \E b \in FreshBufs(kind), id \in FreeIds :
               /\ IoctlMap(t, kind, b, id)
               /\ lost' = IF kind = "cuda" THEN lost \cup {b} ELSE lost
          /\ excused' = TRUE
    /\ UNCHANGED <<loaded, ctrlList, probing, ignored, currCtrls, unplugged, undercount,
                   bufOf, cdevOf, crowded>>

\* ioctl_unmap ignores errors: another task's mapping is not found, and
\* nothing is when the file's controller is gone, even if the device is back.
UnmapDma(t, h) ==
    /\ Unmap(t, h)
    /\ LET m == handle[h]
           ioctl == map[m].count = 1 /\ map[m].kind \in Kernel
           file == cdevOf[map[m].dev]
       IN /\ IF ioctl THEN UnmapMemory(file, t, bufOf[m]) ELSE UNCHANGED mapVars
          /\ excused' = (excused \/ (ioctl /\ (t # map[m].task \/ ~FileKnown(file))))
          /\ bufOf' = [bufOf EXCEPT ![m] = IF ioctl /\ map[m].kind = "api" THEN None ELSE @]
    /\ FilesClosed
    /\ UNCHANGED <<loaded, ctrlList, probing, ignored, currCtrls, unplugged, undercount,
                   lost, crowded>>

PutDma(t) ==
    /\ PutKeep(t) \/ PutRemove(t) \/ PutFreed(t)
    /\ FilesClosed
    /\ UNCHANGED <<driverVars, bufOf, lost, excused, crowded>>

\* The deleter of createDma: the buffer is freed after its handle is gone.
Free(m) ==
    /\ bufOf[m] # None /\ ~map[m].va
    /\ FreeGpuMemory(bufOf[m])
    /\ bufOf' = [bufOf EXCEPT ![m] = None]
    /\ UNCHANGED <<vars, loaded, ctrlList, probing, ignored, currCtrls, unplugged, undercount,
                   cdevOf, lost, excused, crowded>>

\* Files are closed and GPU memory is freed; host mappings stay.
ExitProcess ==
    /\ Exit
    /\ clear_device_list /\ UNCHANGED hostList
    /\ bufOf' = [m \in Maps |-> None] /\ lost' = {} /\ crowded' = FALSE
    /\ cdevOf' = [d \in Devs |-> None]
    /\ excused' = (excused \/ hostList # <<>>)
    /\ UNCHANGED <<loaded, ctrlList, probing, ignored, currCtrls, unplugged, undercount>>

(***************************************************************************)
(* The driver's side.  An open file keeps the module loaded.               *)
(***************************************************************************)
Driver ==
    /\ \/ \E d \in Pci : Probe(d) \/ RemoveDev(d)
       \/ ProbeDone \/ ProbeFail \/ Load
       \/ Unload /\ \A d \in Ioctl : ~ctrl[d].open
    /\ UNCHANGED <<vars, bufVars>>

StackInit ==
    /\ Init /\ DriverInit
    /\ bufOf = [m \in Maps |-> None] /\ cdevOf = [d \in Devs |-> None] /\ lost = {}
    /\ excused = FALSE /\ crowded = FALSE

StackNext ==
    \/ /\ ~corrupt
       /\ \/ \E d \in Devs : Open(d) \/ Close(d)
          \/ \E t \in Tasks, d \in Devs, kind \in Kinds, m \in Maps :
               \/ \E h \in Handles : createDma(t, d, kind, m, h)
               \/ \E k \in 0 .. 5 : createDmaFail(t, d, kind, m, k)
          \/ \E t \in Tasks, h \in Handles : UnmapDma(t, h)
          \/ \E t \in Tasks : PutDma(t)
          \/ \E m \in Maps : Free(m)
    \/ ExitProcess
    \/ Driver

StackSpec == StackInit /\ [][StackNext]_stackVars

-----------------------------------------------------------------------------
Excepted == excused \/ crowded
EntriesOf(m) == {e \in Entries : e.owner = map[m].task /\ e.buf = bufOf[m]}

\* Memory that the process has mapped stays mapped in the kernel: no unmap of
\* another buffer, end of another process or removal of a device takes it away
\* (map_find, map_ioctl).  The exception is host memory at the start of a 64 KiB
\* block while other host memory of the block was mapped too: map_find takes the
\* first for the second.
MappedInKernel ==
    \A m \in Maps : (map[m].va /\ map[m].kind \in Kernel) =>
        \/ EntriesOf(m) # {}
        \/ crowded /\ map[m].kind # "cuda" /\ bufOf[m] = Block(bufOf[m])

\* The driver keeps an entry without a mapping of the process only after an
\* unmap by another thread or through a file whose controller is gone, a failed
\* copy of the addresses, the end of a process, or an unmap for which map_find
\* could take another buffer of the block (map_find, map_ioctl).
NoStaleEntries ==
    Excepted \/ \A e \in Entries : \E m \in Maps : map[m].va /\ e \in EntriesOf(m)
=============================================================================
