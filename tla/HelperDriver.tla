---------------------------- MODULE HelperDriver ----------------------------
(***************************************************************************)
(* The kernel module libnvm helper (bam/module): the controllers it has    *)
(* been given by the PCI core, the memory it has mapped for them on behalf *)
(* of processes, and what it still holds of the NVIDIA driver.             *)
(*                                                                         *)
(* The module has no release operation for its device files: a mapping     *)
(* goes away by the ioctl, by the NVIDIA driver's callback for freed GPU   *)
(* memory, or when the module is unloaded.  Kernel calls that fail leave   *)
(* the lists as they were, unless an action says otherwise.                *)
(***************************************************************************)
EXTENDS Integers, Sequences, SequencesExt, FiniteSets

CONSTANTS
    Pci,         \* PCI functions of class NVMe
    MaxCtrls,    \* max_num_ctrls
    HostBufs,    \* buffers in host memory, by the number of their first page
    GpuBufs,     \* buffers in GPU memory
    Cdevs,       \* addresses of a controller's cdev: the allocator may use one again
    Ids          \* identities of mapping descriptors

VARIABLES
    loaded,      \* the module is loaded
    ctrlList,    \* ctrl_list: [dev, number, cdev] in the order of insertion
    probing,     \* device inside add_pci_dev, between ctrl_get and the end: one or none
    ignored,     \* devices bound although add_pci_dev did nothing for them
    currCtrls,   \* curr_ctrls
    hostList,    \* host_list: [id, owner, vaddr, buf]; buf: the memory it holds
    deviceList,  \* device_list: [id, owner, vaddr, buf, n]; n: mappings made
    p2p,         \* external: DMA mappings the NVIDIA driver holds, <<id, index>>
    unplugged,   \* history: a controller went away while GPU memory was mapped
    undercount   \* history: an ignored device was removed

Bufs == HostBufs \cup GpuBufs

\* The 64 KiB block that a page of 4 KiB lies in, by its first page: & GPU_PAGE_MASK
PagesPerBlock == 16
Block(b) == b - (b % PagesPerBlock)

\* External: CUDA has addresses of its own, and getDeviceMemory asks for 64 KiB
\* more than the whole blocks it maps.
ASSUME AddressAssumption ==
    /\ Bufs \subseteq Nat /\ HostBufs \cap GpuBufs = {}
    /\ \A g \in GpuBufs, b \in Bufs : Block(g) = Block(b) => g = b

mapVars == <<hostList, deviceList, p2p>>
driverVars == <<loaded, ctrlList, probing, ignored, currCtrls, mapVars, unplugged, undercount>>

Listed(d) == \E i \in DOMAIN ctrlList : ctrlList[i].dev = d
FileKnown(c) == \E i \in DOMAIN ctrlList : ctrlList[i].cdev = c
Entries == Range(hostList) \cup Range(deviceList)

\* The lists of controllers and of mappings are kept in the order of insertion.
list_insert(list, e) == Append(list, e)
list_remove(list, i) == RemoveAt(list, i)

DriverInit ==
    /\ loaded = TRUE
    /\ ctrlList = <<>> /\ probing = {} /\ ignored = {} /\ currCtrls = 0
    /\ hostList = <<>> /\ deviceList = <<>> /\ p2p = {}
    /\ unplugged = FALSE /\ undercount = FALSE

(***************************************************************************)
(* Controllers.                                                            *)
(***************************************************************************)
ctrl_get(d, number) ==
    \E c \in Cdevs :
        /\ ~FileKnown(c)
        /\ ctrlList' = list_insert(ctrlList, [dev |-> d, number |-> number, cdev |-> c])

\* add_pci_dev up to ctrl_get: the controller is in the list from here on.
Probe(d) ==
    /\ loaded /\ probing = {} /\ ~Listed(d) /\ d \notin ignored
    /\ IF currCtrls >= MaxCtrls
       THEN /\ ignored' = ignored \cup {d}
            /\ UNCHANGED <<ctrlList, probing>>
       ELSE /\ ctrl_get(d, currCtrls)
            /\ probing' = {d}
            /\ UNCHANGED ignored
    /\ UNCHANGED <<loaded, currCtrls, mapVars, unplugged, undercount>>

\* The rest of it.  cdev_add refuses a number that is in use.
NumberFree(d) ==
    \A i, j \in DOMAIN ctrlList :
        (ctrlList[i].dev = d /\ i # j) => ctrlList[i].number # ctrlList[j].number

ProbeDone ==
    /\ probing # {} /\ \A d \in probing : NumberFree(d)
    /\ currCtrls' = currCtrls + 1
    /\ probing' = {}
    /\ UNCHANGED <<loaded, ctrlList, ignored, mapVars, unplugged, undercount>>

\* The first entry a search finds, of the places that match
First(is) == CHOOSE i \in is : \A j \in is : i <= j

\* ctrl_put of ctrl_find_by_pci_dev: also on the error paths of add_pci_dev
ctrl_put(d) ==
    /\ ctrlList' = IF Listed(d)
                   THEN list_remove(ctrlList, First({i \in DOMAIN ctrlList : ctrlList[i].dev = d}))
                   ELSE ctrlList
    /\ unplugged' = (unplugged \/ (Listed(d) /\ deviceList # <<>>))

ProbeFail ==
    /\ \E d \in probing : ctrl_put(d)
    /\ probing' = {}
    /\ UNCHANGED <<loaded, ignored, currCtrls, mapVars, undercount>>

\* Mutant: the count is left alone.
MutRemoveDev(d) ==
    /\ loaded /\ d \notin probing
    /\ Listed(d) \/ d \in ignored
    /\ ctrl_put(d)
    /\ ignored' = ignored \ {d}
    /\ undercount' = (undercount \/ d \in ignored)
    /\ UNCHANGED <<loaded, probing, currCtrls, mapVars>>

\* remove_pci_dev: of any device that is bound
RemoveDev(d) ==
    /\ loaded /\ d \notin probing
    /\ Listed(d) \/ d \in ignored
    /\ currCtrls' = currCtrls - 1
    /\ ctrl_put(d)
    /\ ignored' = ignored \ {d}
    /\ undercount' = (undercount \/ d \in ignored)
    /\ UNCHANGED <<loaded, probing, mapVars>>

(***************************************************************************)
(* The ioctl.  Operators for the module that calls it.                     *)
(***************************************************************************)
FreeIds == Ids \ ({e.id : e \in Entries} \cup {x[1] : x \in p2p})

\* map_userspace: pages pinned and mapped, then listed
MapHostMemory(t, b, id) ==
    /\ hostList' = list_insert(hostList, [id |-> id, owner |-> t, vaddr |-> b, buf |-> b])
    /\ UNCHANGED <<deviceList, p2p>>

\* map_device_memory: one mapping for each controller of the list
MapDeviceMemory(t, b, id) ==
    /\ deviceList' = list_insert(deviceList, [id |-> id, owner |-> t, vaddr |-> Block(b), buf |-> b,
                                              n |-> Len(ctrlList)])
    /\ p2p' = p2p \cup {<<id, k>> : k \in 1 .. Len(ctrlList)}
    /\ UNCHANGED hostList

\* Mutant: the first controller is passed over.
MutUnmapped(es, len) ==
    {<<e.id, k>> : e \in es, k \in 2 .. len}

\* release_gpu_memory, force_release_gpu_memory: one step per controller that
\* is in the list now
Unmapped(es, len) ==
    {<<e.id, k>> : e \in es, k \in 1 .. len}

\* Mutant: blocks are compared with blocks.
MutFound(list, t, b) == {i \in DOMAIN list : list[i].owner = t /\ Block(list[i].vaddr) = Block(b)}

\* map_find: of the calling task, by the address of the page or of its block
Found(list, t, b) == {i \in DOMAIN list : list[i].owner = t /\ list[i].vaddr \in {b, Block(b)}}

\* Mutant: only the list of host memory is searched.
MutUnmapMemory(c, t, b) ==
    LET host == Found(hostList, t, b)
    IN IF FileKnown(c) /\ host # {}
       THEN /\ hostList' = list_remove(hostList, First(host))
            /\ UNCHANGED <<deviceList, p2p>>
       ELSE UNCHANGED mapVars

\* NVM_UNMAP_MEMORY through a file: EBADF without a controller whose cdev is the
\* file's, host list, device list, or EINVAL; the first entry that matches goes
UnmapMemory(c, t, b) ==
    LET host == Found(hostList, t, b)
        gpu  == Found(deviceList, t, b)
    IN CASE ~FileKnown(c) -> UNCHANGED mapVars
         [] FileKnown(c) /\ host # {} ->
              /\ hostList' = list_remove(hostList, First(host))
              /\ UNCHANGED <<deviceList, p2p>>
         [] FileKnown(c) /\ host = {} /\ gpu # {} ->
              /\ deviceList' = list_remove(deviceList, First(gpu))
              /\ p2p' = p2p \ Unmapped({deviceList[First(gpu)]}, Len(ctrlList))
              /\ UNCHANGED hostList
         [] OTHER -> UNCHANGED mapVars

\* The NVIDIA driver calls force_release_gpu_memory for the mapping of GPU
\* memory that is freed ...
FreeGpuMemory(b) ==
    LET gone == {i \in DOMAIN deviceList : deviceList[i].buf = b}
    IN IF gone = {} THEN UNCHANGED mapVars
       ELSE /\ deviceList' = list_remove(deviceList, First(gone))
            /\ p2p' = p2p \ Unmapped({deviceList[First(gone)]}, Len(ctrlList))
            /\ UNCHANGED hostList

\* ... or for every one; clear_map_list of the module has the same effect.
clear_device_list ==
    /\ deviceList' = <<>>
    /\ p2p' = p2p \ Unmapped(Range(deviceList), Len(ctrlList))

(***************************************************************************)
(* Loading and unloading.                                                  *)
(***************************************************************************)
\* libnvm_helper_exit: clear_map_list of both lists, then every device is removed
Unload ==
    /\ loaded /\ probing = {}
    /\ loaded' = FALSE
    /\ hostList' = <<>> /\ clear_device_list
    /\ ctrlList' = <<>> /\ ignored' = {} /\ currCtrls' = 0
    /\ undercount' = FALSE
    /\ UNCHANGED <<probing, unplugged>>

\* libnvm_helper_entry
Load ==
    /\ ~loaded
    /\ loaded' = TRUE
    /\ UNCHANGED <<ctrlList, probing, ignored, currCtrls, mapVars, unplugged, undercount>>

-----------------------------------------------------------------------------
\* Controllers in the list are as many as counted and have numbers of the
\* region, if no ignored device was removed (add_pci_dev, remove_pci_dev).
NumbersValid ==
    undercount \/ /\ currCtrls = Len(ctrlList) - Cardinality(probing)
                  /\ \A i \in DOMAIN ctrlList : ctrlList[i].number \in 0 .. MaxCtrls - 1

\* The NVIDIA driver holds DMA mappings only for mapped GPU memory, one for each
\* controller there was when it was mapped, as long as no controller has gone
\* away meanwhile (map_gpu_memory, release_gpu_memory, libnvm_helper_exit).
P2PBalanced ==
    unplugged \/ p2p = UNION {{e.id} \X (1 .. e.n) : e \in Range(deviceList)}
=============================================================================
