----------------------------- MODULE MCDmaStack -----------------------------
EXTENDS DmaStack

\* Threads, descriptors, handles, identities, addresses of cdevs and the devices
\* nobody opens are interchangeable; the addresses of buffers are not.
Symmetry == Permutations(Tasks) \cup Permutations(Maps) \cup Permutations(Handles)
                \cup Permutations(Cdevs) \cup Permutations(Ids) \cup Permutations(Pci \ Ioctl)

\* Bound: three devices without a buffer, two with one, one with two buffers;
\* after an ignored device was removed, only devices move.
Devices == Len(ctrlList) + Cardinality(ignored)
Allocated == {m \in Maps : bufOf[m] # None}

FewAtOnce ==
    /\ Devices + Cardinality(Allocated) <= 3
    /\ Devices + Len(hostList) + Len(deviceList) <= 3
    /\ undercount => Allocated = {} /\ Entries = {}
=============================================================================
