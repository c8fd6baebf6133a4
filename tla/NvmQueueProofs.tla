--------------------------- MODULE NvmQueueProofs ---------------------------
(***************************************************************************)
(* Proofs about NvmQueue, for any number of threads, commands, ring sizes  *)
(* and identifiers: the identifiers of commands under way are distinct; no *)
(* command is written over before it is fetched; a completion is where its *)
(* thread looks for it, and the thread goes on with no other; the queue    *)
(* pair implements IOChannel.  All but the first take the counters to be   *)
(* wide enough for the commands (Few), and the ones that need it that no   *)
(* scan has outlived the ring (~lapped).                                   *)
(***************************************************************************)
EXTENDS NvmQueue, FiniteSetTheorems, TLAPS

Labels == {"idle"} \cup EnqueueLabels \cup DequeueLabels

(* The types that identifiers depend on.                                   *)
CidType ==
  /\ cidLocked \in [Cids -> BOOLEAN]
  /\ cidTicket \in Cids
  /\ cid \in [Threads -> Cids]
  /\ pc \in [Threads -> Labels]

CidInv == CidType /\ CidsDistinct

(* The actions in which a thread stays busy with its command.              *)
Busy(t) ==
  TakeTicket(t) \/ WriteEntry(t) \/ MoveTail(t) \/ RingTail(t) \/ Enqueued(t) \/ PollHead(t)
    \/ Scan(t) \/ LockPos(t) \/ MoveHead(t) \/ RingHead(t) \/ StoreHead(t) \/ Dequeued(t)

(* What these actions have in common, as far as identifiers go.            *)
LEMMA BusyStep ==
  ASSUME NEW t \in Threads, CidType, Busy(t)
  PROVE  /\ pc[t] # "idle"
         /\ \E l \in Labels \ {"idle"} : pc' = [pc EXCEPT ![t] = l]
         /\ UNCHANGED <<cidLocked, cidTicket, cid>>
<1> USE DEF Labels, EnqueueLabels, DequeueLabels, Goto
<1>1. CASE TakeTicket(t)
  BY <1>1 DEF TakeTicket, cidVars
<1>2. CASE WriteEntry(t)
  BY <1>2 DEF WriteEntry, cidVars
<1>3. CASE MoveTail(t)
  BY <1>3 DEF MoveTail, cidVars
<1>4. CASE RingTail(t)
  BY <1>4 DEF RingTail, cidVars
<1>5. CASE Enqueued(t)
  BY <1>5 DEF Enqueued, cidVars
<1>6. CASE PollHead(t)
  BY <1>6 DEF PollHead, cidVars
<1>7. CASE Scan(t)
  <2> DEFINE h == Add(hd[t], idx[t])
  <2>1. Scanned(t, h) \in Labels \ {"idle"}
    BY DEF Scanned
  <2>2. pc[t] = "scan" /\ pc' = [pc EXCEPT ![t] = Scanned(t, h)] /\ UNCHANGED cidVars /\ cid' = cid
    BY <1>7 DEF Scan
  <2> QED
    BY <2>1, <2>2 DEF cidVars
<1>8. CASE LockPos(t)
  BY <1>8 DEF LockPos, cidVars
<1>9. CASE MoveHead(t)
  BY <1>9 DEF MoveHead, cidVars
<1>10. CASE RingHead(t)
  BY <1>10 DEF RingHead, cidVars
<1>11. CASE StoreHead(t)
  BY <1>11 DEF StoreHead, cidVars
<1>12. CASE Dequeued(t)
  BY <1>12 DEF Dequeued, cidVars
<1> QED
  BY <1>1, <1>2, <1>3, <1>4, <1>5, <1>6, <1>7, <1>8, <1>9, <1>10, <1>11, <1>12 DEF Busy

LEMMA CidInvInit == ASSUME Init PROVE CidInv
<1>1. 0 \in Cids
  BY SizesAssumption DEF Cids
<1> QED
  BY <1>1 DEF Init, CidInv, CidType, CidsDistinct, Labels

LEMMA CidInvStep == ASSUME CidInv, [Next]_vars PROVE CidInv'
<1> USE DEF CidInv
<1>1. CASE UNCHANGED <<cidLocked, cidTicket, cid, pc>>
  BY <1>1 DEF CidType, CidsDistinct
<1>2. ASSUME NEW t \in Threads, GetCid(t) PROVE CidInv'
  <2>1. pc[t] = "idle" /\ cidLocked' = [cidLocked EXCEPT ![cidTicket] = TRUE]
    BY <1>2 DEF GetCid
  <2>2. cidTicket' \in Cids
    BY <1>2, SizesAssumption DEF GetCid, CidType, Cids
  <2>3. CASE CidFree(cidTicket)
    <3>1. cid' = [cid EXCEPT ![t] = cidTicket] /\ pc' = [pc EXCEPT ![t] = "ticket"]
      BY <1>2, <2>3 DEF GetCid, Goto
    <3>2. \A u \in Threads : pc[u] # "idle" => cid[u] # cidTicket
      BY <2>3 DEF CidFree, CidsDistinct
    <3>3. CidType'
      BY <2>1, <2>2, <3>1 DEF CidType, Labels, EnqueueLabels
    <3>4. CidsDistinct'
      BY <2>1, <3>1, <3>2 DEF CidType, CidsDistinct
    <3> QED
      BY <3>3, <3>4
  <2>4. CASE ~CidFree(cidTicket)
    <3>1. UNCHANGED <<cid, pc>>
      BY <1>2, <2>4 DEF GetCid
    <3> QED
      BY <2>1, <2>2, <3>1 DEF CidType, CidsDistinct
  <2> QED
    BY <2>3, <2>4
<1>3. ASSUME NEW t \in Threads, Busy(t) PROVE CidInv'
  <2>1. PICK l \in Labels \ {"idle"} : pc' = [pc EXCEPT ![t] = l]
    BY <1>3, BusyStep
  <2>2. pc[t] # "idle" /\ UNCHANGED <<cidLocked, cidTicket, cid>>
    BY <1>3, BusyStep
  <2> QED
    BY <2>1, <2>2 DEF CidType, CidsDistinct
<1>4. ASSUME NEW t \in Threads, PutCid(t) PROVE CidInv'
  <2>1. /\ pc[t] = "put"
        /\ cidLocked' = [cidLocked EXCEPT ![cid[t]] = FALSE]
        /\ cid' = [cid EXCEPT ![t] = 0]
        /\ pc' = [pc EXCEPT ![t] = "idle"]
        /\ cidTicket' = cidTicket
    BY <1>4 DEF PutCid, Goto
  <2>2. 0 \in Cids
    BY SizesAssumption DEF Cids
  <2>3. CidType'
    BY <2>1, <2>2 DEF CidType, Labels
  <2>4. CidsDistinct'
    BY <2>1 DEF CidType, CidsDistinct
  <2> QED
    BY <2>3, <2>4
<1>5. ASSUME Device PROVE CidInv'
  BY <1>1, <1>5 DEF Device, DevFetch, DevComplete, cidVars
<1> QED
  BY <1>1, <1>2, <1>3, <1>4, <1>5 DEF Next, Step, Enqueue, Poll, Dequeue, Busy, vars, cidVars

(* Commands of different threads never have one identifier: get_cid takes  *)
(* an identifier that is not locked, and it stays locked until put_cid.    *)
THEOREM IdentifiersDistinct == Spec => []CidsDistinct
<1>1. Init => CidInv
  BY CidInvInit
<1>2. CidInv /\ [Next]_vars => CidInv'
  BY CidInvStep
<1>3. CidInv => CidsDistinct
  BY DEF CidInv
<1> QED
  BY <1>1, <1>2, <1>3, PTL DEF Spec

-----------------------------------------------------------------------------
(***************************************************************************)
(* Remainders.  The prover knows little of a modulus that is not a number. *)
(***************************************************************************)
LEMMA ModRange ==
  ASSUME NEW S \in Nat \ {0}, NEW a \in Int
  PROVE  a % S \in 0 .. S - 1 /\ a \div S \in Int /\ a = S * (a \div S) + (a % S)
<1>1. PICK k \in Int, r \in Int : k = a \div S /\ r = a % S
  OBVIOUS
<1>2. a = S * k + r
  BY <1>1
<1>3. r \in 0 .. S - 1
  BY <1>1
<1>4. a = S * (a \div S) + (a % S)
  BY <1>1, <1>2, Zenon
<1>5. a % S \in 0 .. S - 1 /\ a \div S \in Int
  BY <1>1, <1>3, Zenon
<1> QED BY <1>4, <1>5

LEMMA ModUnique ==
  ASSUME NEW S \in Nat \ {0}, NEW k \in Int, NEW r \in 0 .. S - 1
  PROVE  (S * k + r) % S = r /\ (S * k + r) \div S = k
OBVIOUS

LEMMA ModShift ==
  ASSUME NEW S \in Nat \ {0}, NEW a \in Int
  PROVE  (a + S) % S = a % S /\ (a + S) \div S = a \div S + 1
<1>1. a % S \in 0 .. S - 1 /\ a \div S \in Int /\ a = S * (a \div S) + (a % S)
  BY ModRange
<1>2. PICK k \in Int, r \in 0 .. S - 1 : k = a \div S /\ r = a % S
  BY <1>1
<1>3. a + S = S * (k + 1) + r
  BY <1>1, <1>2
<1>4. k + 1 \in Int
  BY <1>2
<1>5. (S * (k + 1) + r) % S = r /\ (S * (k + 1) + r) \div S = k + 1
  BY <1>2, <1>4, ModUnique
<1> QED BY <1>2, <1>3, <1>5

LEMMA ModAdd ==
  ASSUME NEW S \in Nat \ {0}, NEW a \in Int, NEW b \in Int
  PROVE  ((a % S) + b) % S = (a + b) % S
<1>1. PICK k \in Int, r \in 0 .. S - 1 : a = S * k + r /\ r = a % S
  BY ModRange
<1>2. PICK l \in Int, s \in 0 .. S - 1 : r + b = S * l + s /\ s = (r + b) % S
  <2>1. r + b \in Int
    BY <1>1
  <2> QED BY <2>1, ModRange
<1>3. a + b = S * (k + l) + s
  BY <1>1, <1>2
<1>4. (S * (k + l) + s) % S = s
  <2>1. k + l \in Int
    BY <1>1, <1>2
  <2> QED BY <2>1, <1>2, ModUnique
<1> QED BY <1>1, <1>2, <1>3, <1>4

LEMMA ModEqual ==
  ASSUME NEW S \in Nat \ {0}, NEW a \in Int, NEW b \in Int, a % S = b % S, a < b
  PROVE  a + S <= b
<1>1. PICK k \in Int, r \in 0 .. S - 1 : a = S * k + r /\ r = a % S
  BY ModRange
<1>2. PICK l \in Int : b = S * l + r
  BY <1>1, ModRange
<1>3. S * k < S * l
  BY <1>1, <1>2
<1>4. k < l
  BY <1>3, <1>1, <1>2
<1>5. S * (k + 1) <= S * l
  BY <1>4, <1>1, <1>2
<1>6. S * (k + 1) = S * k + S
  BY <1>1
<1> QED BY <1>1, <1>2, <1>5, <1>6

LEMMA ModDiff ==
  ASSUME NEW S \in Nat \ {0}, NEW a \in Int, NEW x \in Int, a <= x, x < a + S
  PROVE  ((x % S) - a) % S = x - a
<1>0. PICK b \in Int : b = 0 - a
  OBVIOUS
<1>1. ((x % S) + b) % S = (x + b) % S
  BY ModAdd
<1>2. x % S \in Int
  BY ModRange
<1>3. (x % S) + b = (x % S) - a /\ x + b = x - a
  BY <1>0, <1>2
<1>4. PICK d \in 0 .. S - 1 : d = x - a
  OBVIOUS
<1>5. d % S = d
  BY <1>4
<1> QED BY <1>1, <1>3, <1>4, <1>5

LEMMA ModTwice ==
  ASSUME NEW S \in Nat \ {0}, NEW a \in Int
  PROVE  /\ (a % (2 * S)) % S = a % S
         /\ ((a % (2 * S)) \div S) % 2 = (a \div S) % 2
<1>1. PICK D \in Nat \ {0} : D = 2 * S
  OBVIOUS
<1>2. PICK k \in Int, r \in Int : a = D * k + r /\ r = a % D
  <2>1. a % D \in 0 .. D - 1 /\ a \div D \in Int /\ a = D * (a \div D) + (a % D)
    BY ModRange
  <2>2. a % D \in Int
    BY <2>1
  <2> QED BY <2>1, <2>2, Zenon
<1>3. PICK l \in Int, s \in Int : r = S * l + s /\ s = r % S /\ l = r \div S /\ s \in 0 .. S - 1
  <2>1. r \in Int
    BY <1>2
  <2>2. r % S \in 0 .. S - 1 /\ r \div S \in Int /\ r = S * (r \div S) + (r % S)
    BY <2>1, ModRange
  <2>3. r % S \in Int
    BY <2>2
  <2> QED BY <2>2, <2>3, Zenon
<1>4. PICK m \in Int : m = 2 * k + l
  BY <1>2, <1>3
<1>5. D * k = S * (2 * k)
  BY <1>1
<1>6. S * (2 * k) + S * l = S * m
  BY <1>4
<1>7. a = S * m + s
  <2>1. PICK p \in Int, p1 \in Int, p2 \in Int : p = D * k /\ p1 = S * l /\ p2 = S * m
    BY <1>1, <1>2, <1>3, <1>4
  <2>2. a = p + r /\ r = p1 + s /\ p + p1 = p2
    BY <1>2, <1>3, <1>5, <1>6, <2>1
  <2>3. a = p2 + s
    BY <2>1, <2>2, <1>2, <1>3
  <2> QED BY <2>1, <2>3
<1>8. (S * m + s) % S = s /\ (S * m + s) \div S = m
  BY <1>3, <1>4, ModUnique
<1>9. m % 2 = l % 2
  BY <1>2, <1>3, <1>4
<1>10. a % S = s /\ a \div S = m
  BY <1>7, <1>8
<1> QED BY <1>1, <1>2, <1>3, <1>9, <1>10

LEMMA RingFacts ==
  ASSUME NEW S \in Nat \ {0}
  PROVE  /\ \A x \in Nat : x % S \in 0 .. S - 1
         /\ \A x, y \in Nat : (x % S = y % S /\ x < y) => x + S <= y
         /\ \A x \in Nat : (x + S) % S = x % S
         /\ \A q \in 0 .. S - 1 : q % S = q
         /\ \A a, x \in Nat : (a <= x /\ x < a + S) => ((x % S) - a) % S = x - a
         /\ \A a \in Nat, q \in 0 .. S - 1 : \E x \in Nat : a <= x /\ x < a + S /\ x % S = q
         /\ \A x \in Nat : ((x % S) + 1) % S = (x + 1) % S
<1>0. \A x \in Nat : x \in Int
  OBVIOUS
<1>1. \A x \in Nat : x % S \in 0 .. S - 1
  BY <1>0, ModRange, Zenon
<1>2. \A x, y \in Nat : (x % S = y % S /\ x < y) => x + S <= y
  BY <1>0, ModEqual, Zenon
<1>3. \A x \in Nat : (x + S) % S = x % S
  BY <1>0, ModShift, Zenon
<1>4. \A q \in 0 .. S - 1 : q % S = q
  OBVIOUS
<1>5. \A a, x \in Nat : (a <= x /\ x < a + S) => ((x % S) - a) % S = x - a
  BY <1>0, ModDiff, Zenon
<1>6. ASSUME NEW a \in Nat, NEW q \in 0 .. S - 1
      PROVE  \E x \in Nat : a <= x /\ x < a + S /\ x % S = q
  <2>1. PICK d \in 0 .. S - 1 : d = (q - a) % S
    <3>1. q - a \in Int
      OBVIOUS
    <3> QED BY <3>1, ModRange, Zenon
  <2>2. (((q - a) % S) + a) % S = ((q - a) + a) % S
    <3>1. q - a \in Int /\ a \in Int
      OBVIOUS
    <3> QED BY <3>1, ModAdd, Zenon
  <2>3. (q - a) + a = q
    OBVIOUS
  <2>4. (d + a) % S = q
    BY <2>1, <2>2, <2>3, <1>4
  <2>5. d + a \in Nat /\ a <= d + a /\ d + a < a + S
    OBVIOUS
  <2> QED BY <2>4, <2>5
<1>7. \A x \in Nat : ((x % S) + 1) % S = (x + 1) % S
  <2>1. 1 \in Int
    OBVIOUS
  <2> QED BY <1>0, <2>1, ModAdd, Zenon
<1> QED BY <1>1, <1>2, <1>3, <1>4, <1>5, <1>6, <1>7

(* The positions of the x-th command and of the x-th completion, and the   *)
(* device's count of completions.                                          *)
SPos(x) == x % SQS
CPos(x) == x % CQS
DPos(x) == x % (2 * CQS)

LEMMA SPosFacts ==
  /\ SQS \in Nat /\ SQS > 1
  /\ \A x \in Nat : SPos(x) \in SqPos
  /\ \A x, y \in Nat : (SPos(x) = SPos(y) /\ x < y) => x + SQS <= y
  /\ \A x \in Nat : SPos(x + SQS) = SPos(x)
  /\ \A q \in SqPos : SPos(q) = q
  /\ \A a, x \in Nat : (a <= x /\ x < a + SQS) => (SPos(x) - a) % SQS = x - a
  /\ \A a \in Nat, q \in SqPos : \E x \in Nat : a <= x /\ x < a + SQS /\ SPos(x) = q
  /\ \A x \in Nat : (SPos(x) + 1) % SQS = SPos(x + 1)
<1>1. SQS \in Nat \ {0} /\ SQS > 1
  BY SizesAssumption
<1> QED BY <1>1, RingFacts DEF SPos, SqPos

LEMMA CPosFacts ==
  /\ CQS \in Nat /\ CQS > 1
  /\ \A x \in Nat : CPos(x) \in CqPos
  /\ \A x, y \in Nat : (CPos(x) = CPos(y) /\ x < y) => x + CQS <= y
  /\ \A x \in Nat : CPos(x + CQS) = CPos(x)
  /\ \A q \in CqPos : CPos(q) = q
  /\ \A a, x \in Nat : (a <= x /\ x < a + CQS) => (CPos(x) - a) % CQS = x - a
  /\ \A a \in Nat, q \in CqPos : \E x \in Nat : a <= x /\ x < a + CQS /\ CPos(x) = q
  /\ \A x \in Nat : (CPos(x) + 1) % CQS = CPos(x + 1)
<1>1. CQS \in Nat \ {0} /\ CQS > 1
  BY SizesAssumption
<1> QED BY <1>1, RingFacts DEF CPos, CqPos

(* The device counts to 2 * CQS, which keeps the position and the phase.   *)
LEMMA PhaseFacts ==
  ASSUME NEW x \in Nat
  PROVE  /\ SearchPhase(x) \in {0, 1}
         /\ SearchPhase(x + CQS) = 1 - SearchPhase(x)
         /\ SearchPhase(DPos(x)) = SearchPhase(x)
         /\ DPos(x) % CQS = CPos(x)
         /\ (DPos(x) + 1) % (2 * CQS) = DPos(x + 1)
         /\ (DPos(x) + 1) % CQS = CPos(x + 1)
<1>1. CQS \in Nat \ {0} /\ x \in Int
  BY SizesAssumption
<1>2. PICK k \in Int : k = x \div CQS
  BY <1>1, ModRange
<1>3. (x + CQS) \div CQS = k + 1
  BY <1>1, <1>2, ModShift
<1>4. k % 2 \in {0, 1} /\ (k + 1) % 2 = 1 - (k % 2)
  BY <1>2
<1>5. PICK D \in Nat \ {0} : D = 2 * CQS
  BY <1>1
<1>6. PICK r \in Nat : r = x % D
  <2>1. x % D \in 0 .. D - 1
    BY <1>1, ModRange
  <2> QED BY <2>1
<1>7. r % CQS = x % CQS /\ (r \div CQS) % 2 = k % 2
  BY <1>1, <1>2, <1>5, <1>6, ModTwice
<1>8. (r + 1) % D = (x + 1) % D
  <2>1. 1 \in Int
    OBVIOUS
  <2> QED BY <1>1, <2>1, <1>5, <1>6, ModAdd, Zenon
<1>9. (r + 1) % CQS = (x + 1) % CQS
  <2>1. ((r % CQS) + 1) % CQS = (r + 1) % CQS /\ ((x % CQS) + 1) % CQS = (x + 1) % CQS
    <3>1. 1 \in Int /\ r \in Int
      OBVIOUS
    <3> QED BY <1>1, <3>1, ModAdd, Zenon
  <2> QED BY <2>1, <1>7
<1>10. SearchPhase(x) \in {0, 1} /\ SearchPhase(x + CQS) = 1 - SearchPhase(x)
  BY <1>2, <1>3, <1>4 DEF SearchPhase
<1>11. SearchPhase(r) = SearchPhase(x)
  BY <1>2, <1>7 DEF SearchPhase
<1> QED BY <1>5, <1>6, <1>7, <1>8, <1>9, <1>10, <1>11 DEF CPos, DPos

LEMMA IdFacts ==
  ASSUME NEW x \in Nat
  PROVE  /\ GetId(x) \in Nat /\ GetId(x) <= x /\ GetId(x + SQS) = GetId(x) + 2
         /\ \A y \in Nat : (y <= x /\ SPos(x) = SPos(y)) =>
               /\ GetId(y) <= GetId(x) /\ GetId(y) + 1 # GetId(x)
               /\ GetId(y) = GetId(x) => y = x
<1>1. SQS \in Nat \ {0} /\ SQS > 1 /\ x \in Int
  BY SizesAssumption
<1>2. PICK k \in Int, r \in Int : k = x \div SQS /\ r = x % SQS /\ x = SQS * k + r /\ 0 <= r /\ r < SQS
  <2>1. x \div SQS \in Int /\ x % SQS \in 0 .. SQS - 1 /\ x = SQS * (x \div SQS) + (x % SQS)
    BY <1>1, ModRange
  <2>2. x % SQS \in Int /\ 0 <= x % SQS /\ x % SQS < SQS
    BY <2>1, <1>1
  <2> QED BY <2>1, <2>2, Zenon
<1>3. (x + SQS) \div SQS = k + 1
  BY <1>1, <1>2, ModShift
<1>4. k >= 0
  BY <1>1, <1>2
<1>5. 2 * k <= SQS * k
  BY <1>1, <1>2, <1>4
<1>6. 2 * k <= x
  <2>1. PICK p \in Int : p = SQS * k
    BY <1>1, <1>2
  <2> QED BY <2>1, <1>2, <1>5
<1>7. ASSUME NEW y \in Nat, y <= x, SPos(x) = SPos(y)
      PROVE  /\ GetId(y) <= GetId(x) /\ GetId(y) + 1 # GetId(x)
             /\ GetId(y) = GetId(x) => y = x
  <2>1. PICK l \in Int : l = y \div SQS /\ y = SQS * l + r
    <3>1. y \div SQS \in Int /\ y = SQS * (y \div SQS) + (y % SQS)
      BY <1>1, ModRange
    <3>2. y % SQS = r
      BY <1>7, <1>2 DEF SPos
    <3> QED BY <3>1, <3>2
  <2>2. l <= k
    BY <1>1, <1>2, <1>7, <2>1
  <2>3. GetId(y) = 2 * l /\ GetId(x) = 2 * k
    BY <1>2, <2>1 DEF GetId
  <2>4. l = k => y = x
    BY <1>2, <2>1
  <2> QED BY <2>2, <2>3, <2>4
<1>8. GetId(x) = 2 * k /\ GetId(x + SQS) = 2 * (k + 1)
  BY <1>2, <1>3 DEF GetId
<1> QED BY <1>4, <1>6, <1>7, <1>8

-----------------------------------------------------------------------------
(***************************************************************************)
(* The inductive invariant.  The rings forget which round they are in; the *)
(* invariant numbers commands and completions without end instead.  Its    *)
(* parameters are what a history variable would hold:                      *)
(*   TL        commands whose mark move_tail has cleared                   *)
(*   F         commands that move_head_cq has given free                   *)
(*   DH, DT    commands the device has fetched, completions it has posted  *)
(*   MH, SH    completions whose mark move_head_cq has cleared, and those  *)
(*             the doorbell shows                                          *)
(*   cur, enq  for each position of the submission ring the command that   *)
(*             may use it, and whether its sq_enqueue has returned         *)
(*   own, at   for each completion its thread, and DH when it was posted   *)
(* The counters are taken to be below Word (section "Wrapping").           *)
(***************************************************************************)
Types ==
  /\ inTicket \in Nat /\ inTicket < Word
  /\ tail \in Nat /\ sqHead \in Nat /\ head \in Nat
  /\ tickets \in [SqPos -> Nat]
  /\ sqe \in [SqPos -> [cid : Cids, by : Threads \cup {None}]]
  /\ tailMark \in [SqPos -> BOOLEAN] /\ headMark \in [CqPos -> BOOLEAN]
  /\ tailLock \in BOOLEAN /\ headLock \in BOOLEAN
  /\ cqe \in [CqPos -> [cid : Cids, phase : {0, 1}, sqhd : Nat]]
  /\ ticket \in [Threads -> Nat] /\ moved \in [Threads -> Nat]
  /\ hd \in [Threads -> Nat] /\ idx \in [Threads -> Nat] /\ loc \in [Threads -> Nat]
  /\ issued \in [Threads -> Nat] /\ executed \in [Threads -> Nat] /\ returned \in [Threads -> Nat]

Ticketed(t) == pc[t] \notin {"idle", "ticket"}
Written(t)  == pc[t] \notin {"idle", "ticket", "slot"}
Executed(t) == executed[t] = issued[t]
Command(t)  == [cid |-> cid[t], by |-> t]

(* A thread has at most one command under way, and is past cq_poll only    *)
(* when it has been executed.                                              *)
HistInv ==
  \A t \in Threads :
    /\ ~Ticketed(t) => returned[t] = issued[t] /\ Executed(t)
    /\ Ticketed(t) => returned[t] + 1 = issued[t] /\ executed[t] \in {returned[t], issued[t]}
    /\ pc[t] \in {"lock", "head", "free", "store", "put"} => Executed(t)

(* The pointers of the submission ring are in order, less than a round     *)
(* apart, and one thread at a time moves the tail.                         *)
RingInv(TL, F, DH) ==
  /\ sqHead <= F /\ F <= DH /\ DH <= tail /\ tail <= TL /\ TL <= inTicket
  /\ TL < sqHead + SQS
  /\ sqDb = SPos(tail) /\ devHead = SPos(DH)
  /\ ~tailLock => TL = tail
  /\ \A t \in Threads : pc[t] = "ring" =>
       /\ tailLock /\ TL = tail + moved[t]
       /\ \A u \in Threads : pc[u] = "ring" => u = t

(* Tickets are distinct; the tail goes over written commands only; every   *)
(* command that is not fetched has its thread.                             *)
TicketInv(TL, DH) ==
  /\ \A t \in Threads : Ticketed(t) =>
       /\ ticket[t] < inTicket
       /\ \A u \in Threads : Ticketed(u) /\ ticket[u] = ticket[t] => u = t
  /\ \A t \in Threads : pc[t] = "slot" => TL <= ticket[t]
  /\ \A x \in Nat : DH <= x /\ x < inTicket => \E t \in Threads : Ticketed(t) /\ ticket[t] = x

(* The ticket counter of a position tells whose turn it is: the user that  *)
(* is not both enqueued and given free.                                    *)
PosInv(TL, F, cur, enq) ==
  \A q \in SqPos :
    /\ SPos(cur[q]) = q /\ cur[q] < F + SQS /\ TL <= cur[q] + SQS
    /\ tickets[q] = (GetId(cur[q]) + (IF cur[q] < F \/ enq[q] THEN 1 ELSE 0)) % Word
    /\ ~(cur[q] < F /\ enq[q])
    /\ tailMark[q] => TL <= cur[q] /\ cur[q] < inTicket

(* The users of a position take turns.                                     *)
TurnInv(cur, enq) ==
  \A t \in Threads :
    /\ pc[t] = "slot" => cur[SPos(ticket[t])] <= ticket[t]
    /\ pc[t] \in {"tail", "ring"} => cur[SPos(ticket[t])] = ticket[t] /\ ~enq[SPos(ticket[t])]
    /\ Written(t) => ticket[t] <= cur[SPos(ticket[t])]
    /\ pc[t] = "slot" /\ ticket[t] = cur[SPos(ticket[t])] => ~tailMark[SPos(ticket[t])]

(* What the device has fetched and not completed are the commands with a   *)
(* ticket below DH that are not executed; the others are in the ring.      *)
FetchInv(DH, DT) ==
  /\ \A t \in Threads : Written(t) /\ DH <= ticket[t] => sqe[SPos(ticket[t])] = Command(t)
  /\ \A t \in Threads : Ticketed(t) /\ DH <= ticket[t] => ~Executed(t)
  /\ \A t \in Threads : Ticketed(t) /\ ticket[t] < DH /\ ~Executed(t) => Command(t) \in fetched
  /\ \A c \in fetched : \E t \in Threads :
       c = Command(t) /\ Ticketed(t) /\ ~Executed(t) /\ ticket[t] < DH
  /\ IsFiniteSet(fetched) /\ DT + Cardinality(fetched) = DH

(* The pointers of the completion ring, and the thread that moves the head.*)
HeadInv(F, MH, SH, DT) ==
  /\ head <= SH /\ SH <= MH /\ MH <= DT /\ DT < SH + CQS /\ MH < head + CQS
  /\ cqDb = CPos(SH) /\ devTail = DPos(DT)
  /\ ~headLock => head = MH /\ sqHead = F
  /\ \A t \in Threads : pc[t] \in {"free", "store"} =>
       /\ headLock /\ MH = head + moved[t]
       /\ \A u \in Threads : pc[u] \in {"free", "store"} => u = t
       /\ pc[t] = "free" => SH = head /\ moved[t] > 0 /\ cqe[CPos(MH - 1)].sqhd = SPos(F)
       /\ pc[t] = "store" => SH = MH /\ sqHead = F
  /\ \A j \in Nat : MH <= j /\ j < MH + CQS /\ headMark[CPos(j)] => j < DT

(* The phase of an entry tells its round; its sqhd grows with the entries. *)
EntryInv(F, DH, MH, DT, at) ==
  /\ \A j \in Nat : DT <= j /\ j < DT + CQS => cqe[CPos(j)].phase # SearchPhase(j)
  /\ \A j \in Nat : MH <= j /\ j < DT => cqe[CPos(j)].sqhd = SPos(at[j]) /\ F <= at[j] /\ at[j] <= DH
  /\ \A j, k \in Nat : MH <= j /\ j <= k /\ k < DT => at[j] <= at[k]

(* Entries that the head has not passed and the device not overwritten.    *)
Live(DT, j) == head <= j /\ j < DT /\ DT <= j + CQS

(* Each such entry belongs to one thread, which keeps its identifier until *)
(* the head has passed, and marks only this entry.                         *)
OwnInv(MH, DT, own) ==
  /\ \A j \in Nat : Live(DT, j) =>
       /\ own[j] \in Threads /\ Ticketed(own[j]) /\ pc[own[j]] # "put" /\ Executed(own[j])
       /\ cqe[CPos(j)].cid = cid[own[j]]
       /\ pc[own[j]] \in {"head", "free", "store"} \/ (MH <= j /\ ~headMark[CPos(j)])
       /\ pc[own[j]] \in {"lock", "head", "free", "store"} => loc[own[j]] = j
  /\ \A j, k \in Nat : Live(DT, j) /\ Live(DT, k) /\ own[j] = own[k] => j = k
  /\ \A t \in Threads :
       Ticketed(t) /\ Executed(t) /\ pc[t] \notin {"head", "free", "store", "put"} =>
         \E j \in Nat : Live(DT, j) /\ own[j] = t

(* Heads that were read are not ahead, and a scan stops at the last entry. *)
PollInv(DT) ==
  \A t \in Threads :
    /\ pc[t] \in {"scan", "lock", "head", "free", "store"} => hd[t] <= head
    /\ pc[t] = "scan" => hd[t] + idx[t] <= DT /\ idx[t] + 1 < CQS

QueueInv(TL, F, DH, MH, SH, DT, cur, enq, own, at) ==
  /\ Types /\ HistInv
  /\ RingInv(TL, F, DH) /\ TicketInv(TL, DH) /\ PosInv(TL, F, cur, enq) /\ TurnInv(cur, enq)
  /\ FetchInv(DH, DT)
  /\ HeadInv(F, MH, SH, DT) /\ EntryInv(F, DH, MH, DT, at) /\ OwnInv(MH, DT, own) /\ PollInv(DT)

SomeQueueInv ==
  \E TL, F, DH, MH, SH, DT \in Nat, cur \in [SqPos -> Nat], enq \in [SqPos -> BOOLEAN],
     own \in [Nat -> Threads \cup {None}], at \in [Nat -> Nat] :
       QueueInv(TL, F, DH, MH, SH, DT, cur, enq, own, at)

LEMMA QueueInvInit == ASSUME Init PROVE SomeQueueInv
<1> USE DEF Init
<1>0. Word \in Nat /\ Word > 0 /\ NCids \in Nat /\ NCids > 0
  BY SizesAssumption
<1> DEFINE cur0 == [q \in SqPos |-> q]
           enq0 == [q \in SqPos |-> FALSE]
           own0 == [j \in Nat |-> None]
           at0  == [j \in Nat |-> 0]
<1>1. cur0 \in [SqPos -> Nat] /\ enq0 \in [SqPos -> BOOLEAN] /\ own0 \in [Nat -> Threads \cup {None}]
      /\ at0 \in [Nat -> Nat]
  BY SPosFacts DEF SqPos
<1>2. Types
  <2>1. 0 \in Cids
    BY <1>0 DEF Cids
  <2>2. sqe \in [SqPos -> [cid : Cids, by : Threads \cup {None}]]
    BY <2>1
  <2>3. cqe \in [CqPos -> [cid : Cids, phase : {0, 1}, sqhd : Nat]]
    BY <2>1
  <2> QED BY <1>0, <2>2, <2>3 DEF Types
<1>3. HistInv
  BY DEF HistInv, Ticketed, Executed
<1>4. RingInv(0, 0, 0)
  <2>1. SPos(0) = 0 /\ SQS \in Nat /\ SQS > 1
    BY SPosFacts DEF SqPos
  <2>2. \A t \in Threads : pc[t] # "ring"
    OBVIOUS
  <2>3. sqHead = 0 /\ tail = 0 /\ inTicket = 0 /\ sqDb = 0 /\ devHead = 0
    OBVIOUS
  <2> QED BY <2>1, <2>2, <2>3 DEF RingInv
<1>5. TicketInv(0, 0)
  BY DEF TicketInv, Ticketed
<1>6. PosInv(0, 0, cur0, enq0)
  <2> SUFFICES ASSUME NEW q \in SqPos
               PROVE  /\ SPos(q) = q /\ q < 0 + SQS /\ 0 <= q + SQS
                      /\ 0 = (GetId(q) + 0) % Word /\ ~(q < 0)
    BY DEF PosInv
  <2>1. q \in Nat /\ q < SQS /\ SQS \in Nat /\ SQS > 1
    BY SPosFacts DEF SqPos
  <2>2. q \div SQS = 0
    BY <2>1
  <2>3. GetId(q) = 0
    BY <2>2 DEF GetId
  <2> QED BY <2>1, <2>3, SPosFacts, <1>0
<1>7. TurnInv(cur0, enq0)
  BY DEF TurnInv, Written
<1>8. FetchInv(0, 0)
  BY FS_EmptySet DEF FetchInv, Ticketed, Written
<1>9. HeadInv(0, 0, 0, 0)
  <2>1. CPos(0) = 0 /\ CQS > 1 /\ CQS \in Nat
    BY CPosFacts DEF CqPos
  <2>5. DPos(0) = 0
    BY <2>1 DEF DPos
  <2>2. \A j \in Nat : ~headMark[CPos(j)]
    BY CPosFacts
  <2>3. \A t \in Threads : pc[t] \notin {"free", "store"}
    OBVIOUS
  <2>4. head = 0 /\ sqHead = 0 /\ cqDb = 0 /\ devTail = 0
    OBVIOUS
  <2> HIDE DEF Init
  <2> QED BY <2>1, <2>2, <2>3, <2>4, <2>5 DEF HeadInv
<1>10. EntryInv(0, 0, 0, 0, at0)
  <2> SUFFICES \A j \in Nat : j < CQS => SearchPhase(j) # 0 /\ cqe[CPos(j)].phase = 0
    BY CPosFacts DEF EntryInv
  <2> SUFFICES ASSUME NEW j \in Nat, j < CQS PROVE SearchPhase(j) # 0 /\ cqe[CPos(j)].phase = 0
    OBVIOUS
  <2>1. CQS \in Nat /\ CQS > 1 /\ CPos(j) \in CqPos
    BY CPosFacts
  <2>2. j \div CQS = 0
    BY <2>1
  <2> QED BY <2>1, <2>2 DEF SearchPhase
<1>11. OwnInv(0, 0, own0)
  BY DEF OwnInv, Live, Ticketed
<1>12. PollInv(0)
  BY DEF PollInv
<1>13. QueueInv(0, 0, 0, 0, 0, 0, cur0, enq0, own0, at0)
  BY <1>2, <1>3, <1>4, <1>5, <1>6, <1>7, <1>8, <1>9, <1>10, <1>11, <1>12 DEF QueueInv
<1> HIDE DEF cur0, enq0, own0, at0
<1> QED BY <1>1, <1>13 DEF SomeQueueInv

(***************************************************************************)
(* Steps of the submission side leave the completion side alone.           *)
(***************************************************************************)
LEMMA CqFrame ==
  ASSUME NEW F \in Nat, NEW DH \in Nat, NEW MH \in Nat, NEW SH \in Nat, NEW DT \in Nat,
         NEW at \in [Nat -> Nat], NEW t \in Threads,
         HeadInv(F, MH, SH, DT), EntryInv(F, DH, MH, DT, at), PollInv(DT),
         UNCHANGED <<cqe, headMark, headLock, head, cqDb, devTail, sqHead>>,
         \A u \in Threads : u # t =>
           pc'[u] = pc[u] /\ moved'[u] = moved[u] /\ hd'[u] = hd[u] /\ idx'[u] = idx[u],
         pc'[t] \notin {"scan", "lock", "head", "free", "store"}
  PROVE  HeadInv(F, MH, SH, DT)' /\ EntryInv(F, DH, MH, DT, at)' /\ PollInv(DT)'
<1>1. HeadInv(F, MH, SH, DT)'
  BY DEF HeadInv
<1>2. EntryInv(F, DH, MH, DT, at)'
  BY DEF EntryInv
<1>3. PollInv(DT)'
  BY DEF PollInv
<1> QED BY <1>1, <1>2, <1>3

LEMMA OwnFrame ==
  ASSUME NEW MH \in Nat, NEW DT \in Nat, NEW own \in [Nat -> Threads \cup {None}], NEW t \in Threads,
         OwnInv(MH, DT, own), UNCHANGED <<cqe, headMark, head, loc>>,
         \A u \in Threads : u # t =>
           pc'[u] = pc[u] /\ cid'[u] = cid[u] /\ executed'[u] = executed[u] /\ issued'[u] = issued[u],
         pc[t] \in {"idle", "ticket", "slot", "tail", "ring"},
         pc'[t] \in {"idle", "ticket", "slot", "tail", "ring", "poll"},
         \/ ~Ticketed(t) /\ ~(Ticketed(t) /\ Executed(t))'
         \/ Ticketed(t) /\ Ticketed(t)' /\ cid'[t] = cid[t] /\ executed'[t] = executed[t] /\ issued'[t] = issued[t]
  PROVE  OwnInv(MH, DT, own)'
<1> USE DEF Live, Ticketed, Executed
<1>1. \A j \in Nat : Live(DT, j)' <=> Live(DT, j)
  OBVIOUS
<1>2. \A j \in Nat : Live(DT, j) => own[j] \in Threads
  BY DEF OwnInv
<1>3. ASSUME NEW j \in Nat, Live(DT, j)
      PROVE  /\ Ticketed(own[j])' /\ pc'[own[j]] # "put" /\ Executed(own[j])'
             /\ cqe[CPos(j)].cid = cid'[own[j]]
             /\ pc'[own[j]] \in {"head", "free", "store"} \/ (MH <= j /\ ~headMark[CPos(j)])
             /\ pc'[own[j]] \in {"lock", "head", "free", "store"} => loc[own[j]] = j
  <2>1. /\ Ticketed(own[j]) /\ pc[own[j]] # "put" /\ Executed(own[j])
        /\ cqe[CPos(j)].cid = cid[own[j]]
        /\ pc[own[j]] \in {"head", "free", "store"} \/ (MH <= j /\ ~headMark[CPos(j)])
        /\ pc[own[j]] \in {"lock", "head", "free", "store"} => loc[own[j]] = j
    BY <1>3 DEF OwnInv
  <2>2. CASE own[j] = t
    <3>1. Ticketed(t) /\ Executed(t) /\ pc[t] \in {"slot", "tail", "ring"}
      BY <2>1, <2>2
    <3>2. cid'[t] = cid[t] /\ executed'[t] = executed[t] /\ issued'[t] = issued[t]
      BY <3>1
    <3>3. pc'[t] \in {"slot", "tail", "ring", "poll"}
      BY <3>1
    <3> QED BY <2>1, <2>2, <3>1, <3>2, <3>3
  <2>3. CASE own[j] # t
    BY <1>2, <1>3, <2>1, <2>3
  <2> QED BY <2>2, <2>3
<1>4. ASSUME NEW u \in Threads, Ticketed(u)', Executed(u)', pc'[u] \notin {"head", "free", "store", "put"}
      PROVE  \E j \in Nat : Live(DT, j) /\ own[j] = u
  <2>1. Ticketed(u) /\ Executed(u) /\ pc[u] \notin {"head", "free", "store", "put"}
    <3>1. CASE u = t
      BY <1>4, <3>1
    <3>2. CASE u # t
      <4>1. pc'[u] = pc[u] /\ executed'[u] = executed[u] /\ issued'[u] = issued[u]
        BY <3>2
      <4> QED BY <1>4, <4>1
    <3> QED BY <3>1, <3>2
  <2> QED BY <2>1 DEF OwnInv
<1>5. \A j, k \in Nat : Live(DT, j) /\ Live(DT, k) /\ own[j] = own[k] => j = k
  BY DEF OwnInv
<1> QED BY <1>1, <1>2, <1>3, <1>4, <1>5 DEF OwnInv

LEMMA GetCidStep ==
  ASSUME NEW TL \in Nat, NEW F \in Nat, NEW DH \in Nat, NEW MH \in Nat, NEW SH \in Nat, NEW DT \in Nat,
         NEW cur \in [SqPos -> Nat], NEW enq \in [SqPos -> BOOLEAN],
         NEW own \in [Nat -> Threads \cup {None}], NEW at \in [Nat -> Nat],
         CidInv, QueueInv(TL, F, DH, MH, SH, DT, cur, enq, own, at),
         NEW t \in Threads, GetCid(t)
  PROVE  QueueInv(TL, F, DH, MH, SH, DT, cur, enq, own, at)'
<1>1. /\ pc[t] = "idle" /\ pc'[t] \in {"idle", "ticket"}
      /\ \A u \in Threads : u # t => pc'[u] = pc[u] /\ cid'[u] = cid[u]
      /\ UNCHANGED <<sqVars, cqVars, devVars, ticket, pollVars, moved, histVars, lapped>>
  BY DEF GetCid, Goto, CidInv, CidType
<1>2. UNCHANGED <<inTicket, tickets, sqe, tailMark, tailLock, tail, sqHead, sqDb>>
  BY <1>1 DEF sqVars
<1>3. UNCHANGED <<cqe, headMark, headLock, head, posLock, cqDb, devHead, devTail, fetched>>
  BY <1>1 DEF cqVars, devVars
<1>4. UNCHANGED <<ticket, hd, idx, loc, moved, issued, executed, returned>>
  BY <1>1 DEF pollVars, histVars
<1>5. \A u \in Threads : /\ Ticketed(u)' <=> Ticketed(u)
                         /\ Written(u)' <=> Written(u)
                         /\ Executed(u)' <=> Executed(u)
                         /\ Ticketed(u) => pc'[u] = pc[u] /\ Command(u)' = Command(u)
                         /\ Written(u) => Ticketed(u)
  BY <1>1, <1>4 DEF Ticketed, Written, Executed, Command
<1>6. \A u \in Threads : \A l \in Labels \ {"idle", "ticket"} : pc'[u] = l <=> pc[u] = l
  BY <1>1 DEF Labels
<1>7. Types'
  BY <1>2, <1>3, <1>4 DEF QueueInv, Types
<1>8. HistInv'
  BY <1>1, <1>4 DEF QueueInv, HistInv, Ticketed, Executed
<1>9. RingInv(TL, F, DH)'
  BY <1>1, <1>2, <1>3, <1>4 DEF QueueInv, RingInv
<1>10. TicketInv(TL, DH)'
  BY <1>1, <1>2, <1>4, <1>5 DEF QueueInv, TicketInv
<1>11. PosInv(TL, F, cur, enq)'
  BY <1>2 DEF QueueInv, PosInv
<1>12. TurnInv(cur, enq)'
  BY <1>1, <1>2, <1>4, <1>5 DEF QueueInv, TurnInv
<1>13. FetchInv(DH, DT)'
  BY <1>2, <1>3, <1>4, <1>5 DEF QueueInv, FetchInv
<1>14. HeadInv(F, MH, SH, DT)' /\ EntryInv(F, DH, MH, DT, at)' /\ PollInv(DT)'
  BY <1>1, <1>2, <1>3, <1>4, CqFrame DEF QueueInv
<1>15. OwnInv(MH, DT, own)'
  BY <1>1, <1>3, <1>4, <1>5, OwnFrame DEF QueueInv, Ticketed
<1> QED BY <1>7, <1>8, <1>9, <1>10, <1>11, <1>12, <1>13, <1>14, <1>15 DEF QueueInv

LEMMA TakeTicketStep ==
  ASSUME NEW TL \in Nat, NEW F \in Nat, NEW DH \in Nat, NEW MH \in Nat, NEW SH \in Nat, NEW DT \in Nat,
         NEW cur \in [SqPos -> Nat], NEW enq \in [SqPos -> BOOLEAN],
         NEW own \in [Nat -> Threads \cup {None}], NEW at \in [Nat -> Nat],
         CidInv, QueueInv(TL, F, DH, MH, SH, DT, cur, enq, own, at),
         NEW t \in Threads, TakeTicket(t), inTicket + 1 < Word
  PROVE  QueueInv(TL, F, DH, MH, SH, DT, cur, enq, own, at)'
<1>0. Types /\ inTicket \in Nat /\ inTicket < Word
  BY DEF QueueInv, Types
<1>1. /\ pc[t] = "ticket" /\ pc'[t] = "slot"
      /\ \A u \in Threads : u # t => pc'[u] = pc[u]
      /\ UNCHANGED <<cidVars, tickets, sqe, tailMark, tailLock, tail, sqHead, sqDb, cqVars, devVars, cid,
                     pollVars, moved, executed, returned, lapped>>
      /\ ticket' = [ticket EXCEPT ![t] = inTicket] /\ issued' = [issued EXCEPT ![t] = @ + 1]
      /\ inTicket' = Add(inTicket, 1)
  BY DEF TakeTicket, NextTicket, Goto, CidInv, CidType
<1>2. inTicket' = inTicket + 1
  BY <1>0, <1>1, SizesAssumption DEF Add
<1>3. UNCHANGED <<cqe, headMark, headLock, head, posLock, cqDb, devHead, devTail, fetched>>
  BY <1>1 DEF cqVars, devVars
<1>4. UNCHANGED <<tickets, sqe, tailMark, tailLock, tail, sqHead, sqDb, hd, idx, loc, moved, executed, returned, cid>>
  BY <1>1 DEF pollVars
<1>5. \A u \in Threads : /\ ticket'[u] = (IF u = t THEN inTicket ELSE ticket[u])
                         /\ issued'[u] = (IF u = t THEN issued[u] + 1 ELSE issued[u])
  BY <1>0, <1>1 DEF Types
<1>6. \A u \in Threads : u # t => /\ Ticketed(u)' <=> Ticketed(u)
                                  /\ Written(u)' <=> Written(u)
                                  /\ Executed(u)' <=> Executed(u)
                                  /\ Command(u)' = Command(u)
                                  /\ Written(u) => Ticketed(u)
  BY <1>1, <1>4, <1>5 DEF Ticketed, Written, Executed, Command
<1>7. ~Ticketed(t) /\ ~Written(t) /\ Executed(t) /\ Ticketed(t)' /\ ~Written(t)' /\ ~Executed(t)'
  <2>1. ~Ticketed(t) /\ ~Written(t) /\ Ticketed(t)' /\ ~Written(t)'
    BY <1>1 DEF Ticketed, Written
  <2>2. executed[t] = issued[t] /\ executed[t] \in Nat
    BY <1>0, <2>1 DEF QueueInv, HistInv, Executed, Types
  <2> QED BY <2>1, <2>2, <1>4, <1>5 DEF Executed
<1>8. Types'
  BY <1>0, <1>1, <1>2, <1>3, <1>4, SizesAssumption DEF Types
<1>9. HistInv'
  <2> SUFFICES ASSUME NEW u \in Threads
               PROVE  /\ ~Ticketed(u)' => returned'[u] = issued'[u] /\ Executed(u)'
                      /\ Ticketed(u)' => returned'[u] + 1 = issued'[u] /\ executed'[u] \in {returned'[u], issued'[u]}
                      /\ pc'[u] \in {"lock", "head", "free", "store", "put"} => Executed(u)'
    BY DEF HistInv
  <2>1. CASE u = t
    BY <2>1, <1>1, <1>4, <1>5, <1>7 DEF QueueInv, HistInv, Executed
  <2>2. CASE u # t
    BY <2>2, <1>1, <1>4, <1>5, <1>6 DEF QueueInv, HistInv
  <2> QED BY <2>1, <2>2
<1>10. RingInv(TL, F, DH)'
  BY <1>0, <1>1, <1>2, <1>3, <1>4 DEF QueueInv, RingInv
<1>11. TL <= inTicket /\ DH <= inTicket /\ F <= inTicket
  BY <1>0 DEF QueueInv, RingInv, Types
<1>12. \A u \in Threads : Ticketed(u) => ticket[u] \in Nat /\ ticket[u] < inTicket
  BY <1>0 DEF QueueInv, TicketInv, Types
<1>13. TicketInv(TL, DH)'
  <2>1. \A u \in Threads : Ticketed(u)' =>
          /\ ticket'[u] < inTicket'
          /\ \A v \in Threads : Ticketed(v)' /\ ticket'[v] = ticket'[u] => v = u
    BY <1>0, <1>2, <1>5, <1>6, <1>12 DEF QueueInv, TicketInv
  <2>2. \A u \in Threads : pc'[u] = "slot" => TL <= ticket'[u]
    BY <1>1, <1>5, <1>11 DEF QueueInv, TicketInv
  <2>3. ASSUME NEW x \in Nat, DH <= x, x < inTicket'
        PROVE  \E u \in Threads : Ticketed(u)' /\ ticket'[u] = x
    <3>1. CASE x = inTicket
      BY <3>1, <1>5, <1>7
    <3>2. CASE x < inTicket
      <4>1. PICK u \in Threads : Ticketed(u) /\ ticket[u] = x
        BY <2>3, <3>2 DEF QueueInv, TicketInv
      <4> QED BY <4>1, <1>5, <1>6, <1>7
    <3> QED BY <3>1, <3>2, <2>3, <1>0, <1>2
  <2> QED BY <2>1, <2>2, <2>3 DEF TicketInv
<1>14. PosInv(TL, F, cur, enq)'
  BY <1>0, <1>2, <1>4 DEF QueueInv, PosInv
<1>15. TurnInv(cur, enq)'
  <2>1. SPos(inTicket) \in SqPos
    BY <1>0, SPosFacts
  <2>2. PICK q \in SqPos : q = SPos(inTicket)
    BY <2>1
  <2>3. SPos(cur[q]) = q /\ cur[q] < F + SQS /\ (tailMark[q] => cur[q] < inTicket) /\ cur[q] \in Nat
    BY DEF QueueInv, PosInv
  <2>4. cur[q] <= inTicket
    BY <2>2, <2>3, <1>0, <1>11, SPosFacts
  <2>5. inTicket = cur[q] => ~tailMark[q]
    BY <2>3, <1>0
  <2> SUFFICES ASSUME NEW u \in Threads
               PROVE  /\ pc'[u] = "slot" => cur[SPos(ticket'[u])] <= ticket'[u]
                      /\ pc'[u] \in {"tail", "ring"} =>
                           cur[SPos(ticket'[u])] = ticket'[u] /\ ~enq[SPos(ticket'[u])]
                      /\ Written(u)' => ticket'[u] <= cur[SPos(ticket'[u])]
                      /\ pc'[u] = "slot" /\ ticket'[u] = cur[SPos(ticket'[u])] =>
                           ~tailMark[SPos(ticket'[u])]
    BY <1>4 DEF TurnInv
  <2>6. CASE u = t
    BY <2>2, <2>4, <2>5, <2>6, <1>1, <1>5, <1>7
  <2>7. CASE u # t
    BY <2>7, <1>1, <1>5, <1>6 DEF QueueInv, TurnInv
  <2> QED BY <2>6, <2>7
<1>16. FetchInv(DH, DT)'
  <2>1. \A u \in Threads : Written(u)' /\ DH <= ticket'[u] => sqe'[SPos(ticket'[u])] = Command(u)'
    BY <1>4, <1>5, <1>6, <1>7 DEF QueueInv, FetchInv
  <2>2. \A u \in Threads : Ticketed(u)' /\ DH <= ticket'[u] => ~Executed(u)'
    BY <1>5, <1>6, <1>7 DEF QueueInv, FetchInv
  <2>3. \A u \in Threads : Ticketed(u)' /\ ticket'[u] < DH /\ ~Executed(u)' => Command(u)' \in fetched'
    BY <1>0, <1>3, <1>5, <1>6, <1>11 DEF QueueInv, FetchInv
  <2>4. \A c \in fetched : \E u \in Threads :
          c = Command(u)' /\ Ticketed(u)' /\ ~Executed(u)' /\ ticket'[u] < DH
    BY <1>5, <1>6, <1>7 DEF QueueInv, FetchInv
  <2> QED BY <2>1, <2>2, <2>3, <2>4, <1>3 DEF QueueInv, FetchInv
<1>17. HeadInv(F, MH, SH, DT)' /\ EntryInv(F, DH, MH, DT, at)' /\ PollInv(DT)'
  BY <1>1, <1>3, <1>4, CqFrame DEF QueueInv
<1>18. OwnInv(MH, DT, own)'
  BY <1>1, <1>3, <1>4, <1>5, <1>7, OwnFrame DEF QueueInv
<1> QED BY <1>8, <1>9, <1>10, <1>13, <1>14, <1>15, <1>16, <1>17, <1>18 DEF QueueInv

(* The position is free only for the command whose turn it is.             *)
LEMMA TurnFacts ==
  ASSUME NEW TL \in Nat, NEW F \in Nat, NEW DH \in Nat, NEW MH \in Nat, NEW SH \in Nat, NEW DT \in Nat,
         NEW cur \in [SqPos -> Nat], NEW enq \in [SqPos -> BOOLEAN],
         NEW own \in [Nat -> Threads \cup {None}], NEW at \in [Nat -> Nat],
         CidInv, QueueInv(TL, F, DH, MH, SH, DT, cur, enq, own, at),
         NEW t \in Threads, pc[t] = "slot", tickets[SPos(ticket[t])] = GetId(ticket[t])
  PROVE  /\ SPos(ticket[t]) \in SqPos /\ cur[SPos(ticket[t])] = ticket[t]
         /\ F <= ticket[t] /\ ticket[t] < F + SQS /\ ~enq[SPos(ticket[t])]
         /\ TL <= ticket[t] /\ ticket[t] < inTicket
<1>1. PICK x \in Nat, q \in SqPos : x = ticket[t] /\ q = SPos(x)
  BY SPosFacts DEF QueueInv, Types
<1>2. cur[q] <= x /\ TL <= x /\ x < inTicket /\ inTicket < Word /\ inTicket \in Nat
  BY <1>1 DEF QueueInv, TurnInv, TicketInv, Types, Ticketed
<1>3. /\ SPos(cur[q]) = q /\ cur[q] < F + SQS /\ cur[q] \in Nat
      /\ tickets[q] = (GetId(cur[q]) + (IF cur[q] < F \/ enq[q] THEN 1 ELSE 0)) % Word
  BY DEF QueueInv, PosInv
<1>4. PICK b \in {0, 1} : b = (IF cur[q] < F \/ enq[q] THEN 1 ELSE 0)
  OBVIOUS
<1>5. PICK g \in Nat, h \in Nat : g = GetId(cur[q]) /\ h = GetId(x)
  BY <1>3, IdFacts
<1>6. g <= h /\ h <= x /\ g + 1 # h /\ (g = h => cur[q] = x)
  BY <1>1, <1>2, <1>3, <1>5, IdFacts
<1>7. (g + b) % Word = g + b
  BY <1>2, <1>5, <1>4, <1>6, SizesAssumption
<1>8. g + b = h
  BY <1>1, <1>3, <1>4, <1>5, <1>7
<1>9. b = 0 /\ g = h
  BY <1>4, <1>5, <1>6, <1>8
<1> QED BY <1>1, <1>2, <1>3, <1>4, <1>6, <1>9

LEMMA WriteEntryStep ==
  ASSUME NEW TL \in Nat, NEW F \in Nat, NEW DH \in Nat, NEW MH \in Nat, NEW SH \in Nat, NEW DT \in Nat,
         NEW cur \in [SqPos -> Nat], NEW enq \in [SqPos -> BOOLEAN],
         NEW own \in [Nat -> Threads \cup {None}], NEW at \in [Nat -> Nat],
         CidInv, QueueInv(TL, F, DH, MH, SH, DT, cur, enq, own, at),
         NEW t \in Threads, WriteEntry(t)
  PROVE  QueueInv(TL, F, DH, MH, SH, DT, cur, enq, own, at)'
<1>0. Types
  BY DEF QueueInv
<1>1. /\ pc[t] = "slot" /\ pc'[t] = "tail"
      /\ \A u \in Threads : u # t => pc'[u] = pc[u]
      /\ UNCHANGED <<cidVars, inTicket, tickets, tailLock, tail, sqHead, sqDb, cqVars, devVars, cid, ticket,
                     pollVars, moved, histVars, lapped>>
      /\ tickets[SPos(ticket[t])] = GetId(ticket[t])
      /\ sqe' = [sqe EXCEPT ![SPos(ticket[t])] = Command(t)]
      /\ tailMark' = [tailMark EXCEPT ![SPos(ticket[t])] = TRUE]
  BY DEF WriteEntry, Goto, CidInv, CidType, SPos, Command
<1>2. PICK x \in Nat, q \in SqPos : x = ticket[t] /\ q = SPos(x)
  BY <1>0, SPosFacts DEF Types
<1>3. UNCHANGED <<cqe, headMark, headLock, head, posLock, cqDb, devHead, devTail, fetched>>
  BY <1>1 DEF cqVars, devVars
<1>4. UNCHANGED <<inTicket, tickets, tailLock, tail, sqHead, sqDb, ticket, hd, idx, loc, moved, issued,
                  executed, returned, cid>>
  BY <1>1 DEF pollVars, histVars
<1>5. /\ \A p \in SqPos : sqe'[p] = (IF p = q THEN Command(t) ELSE sqe[p])
      /\ \A p \in SqPos : tailMark'[p] <=> (p = q \/ tailMark[p])
  BY <1>0, <1>1, <1>2 DEF Types
<1>6. /\ cur[q] = x /\ F <= x /\ x < F + SQS /\ ~enq[q] /\ TL <= x /\ x < inTicket
  <2>1. pc[t] = "slot" /\ tickets[SPos(ticket[t])] = GetId(ticket[t])
    BY <1>1
  <2>2. /\ SPos(ticket[t]) \in SqPos /\ cur[SPos(ticket[t])] = ticket[t]
        /\ F <= ticket[t] /\ ticket[t] < F + SQS /\ ~enq[SPos(ticket[t])]
        /\ TL <= ticket[t] /\ ticket[t] < inTicket
    BY <2>1, TurnFacts, Zenon
  <2> QED BY <2>2, <1>2
<1>7. \A u \in Threads : /\ Ticketed(u)' <=> Ticketed(u)
                         /\ Executed(u)' <=> Executed(u)
                         /\ Command(u)' = Command(u)
                         /\ Written(u)' <=> (u = t \/ Written(u))
                         /\ Written(u) => Ticketed(u)
  BY <1>1, <1>4 DEF Ticketed, Written, Executed, Command
<1>8. Types'
  <2>1. Command(t) \in [cid : Cids, by : Threads \cup {None}]
    BY DEF Command, CidInv, CidType
  <2>2. sqe' \in [SqPos -> [cid : Cids, by : Threads \cup {None}]] /\ tailMark' \in [SqPos -> BOOLEAN]
    BY <2>1, <1>0, <1>1 DEF Types
  <2> QED BY <2>2, <1>0, <1>3, <1>4 DEF Types
<1>9. HistInv'
  BY <1>1, <1>4 DEF QueueInv, HistInv, Ticketed, Executed
<1>10. RingInv(TL, F, DH)'
  BY <1>1, <1>3, <1>4 DEF QueueInv, RingInv
<1>11. TicketInv(TL, DH)'
  BY <1>1, <1>4, <1>7 DEF QueueInv, TicketInv
<1>12. PosInv(TL, F, cur, enq)'
  BY <1>4, <1>5, <1>6 DEF QueueInv, PosInv
<1>13. \A u \in Threads : u # t /\ Ticketed(u) => ticket[u] # x
  BY <1>1, <1>2 DEF QueueInv, TicketInv, Ticketed
<1>14. \A u \in Threads : ticket[u] \in Nat /\ SPos(ticket[u]) \in SqPos
  BY <1>0, SPosFacts DEF Types
<1>15. TurnInv(cur, enq)'
  <2> SUFFICES ASSUME NEW u \in Threads
               PROVE  /\ pc'[u] = "slot" => cur[SPos(ticket[u])] <= ticket[u]
                      /\ pc'[u] \in {"tail", "ring"} =>
                           cur[SPos(ticket[u])] = ticket[u] /\ ~enq[SPos(ticket[u])]
                      /\ Written(u)' => ticket[u] <= cur[SPos(ticket[u])]
                      /\ pc'[u] = "slot" /\ ticket[u] = cur[SPos(ticket[u])] => ~tailMark'[SPos(ticket[u])]
    BY <1>4 DEF TurnInv
  <2>1. CASE u = t
    BY <2>1, <1>1, <1>2, <1>6
  <2>2. CASE u # t
    BY <2>2, <1>1, <1>5, <1>6, <1>7, <1>13, <1>14 DEF QueueInv, TurnInv, Ticketed
  <2> QED BY <2>1, <2>2
<1>16. FetchInv(DH, DT)'
  <2>1. ASSUME NEW u \in Threads, Written(u)', DH <= ticket[u]
        PROVE  sqe'[SPos(ticket[u])] = Command(u)
    <3>1. CASE u = t
      BY <3>1, <1>2, <1>5
    <3>2. CASE u # t
      <4>1. Written(u) /\ ticket[u] # x
        BY <3>2, <2>1, <1>7, <1>13
      <4>2. SPos(ticket[u]) # q
        <5> SUFFICES ASSUME SPos(ticket[u]) = q PROVE FALSE
          OBVIOUS
        <5>0. PICK y \in Nat : y = ticket[u]
          BY <1>14
        <5>1. y <= x /\ y # x
          BY <5>0, <4>1, <1>6 DEF QueueInv, TurnInv
        <5>2. y < x /\ SPos(y) = SPos(x)
          BY <5>0, <5>1, <1>2
        <5>3. y + SQS <= x
          BY <5>2, SPosFacts
        <5>4. F <= DH /\ DH <= y /\ SQS \in Nat
          BY <5>0, <2>1, SPosFacts DEF QueueInv, RingInv
        <5> QED BY <5>3, <5>4, <1>6
      <4>3. sqe[SPos(ticket[u])] = Command(u)
        BY <4>1, <2>1 DEF QueueInv, FetchInv
      <4> QED BY <4>2, <4>3, <1>5, <1>14
    <3> QED BY <3>1, <3>2
  <2> QED BY <2>1, <1>3, <1>4, <1>7 DEF QueueInv, FetchInv
<1>17. HeadInv(F, MH, SH, DT)' /\ EntryInv(F, DH, MH, DT, at)' /\ PollInv(DT)'
  BY <1>1, <1>3, <1>4, CqFrame DEF QueueInv
<1>18. OwnInv(MH, DT, own)'
  BY <1>1, <1>3, <1>4, <1>7, OwnFrame DEF QueueInv, Ticketed
<1> QED BY <1>8, <1>9, <1>10, <1>11, <1>12, <1>15, <1>16, <1>17, <1>18 DEF QueueInv

(* The marks in front of the tail are those of the commands that are there.*)
LEMMA TailMarks ==
  ASSUME NEW TL \in Nat, NEW F \in Nat, NEW DH \in Nat, NEW MH \in Nat, NEW SH \in Nat, NEW DT \in Nat,
         NEW cur \in [SqPos -> Nat], NEW enq \in [SqPos -> BOOLEAN],
         NEW own \in [Nat -> Threads \cup {None}], NEW at \in [Nat -> Nat],
         CidInv, QueueInv(TL, F, DH, MH, SH, DT, cur, enq, own, at),
         TL = tail, NEW y \in Nat, tail <= y, y < tail + SQS, tailMark[SPos(y)]
  PROVE  cur[SPos(y)] = y
<1>1. PICK q \in SqPos : q = SPos(y)
  BY SPosFacts
<1>2. SPos(cur[q]) = q /\ cur[q] < F + SQS /\ tail <= cur[q] /\ cur[q] \in Nat /\ F <= tail /\ tail \in Nat
  BY <1>1 DEF QueueInv, PosInv, RingInv, Types
<1>3. PICK c \in Nat : c = cur[q]
  BY <1>2
<1>4. SPos(c) = SPos(y) /\ tail <= c /\ c < tail + SQS /\ SQS \in Nat
  BY <1>1, <1>2, <1>3, SPosFacts
<1>5. ~(c < y) /\ ~(y < c)
  <2>1. c < y => c + SQS <= y
    BY <1>4, SPosFacts
  <2>2. y < c => y + SQS <= c
    BY <1>4, SPosFacts
  <2> QED BY <2>1, <2>2, <1>2, <1>4
<1> QED BY <1>1, <1>3, <1>5

LEMMA MoveTailStep ==
  ASSUME NEW TL \in Nat, NEW F \in Nat, NEW DH \in Nat, NEW MH \in Nat, NEW SH \in Nat, NEW DT \in Nat,
         NEW cur \in [SqPos -> Nat], NEW enq \in [SqPos -> BOOLEAN],
         NEW own \in [Nat -> Threads \cup {None}], NEW at \in [Nat -> Nat],
         CidInv, QueueInv(TL, F, DH, MH, SH, DT, cur, enq, own, at),
         NEW t \in Threads, MoveTail(t)
  PROVE  \E TL1 \in Nat : QueueInv(TL1, F, DH, MH, SH, DT, cur, enq, own, at)'
<1>0. Types
  BY DEF QueueInv
<1>1. /\ pc[t] = "tail" /\ pc'[t] = "ring" /\ ~tailLock /\ tailLock' = TRUE
      /\ \A u \in Threads : u # t => pc'[u] = pc[u]
      /\ UNCHANGED <<cidVars, inTicket, tickets, sqe, tail, sqHead, sqDb, cqVars, devVars, cid, ticket,
                     pollVars, histVars, lapped>>
  BY DEF MoveTail, Goto, CidInv, CidType
<1>2. PICK n \in 1 .. SQS :
        /\ TailRun(n)
        /\ moved' = [moved EXCEPT ![t] = n]
        /\ tailMark' = [q \in SqPos |-> tailMark[q] /\ (q - tail) % SQS >= n]
  BY DEF MoveTail
<1>3. UNCHANGED <<cqe, headMark, headLock, head, posLock, cqDb, devHead, devTail, fetched>>
  BY <1>1 DEF cqVars, devVars
<1>4. UNCHANGED <<inTicket, tickets, sqe, tail, sqHead, sqDb, ticket, hd, idx, loc, issued,
                  executed, returned, cid>>
  BY <1>1 DEF pollVars, histVars
<1>5. SQS \in Nat /\ n \in Nat /\ 1 <= n /\ n <= SQS
  BY SPosFacts
<1>6. /\ tail \in Nat /\ sqHead \in Nat /\ inTicket \in Nat /\ TL = tail /\ F <= tail
      /\ tail < sqHead + SQS /\ sqHead <= tail
  BY <1>0, <1>1 DEF QueueInv, RingInv, Types
<1>7. \A k \in 0 .. n - 1 : SPos(tail + k + 1) # SPos(sqHead) /\ tailMark[SPos(tail + k)]
  BY <1>2 DEF TailRun, SPos
<1>8. \A y \in Nat : tail <= y /\ y < tail + n => tailMark[SPos(y)] /\ SPos(y + 1) # SPos(sqHead)
  <2> SUFFICES ASSUME NEW y \in Nat, tail <= y, y < tail + n
               PROVE  tailMark[SPos(y)] /\ SPos(y + 1) # SPos(sqHead)
    OBVIOUS
  <2>1. y - tail \in 0 .. n - 1 /\ tail + (y - tail) = y /\ tail + (y - tail) + 1 = y + 1
    BY <1>5, <1>6
  <2> QED BY <2>1, <1>7
<1>9. \A y \in Nat : tail <= y /\ y < tail + SQS =>
        (tailMark'[SPos(y)] <=> tailMark[SPos(y)] /\ tail + n <= y)
  <2> SUFFICES ASSUME NEW y \in Nat, tail <= y, y < tail + SQS
               PROVE  tailMark'[SPos(y)] <=> tailMark[SPos(y)] /\ tail + n <= y
    OBVIOUS
  <2>1. SPos(y) \in SqPos /\ (SPos(y) - tail) % SQS = y - tail
    BY <1>6, SPosFacts
  <2>2. tailMark'[SPos(y)] <=> tailMark[SPos(y)] /\ (SPos(y) - tail) % SQS >= n
    BY <1>2, <2>1
  <2> QED BY <2>1, <2>2, <1>5, <1>6
<1>10. \A q \in SqPos : tailMark'[q] => tailMark[q]
  BY <1>2
<1>11. tail + n < sqHead + SQS
  <2> SUFFICES ASSUME sqHead + SQS <= tail + n PROVE FALSE
    BY <1>5, <1>6
  <2>1. PICK y \in Nat : y = sqHead + SQS - 1
    BY <1>5, <1>6
  <2>2. tail <= y /\ y < tail + n /\ y + 1 = sqHead + SQS
    BY <2>1, <1>5, <1>6
  <2> QED BY <2>2, <1>6, <1>8, SPosFacts
<1>12. \A y \in Nat : tail <= y /\ y < tail + SQS /\ tailMark[SPos(y)] => cur[SPos(y)] = y
  BY <1>6, TailMarks
<1>13. tail + n <= inTicket
  <2>1. PICK y \in Nat : y = tail + n - 1
    BY <1>5, <1>6
  <2>2. tail <= y /\ y < tail + n /\ y < tail + SQS
    BY <2>1, <1>5, <1>6
  <2>3. tailMark[SPos(y)] /\ cur[SPos(y)] = y /\ SPos(y) \in SqPos
    BY <2>2, <1>8, <1>12, SPosFacts
  <2>4. y < inTicket
    BY <2>3 DEF QueueInv, PosInv
  <2> QED BY <2>1, <2>4, <1>5, <1>6
<1>14. \A u \in Threads : /\ Ticketed(u)' <=> Ticketed(u)
                          /\ Executed(u)' <=> Executed(u)
                          /\ Command(u)' = Command(u)
                          /\ Written(u)' <=> Written(u)
                          /\ moved'[u] = (IF u = t THEN n ELSE moved[u])
  BY <1>0, <1>1, <1>2, <1>4 DEF Ticketed, Written, Executed, Command, Types
<1>15. Types'
  <2>1. moved' \in [Threads -> Nat] /\ tailMark' \in [SqPos -> BOOLEAN]
    BY <1>0, <1>2, <1>5 DEF Types
  <2> QED BY <2>1, <1>0, <1>1, <1>3, <1>4 DEF Types
<1>16. HistInv'
  BY <1>1, <1>4 DEF QueueInv, HistInv, Ticketed, Executed
<1>24. PICK TL1 \in Nat : TL1 = tail + n
  BY <1>5, <1>6
<1>17. RingInv(TL1, F, DH)'
  <2>1. \A u \in Threads : pc'[u] = "ring" => u = t
    BY <1>1 DEF QueueInv, RingInv
  <2>2. /\ sqHead <= F /\ F <= DH /\ DH <= tail /\ sqDb = SPos(tail) /\ devHead = SPos(DH)
    BY DEF QueueInv, RingInv
  <2> QED BY <2>1, <2>2, <1>1, <1>3, <1>4, <1>5, <1>6, <1>11, <1>13, <1>14, <1>24 DEF RingInv
<1>18. TicketInv(TL1, DH)'
  <2>1. ASSUME NEW u \in Threads, pc'[u] = "slot"
        PROVE  tail + n <= ticket[u]
    <3> SUFFICES ASSUME ticket[u] < tail + n PROVE FALSE
      BY <1>0, <1>5, <1>6 DEF Types
    <3>1. pc[u] = "slot" /\ tail <= ticket[u] /\ ticket[u] \in Nat
      BY <2>1, <1>0, <1>1, <1>6 DEF QueueInv, TicketInv, Types
    <3>2. tailMark[SPos(ticket[u])] /\ cur[SPos(ticket[u])] = ticket[u]
      BY <3>1, <1>5, <1>6, <1>8, <1>12
    <3> QED BY <3>1, <3>2 DEF QueueInv, TurnInv
  <2>2. \A u \in Threads : pc'[u] = "slot" => TL1 <= ticket[u]
    BY <2>1, <1>24
  <2> QED BY <2>2, <1>4, <1>14 DEF QueueInv, TicketInv
<1>19. PosInv(TL1, F, cur, enq)'
  <2> SUFFICES ASSUME NEW q \in SqPos
               PROVE  /\ tail + n <= cur[q] + SQS
                      /\ tailMark'[q] => tail + n <= cur[q] /\ cur[q] < inTicket
    BY <1>4, <1>24 DEF QueueInv, PosInv
  <2>1. /\ SPos(cur[q]) = q /\ tail <= cur[q] + SQS /\ cur[q] \in Nat /\ cur[q] < F + SQS
        /\ tailMark[q] => tail <= cur[q] /\ cur[q] < inTicket
    BY <1>6 DEF QueueInv, PosInv
  <2>2. tail + n <= cur[q] + SQS
    <3>1. CASE tail <= cur[q]
      BY <3>1, <2>1, <1>5, <1>6
    <3>2. CASE cur[q] < tail
      <4> SUFFICES ASSUME cur[q] + SQS < tail + n PROVE FALSE
        BY <2>1, <1>5, <1>6
      <4>1. PICK y \in Nat : y = cur[q] + SQS
        BY <2>1, <1>5
      <4>2. SPos(y) = q /\ tail <= y /\ y < tail + n /\ y < tail + SQS
        BY <4>1, <2>1, <3>2, <1>5, <1>6, SPosFacts
      <4>3. cur[q] = y
        BY <4>2, <1>8, <1>12
      <4> QED BY <4>1, <4>3, <2>1, <1>5, SPosFacts
    <3> QED BY <3>1, <3>2, <2>1, <1>6
  <2>3. ASSUME tailMark'[q] PROVE tail + n <= cur[q] /\ cur[q] < inTicket
    <3>1. tailMark[q]
      BY <2>3, <1>10
    <3>2. tail <= cur[q] /\ cur[q] < tail + SQS
      BY <3>1, <2>1, <1>5, <1>6
    <3>3. tail + n <= cur[q]
      BY <2>1, <2>3, <3>2, <1>9
    <3> QED BY <3>1, <3>3, <2>1
  <2> QED BY <2>2, <2>3
<1>20. TurnInv(cur, enq)'
  <2>1. \A u \in Threads : SPos(ticket[u]) \in SqPos
    BY <1>0, SPosFacts DEF Types
  <2> QED BY <2>1, <1>1, <1>4, <1>10, <1>14 DEF QueueInv, TurnInv
<1>21. FetchInv(DH, DT)'
  BY <1>3, <1>4, <1>14 DEF QueueInv, FetchInv
<1>22. HeadInv(F, MH, SH, DT)' /\ EntryInv(F, DH, MH, DT, at)' /\ PollInv(DT)'
  BY <1>1, <1>3, <1>4, <1>14, CqFrame DEF QueueInv
<1>23. OwnInv(MH, DT, own)'
  BY <1>1, <1>3, <1>4, <1>14, OwnFrame DEF QueueInv, Ticketed
<1> QED BY <1>15, <1>16, <1>17, <1>18, <1>19, <1>20, <1>21, <1>22, <1>23 DEF QueueInv

LEMMA RingTailStep ==
  ASSUME NEW TL \in Nat, NEW F \in Nat, NEW DH \in Nat, NEW MH \in Nat, NEW SH \in Nat, NEW DT \in Nat,
         NEW cur \in [SqPos -> Nat], NEW enq \in [SqPos -> BOOLEAN],
         NEW own \in [Nat -> Threads \cup {None}], NEW at \in [Nat -> Nat],
         CidInv, QueueInv(TL, F, DH, MH, SH, DT, cur, enq, own, at),
         NEW t \in Threads, RingTail(t)
  PROVE  QueueInv(TL, F, DH, MH, SH, DT, cur, enq, own, at)'
<1>0. Types
  BY DEF QueueInv
<1>1. /\ pc[t] = "ring" /\ pc'[t] = "tail" /\ tailLock' = FALSE
      /\ \A u \in Threads : u # t => pc'[u] = pc[u]
      /\ UNCHANGED <<cidVars, inTicket, tickets, sqe, tailMark, sqHead, cqVars, devVars, cid, ticket,
                     pollVars, histVars, lapped>>
      /\ tail' = Add(tail, moved[t]) /\ sqDb' = SPos(tail + moved[t])
      /\ moved' = [moved EXCEPT ![t] = 0]
  BY DEF RingTail, Goto, CidInv, CidType, SPos
<1>2. /\ TL = tail + moved[t] /\ TL <= inTicket /\ inTicket \in Nat /\ inTicket < Word /\ tail <= TL
      /\ \A u \in Threads : pc[u] = "ring" => u = t
  BY <1>0, <1>1 DEF QueueInv, RingInv, Types
<1>3. tail' = TL /\ sqDb' = SPos(TL)
  BY <1>1, <1>2, SizesAssumption DEF Add
<1>4. UNCHANGED <<cqe, headMark, headLock, head, posLock, cqDb, devHead, devTail, fetched>>
  BY <1>1 DEF cqVars, devVars
<1>5. UNCHANGED <<inTicket, tickets, sqe, tailMark, sqHead, ticket, hd, idx, loc, issued,
                  executed, returned, cid>>
  BY <1>1 DEF pollVars, histVars
<1>6. \A u \in Threads : /\ Ticketed(u)' <=> Ticketed(u)
                         /\ Executed(u)' <=> Executed(u)
                         /\ Command(u)' = Command(u)
                         /\ Written(u)' <=> Written(u)
                         /\ u # t => moved'[u] = moved[u]
  BY <1>0, <1>1, <1>5 DEF Ticketed, Written, Executed, Command, Types
<1>7. Types'
  <2>1. moved' \in [Threads -> Nat]
    BY <1>0, <1>1 DEF Types
  <2> QED BY <2>1, <1>0, <1>1, <1>3, <1>4, <1>5 DEF Types
<1>8. HistInv'
  BY <1>1, <1>5 DEF QueueInv, HistInv, Ticketed, Executed
<1>9. RingInv(TL, F, DH)'
  <2>1. \A u \in Threads : pc'[u] # "ring"
    BY <1>1, <1>2
  <2>2. /\ sqHead <= F /\ F <= DH /\ DH <= tail /\ devHead = SPos(DH) /\ TL < sqHead + SQS /\ tail \in Nat
    BY <1>0 DEF QueueInv, RingInv, Types
  <2> QED BY <2>1, <2>2, <1>2, <1>3, <1>4, <1>5 DEF RingInv
<1>10. TicketInv(TL, DH)'
  BY <1>1, <1>5, <1>6 DEF QueueInv, TicketInv
<1>11. PosInv(TL, F, cur, enq)'
  BY <1>5 DEF QueueInv, PosInv
<1>12. TurnInv(cur, enq)'
  BY <1>1, <1>5, <1>6 DEF QueueInv, TurnInv
<1>13. FetchInv(DH, DT)'
  BY <1>4, <1>5, <1>6 DEF QueueInv, FetchInv
<1>14. HeadInv(F, MH, SH, DT)' /\ EntryInv(F, DH, MH, DT, at)' /\ PollInv(DT)'
  BY <1>1, <1>4, <1>5, <1>6, CqFrame DEF QueueInv
<1>15. OwnInv(MH, DT, own)'
  BY <1>1, <1>4, <1>5, <1>6, OwnFrame DEF QueueInv, Ticketed
<1> QED BY <1>7, <1>8, <1>9, <1>10, <1>11, <1>12, <1>13, <1>14, <1>15 DEF QueueInv

(* One more step of a position's counter: the turn goes on with the second.*)
LEMMA CounterStep ==
  ASSUME NEW x \in Nat
  PROVE  /\ Add((GetId(x) + 0) % Word, 1) = (GetId(x) + 1) % Word
         /\ Add((GetId(x) + 1) % Word, 1) = (GetId(x + SQS) + 0) % Word
<1>1. PICK g \in Nat : g = GetId(x) /\ GetId(x + SQS) = g + 2
  BY IdFacts
<1>2. Word \in Nat \ {0}
  BY SizesAssumption
<1>3. g + 1 \in Int /\ g \in Int /\ 1 \in Int
  OBVIOUS
<1>4. ((g % Word) + 1) % Word = (g + 1) % Word
  BY <1>2, <1>3, ModAdd, Zenon
<1>5. (((g + 1) % Word) + 1) % Word = ((g + 1) + 1) % Word
  BY <1>2, <1>3, ModAdd, Zenon
<1>6. (g + 1) + 1 = g + 2 /\ g + 0 = g /\ (g + 2) + 0 = g + 2
  OBVIOUS
<1> QED BY <1>1, <1>4, <1>5, <1>6 DEF Add

LEMMA EnqueuedStep ==
  ASSUME NEW TL \in Nat, NEW F \in Nat, NEW DH \in Nat, NEW MH \in Nat, NEW SH \in Nat, NEW DT \in Nat,
         NEW cur \in [SqPos -> Nat], NEW enq \in [SqPos -> BOOLEAN],
         NEW own \in [Nat -> Threads \cup {None}], NEW at \in [Nat -> Nat],
         CidInv, QueueInv(TL, F, DH, MH, SH, DT, cur, enq, own, at),
         NEW t \in Threads, Enqueued(t)
  PROVE  \E cur1 \in [SqPos -> Nat], enq1 \in [SqPos -> BOOLEAN] :
           QueueInv(TL, F, DH, MH, SH, DT, cur1, enq1, own, at)'
<1>0. Types
  BY DEF QueueInv
<1>1. PICK x \in Nat, q \in SqPos : x = ticket[t] /\ q = SPos(x)
  BY <1>0, SPosFacts DEF Types
<1>2. /\ pc[t] = "tail" /\ pc'[t] = "poll"
      /\ \A u \in Threads : u # t => pc'[u] = pc[u]
      /\ UNCHANGED <<cidVars, inTicket, sqe, tailMark, tailLock, tail, sqHead, sqDb, cqVars, devVars, cid,
                     ticket, pollVars, moved, histVars, lapped>>
      /\ ~tailMark[q] /\ tickets' = [tickets EXCEPT ![q] = Add(@, 1)]
  BY <1>1 DEF Enqueued, Goto, CidInv, CidType, SPos
<1>3. UNCHANGED <<cqe, headMark, headLock, head, posLock, cqDb, devHead, devTail, fetched>>
  BY <1>2 DEF cqVars, devVars
<1>4. UNCHANGED <<inTicket, sqe, tailMark, tailLock, tail, sqHead, sqDb, ticket, hd, idx, loc, moved, issued,
                  executed, returned, cid>>
  BY <1>2 DEF pollVars, histVars
<1>5. cur[q] = x /\ ~enq[q]
  BY <1>1, <1>2 DEF QueueInv, TurnInv
<1> DEFINE cur1 == [cur EXCEPT ![q] = IF x < F THEN x + SQS ELSE x]
           enq1 == [enq EXCEPT ![q] = ~(x < F)]
<1>6. SQS \in Nat /\ SQS > 1
  BY SPosFacts
<1>7. cur1 \in [SqPos -> Nat] /\ enq1 \in [SqPos -> BOOLEAN]
  BY <1>6
<1>8. /\ \A p \in SqPos : p # q => cur1[p] = cur[p] /\ (enq1[p] <=> enq[p])
      /\ cur1[q] = (IF x < F THEN x + SQS ELSE x) /\ (enq1[q] <=> ~(x < F))
      /\ \A p \in SqPos : p # q => tickets'[p] = tickets[p]
      /\ tickets'[q] = Add(tickets[q], 1)
  BY <1>0, <1>2 DEF Types
<1> HIDE DEF cur1, enq1
<1>9. \A u \in Threads : /\ Ticketed(u)' <=> Ticketed(u)
                         /\ Executed(u)' <=> Executed(u)
                         /\ Command(u)' = Command(u)
                         /\ Written(u)' <=> Written(u)
  BY <1>2, <1>4 DEF Ticketed, Written, Executed, Command
<1>10. Types'
  <2>1. tickets[q] + 1 \in Int
    BY <1>0 DEF Types
  <2>2. Add(tickets[q], 1) \in 0 .. Word - 1
    <3>1. Word \in Nat \ {0}
      BY SizesAssumption
    <3> QED BY <2>1, <3>1, ModRange, Zenon DEF Add
  <2>3. Add(tickets[q], 1) \in Nat
    BY <2>2
  <2>4. tickets' \in [SqPos -> Nat]
    BY <2>3, <1>0, <1>2 DEF Types
  <2> QED BY <2>4, <1>0, <1>3, <1>4 DEF Types
<1>11. HistInv'
  BY <1>2, <1>4 DEF QueueInv, HistInv, Ticketed, Executed
<1>12. RingInv(TL, F, DH)'
  BY <1>2, <1>3, <1>4 DEF QueueInv, RingInv
<1>13. TicketInv(TL, DH)'
  BY <1>2, <1>4, <1>9 DEF QueueInv, TicketInv
<1>14. F <= TL
  BY <1>0 DEF QueueInv, RingInv, Types
<1>15. PosInv(TL, F, cur1, enq1)'
  <2> SUFFICES ASSUME NEW p \in SqPos
               PROVE  /\ SPos(cur1[p]) = p /\ cur1[p] < F + SQS /\ TL <= cur1[p] + SQS
                      /\ tickets'[p] = (GetId(cur1[p]) + (IF cur1[p] < F \/ enq1[p] THEN 1 ELSE 0)) % Word
                      /\ ~(cur1[p] < F /\ enq1[p])
                      /\ tailMark[p] => TL <= cur1[p] /\ cur1[p] < inTicket
    BY <1>4 DEF PosInv
  <2>1. /\ SPos(cur[p]) = p /\ cur[p] < F + SQS /\ TL <= cur[p] + SQS
        /\ tickets[p] = (GetId(cur[p]) + (IF cur[p] < F \/ enq[p] THEN 1 ELSE 0)) % Word
        /\ ~(cur[p] < F /\ enq[p])
        /\ tailMark[p] => TL <= cur[p] /\ cur[p] < inTicket
    BY DEF QueueInv, PosInv
  <2>2. CASE p # q
    BY <2>1, <2>2, <1>8
  <2>3. CASE p = q /\ x < F
    <3>1. cur1[p] = x + SQS /\ ~enq1[p] /\ tickets'[p] = Add((GetId(x) + 1) % Word, 1)
      BY <2>1, <2>3, <1>5, <1>8
    <3>2. ~(cur1[p] < F)
      BY <3>1, <2>1, <2>3, <1>5, <1>6, <1>14
    <3>3. tickets'[p] = (GetId(cur1[p]) + 0) % Word
      BY <3>1, CounterStep
    <3>4. SPos(cur1[p]) = p
      BY <3>1, <2>3, <1>1, SPosFacts
    <3>5. cur1[p] < F + SQS /\ TL <= cur1[p] + SQS
      BY <3>1, <2>1, <2>3, <1>5, <1>6
    <3>6. ~tailMark[p]
      BY <2>3, <1>2
    <3> QED BY <3>1, <3>2, <3>3, <3>4, <3>5, <3>6
  <2>4. CASE p = q /\ ~(x < F)
    <3>1. cur1[p] = x /\ enq1[p] /\ tickets'[p] = Add((GetId(x) + 0) % Word, 1)
      BY <2>1, <2>4, <1>5, <1>8
    <3>2. tickets'[p] = (GetId(cur1[p]) + 1) % Word
      BY <3>1, CounterStep
    <3> QED BY <3>1, <3>2, <2>1, <2>4, <1>2, <1>5
  <2> QED BY <2>2, <2>3, <2>4
<1>16. \A u \in Threads : u # t /\ Ticketed(u) => ticket[u] # x
  BY <1>1, <1>2 DEF QueueInv, TicketInv, Ticketed
<1>17. TurnInv(cur1, enq1)'
  <2> SUFFICES ASSUME NEW u \in Threads
               PROVE  /\ pc'[u] = "slot" => cur1[SPos(ticket[u])] <= ticket[u]
                      /\ pc'[u] \in {"tail", "ring"} =>
                           cur1[SPos(ticket[u])] = ticket[u] /\ ~enq1[SPos(ticket[u])]
                      /\ Written(u)' => ticket[u] <= cur1[SPos(ticket[u])]
                      /\ pc'[u] = "slot" /\ ticket[u] = cur1[SPos(ticket[u])] => ~tailMark[SPos(ticket[u])]
    BY <1>4 DEF TurnInv
  <2>1. PICK y \in Nat, p \in SqPos : y = ticket[u] /\ p = SPos(y)
    BY <1>0, SPosFacts DEF Types
  <2>2. /\ pc[u] = "slot" => cur[p] <= y
        /\ pc[u] \in {"tail", "ring"} => cur[p] = y /\ ~enq[p]
        /\ Written(u) => y <= cur[p]
        /\ pc[u] = "slot" /\ y = cur[p] => ~tailMark[p]
    BY <2>1 DEF QueueInv, TurnInv
  <2>3. CASE p # q
    BY <2>1, <2>2, <2>3, <1>1, <1>2, <1>8, <1>9
  <2>4. CASE p = q
    <3>1. cur1[q] >= x
      BY <1>6, <1>8
    <3>2. pc'[u] # "slot" \/ cur1[q] <= y
      <4>1. pc'[u] = "slot" => pc[u] = "slot" /\ u # t /\ x <= y /\ y # x
        BY <2>1, <2>2, <2>4, <1>1, <1>2, <1>5, <1>16 DEF Ticketed
      <4>2. x < y => x + SQS <= y
        BY <2>1, <2>4, <1>1, SPosFacts
      <4> QED BY <4>1, <4>2, <1>6, <1>8
    <3>3. pc'[u] \notin {"tail", "ring"}
      BY <2>1, <2>2, <2>4, <1>1, <1>2, <1>5, <1>16 DEF Ticketed
    <3>4. Written(u)' => y <= cur1[q]
      BY <2>2, <2>4, <3>1, <1>5, <1>6, <1>8, <1>9
    <3> QED BY <2>1, <2>4, <3>2, <3>3, <3>4, <1>2
  <2> QED BY <2>3, <2>4
<1>18. FetchInv(DH, DT)'
  BY <1>3, <1>4, <1>9 DEF QueueInv, FetchInv
<1>19. HeadInv(F, MH, SH, DT)' /\ EntryInv(F, DH, MH, DT, at)' /\ PollInv(DT)'
  BY <1>2, <1>3, <1>4, <1>9, CqFrame DEF QueueInv
<1>20. OwnInv(MH, DT, own)'
  BY <1>2, <1>3, <1>4, <1>9, OwnFrame DEF QueueInv, Ticketed
<1>21. QueueInv(TL, F, DH, MH, SH, DT, cur1, enq1, own, at)'
  BY <1>10, <1>11, <1>12, <1>13, <1>15, <1>17, <1>18, <1>19, <1>20 DEF QueueInv
<1> QED BY <1>7, <1>21

(***************************************************************************)
(* The device.                                                             *)
(***************************************************************************)
LEMMA DevFetchStep ==
  ASSUME NEW TL \in Nat, NEW F \in Nat, NEW DH \in Nat, NEW MH \in Nat, NEW SH \in Nat, NEW DT \in Nat,
         NEW cur \in [SqPos -> Nat], NEW enq \in [SqPos -> BOOLEAN],
         NEW own \in [Nat -> Threads \cup {None}], NEW at \in [Nat -> Nat],
         CidInv, QueueInv(TL, F, DH, MH, SH, DT, cur, enq, own, at),
         DevFetch
  PROVE  \E DH1 \in Nat : QueueInv(TL, F, DH1, MH, SH, DT, cur, enq, own, at)'
<1>0. Types
  BY DEF QueueInv
<1>1. /\ devHead # sqDb /\ fetched' = fetched \cup {sqe[devHead]} /\ devHead' = (devHead + 1) % SQS
      /\ UNCHANGED <<cidVars, sqVars, cqVars, devTail, pc, cid, ticket, pollVars, moved, histVars, lapped>>
  BY DEF DevFetch
<1>2. UNCHANGED <<inTicket, tickets, sqe, tailMark, tailLock, tail, sqHead, sqDb, cqe, headMark, headLock, head,
                  cqDb, devTail>>
  BY <1>1 DEF sqVars, cqVars
<1>3. UNCHANGED <<pc, cid, ticket, hd, idx, loc, moved, issued, executed, returned>>
  BY <1>1 DEF pollVars, histVars
<1>4. /\ devHead = SPos(DH) /\ sqDb = SPos(tail) /\ DH <= tail /\ tail <= TL /\ TL <= inTicket
      /\ tail \in Nat /\ inTicket \in Nat
  BY <1>0 DEF QueueInv, RingInv, Types
<1>5. DH < tail /\ DH < TL /\ DH < inTicket
  BY <1>1, <1>4
<1>6. PICK t \in Threads : Ticketed(t) /\ ticket[t] = DH
  BY <1>5 DEF QueueInv, TicketInv
<1>7. Written(t) /\ ~Executed(t)
  <2>1. pc[t] # "slot"
    BY <1>4, <1>5, <1>6 DEF QueueInv, TicketInv
  <2> QED BY <2>1, <1>6 DEF QueueInv, FetchInv, Written, Ticketed
<1>8. sqe[devHead] = Command(t)
  BY <1>4, <1>6, <1>7 DEF QueueInv, FetchInv
<1>9. PICK DH1 \in Nat : DH1 = DH + 1
  OBVIOUS
<1>10. devHead' = SPos(DH1)
  BY <1>1, <1>4, <1>9, SPosFacts
<1>11. \A u \in Threads : /\ Ticketed(u)' <=> Ticketed(u)
                          /\ Executed(u)' <=> Executed(u)
                          /\ Command(u)' = Command(u)
                          /\ Written(u)' <=> Written(u)
  BY <1>3 DEF Ticketed, Written, Executed, Command
<1>12. Types'
  BY <1>0, <1>2, <1>3 DEF Types
<1>13. HistInv'
  BY <1>3 DEF QueueInv, HistInv, Ticketed, Executed
<1>14. RingInv(TL, F, DH1)'
  BY <1>2, <1>3, <1>4, <1>5, <1>9, <1>10 DEF QueueInv, RingInv
<1>15. TicketInv(TL, DH1)'
  BY <1>2, <1>3, <1>9, <1>11 DEF QueueInv, TicketInv
<1>16. PosInv(TL, F, cur, enq)' /\ TurnInv(cur, enq)'
  BY <1>2, <1>3, <1>11 DEF QueueInv, PosInv, TurnInv
<1>17. FetchInv(DH1, DT)'
  <2>0. \A u \in Threads : ticket[u] \in Nat
    BY <1>0 DEF Types
  <2>1. \A u \in Threads : Written(u)' /\ DH1 <= ticket'[u] => sqe'[SPos(ticket'[u])] = Command(u)'
    BY <1>2, <1>3, <1>9, <1>11, <2>0 DEF QueueInv, FetchInv
  <2>2. \A u \in Threads : Ticketed(u)' /\ DH1 <= ticket'[u] => ~Executed(u)'
    BY <1>3, <1>9, <1>11, <2>0 DEF QueueInv, FetchInv
  <2>3. ASSUME NEW u \in Threads, Ticketed(u), ticket[u] < DH1, ~Executed(u)
        PROVE  Command(u) \in fetched'
    <3>1. CASE ticket[u] = DH
      <4>1. u = t
        BY <3>1, <2>3, <1>6 DEF QueueInv, TicketInv
      <4> QED BY <4>1, <1>1, <1>8
    <3>2. CASE ticket[u] < DH
      BY <2>3, <3>2, <1>1 DEF QueueInv, FetchInv
    <3> QED BY <3>1, <3>2, <2>0, <2>3, <1>9
  <2>4. \A c \in fetched' : \E u \in Threads :
          c = Command(u) /\ Ticketed(u) /\ ~Executed(u) /\ ticket[u] < DH1
    <3> SUFFICES ASSUME NEW c \in fetched'
                 PROVE  \E u \in Threads : c = Command(u) /\ Ticketed(u) /\ ~Executed(u) /\ ticket[u] < DH1
      OBVIOUS
    <3>1. CASE c \in fetched
      <4>1. PICK u \in Threads : c = Command(u) /\ Ticketed(u) /\ ~Executed(u) /\ ticket[u] < DH
        BY <3>1 DEF QueueInv, FetchInv
      <4> QED BY <4>1, <2>0, <1>9
    <3>2. CASE c = Command(t)
      BY <3>2, <1>6, <1>7, <1>9
    <3> QED BY <3>1, <3>2, <1>1, <1>8
  <2>5. Command(t) \notin fetched
    <3>1. \A u \in Threads : Command(u) = Command(t) => u = t
      BY DEF Command
    <3> QED BY <3>1, <1>6 DEF QueueInv, FetchInv
  <2>6. IsFiniteSet(fetched) /\ DT + Cardinality(fetched) = DH
    BY DEF QueueInv, FetchInv
  <2>7. IsFiniteSet(fetched') /\ Cardinality(fetched') = Cardinality(fetched) + 1
    BY <2>5, <2>6, <1>1, <1>8, FS_AddElement
  <2>8. DT + Cardinality(fetched') = DH1
    <3>1. PICK k \in Nat : k = Cardinality(fetched)
      BY <2>6, FS_CardinalityType
    <3> QED BY <3>1, <2>6, <2>7, <1>9
  <2> QED BY <2>1, <2>2, <2>3, <2>4, <2>7, <2>8, <1>3, <1>11 DEF FetchInv
<1>18. HeadInv(F, MH, SH, DT)' /\ PollInv(DT)'
  BY <1>2, <1>3 DEF QueueInv, HeadInv, PollInv
<1>19. EntryInv(F, DH1, MH, DT, at)'
  BY <1>2, <1>9 DEF QueueInv, EntryInv
<1>20. OwnInv(MH, DT, own)'
  BY <1>2, <1>3, <1>11 DEF QueueInv, OwnInv, Live
<1> QED BY <1>12, <1>13, <1>14, <1>15, <1>16, <1>17, <1>18, <1>19, <1>20 DEF QueueInv

LEMMA DevCompleteStep ==
  ASSUME NEW TL \in Nat, NEW F \in Nat, NEW DH \in Nat, NEW MH \in Nat, NEW SH \in Nat, NEW DT \in Nat,
         NEW cur \in [SqPos -> Nat], NEW enq \in [SqPos -> BOOLEAN],
         NEW own \in [Nat -> Threads \cup {None}], NEW at \in [Nat -> Nat],
         CidInv, QueueInv(TL, F, DH, MH, SH, DT, cur, enq, own, at),
         DevComplete
  PROVE  \E DT1 \in Nat, own1 \in [Nat -> Threads \cup {None}], at1 \in [Nat -> Nat] :
           QueueInv(TL, F, DH, MH, SH, DT1, cur, enq, own1, at1)'
<1>0. Types
  BY DEF QueueInv
<1>1. /\ (devTail + 1) % CQS # cqDb /\ devTail' = (devTail + 1) % (2 * CQS)
      /\ UNCHANGED <<cidVars, sqVars, headMark, headLock, head, posLock, cqDb, devHead, pc, cid, ticket, pollVars,
                     moved, issued, returned, lapped>>
  BY DEF DevComplete
<1>2. PICK c \in fetched :
        /\ cqe' = [cqe EXCEPT ![devTail % CQS] =
                     [cid |-> c.cid, phase |-> SearchPhase(devTail), sqhd |-> devHead]]
        /\ fetched' = fetched \ {c}
        /\ executed' = [executed EXCEPT ![c.by] = @ + 1]
  BY DEF DevComplete
<1>3. PICK t \in Threads : c = Command(t) /\ Ticketed(t) /\ ~Executed(t) /\ ticket[t] < DH
  BY DEF QueueInv, FetchInv
<1>4. UNCHANGED <<inTicket, tickets, sqe, tailMark, tailLock, tail, sqHead, sqDb, headMark, headLock, head, cqDb,
                  devHead>>
  BY <1>1 DEF sqVars
<1>5. UNCHANGED <<pc, cid, ticket, hd, idx, loc, moved, issued, returned>>
  BY <1>1 DEF pollVars
<1>6. PICK DT1 \in Nat : DT1 = DT + 1
  OBVIOUS
<1>7. /\ devTail = DPos(DT) /\ cqDb = CPos(SH) /\ devHead = SPos(DH)
      /\ head <= SH /\ SH <= MH /\ MH <= DT /\ DT < SH + CQS /\ head \in Nat /\ F <= DH
  BY <1>0 DEF QueueInv, HeadInv, RingInv, Types
<1>8. CQS \in Nat /\ CQS > 1 /\ CPos(DT) \in CqPos
  BY CPosFacts
<1>9. /\ devTail' = DPos(DT1) /\ devTail % CQS = CPos(DT) /\ SearchPhase(devTail) = SearchPhase(DT)
      /\ CPos(DT1) # CPos(SH)
  BY <1>1, <1>6, <1>7, PhaseFacts
<1>10. DT1 < SH + CQS
  <2>1. DT1 # SH + CQS
    BY <1>9, CPosFacts
  <2> QED BY <2>1, <1>6, <1>7, <1>8
<1>11. /\ \A p \in CqPos : p # CPos(DT) => cqe'[p] = cqe[p]
       /\ cqe'[CPos(DT)] = [cid |-> cid[t], phase |-> SearchPhase(DT), sqhd |-> SPos(DH)]
  BY <1>0, <1>2, <1>3, <1>7, <1>8, <1>9 DEF Types, Command
<1>12. \A j \in Nat : j < DT /\ DT1 <= j + CQS => CPos(j) # CPos(DT) /\ CPos(j) \in CqPos
  <2> SUFFICES ASSUME NEW j \in Nat, j < DT, DT1 <= j + CQS
               PROVE  CPos(j) # CPos(DT) /\ CPos(j) \in CqPos
    OBVIOUS
  <2>1. CPos(j) = CPos(DT) => j + CQS <= DT
    BY CPosFacts
  <2> QED BY <2>1, <1>6, <1>8, CPosFacts
<1>13. \A j \in Nat : DT < j /\ j < DT + CQS => CPos(j) # CPos(DT) /\ CPos(j) \in CqPos
  <2> SUFFICES ASSUME NEW j \in Nat, DT < j, j < DT + CQS
               PROVE  CPos(j) # CPos(DT) /\ CPos(j) \in CqPos
    OBVIOUS
  <2>1. CPos(j) = CPos(DT) => DT + CQS <= j
    BY CPosFacts
  <2> QED BY <2>1, <1>8, CPosFacts
<1>14. /\ \A u \in Threads : u # t => executed'[u] = executed[u] /\ (Executed(u)' <=> Executed(u))
       /\ executed'[t] = executed[t] + 1
  BY <1>0, <1>2, <1>3, <1>5 DEF Types, Command, Executed
<1>15. /\ returned[t] + 1 = issued[t] /\ executed[t] = returned[t]
       /\ pc[t] \notin {"lock", "head", "free", "store", "put"}
  BY <1>3 DEF QueueInv, HistInv, Executed
<1>16. Executed(t)'
  BY <1>5, <1>14, <1>15 DEF Executed
<1>17. \A u \in Threads : /\ Ticketed(u)' <=> Ticketed(u)
                          /\ Command(u)' = Command(u)
                          /\ Written(u)' <=> Written(u)
  BY <1>5 DEF Ticketed, Written, Command
<1> DEFINE own1 == [own EXCEPT ![DT] = t]
           at1 == [at EXCEPT ![DT] = DH]
<1>18. /\ own1 \in [Nat -> Threads \cup {None}] /\ at1 \in [Nat -> Nat]
       /\ \A j \in Nat : j # DT => own1[j] = own[j] /\ at1[j] = at[j]
       /\ own1[DT] = t /\ at1[DT] = DH
  OBVIOUS
<1> HIDE DEF own1, at1
<1>19. Types'
  <2>1. cqe' \in [CqPos -> [cid : Cids, phase : {0, 1}, sqhd : Nat]]
    <3>1. SPos(DH) \in Nat /\ cid[t] \in Cids /\ SearchPhase(DT) \in {0, 1}
      BY SPosFacts, PhaseFacts DEF SqPos, CidInv, CidType
    <3>2. cqe'[CPos(DT)] \in [cid : Cids, phase : {0, 1}, sqhd : Nat]
      BY <3>1, <1>11
    <3>3. \A p \in CqPos : cqe'[p] \in [cid : Cids, phase : {0, 1}, sqhd : Nat]
      BY <3>2, <1>0, <1>11 DEF Types
    <3>4. cqe' = [p \in CqPos |-> cqe'[p]]
      BY <1>0, <1>2 DEF Types
    <3> QED BY <3>3, <3>4
  <2>2. executed' \in [Threads -> Nat]
    BY <1>0, <1>2, <1>3 DEF Types, Command
  <2> QED BY <2>1, <2>2, <1>0, <1>4, <1>5 DEF Types
<1>20. HistInv'
  <2> SUFFICES ASSUME NEW u \in Threads
               PROVE  /\ ~Ticketed(u)' => returned'[u] = issued'[u] /\ Executed(u)'
                      /\ Ticketed(u)' => returned'[u] + 1 = issued'[u] /\ executed'[u] \in {returned'[u], issued'[u]}
                      /\ pc'[u] \in {"lock", "head", "free", "store", "put"} => Executed(u)'
    BY DEF HistInv
  <2>1. CASE u = t
    BY <2>1, <1>3, <1>5, <1>14, <1>15, <1>16, <1>17
  <2>2. CASE u # t
    BY <2>2, <1>5, <1>14, <1>17 DEF QueueInv, HistInv
  <2> QED BY <2>1, <2>2
<1>21. RingInv(TL, F, DH)' /\ TicketInv(TL, DH)'
  BY <1>4, <1>5, <1>17 DEF QueueInv, RingInv, TicketInv
<1>22. PosInv(TL, F, cur, enq)' /\ TurnInv(cur, enq)'
  BY <1>4, <1>5, <1>17 DEF QueueInv, PosInv, TurnInv
<1>23. FetchInv(DH, DT1)'
  <2>0. \A u \in Threads : ticket[u] \in Nat /\ (Command(u) = Command(t) => u = t)
    BY <1>0 DEF Types, Command
  <2>1. \A u \in Threads : Written(u)' /\ DH <= ticket'[u] => sqe'[SPos(ticket'[u])] = Command(u)'
    BY <1>4, <1>5, <1>17 DEF QueueInv, FetchInv
  <2>2. \A u \in Threads : Ticketed(u)' /\ DH <= ticket'[u] => ~Executed(u)'
    <3> SUFFICES ASSUME NEW u \in Threads, Ticketed(u), DH <= ticket[u] PROVE ~Executed(u)'
      BY <1>5, <1>17
    <3>1. u # t /\ ~Executed(u)
      BY <2>0, <1>3 DEF QueueInv, FetchInv
    <3> QED BY <3>1, <1>14
  <2>3. ASSUME NEW u \in Threads, Ticketed(u), ticket[u] < DH, ~Executed(u)'
        PROVE  Command(u) \in fetched'
    <3>1. u # t /\ ~Executed(u)
      BY <2>3, <1>14, <1>16
    <3> QED BY <2>0, <2>3, <3>1, <1>2, <1>3 DEF QueueInv, FetchInv
  <2>4. ASSUME NEW e \in fetched'
        PROVE  \E u \in Threads : e = Command(u) /\ Ticketed(u) /\ ~Executed(u)' /\ ticket[u] < DH
    <3>1. PICK u \in Threads : e = Command(u) /\ Ticketed(u) /\ ~Executed(u) /\ ticket[u] < DH
      BY <2>4, <1>2 DEF QueueInv, FetchInv
    <3>2. u # t
      BY <2>4, <3>1, <1>2, <1>3
    <3> QED BY <3>1, <3>2, <1>14
  <2>5. IsFiniteSet(fetched) /\ DT + Cardinality(fetched) = DH
    BY DEF QueueInv, FetchInv
  <2>6. IsFiniteSet(fetched') /\ Cardinality(fetched') = Cardinality(fetched) - 1
    BY <2>5, <1>2, FS_RemoveElement
  <2>7. DT1 + Cardinality(fetched') = DH
    <3>1. PICK k \in Nat : k = Cardinality(fetched)
      BY <2>5, FS_CardinalityType
    <3> QED BY <3>1, <2>5, <2>6, <1>6
  <2> QED BY <2>1, <2>2, <2>3, <2>4, <2>6, <2>7, <1>5, <1>17 DEF FetchInv
<1>24. HeadInv(F, MH, SH, DT1)'
  <2>1. ASSUME NEW u \in Threads, pc[u] = "free"
        PROVE  cqe'[CPos(MH - 1)] = cqe[CPos(MH - 1)]
    <3>1. SH = head /\ moved[u] > 0 /\ MH = head + moved[u] /\ moved[u] \in Nat
      BY <2>1, <1>0 DEF QueueInv, HeadInv, Types
    <3>2. MH - 1 \in Nat /\ MH - 1 < DT /\ DT1 <= (MH - 1) + CQS
      BY <3>1, <1>7, <1>8, <1>10
    <3> QED BY <3>2, <1>11, <1>12
  <2>2. \A j \in Nat : MH <= j /\ j < MH + CQS /\ headMark[CPos(j)] => j < DT1
    BY <1>6 DEF QueueInv, HeadInv
  <2>3. ASSUME NEW u \in Threads, pc[u] \in {"free", "store"}
        PROVE  /\ headLock /\ MH = head + moved[u]
               /\ \A v \in Threads : pc[v] \in {"free", "store"} => v = u
               /\ pc[u] = "free" => SH = head /\ moved[u] > 0 /\ cqe'[CPos(MH - 1)].sqhd = SPos(F)
               /\ pc[u] = "store" => SH = MH /\ sqHead = F
    BY <2>1, <2>3 DEF QueueInv, HeadInv
  <2>4. ~headLock => head = MH /\ sqHead = F
    BY DEF QueueInv, HeadInv
  <2>5. MH <= DT1 /\ MH < head + CQS
    BY <1>6, <1>7 DEF QueueInv, HeadInv
  <2> QED BY <2>2, <2>3, <2>4, <2>5, <1>4, <1>5, <1>7, <1>9, <1>10 DEF HeadInv
<1>25. EntryInv(F, DH, MH, DT1, at1)'
  <2>1. ASSUME NEW j \in Nat, DT1 <= j, j < DT1 + CQS
        PROVE  cqe'[CPos(j)].phase # SearchPhase(j)
    <3>1. CASE j = DT + CQS
      <4>1. CPos(j) = CPos(DT)
        BY <3>1, CPosFacts
      <4>2. SearchPhase(j) = 1 - SearchPhase(DT) /\ SearchPhase(DT) \in {0, 1}
        BY <3>1, PhaseFacts
      <4> QED BY <4>1, <4>2, <1>11
    <3>2. CASE j # DT + CQS
      <4>1. DT < j /\ j < DT + CQS
        BY <2>1, <3>2, <1>6, <1>8
      <4>2. cqe[CPos(j)].phase # SearchPhase(j)
        BY <4>1 DEF QueueInv, EntryInv
      <4> QED BY <4>1, <4>2, <1>11, <1>13
    <3> QED BY <3>1, <3>2
  <2>2. ASSUME NEW j \in Nat, MH <= j, j < DT1
        PROVE  cqe'[CPos(j)].sqhd = SPos(at1[j]) /\ F <= at1[j] /\ at1[j] <= DH
    <3>1. CASE j = DT
      BY <3>1, <1>7, <1>11, <1>18
    <3>2. CASE j # DT
      <4>1. j < DT /\ DT1 <= j + CQS
        BY <2>2, <3>2, <1>6, <1>7, <1>8, <1>10
      <4>2. cqe[CPos(j)].sqhd = SPos(at[j]) /\ F <= at[j] /\ at[j] <= DH
        BY <2>2, <4>1 DEF QueueInv, EntryInv
      <4> QED BY <4>1, <4>2, <3>2, <1>11, <1>12, <1>18
    <3> QED BY <3>1, <3>2
  <2>3. ASSUME NEW j \in Nat, NEW k \in Nat, MH <= j, j <= k, k < DT1
        PROVE  at1[j] <= at1[k]
    <3>1. CASE k = DT
      BY <2>2, <2>3, <3>1, <1>18
    <3>2. CASE k # DT
      <4>1. k < DT /\ j < DT
        BY <2>3, <3>2, <1>6
      <4>2. at[j] <= at[k]
        BY <2>3, <4>1 DEF QueueInv, EntryInv
      <4> QED BY <4>1, <4>2, <1>18
    <3> QED BY <3>1, <3>2
  <2> QED BY <2>1, <2>2, <2>3 DEF EntryInv
<1>26. OwnInv(MH, DT1, own1)'
  <2>1. \A j \in Nat : Live(DT1, j)' <=> head <= j /\ j < DT1 /\ DT1 <= j + CQS
    BY <1>4 DEF Live
  <2>2. \A j \in Nat : Live(DT1, j)' /\ j # DT => Live(DT, j)
    BY <2>1, <1>6, <1>8 DEF Live
  <2>3. \A j \in Nat : Live(DT, j) => own[j] \in Threads /\ own[j] # t
    BY <1>3 DEF QueueInv, OwnInv
  <2>4. ~headMark[CPos(DT)]
    BY <1>7, <1>8 DEF QueueInv, HeadInv
  <2>5. ASSUME NEW j \in Nat, Live(DT1, j)'
        PROVE  /\ own1[j] \in Threads /\ Ticketed(own1[j]) /\ pc[own1[j]] # "put" /\ Executed(own1[j])'
               /\ cqe'[CPos(j)].cid = cid[own1[j]]
               /\ pc[own1[j]] \in {"head", "free", "store"} \/ (MH <= j /\ ~headMark[CPos(j)])
               /\ pc[own1[j]] \in {"lock", "head", "free", "store"} => loc[own1[j]] = j
    <3>1. CASE j = DT
      BY <3>1, <2>4, <1>3, <1>7, <1>11, <1>15, <1>16, <1>18
    <3>2. CASE j # DT
      <4>1. own1[j] = own[j] /\ own[j] \in Threads /\ own[j] # t /\ Live(DT, j)
        BY <2>2, <2>3, <2>5, <3>2, <1>18
      <4>2. cqe'[CPos(j)] = cqe[CPos(j)]
        BY <2>1, <2>5, <3>2, <1>6, <1>11, <1>12
      <4> QED BY <4>1, <4>2, <1>14 DEF QueueInv, OwnInv
    <3> QED BY <3>1, <3>2
  <2>6. ASSUME NEW j \in Nat, NEW k \in Nat, Live(DT1, j)', Live(DT1, k)', own1[j] = own1[k]
        PROVE  j = k
    BY <2>2, <2>3, <2>6, <1>18 DEF QueueInv, OwnInv
  <2>7. ASSUME NEW u \in Threads, Ticketed(u), Executed(u)', pc[u] \notin {"head", "free", "store", "put"}
        PROVE  \E j \in Nat : Live(DT1, j)' /\ own1[j] = u
    <3>1. CASE u = t
      <4>1. Live(DT1, DT)'
        BY <2>1, <1>6, <1>7, <1>8
      <4> QED BY <3>1, <4>1, <1>18
    <3>2. CASE u # t
      <4>1. PICK j \in Nat : Live(DT, j) /\ own[j] = u
        BY <2>7, <3>2, <1>14 DEF QueueInv, OwnInv
      <4>2. MH <= j
        BY <2>7, <4>1 DEF QueueInv, OwnInv
      <4>3. head <= j /\ j < DT
        BY <4>1 DEF Live
      <4>4. Live(DT1, j)' /\ j # DT
        BY <4>2, <4>3, <2>1, <1>6, <1>7, <1>8, <1>10
      <4> QED BY <4>1, <4>4, <1>18
    <3> QED BY <3>1, <3>2
  <2> QED BY <2>5, <2>6, <2>7, <1>4, <1>5, <1>17 DEF OwnInv
<1>27. PollInv(DT1)'
  <2>1. \A u \in Threads : hd[u] \in Nat /\ idx[u] \in Nat
    BY <1>0 DEF Types
  <2> QED BY <2>1, <1>4, <1>5, <1>6 DEF QueueInv, PollInv
<1>28. QueueInv(TL, F, DH, MH, SH, DT1, cur, enq, own1, at1)'
  BY <1>19, <1>20, <1>21, <1>22, <1>23, <1>24, <1>25, <1>26, <1>27 DEF QueueInv
<1> QED BY <1>18, <1>28

(***************************************************************************)
(* Steps of the completion side leave the submission side alone.           *)
(***************************************************************************)
LEMMA SqFrame ==
  ASSUME NEW TL \in Nat, NEW F \in Nat, NEW DH \in Nat, NEW DT \in Nat,
         NEW cur \in [SqPos -> Nat], NEW enq \in [SqPos -> BOOLEAN], NEW t \in Threads,
         RingInv(TL, F, DH), TicketInv(TL, DH), PosInv(TL, F, cur, enq), TurnInv(cur, enq), FetchInv(DH, DT),
         UNCHANGED <<inTicket, tickets, sqe, tailMark, tailLock, tail, sqHead, sqDb, devHead, fetched, ticket, cid,
                     issued, executed>>,
         \A u \in Threads : u # t => pc'[u] = pc[u] /\ moved'[u] = moved[u],
         pc[t] \notin {"idle", "ticket", "slot", "tail", "ring"},
         pc'[t] \notin {"idle", "ticket", "slot", "tail", "ring"}
  PROVE  RingInv(TL, F, DH)' /\ TicketInv(TL, DH)' /\ PosInv(TL, F, cur, enq)' /\ TurnInv(cur, enq)'
           /\ FetchInv(DH, DT)'
<1>1. \A u \in Threads : /\ Ticketed(u)' <=> Ticketed(u)
                         /\ Written(u)' <=> Written(u)
                         /\ Executed(u)' <=> Executed(u)
                         /\ Command(u)' = Command(u)
                         /\ pc'[u] \in {"slot", "tail", "ring"} => pc'[u] = pc[u] /\ moved'[u] = moved[u]
                         /\ pc[u] \in {"slot", "tail", "ring"} => pc'[u] = pc[u]
  BY DEF Ticketed, Written, Executed, Command
<1>2. RingInv(TL, F, DH)'
  BY <1>1 DEF RingInv
<1>3. TicketInv(TL, DH)'
  BY <1>1 DEF TicketInv
<1>4. PosInv(TL, F, cur, enq)'
  BY DEF PosInv
<1>5. TurnInv(cur, enq)'
  BY <1>1 DEF TurnInv
<1>6. FetchInv(DH, DT)'
  BY <1>1 DEF FetchInv
<1> QED BY <1>2, <1>3, <1>4, <1>5, <1>6

LEMMA OwnCqFrame ==
  ASSUME NEW MH \in Nat, NEW DT \in Nat, NEW own \in [Nat -> Threads \cup {None}], NEW t \in Threads,
         OwnInv(MH, DT, own), UNCHANGED <<cqe, headMark, head, loc, cid, executed, issued>>,
         \A u \in Threads : u # t => pc'[u] = pc[u],
         pc[t] \in {"poll", "scan", "lock", "head", "free", "store"},
         pc'[t] \in {"poll", "scan", "lock", "head", "free", "store"},
         pc'[t] \in {"head", "free", "store"} <=> pc[t] \in {"head", "free", "store"},
         pc'[t] = "lock" => pc[t] = "lock"
  PROVE  OwnInv(MH, DT, own)'
<1>1. \A j \in Nat : Live(DT, j)' <=> Live(DT, j)
  BY DEF Live
<1>2. \A u \in Threads : /\ Ticketed(u)' <=> Ticketed(u)
                         /\ Executed(u)' <=> Executed(u)
                         /\ pc'[u] = "put" <=> pc[u] = "put"
                         /\ pc'[u] \in {"head", "free", "store"} <=> pc[u] \in {"head", "free", "store"}
                         /\ pc'[u] = "lock" => pc[u] = "lock"
  BY DEF Ticketed, Executed
<1>3. ASSUME NEW j \in Nat, Live(DT, j)
      PROVE  /\ own[j] \in Threads /\ Ticketed(own[j])' /\ pc'[own[j]] # "put" /\ Executed(own[j])'
             /\ cqe[CPos(j)].cid = cid[own[j]]
             /\ pc'[own[j]] \in {"head", "free", "store"} \/ (MH <= j /\ ~headMark[CPos(j)])
             /\ pc'[own[j]] \in {"lock", "head", "free", "store"} => loc[own[j]] = j
  <2>1. /\ own[j] \in Threads /\ Ticketed(own[j]) /\ pc[own[j]] # "put" /\ Executed(own[j])
        /\ cqe[CPos(j)].cid = cid[own[j]]
        /\ pc[own[j]] \in {"head", "free", "store"} \/ (MH <= j /\ ~headMark[CPos(j)])
        /\ pc[own[j]] \in {"lock", "head", "free", "store"} => loc[own[j]] = j
    BY <1>3 DEF OwnInv
  <2> QED BY <2>1, <1>2
<1>4. \A j, k \in Nat : Live(DT, j) /\ Live(DT, k) /\ own[j] = own[k] => j = k
  BY DEF OwnInv
<1>5. ASSUME NEW u \in Threads, Ticketed(u)', Executed(u)', pc'[u] \notin {"head", "free", "store", "put"}
      PROVE  \E j \in Nat : Live(DT, j) /\ own[j] = u
  BY <1>5, <1>2 DEF OwnInv
<1> QED BY <1>1, <1>3, <1>4, <1>5 DEF OwnInv

LEMMA PollHeadStep ==
  ASSUME NEW TL \in Nat, NEW F \in Nat, NEW DH \in Nat, NEW MH \in Nat, NEW SH \in Nat, NEW DT \in Nat,
         NEW cur \in [SqPos -> Nat], NEW enq \in [SqPos -> BOOLEAN],
         NEW own \in [Nat -> Threads \cup {None}], NEW at \in [Nat -> Nat],
         CidInv, QueueInv(TL, F, DH, MH, SH, DT, cur, enq, own, at),
         NEW t \in Threads, PollHead(t)
  PROVE  QueueInv(TL, F, DH, MH, SH, DT, cur, enq, own, at)'
<1>0. Types
  BY DEF QueueInv
<1>1. /\ pc[t] = "poll" /\ pc'[t] = "scan"
      /\ \A u \in Threads : u # t => pc'[u] = pc[u]
      /\ UNCHANGED <<cidVars, sqVars, cqVars, devVars, cid, ticket, loc, moved, histVars, lapped>>
      /\ hd' = [hd EXCEPT ![t] = head] /\ idx' = [idx EXCEPT ![t] = 0]
  BY DEF PollHead, Goto, CidInv, CidType
<1>2. UNCHANGED <<inTicket, tickets, sqe, tailMark, tailLock, tail, sqHead, sqDb, devHead, fetched, ticket, cid,
                  issued, executed>>
  BY <1>1 DEF sqVars, devVars, histVars
<1>3. UNCHANGED <<cqe, headMark, headLock, head, cqDb, devTail, loc, moved, returned>>
  BY <1>1 DEF cqVars, devVars, histVars
<1>4. \A u \in Threads : /\ Ticketed(u)' <=> Ticketed(u)
                         /\ Executed(u)' <=> Executed(u)
                         /\ \A S \in SUBSET {"lock", "head", "free", "store", "put"} : pc'[u] \in S <=> pc[u] \in S
  BY <1>1, <1>2 DEF Ticketed, Executed
<1>5. Types'
  <2>1. hd' \in [Threads -> Nat] /\ idx' \in [Threads -> Nat]
    BY <1>0, <1>1 DEF Types
  <2> QED BY <2>1, <1>0, <1>2, <1>3 DEF Types
<1>6. HistInv'
  BY <1>1, <1>2, <1>3, <1>4 DEF QueueInv, HistInv
<1>7. RingInv(TL, F, DH)' /\ TicketInv(TL, DH)' /\ PosInv(TL, F, cur, enq)' /\ TurnInv(cur, enq)'
        /\ FetchInv(DH, DT)'
  BY <1>1, <1>2, <1>3, SqFrame DEF QueueInv
<1>8. HeadInv(F, MH, SH, DT)'
  BY <1>1, <1>2, <1>3 DEF QueueInv, HeadInv
<1>9. EntryInv(F, DH, MH, DT, at)'
  BY <1>3 DEF QueueInv, EntryInv
<1>10. OwnInv(MH, DT, own)'
  BY <1>1, <1>2, <1>3, OwnCqFrame DEF QueueInv
<1>11. PollInv(DT)'
  <2>1. head <= DT /\ head \in Nat /\ CQS \in Nat /\ CQS > 1
    BY <1>0, CPosFacts DEF QueueInv, HeadInv, Types
  <2>2. \A u \in Threads : u # t => hd'[u] = hd[u] /\ idx'[u] = idx[u]
    BY <1>0, <1>1 DEF Types
  <2>3. hd'[t] = head /\ idx'[t] = 0
    BY <1>0, <1>1 DEF Types
  <2> QED BY <2>1, <2>2, <2>3, <1>1, <1>3 DEF QueueInv, PollInv
<1> QED BY <1>5, <1>6, <1>7, <1>8, <1>9, <1>10, <1>11 DEF QueueInv

(* An entry with the phase of its place is the entry of that place, if the *)
(* head has not passed it.                                                 *)
LEMMA EntryAtPlace ==
  ASSUME NEW TL \in Nat, NEW F \in Nat, NEW DH \in Nat, NEW MH \in Nat, NEW SH \in Nat, NEW DT \in Nat,
         NEW cur \in [SqPos -> Nat], NEW enq \in [SqPos -> BOOLEAN],
         NEW own \in [Nat -> Threads \cup {None}], NEW at \in [Nat -> Nat],
         CidInv, QueueInv(TL, F, DH, MH, SH, DT, cur, enq, own, at),
         NEW h \in Nat, head <= h, h < DT, cqe[CPos(h)].phase = SearchPhase(h)
  PROVE  Live(DT, h)
<1> SUFFICES ASSUME h + CQS < DT PROVE FALSE
  BY CPosFacts DEF Live
<1>1. CQS \in Nat /\ CQS > 1 /\ head \in Nat /\ SH <= MH /\ DT < SH + CQS /\ MH < head + CQS
  BY CPosFacts DEF QueueInv, HeadInv, Types
<1>2. PICK j \in Nat, k \in Nat : j = h + CQS /\ k = j + CQS
  BY <1>1
<1>3. DT <= k /\ k < DT + CQS
  BY <1>1, <1>2
<1>4. cqe[CPos(k)].phase # SearchPhase(k)
  BY <1>3 DEF QueueInv, EntryInv
<1>5. CPos(k) = CPos(j) /\ CPos(j) = CPos(h)
  BY <1>2, CPosFacts
<1>6. SearchPhase(k) = 1 - SearchPhase(j) /\ SearchPhase(j) = 1 - SearchPhase(h) /\ SearchPhase(h) \in {0, 1}
  BY <1>2, PhaseFacts
<1> QED BY <1>4, <1>5, <1>6

LEMMA ScanStep ==
  ASSUME NEW TL \in Nat, NEW F \in Nat, NEW DH \in Nat, NEW MH \in Nat, NEW SH \in Nat, NEW DT \in Nat,
         NEW cur \in [SqPos -> Nat], NEW enq \in [SqPos -> BOOLEAN],
         NEW own \in [Nat -> Threads \cup {None}], NEW at \in [Nat -> Nat],
         CidInv, QueueInv(TL, F, DH, MH, SH, DT, cur, enq, own, at),
         NEW t \in Threads, Scan(t), ~lapped'
  PROVE  QueueInv(TL, F, DH, MH, SH, DT, cur, enq, own, at)'
<1>0. Types
  BY DEF QueueInv
<1>1. /\ hd[t] \in Nat /\ idx[t] \in Nat /\ head \in Nat /\ hd[t] <= head /\ hd[t] + idx[t] <= DT
      /\ idx[t] + 1 < CQS /\ pc[t] = "scan"
  BY <1>0 DEF QueueInv, PollInv, Types, Scan
<1>2. DT <= DH /\ DH < Word /\ head <= DT /\ Word \in Nat
  <2>1. IsFiniteSet(fetched) /\ DT + Cardinality(fetched) = DH
    BY DEF QueueInv, FetchInv
  <2>2. PICK k \in Nat : k = Cardinality(fetched)
    BY <2>1, FS_CardinalityType
  <2>3. DH < Word /\ Word \in Nat
    BY <1>0, SizesAssumption DEF QueueInv, RingInv, Types
  <2>4. head <= DT
    BY <1>1 DEF QueueInv, HeadInv
  <2> QED BY <2>1, <2>2, <2>3, <2>4
<1>3. PICK h \in Nat : h = hd[t] + idx[t]
  BY <1>1
<1>4. Add(hd[t], idx[t]) = h
  BY <1>1, <1>2, <1>3 DEF Add
<1>5. /\ pc' = [pc EXCEPT ![t] = Scanned(t, h)]
      /\ idx' = [idx EXCEPT ![t] = IF Scanned(t, h) = "scan" THEN idx[t] + 1 ELSE 0]
      /\ loc' = [loc EXCEPT ![t] = IF Scanned(t, h) = "lock" THEN h ELSE loc[t]]
      /\ ~(Scanned(t, h) = "lock" /\ (head - hd[t]) % Word > idx[t])
      /\ UNCHANGED <<cidVars, sqVars, cqVars, devVars, cid, ticket, hd, moved, histVars>>
  BY <1>4 DEF Scan, Goto
<1>6. UNCHANGED <<inTicket, tickets, sqe, tailMark, tailLock, tail, sqHead, sqDb, devHead, fetched, ticket, cid,
                  issued, executed>>
  BY <1>5 DEF sqVars, devVars, histVars
<1>7. UNCHANGED <<cqe, headMark, headLock, head, cqDb, devTail, hd, moved, returned>>
  BY <1>5 DEF cqVars, devVars, histVars
<1>8. Scanned(t, h) \in {"poll", "scan", "lock"}
  BY DEF Scanned
<1>9. /\ \A u \in Threads : u # t => pc'[u] = pc[u] /\ loc'[u] = loc[u] /\ idx'[u] = idx[u]
      /\ pc'[t] = Scanned(t, h)
      /\ idx'[t] = (IF Scanned(t, h) = "scan" THEN idx[t] + 1 ELSE 0)
      /\ Scanned(t, h) = "lock" => loc'[t] = h
  BY <1>0, <1>5 DEF CidInv, CidType, Types
<1>10. Scanned(t, h) # "poll" => cqe[CPos(h)].phase = SearchPhase(h)
  BY DEF Scanned, CPos
<1>11. Scanned(t, h) # "poll" => h < DT
  <2>1. h <= DT /\ CQS \in Nat /\ CQS > 1
    BY <1>1, <1>3, CPosFacts
  <2>2. h = DT => cqe[CPos(h)].phase # SearchPhase(h)
    BY <2>1 DEF QueueInv, EntryInv
  <2> QED BY <2>1, <2>2, <1>10
<1>12. Scanned(t, h) = "lock" => Live(DT, h) /\ own[h] = t /\ Executed(t) /\ MH <= h /\ ~headMark[CPos(h)]
  <2> SUFFICES ASSUME Scanned(t, h) = "lock"
               PROVE  Live(DT, h) /\ own[h] = t /\ Executed(t) /\ MH <= h /\ ~headMark[CPos(h)]
    OBVIOUS
  <2>1. (head - hd[t]) % Word = head - hd[t]
    BY <1>1, <1>2
  <2>2. head <= h
    BY <2>1, <1>1, <1>3, <1>5
  <2>3. Live(DT, h)
    BY <2>2, <1>10, <1>11, EntryAtPlace
  <2>4. /\ own[h] \in Threads /\ Ticketed(own[h]) /\ cqe[CPos(h)].cid = cid[own[h]]
        /\ Executed(own[h]) /\ (pc[own[h]] \in {"head", "free", "store"} \/ (MH <= h /\ ~headMark[CPos(h)]))
    BY <2>3 DEF QueueInv, OwnInv
  <2>5. cqe[CPos(h)].cid = cid[t]
    BY DEF Scanned, CPos
  <2>6. own[h] = t
    BY <2>4, <2>5, <1>1 DEF CidInv, CidsDistinct, Ticketed
  <2> QED BY <2>3, <2>4, <2>6, <1>1
<1>13. \A u \in Threads : /\ Ticketed(u)' <=> Ticketed(u)
                          /\ Executed(u)' <=> Executed(u)
                          /\ pc'[u] \in {"head", "free", "store", "put"} <=> pc[u] \in {"head", "free", "store", "put"}
  BY <1>1, <1>6, <1>8, <1>9 DEF Ticketed, Executed
<1>14. Types'
  <2>1. loc' \in [Threads -> Nat] /\ idx' \in [Threads -> Nat]
    BY <1>0, <1>5 DEF Types
  <2> QED BY <2>1, <1>0, <1>6, <1>7 DEF Types
<1>15. HistInv'
  <2> SUFFICES ASSUME NEW u \in Threads
               PROVE  /\ ~Ticketed(u)' => returned'[u] = issued'[u] /\ Executed(u)'
                      /\ Ticketed(u)' => returned'[u] + 1 = issued'[u] /\ executed'[u] \in {returned'[u], issued'[u]}
                      /\ pc'[u] \in {"lock", "head", "free", "store", "put"} => Executed(u)'
    BY DEF HistInv
  <2>1. pc'[u] \in {"lock", "head", "free", "store", "put"} => Executed(u)'
    BY <1>8, <1>9, <1>12, <1>13 DEF QueueInv, HistInv
  <2> QED BY <2>1, <1>6, <1>7, <1>13 DEF QueueInv, HistInv
<1>16. RingInv(TL, F, DH)' /\ TicketInv(TL, DH)' /\ PosInv(TL, F, cur, enq)' /\ TurnInv(cur, enq)'
        /\ FetchInv(DH, DT)'
  BY <1>1, <1>6, <1>7, <1>8, <1>9, SqFrame DEF QueueInv
<1>17. HeadInv(F, MH, SH, DT)'
  <2>1. \A u \in Threads : /\ pc'[u] \in {"free", "store"} <=> pc[u] \in {"free", "store"}
                           /\ pc'[u] \in {"free", "store"} => pc'[u] = pc[u]
    BY <1>1, <1>8, <1>9
  <2> QED BY <2>1, <1>6, <1>7 DEF QueueInv, HeadInv
<1>18. EntryInv(F, DH, MH, DT, at)'
  BY <1>7 DEF QueueInv, EntryInv
<1>19. OwnInv(MH, DT, own)'
  <2>1. \A j \in Nat : Live(DT, j)' <=> Live(DT, j)
    BY <1>7 DEF Live
  <2>2. ASSUME NEW j \in Nat, Live(DT, j)
        PROVE  /\ own[j] \in Threads /\ Ticketed(own[j])' /\ pc'[own[j]] # "put" /\ Executed(own[j])'
               /\ cqe[CPos(j)].cid = cid[own[j]]
               /\ pc'[own[j]] \in {"head", "free", "store"} \/ (MH <= j /\ ~headMark[CPos(j)])
               /\ pc'[own[j]] \in {"lock", "head", "free", "store"} => loc'[own[j]] = j
    <3>1. /\ own[j] \in Threads /\ Ticketed(own[j]) /\ pc[own[j]] # "put" /\ Executed(own[j])
          /\ cqe[CPos(j)].cid = cid[own[j]]
          /\ pc[own[j]] \in {"head", "free", "store"} \/ (MH <= j /\ ~headMark[CPos(j)])
          /\ pc[own[j]] \in {"lock", "head", "free", "store"} => loc[own[j]] = j
      BY <2>2 DEF QueueInv, OwnInv
    <3>2. CASE own[j] # t
      BY <3>1, <3>2, <1>9, <1>13
    <3>3. CASE own[j] = t
      <4>1. Scanned(t, h) = "lock" => j = h
        BY <2>2, <3>3, <1>12 DEF QueueInv, OwnInv
      <4>2. pc'[t] # "put" /\ pc'[t] \notin {"head", "free", "store"}
        BY <1>8, <1>9
      <4>3. pc'[t] = "lock" => loc'[t] = j
        BY <4>1, <1>9
      <4> QED BY <3>1, <3>3, <4>2, <4>3, <1>1, <1>13
    <3> QED BY <3>2, <3>3
  <2>3. \A j, k \in Nat : Live(DT, j) /\ Live(DT, k) /\ own[j] = own[k] => j = k
    BY DEF QueueInv, OwnInv
  <2>4. ASSUME NEW u \in Threads, Ticketed(u)', Executed(u)', pc'[u] \notin {"head", "free", "store", "put"}
        PROVE  \E j \in Nat : Live(DT, j) /\ own[j] = u
    BY <2>4, <1>13 DEF QueueInv, OwnInv
  <2> QED BY <2>1, <2>2, <2>3, <2>4, <1>6, <1>7 DEF OwnInv
<1>20. PollInv(DT)'
  <2> SUFFICES ASSUME NEW u \in Threads
               PROVE  /\ pc'[u] \in {"scan", "lock", "head", "free", "store"} => hd[u] <= head
                      /\ pc'[u] = "scan" => hd[u] + idx'[u] <= DT /\ idx'[u] + 1 < CQS
    BY <1>7 DEF PollInv
  <2>1. CASE u # t
    BY <2>1, <1>9 DEF QueueInv, PollInv
  <2>2. CASE u = t
    <3>1. hd[t] <= head
      BY <1>1
    <3>2. Scanned(t, h) = "scan" => idx[t] + 1 # CQS - 1
      BY DEF Scanned
    <3>3. Scanned(t, h) = "scan" => hd[t] + (idx[t] + 1) <= DT /\ (idx[t] + 1) + 1 < CQS
      <4>1. PICK i \in Nat, a \in Nat : i = idx[t] /\ a = hd[t]
        BY <1>1
      <4>2. CQS \in Nat
        BY CPosFacts
      <4>3. Scanned(t, h) = "scan" => h < DT
        BY <1>11
      <4> QED BY <3>2, <4>1, <4>2, <4>3, <1>1, <1>3
    <3> QED BY <2>2, <3>1, <3>3, <1>9
  <2> QED BY <2>1, <2>2
<1> QED BY <1>14, <1>15, <1>16, <1>17, <1>18, <1>19, <1>20 DEF QueueInv

(* cq_dequeue marks the entry that cq_poll has found.                      *)
LEMMA LockPosStep ==
  ASSUME NEW TL \in Nat, NEW F \in Nat, NEW DH \in Nat, NEW MH \in Nat, NEW SH \in Nat, NEW DT \in Nat,
         NEW cur \in [SqPos -> Nat], NEW enq \in [SqPos -> BOOLEAN],
         NEW own \in [Nat -> Threads \cup {None}], NEW at \in [Nat -> Nat],
         CidInv, QueueInv(TL, F, DH, MH, SH, DT, cur, enq, own, at),
         NEW t \in Threads, LockPos(t)
  PROVE  QueueInv(TL, F, DH, MH, SH, DT, cur, enq, own, at)'
<1>0. Types
  BY DEF QueueInv
<1>1. /\ pc[t] = "lock" /\ pc'[t] = "head"
      /\ \A u \in Threads : u # t => pc'[u] = pc[u]
      /\ UNCHANGED <<cidVars, sqVars, cqe, headLock, head, cqDb, devVars, cid, ticket, pollVars, moved, histVars>>
      /\ headMark' = [headMark EXCEPT ![CPos(loc[t])] = TRUE]
  BY DEF LockPos, Goto, CidInv, CidType, CPos
<1>2. UNCHANGED <<inTicket, tickets, sqe, tailMark, tailLock, tail, sqHead, sqDb, devHead, fetched, ticket, cid,
                  issued, executed>>
  BY <1>1 DEF sqVars, devVars, histVars
<1>3. UNCHANGED <<cqe, headLock, head, cqDb, devTail, hd, idx, loc, moved, returned>>
  BY <1>1 DEF pollVars, devVars, histVars
<1>4. PICK j \in Nat : Live(DT, j) /\ own[j] = t
  <2>1. Ticketed(t) /\ Executed(t)
    BY <1>1 DEF QueueInv, HistInv, Ticketed
  <2> QED BY <2>1, <1>1 DEF QueueInv, OwnInv
<1>5. loc[t] = j /\ MH <= j /\ j < DT
  <2>1. /\ pc[own[j]] \in {"head", "free", "store"} \/ (MH <= j /\ ~headMark[CPos(j)])
        /\ pc[own[j]] \in {"lock", "head", "free", "store"} => loc[own[j]] = j
    BY <1>4 DEF QueueInv, OwnInv
  <2> QED BY <2>1, <1>1, <1>4 DEF Live
<1>6. CQS \in Nat /\ DT < MH + CQS
  <2>1. CQS \in Nat /\ SH <= MH /\ DT < SH + CQS
    BY CPosFacts DEF QueueInv, HeadInv
  <2> QED BY <2>1
<1>7. \A k \in Nat : MH <= k /\ k < MH + CQS /\ CPos(k) = CPos(j) => k = j
  <2> SUFFICES ASSUME NEW k \in Nat, MH <= k, k < MH + CQS, CPos(k) = CPos(j) PROVE k = j
    OBVIOUS
  <2>1. ~(k < j) \/ k + CQS <= j
    BY CPosFacts
  <2>2. ~(j < k) \/ j + CQS <= k
    BY CPosFacts
  <2> QED BY <2>1, <2>2, <1>5, <1>6
<1>8. /\ headMark' \in [CqPos -> BOOLEAN]
      /\ \A k \in Nat : CPos(k) # CPos(j) => (headMark'[CPos(k)] <=> headMark[CPos(k)])
  <2>1. CPos(j) \in CqPos /\ \A k \in Nat : CPos(k) \in CqPos
    BY CPosFacts
  <2> QED BY <2>1, <1>0, <1>1, <1>5 DEF Types
<1>9. \A u \in Threads : /\ Ticketed(u)' <=> Ticketed(u)
                         /\ Executed(u)' <=> Executed(u)
                         /\ pc'[u] = "put" <=> pc[u] = "put"
                         /\ pc'[u] \in {"free", "store"} <=> pc[u] \in {"free", "store"}
                         /\ pc'[u] \in {"free", "store"} => pc'[u] = pc[u]
  BY <1>1, <1>2 DEF Ticketed, Executed
<1>10. Types'
  BY <1>0, <1>2, <1>3, <1>8 DEF Types
<1>11. HistInv'
  BY <1>1, <1>2, <1>3, <1>9 DEF QueueInv, HistInv
<1>12. RingInv(TL, F, DH)' /\ TicketInv(TL, DH)' /\ PosInv(TL, F, cur, enq)' /\ TurnInv(cur, enq)'
        /\ FetchInv(DH, DT)'
  BY <1>1, <1>2, <1>3, SqFrame DEF QueueInv
<1>13. HeadInv(F, MH, SH, DT)'
  <2>1. \A k \in Nat : MH <= k /\ k < MH + CQS /\ headMark'[CPos(k)] => k < DT
    <3> SUFFICES ASSUME NEW k \in Nat, MH <= k, k < MH + CQS, headMark'[CPos(k)] PROVE k < DT
      OBVIOUS
    <3>1. CASE CPos(k) = CPos(j)
      BY <3>1, <1>5, <1>7
    <3>2. CASE CPos(k) # CPos(j)
      BY <3>2, <1>8 DEF QueueInv, HeadInv
    <3> QED BY <3>1, <3>2
  <2> QED BY <2>1, <1>2, <1>3, <1>9 DEF QueueInv, HeadInv
<1>14. EntryInv(F, DH, MH, DT, at)'
  BY <1>3 DEF QueueInv, EntryInv
<1>15. OwnInv(MH, DT, own)'
  <2>1. \A k \in Nat : Live(DT, k)' <=> Live(DT, k)
    BY <1>3 DEF Live
  <2>2. ASSUME NEW k \in Nat, Live(DT, k)
        PROVE  /\ own[k] \in Threads /\ Ticketed(own[k])' /\ pc'[own[k]] # "put" /\ Executed(own[k])'
               /\ cqe[CPos(k)].cid = cid[own[k]]
               /\ pc'[own[k]] \in {"head", "free", "store"} \/ (MH <= k /\ ~headMark'[CPos(k)])
               /\ pc'[own[k]] \in {"lock", "head", "free", "store"} => loc[own[k]] = k
    <3>1. /\ own[k] \in Threads /\ Ticketed(own[k]) /\ pc[own[k]] # "put" /\ Executed(own[k])
          /\ cqe[CPos(k)].cid = cid[own[k]]
          /\ pc[own[k]] \in {"head", "free", "store"} \/ (MH <= k /\ ~headMark[CPos(k)])
          /\ pc[own[k]] \in {"lock", "head", "free", "store"} => loc[own[k]] = k
      BY <2>2 DEF QueueInv, OwnInv
    <3>2. CASE own[k] = t
      <4>1. k = j
        BY <2>2, <3>2, <1>4 DEF QueueInv, OwnInv
      <4> QED BY <4>1, <3>1, <3>2, <1>1, <1>5, <1>9
    <3>3. CASE own[k] # t
      <4>1. pc'[own[k]] = pc[own[k]]
        BY <3>1, <3>3, <1>1
      <4>2. MH <= k => CPos(k) # CPos(j)
        <5>1. k # j /\ k < DT
          BY <3>3, <2>2, <1>4 DEF Live
        <5>2. MH <= k => k < MH + CQS
          BY <5>1, <1>6
        <5> QED BY <5>1, <5>2, <1>7
      <4>3. MH <= k => (headMark'[CPos(k)] <=> headMark[CPos(k)])
        BY <4>2, <1>8
      <4> QED BY <3>1, <4>1, <4>3, <1>9
    <3> QED BY <3>2, <3>3
  <2>3. \A i, k \in Nat : Live(DT, i) /\ Live(DT, k) /\ own[i] = own[k] => i = k
    BY DEF QueueInv, OwnInv
  <2>4. ASSUME NEW u \in Threads, Ticketed(u)', Executed(u)', pc'[u] \notin {"head", "free", "store", "put"}
        PROVE  \E i \in Nat : Live(DT, i) /\ own[i] = u
    <3>1. u # t /\ pc'[u] = pc[u]
      BY <2>4, <1>1
    <3> QED BY <2>4, <3>1, <1>9 DEF QueueInv, OwnInv
  <2> QED BY <2>1, <2>2, <2>3, <2>4, <1>2, <1>3 DEF OwnInv
<1>16. PollInv(DT)'
  BY <1>1, <1>3 DEF QueueInv, PollInv
<1> QED BY <1>10, <1>11, <1>12, <1>13, <1>14, <1>15, <1>16 DEF QueueInv

LEMMA RingHeadStep ==
  ASSUME NEW TL \in Nat, NEW F \in Nat, NEW DH \in Nat, NEW MH \in Nat, NEW SH \in Nat, NEW DT \in Nat,
         NEW cur \in [SqPos -> Nat], NEW enq \in [SqPos -> BOOLEAN],
         NEW own \in [Nat -> Threads \cup {None}], NEW at \in [Nat -> Nat],
         CidInv, QueueInv(TL, F, DH, MH, SH, DT, cur, enq, own, at),
         NEW t \in Threads, RingHead(t)
  PROVE  QueueInv(TL, F, DH, MH, MH, DT, cur, enq, own, at)'
<1>0. Types
  BY DEF QueueInv
<1>1. /\ pc[t] = "free" /\ pc'[t] = "store"
      /\ \A u \in Threads : u # t => pc'[u] = pc[u]
      /\ UNCHANGED <<cidVars, inTicket, tickets, sqe, tailMark, tailLock, tail, sqDb, cqe, headMark, headLock, head,
                     devVars, cid, ticket, pollVars, moved, histVars>>
      /\ sqHead' = Add(sqHead, (cqe[(head + moved[t] - 1) % CQS].sqhd - sqHead) % SQS)
      /\ cqDb' = CPos(head + moved[t])
  BY DEF RingHead, Goto, CidInv, CidType, CPos
<1>2. UNCHANGED <<inTicket, tickets, sqe, tailMark, tailLock, tail, sqDb, devHead, fetched, ticket, cid,
                  issued, executed>>
  BY <1>1 DEF devVars, histVars
<1>3. UNCHANGED <<cqe, headMark, headLock, head, devTail, hd, idx, loc, moved, returned>>
  BY <1>1 DEF pollVars, devVars, histVars
<1>4. /\ headLock /\ MH = head + moved[t] /\ SH = head /\ moved[t] > 0 /\ cqe[CPos(MH - 1)].sqhd = SPos(F)
      /\ \A u \in Threads : pc[u] \in {"free", "store"} => u = t
  BY <1>1 DEF QueueInv, HeadInv
<1>5. /\ sqHead <= F /\ F <= DH /\ DH <= tail /\ tail <= TL /\ TL <= inTicket /\ TL < sqHead + SQS
      /\ sqHead \in Nat /\ inTicket \in Nat /\ inTicket < Word /\ tail \in Nat /\ SQS \in Nat /\ Word \in Nat
  BY <1>0, SPosFacts, SizesAssumption DEF QueueInv, RingInv, Types
<1>6. sqHead' = F
  <2>1. sqHead' = Add(sqHead, (SPos(F) - sqHead) % SQS)
    <3>0. head + moved[t] - 1 = MH - 1
      BY <1>0, <1>4 DEF Types
    <3>1. (head + moved[t] - 1) % CQS = CPos(MH - 1)
      BY <3>0, Zenon DEF CPos
    <3> QED BY <3>1, <1>1, <1>4, Zenon
  <2>2. F < sqHead + SQS
    BY <1>5
  <2>3. (SPos(F) - sqHead) % SQS = F - sqHead
    <3>1. \A a, x \in Nat : (a <= x /\ x < a + SQS) => (SPos(x) - a) % SQS = x - a
      BY SPosFacts
    <3>2. sqHead \in Nat /\ sqHead <= F
      BY <1>5
    <3> QED BY <2>2, <3>1, <3>2, Zenon
  <2>4. sqHead' = Add(sqHead, F - sqHead)
    BY <2>1, <2>3, Zenon
  <2>5. F < Word
    BY <1>5
  <2> QED BY <2>4, <2>5, <1>5 DEF Add
<1>7. \A u \in Threads : /\ Ticketed(u)' <=> Ticketed(u)
                         /\ Executed(u)' <=> Executed(u)
                         /\ Written(u)' <=> Written(u)
                         /\ Command(u)' = Command(u)
                         /\ pc'[u] \in {"slot", "tail", "ring"} <=> pc[u] \in {"slot", "tail", "ring"}
                         /\ pc[u] \in {"slot", "tail", "ring"} => pc'[u] = pc[u]
  BY <1>1, <1>2 DEF Ticketed, Executed, Written, Command
<1>8. Types'
  BY <1>0, <1>2, <1>3, <1>6 DEF Types
<1>9. HistInv'
  BY <1>1, <1>2, <1>3, <1>7 DEF QueueInv, HistInv
<1>10. RingInv(TL, F, DH)'
  <2>1. TL < F + SQS
    BY <1>5
  <2> QED BY <2>1, <1>1, <1>2, <1>3, <1>6 DEF QueueInv, RingInv
<1>11. TicketInv(TL, DH)' /\ PosInv(TL, F, cur, enq)' /\ FetchInv(DH, DT)'
  <2>1. TicketInv(TL, DH)'
    BY <1>1, <1>2, <1>7 DEF QueueInv, TicketInv
  <2>2. PosInv(TL, F, cur, enq)'
    BY <1>2 DEF QueueInv, PosInv
  <2>3. FetchInv(DH, DT)'
    BY <1>2, <1>7 DEF QueueInv, FetchInv
  <2> QED BY <2>1, <2>2, <2>3
<1>12. TurnInv(cur, enq)'
  BY <1>2, <1>7 DEF QueueInv, TurnInv
<1>13. HeadInv(F, MH, MH, DT)'
  <2>1. /\ head <= MH /\ MH <= DT /\ DT < MH + CQS /\ MH < head + CQS /\ devTail = DPos(DT)
        /\ \A j \in Nat : MH <= j /\ j < MH + CQS /\ headMark[CPos(j)] => j < DT
    <3>1. SH <= MH /\ MH <= DT /\ DT < SH + CQS /\ MH < head + CQS /\ head <= SH /\ CQS \in Nat /\ head \in Nat
      BY <1>0, CPosFacts DEF QueueInv, HeadInv, Types
    <3>2. DT < MH + CQS /\ head <= MH
      BY <3>1
    <3> QED BY <3>1, <3>2 DEF QueueInv, HeadInv
  <2>2. \A u \in Threads : pc'[u] \in {"free", "store"} => u = t
    BY <1>1, <1>4
  <2>3. MH <= MH
    OBVIOUS
  <2> QED BY <2>1, <2>2, <2>3, <1>1, <1>3, <1>4, <1>6 DEF HeadInv
<1>14. EntryInv(F, DH, MH, DT, at)'
  BY <1>3 DEF QueueInv, EntryInv
<1>15. OwnInv(MH, DT, own)'
  BY <1>1, <1>2, <1>3, OwnCqFrame DEF QueueInv
<1>16. PollInv(DT)'
  BY <1>1, <1>3 DEF QueueInv, PollInv
<1> QED BY <1>8, <1>9, <1>10, <1>11, <1>12, <1>13, <1>14, <1>15, <1>16 DEF QueueInv

LEMMA StoreHeadStep ==
  ASSUME NEW TL \in Nat, NEW F \in Nat, NEW DH \in Nat, NEW MH \in Nat, NEW SH \in Nat, NEW DT \in Nat,
         NEW cur \in [SqPos -> Nat], NEW enq \in [SqPos -> BOOLEAN],
         NEW own \in [Nat -> Threads \cup {None}], NEW at \in [Nat -> Nat],
         CidInv, QueueInv(TL, F, DH, MH, SH, DT, cur, enq, own, at),
         NEW t \in Threads, StoreHead(t)
  PROVE  QueueInv(TL, F, DH, MH, SH, DT, cur, enq, own, at)'
<1>0. Types
  BY DEF QueueInv
<1>1. /\ pc[t] = "store" /\ pc'[t] = "head"
      /\ \A u \in Threads : u # t => pc'[u] = pc[u]
      /\ UNCHANGED <<cidVars, sqVars, cqe, headMark, cqDb, devVars, cid, ticket, pollVars, histVars>>
      /\ head' = Add(head, moved[t]) /\ headLock' = FALSE
      /\ moved' = [moved EXCEPT ![t] = 0]
  BY DEF StoreHead, Goto, CidInv, CidType
<1>2. UNCHANGED <<inTicket, tickets, sqe, tailMark, tailLock, tail, sqHead, sqDb, devHead, fetched, ticket, cid,
                  issued, executed>>
  BY <1>1 DEF sqVars, devVars, histVars
<1>3. UNCHANGED <<cqe, headMark, cqDb, devTail, hd, idx, loc, returned>>
  BY <1>1 DEF pollVars, devVars, histVars
<1>4. /\ MH = head + moved[t] /\ SH = MH /\ sqHead = F
      /\ \A u \in Threads : pc[u] \in {"free", "store"} => u = t
  BY <1>1 DEF QueueInv, HeadInv
<1>5. head \in Nat /\ head <= MH /\ MH <= DT /\ DT < SH + CQS /\ CQS \in Nat /\ CQS > 1
  <2>1. head \in Nat /\ head <= SH /\ SH <= MH
    BY <1>0 DEF QueueInv, HeadInv, Types
  <2>2. head <= MH
    BY <2>1
  <2> QED BY <2>1, <2>2, CPosFacts DEF QueueInv, HeadInv
<1>6. head' = MH
  <2>1. IsFiniteSet(fetched) /\ DT + Cardinality(fetched) = DH
    BY DEF QueueInv, FetchInv
  <2>2. PICK k \in Nat : k = Cardinality(fetched)
    BY <2>1, FS_CardinalityType
  <2>3. DH < Word /\ Word \in Nat
    BY <1>0, SizesAssumption DEF QueueInv, RingInv, Types
  <2>4. MH < Word
    BY <1>5, <2>1, <2>2, <2>3
  <2> QED BY <1>1, <1>4, <2>3, <2>4 DEF Add
<1>7. \A u \in Threads : /\ Ticketed(u)' <=> Ticketed(u)
                         /\ Executed(u)' <=> Executed(u)
                         /\ pc'[u] = "put" <=> pc[u] = "put"
                         /\ pc'[u] = "lock" <=> pc[u] = "lock"
                         /\ pc'[u] \in {"head", "free", "store"} <=> pc[u] \in {"head", "free", "store"}
                         /\ u # t => moved'[u] = moved[u]
                         /\ pc'[u] \notin {"free", "store"}
  <2>1. \A u \in Threads : u # t => moved'[u] = moved[u]
    BY <1>0, <1>1 DEF Types
  <2> QED BY <2>1, <1>1, <1>2, <1>4 DEF Ticketed, Executed
<1>8. Types'
  <2>1. moved' \in [Threads -> Nat]
    BY <1>0, <1>1 DEF Types
  <2> QED BY <2>1, <1>0, <1>1, <1>2, <1>3, <1>6 DEF Types
<1>9. HistInv'
  BY <1>1, <1>2, <1>3, <1>7 DEF QueueInv, HistInv
<1>10. RingInv(TL, F, DH)' /\ TicketInv(TL, DH)' /\ PosInv(TL, F, cur, enq)' /\ TurnInv(cur, enq)'
        /\ FetchInv(DH, DT)'
  BY <1>1, <1>2, <1>7, SqFrame DEF QueueInv
<1>11. HeadInv(F, MH, SH, DT)'
  <2>1. /\ cqDb = CPos(SH) /\ devTail = DPos(DT)
        /\ \A j \in Nat : MH <= j /\ j < MH + CQS /\ headMark[CPos(j)] => j < DT
    BY DEF QueueInv, HeadInv
  <2>2. MH <= SH /\ SH <= MH /\ MH < MH + CQS
    BY <1>4, <1>5
  <2> QED BY <2>1, <2>2, <1>1, <1>2, <1>3, <1>4, <1>5, <1>6, <1>7 DEF HeadInv
<1>12. EntryInv(F, DH, MH, DT, at)'
  BY <1>3 DEF QueueInv, EntryInv
<1>13. OwnInv(MH, DT, own)'
  <2>1. \A j \in Nat : Live(DT, j)' <=> (MH <= j /\ Live(DT, j))
    BY <1>5, <1>6 DEF Live
  <2>2. ASSUME NEW j \in Nat, Live(DT, j)
        PROVE  /\ own[j] \in Threads /\ Ticketed(own[j])' /\ pc'[own[j]] # "put" /\ Executed(own[j])'
               /\ cqe[CPos(j)].cid = cid[own[j]]
               /\ pc'[own[j]] \in {"head", "free", "store"} \/ (MH <= j /\ ~headMark[CPos(j)])
               /\ pc'[own[j]] \in {"lock", "head", "free", "store"} => loc[own[j]] = j
    <3>1. /\ own[j] \in Threads /\ Ticketed(own[j]) /\ pc[own[j]] # "put" /\ Executed(own[j])
          /\ cqe[CPos(j)].cid = cid[own[j]]
          /\ pc[own[j]] \in {"head", "free", "store"} \/ (MH <= j /\ ~headMark[CPos(j)])
          /\ pc[own[j]] \in {"lock", "head", "free", "store"} => loc[own[j]] = j
      BY <2>2 DEF QueueInv, OwnInv
    <3> QED BY <3>1, <1>7
  <2>3. \A j, k \in Nat : Live(DT, j) /\ Live(DT, k) /\ own[j] = own[k] => j = k
    BY DEF QueueInv, OwnInv
  <2>4. ASSUME NEW u \in Threads, Ticketed(u)', Executed(u)', pc'[u] \notin {"head", "free", "store", "put"}
        PROVE  \E j \in Nat : MH <= j /\ Live(DT, j) /\ own[j] = u
    <3>1. Ticketed(u) /\ Executed(u) /\ pc[u] \notin {"head", "free", "store", "put"}
      BY <2>4, <1>7
    <3>2. PICK j \in Nat : Live(DT, j) /\ own[j] = u
      BY <3>1 DEF QueueInv, OwnInv
    <3>3. MH <= j
      BY <3>1, <3>2 DEF QueueInv, OwnInv
    <3> QED BY <3>2, <3>3
  <2> QED BY <2>1, <2>2, <2>3, <2>4, <1>2, <1>3 DEF OwnInv
<1>14. PollInv(DT)'
  <2>1. \A u \in Threads : hd[u] <= head => hd[u] <= MH
    BY <1>0, <1>5 DEF Types
  <2>2. \A u \in Threads : pc'[u] \in {"scan", "lock", "head", "free", "store"} =>
                             pc[u] \in {"scan", "lock", "head", "free", "store"} /\ (pc'[u] = "scan" => pc[u] = "scan")
    BY <1>1
  <2> QED BY <2>1, <2>2, <1>3, <1>6 DEF QueueInv, PollInv
<1> QED BY <1>8, <1>9, <1>10, <1>11, <1>12, <1>13, <1>14 DEF QueueInv

(* cq_dequeue waits for the head, so that the entry is nobody's any more   *)
(* when the identifier is.                                                 *)
LEMMA DequeuedStep ==
  ASSUME NEW TL \in Nat, NEW F \in Nat, NEW DH \in Nat, NEW MH \in Nat, NEW SH \in Nat, NEW DT \in Nat,
         NEW cur \in [SqPos -> Nat], NEW enq \in [SqPos -> BOOLEAN],
         NEW own \in [Nat -> Threads \cup {None}], NEW at \in [Nat -> Nat],
         CidInv, QueueInv(TL, F, DH, MH, SH, DT, cur, enq, own, at),
         NEW t \in Threads, Dequeued(t)
  PROVE  QueueInv(TL, F, DH, MH, SH, DT, cur, enq, own, at)'
<1>0. Types
  BY DEF QueueInv
<1>1. /\ pc[t] = "head" /\ pc'[t] = "put"
      /\ \A u \in Threads : u # t => pc'[u] = pc[u]
      /\ UNCHANGED <<cidVars, sqVars, cqe, headMark, headLock, head, cqDb, devVars, cid, ticket, pollVars, moved,
                     histVars>>
      /\ Passed(head, hd[t], loc[t])
  BY DEF Dequeued, Goto, CidInv, CidType
<1>2. UNCHANGED <<inTicket, tickets, sqe, tailMark, tailLock, tail, sqHead, sqDb, devHead, fetched, ticket, cid,
                  issued, executed>>
  BY <1>1 DEF sqVars, devVars, histVars
<1>3. UNCHANGED <<cqe, headMark, headLock, head, cqDb, devTail, hd, idx, loc, moved, returned>>
  BY <1>1 DEF pollVars, devVars, histVars
<1>4. loc[t] < head
  <2>1. hd[t] <= head /\ hd[t] \in Nat /\ head \in Nat
    BY <1>0, <1>1 DEF QueueInv, PollInv, Types
  <2> QED BY <2>1, <1>1 DEF Passed
<1>5. \A j \in Nat : Live(DT, j) => own[j] # t
  <2>1. \A j \in Nat : Live(DT, j) /\ own[j] = t => loc[t] = j
    BY <1>1 DEF QueueInv, OwnInv
  <2>2. \A j \in Nat : Live(DT, j) => head <= j
    BY DEF Live
  <2>3. head \in Nat /\ loc[t] \in Nat
    BY <1>0 DEF Types
  <2> QED BY <2>1, <2>2, <2>3, <1>4
<1>6. \A u \in Threads : /\ Ticketed(u)' <=> Ticketed(u)
                         /\ Executed(u)' <=> Executed(u)
  BY <1>1, <1>2 DEF Ticketed, Executed
<1>7. Types'
  BY <1>0, <1>2, <1>3 DEF Types
<1>8. HistInv'
  BY <1>1, <1>2, <1>3, <1>6 DEF QueueInv, HistInv
<1>9. RingInv(TL, F, DH)' /\ TicketInv(TL, DH)' /\ PosInv(TL, F, cur, enq)' /\ TurnInv(cur, enq)'
        /\ FetchInv(DH, DT)'
  BY <1>1, <1>2, <1>3, SqFrame DEF QueueInv
<1>10. HeadInv(F, MH, SH, DT)' /\ EntryInv(F, DH, MH, DT, at)' /\ PollInv(DT)'
  BY <1>1, <1>2, <1>3, CqFrame DEF QueueInv
<1>11. OwnInv(MH, DT, own)'
  <2>1. \A j \in Nat : Live(DT, j)' <=> Live(DT, j)
    BY <1>3 DEF Live
  <2>2. ASSUME NEW j \in Nat, Live(DT, j)
        PROVE  /\ own[j] \in Threads /\ Ticketed(own[j])' /\ pc'[own[j]] # "put" /\ Executed(own[j])'
               /\ cqe[CPos(j)].cid = cid[own[j]]
               /\ pc'[own[j]] \in {"head", "free", "store"} \/ (MH <= j /\ ~headMark[CPos(j)])
               /\ pc'[own[j]] \in {"lock", "head", "free", "store"} => loc[own[j]] = j
    <3>1. /\ own[j] \in Threads /\ Ticketed(own[j]) /\ pc[own[j]] # "put" /\ Executed(own[j])
          /\ cqe[CPos(j)].cid = cid[own[j]]
          /\ pc[own[j]] \in {"head", "free", "store"} \/ (MH <= j /\ ~headMark[CPos(j)])
          /\ pc[own[j]] \in {"lock", "head", "free", "store"} => loc[own[j]] = j
      BY <2>2 DEF QueueInv, OwnInv
    <3>2. own[j] # t /\ pc'[own[j]] = pc[own[j]]
      BY <2>2, <3>1, <1>1, <1>5
    <3> QED BY <3>1, <3>2, <1>6
  <2>3. \A j, k \in Nat : Live(DT, j) /\ Live(DT, k) /\ own[j] = own[k] => j = k
    BY DEF QueueInv, OwnInv
  <2>4. ASSUME NEW u \in Threads, Ticketed(u)', Executed(u)', pc'[u] \notin {"head", "free", "store", "put"}
        PROVE  \E j \in Nat : Live(DT, j) /\ own[j] = u
    <3>1. u # t /\ pc'[u] = pc[u]
      BY <2>4, <1>1
    <3> QED BY <2>4, <3>1, <1>6 DEF QueueInv, OwnInv
  <2> QED BY <2>1, <2>2, <2>3, <2>4, <1>2, <1>3 DEF OwnInv
<1> QED BY <1>7, <1>8, <1>9, <1>10, <1>11 DEF QueueInv

LEMMA PutCidStep ==
  ASSUME NEW TL \in Nat, NEW F \in Nat, NEW DH \in Nat, NEW MH \in Nat, NEW SH \in Nat, NEW DT \in Nat,
         NEW cur \in [SqPos -> Nat], NEW enq \in [SqPos -> BOOLEAN],
         NEW own \in [Nat -> Threads \cup {None}], NEW at \in [Nat -> Nat],
         CidInv, QueueInv(TL, F, DH, MH, SH, DT, cur, enq, own, at),
         NEW t \in Threads, PutCid(t)
  PROVE  QueueInv(TL, F, DH, MH, SH, DT, cur, enq, own, at)'
<1>0. Types
  BY DEF QueueInv
<1>1. /\ pc[t] = "put" /\ pc'[t] = "idle"
      /\ \A u \in Threads : u # t => pc'[u] = pc[u]
      /\ returned' = [returned EXCEPT ![t] = @ + 1]
      /\ cid' = [cid EXCEPT ![t] = 0]
      /\ ticket' = [ticket EXCEPT ![t] = 0]
      /\ hd' = [hd EXCEPT ![t] = 0]
      /\ loc' = [loc EXCEPT ![t] = 0]
      /\ UNCHANGED <<sqVars, cqVars, devVars, idx, moved, issued, executed>>
  BY DEF PutCid, Goto, CidInv, CidType
<1>2. UNCHANGED <<inTicket, tickets, sqe, tailMark, tailLock, tail, sqHead, sqDb, devHead, fetched,
                  issued, executed>>
  BY <1>1 DEF sqVars, devVars
<1>3. UNCHANGED <<cqe, headMark, headLock, head, cqDb, devTail, idx, moved>>
  BY <1>1 DEF cqVars, devVars
<1>4. /\ returned'[t] = returned[t] + 1
      /\ \A u \in Threads : u # t => /\ returned'[u] = returned[u] /\ cid'[u] = cid[u] /\ ticket'[u] = ticket[u]
                                     /\ hd'[u] = hd[u] /\ loc'[u] = loc[u]
  BY <1>0, <1>1 DEF Types, CidInv, CidType
<1>5. Ticketed(t) /\ Executed(t) /\ returned[t] + 1 = issued[t] /\ ~Ticketed(t)'
  BY <1>1 DEF QueueInv, HistInv, Ticketed
<1>6. \A u \in Threads : /\ Ticketed(u)' <=> (u # t /\ Ticketed(u))
                         /\ Executed(u)' <=> Executed(u)
                         /\ Written(u)' <=> (u # t /\ Written(u))
                         /\ u # t => Command(u)' = Command(u)
  BY <1>1, <1>2, <1>4, <1>5 DEF Ticketed, Executed, Written, Command
<1>7. Types'
  <2>1. returned' \in [Threads -> Nat] /\ ticket' \in [Threads -> Nat] /\ hd' \in [Threads -> Nat]
        /\ loc' \in [Threads -> Nat]
    BY <1>0, <1>1 DEF Types
  <2> QED BY <2>1, <1>0, <1>2, <1>3 DEF Types
<1>8. HistInv'
  <2> SUFFICES ASSUME NEW u \in Threads
               PROVE  /\ ~Ticketed(u)' => returned'[u] = issued[u] /\ Executed(u)'
                      /\ Ticketed(u)' => returned'[u] + 1 = issued[u] /\ executed[u] \in {returned'[u], issued[u]}
                      /\ pc'[u] \in {"lock", "head", "free", "store", "put"} => Executed(u)'
    BY <1>2 DEF HistInv
  <2>1. CASE u = t
    BY <2>1, <1>1, <1>4, <1>5, <1>6
  <2>2. CASE u # t
    BY <2>2, <1>1, <1>4, <1>6 DEF QueueInv, HistInv
  <2> QED BY <2>1, <2>2
<1>9. RingInv(TL, F, DH)'
  BY <1>1, <1>2, <1>3 DEF QueueInv, RingInv
<1>10. ticket[t] < DH
  <2>1. ~(DH <= ticket[t])
    BY <1>5 DEF QueueInv, FetchInv
  <2>2. ticket[t] \in Nat
    BY <1>0 DEF Types
  <2> QED BY <2>1, <2>2
<1>11. TicketInv(TL, DH)'
  <2>1. ASSUME NEW x \in Nat, DH <= x, x < inTicket
        PROVE  \E u \in Threads : Ticketed(u)' /\ ticket'[u] = x
    <3>1. PICK u \in Threads : Ticketed(u) /\ ticket[u] = x
      BY <2>1 DEF QueueInv, TicketInv
    <3>2. u # t
      BY <2>1, <3>1, <1>10
    <3> QED BY <3>1, <3>2, <1>4, <1>6
  <2>2. \A u \in Threads : Ticketed(u)' => ticket'[u] < inTicket
    BY <1>4, <1>6 DEF QueueInv, TicketInv
  <2>3. \A u, v \in Threads : Ticketed(u)' /\ Ticketed(v)' /\ ticket'[v] = ticket'[u] => v = u
    BY <1>4, <1>6 DEF QueueInv, TicketInv
  <2>4. \A u \in Threads : pc'[u] = "slot" => TL <= ticket'[u]
    BY <1>1, <1>4 DEF QueueInv, TicketInv
  <2> QED BY <2>1, <2>2, <2>3, <2>4, <1>2 DEF TicketInv
<1>12. PosInv(TL, F, cur, enq)'
  BY <1>2 DEF QueueInv, PosInv
<1>13. TurnInv(cur, enq)'
  <2>1. \A u \in Threads : u = t => pc'[u] \notin {"slot", "tail", "ring"} /\ ~Written(u)'
    BY <1>1, <1>6
  <2> QED BY <2>1, <1>1, <1>2, <1>4, <1>6 DEF QueueInv, TurnInv
<1>14. FetchInv(DH, DT)'
  <2>1. \A c \in fetched : \E u \in Threads :
          c = Command(u)' /\ Ticketed(u)' /\ ~Executed(u)' /\ ticket'[u] < DH
    <3> SUFFICES ASSUME NEW c \in fetched
                 PROVE  \E u \in Threads : c = Command(u)' /\ Ticketed(u)' /\ ~Executed(u)' /\ ticket'[u] < DH
      OBVIOUS
    <3>1. PICK u \in Threads : c = Command(u) /\ Ticketed(u) /\ ~Executed(u) /\ ticket[u] < DH
      BY DEF QueueInv, FetchInv
    <3>2. u # t
      BY <3>1, <1>5
    <3> QED BY <3>1, <3>2, <1>4, <1>6
  <2>2. \A u \in Threads : Written(u)' /\ DH <= ticket'[u] => sqe[SPos(ticket'[u])] = Command(u)'
    BY <1>4, <1>6 DEF QueueInv, FetchInv
  <2>3. \A u \in Threads : Ticketed(u)' /\ DH <= ticket'[u] => ~Executed(u)'
    BY <1>4, <1>6 DEF QueueInv, FetchInv
  <2>4. \A u \in Threads : Ticketed(u)' /\ ticket'[u] < DH /\ ~Executed(u)' => Command(u)' \in fetched
    BY <1>4, <1>6 DEF QueueInv, FetchInv
  <2>5. IsFiniteSet(fetched) /\ DT + Cardinality(fetched) = DH
    BY DEF QueueInv, FetchInv
  <2> QED BY <2>1, <2>2, <2>3, <2>4, <2>5, <1>2 DEF FetchInv
<1>15. HeadInv(F, MH, SH, DT)' /\ EntryInv(F, DH, MH, DT, at)' /\ PollInv(DT)'
  BY <1>1, <1>2, <1>3, <1>4, CqFrame DEF QueueInv
<1>16. OwnInv(MH, DT, own)'
  <2>1. \A j \in Nat : Live(DT, j)' <=> Live(DT, j)
    BY <1>3 DEF Live
  <2>2. ASSUME NEW j \in Nat, Live(DT, j)
        PROVE  /\ own[j] \in Threads /\ Ticketed(own[j])' /\ pc'[own[j]] # "put" /\ Executed(own[j])'
               /\ cqe[CPos(j)].cid = cid'[own[j]]
               /\ pc'[own[j]] \in {"head", "free", "store"} \/ (MH <= j /\ ~headMark[CPos(j)])
               /\ pc'[own[j]] \in {"lock", "head", "free", "store"} => loc'[own[j]] = j
    <3>1. /\ own[j] \in Threads /\ Ticketed(own[j]) /\ pc[own[j]] # "put" /\ Executed(own[j])
          /\ cqe[CPos(j)].cid = cid[own[j]]
          /\ pc[own[j]] \in {"head", "free", "store"} \/ (MH <= j /\ ~headMark[CPos(j)])
          /\ pc[own[j]] \in {"lock", "head", "free", "store"} => loc[own[j]] = j
      BY <2>2 DEF QueueInv, OwnInv
    <3>2. own[j] # t /\ pc'[own[j]] = pc[own[j]]
      BY <3>1, <1>1
    <3> QED BY <3>1, <3>2, <1>4, <1>6
  <2>3. \A j, k \in Nat : Live(DT, j) /\ Live(DT, k) /\ own[j] = own[k] => j = k
    BY DEF QueueInv, OwnInv
  <2>4. ASSUME NEW u \in Threads, Ticketed(u)', Executed(u)', pc'[u] \notin {"head", "free", "store", "put"}
        PROVE  \E j \in Nat : Live(DT, j) /\ own[j] = u
    <3>1. u # t /\ pc'[u] = pc[u]
      BY <2>4, <1>1, <1>5
    <3> QED BY <2>4, <3>1, <1>6 DEF QueueInv, OwnInv
  <2> QED BY <2>1, <2>2, <2>3, <2>4, <1>3 DEF OwnInv
<1> QED BY <1>7, <1>8, <1>9, <1>11, <1>12, <1>13, <1>14, <1>15, <1>16 DEF QueueInv

(* What move_head_cq gives free: the positions of the commands from F up   *)
(* to N.  Their users have had both steps of the counter or are to make    *)
(* the second one.                                                         *)
Freed(F, N, cur, enq, cur1, enq1) ==
  \A q \in SqPos :
    /\ cur1[q] = (IF enq[q] /\ cur[q] < N THEN cur[q] + SQS ELSE cur[q])
    /\ enq1[q] <=> (enq[q] /\ ~(cur[q] < N))
    /\ tickets'[q] = (IF (q - F) % SQS < N - F THEN Add(tickets[q], 1) ELSE tickets[q])

LEMMA FreedTurns ==
  ASSUME NEW TL \in Nat, NEW F \in Nat, NEW N \in Nat, NEW cur \in [SqPos -> Nat], NEW enq \in [SqPos -> BOOLEAN],
         NEW cur1 \in [SqPos -> Nat], NEW enq1 \in [SqPos -> BOOLEAN],
         PosInv(TL, F, cur, enq), F <= N, N <= TL, TL < F + SQS, inTicket \in Nat,
         inTicket' = inTicket, tailMark' = tailMark, Freed(F, N, cur, enq, cur1, enq1)
  PROVE  PosInv(TL, N, cur1, enq1)'
<1> SUFFICES ASSUME NEW q \in SqPos
             PROVE  /\ SPos(cur1[q]) = q /\ cur1[q] < N + SQS /\ TL <= cur1[q] + SQS
                    /\ tickets'[q] = (GetId(cur1[q]) + (IF cur1[q] < N \/ enq1[q] THEN 1 ELSE 0)) % Word
                    /\ ~(cur1[q] < N /\ enq1[q])
                    /\ tailMark[q] => TL <= cur1[q] /\ cur1[q] < inTicket
  BY DEF PosInv
<1>1. SQS \in Nat /\ SQS > 1
  BY SPosFacts
<1>2. PICK c \in Nat : c = cur[q]
  OBVIOUS
<1>3. /\ SPos(c) = q /\ c < F + SQS /\ TL <= c + SQS
      /\ tickets[q] = (GetId(c) + (IF c < F \/ enq[q] THEN 1 ELSE 0)) % Word
      /\ ~(c < F /\ enq[q])
      /\ tailMark[q] => TL <= c /\ c < inTicket
  BY <1>2 DEF PosInv
<1>4. /\ cur1[q] = (IF enq[q] /\ c < N THEN c + SQS ELSE c)
      /\ enq1[q] <=> (enq[q] /\ ~(c < N))
      /\ tickets'[q] = (IF (q - F) % SQS < N - F THEN Add(tickets[q], 1) ELSE tickets[q])
  BY <1>2, Zenon DEF Freed
<1>5. \A y \in Nat : F <= y /\ y < F + SQS /\ SPos(y) = q => (q - F) % SQS = y - F
  <2>1. \A a, x \in Nat : (a <= x /\ x < a + SQS) => (SPos(x) - a) % SQS = x - a
    BY SPosFacts
  <2> QED BY <2>1, Zenon
<1>6. F <= c /\ c < N => tickets'[q] = Add(tickets[q], 1)
  <2> SUFFICES ASSUME F <= c, c < N PROVE tickets'[q] = Add(tickets[q], 1)
    OBVIOUS
  <2>1. (q - F) % SQS = c - F
    BY <1>3, <1>5
  <2>2. c - F < N - F
    OBVIOUS
  <2>3. (q - F) % SQS < N - F
    BY <2>1, <2>2
  <2> QED BY <2>3, <1>4, Zenon
<1>7. c < F \/ N <= c => tickets'[q] = tickets[q]
  <2> SUFFICES ASSUME c < F \/ N <= c PROVE tickets'[q] = tickets[q]
    OBVIOUS
  <2>1. PICK y \in Nat : F <= y /\ y < F + SQS /\ SPos(y) = q /\ N <= y
    <3>1. CASE N <= c
      BY <3>1, <1>3
    <3>2. CASE c < F
      <4>1. PICK y \in Nat : y = c + SQS
        BY <1>1
      <4>2. SPos(y) = q
        BY <4>1, <1>3, SPosFacts
      <4>3. F <= y /\ y < F + SQS /\ N <= y
        BY <4>1, <3>2, <1>1, <1>3
      <4> QED BY <4>2, <4>3
    <3> QED BY <3>1, <3>2
  <2>2. (q - F) % SQS = y - F
    BY <2>1, <1>5
  <2>3. ~(y - F < N - F)
    BY <2>1
  <2>4. ~((q - F) % SQS < N - F)
    BY <2>2, <2>3
  <2> QED BY <2>4, <1>4, Zenon
<1>8. CASE enq[q] /\ c < N
  <2>1. F <= c /\ cur1[q] = c + SQS /\ ~enq1[q] /\ ~tailMark[q]
    BY <1>3, <1>4, <1>8
  <2>2. tickets'[q] = Add((GetId(c) + 1) % Word, 1)
    BY <2>1, <1>3, <1>6, <1>8
  <2>3. tickets'[q] = (GetId(cur1[q]) + 0) % Word
    BY <2>1, <2>2, CounterStep
  <2>4. SPos(cur1[q]) = q
    BY <2>1, <1>3, SPosFacts
  <2>5. cur1[q] < N + SQS /\ TL <= cur1[q] + SQS /\ ~(cur1[q] < N)
    BY <2>1, <1>1, <1>3, <1>8
  <2> QED BY <2>1, <2>3, <2>4, <2>5
<1>9. CASE ~enq[q] /\ c < N /\ F <= c
  <2>1. cur1[q] = c /\ ~enq1[q] /\ ~tailMark[q]
    BY <1>3, <1>4, <1>9
  <2>2. tickets'[q] = Add((GetId(c) + 0) % Word, 1)
    BY <1>3, <1>6, <1>9
  <2>3. tickets'[q] = (GetId(c) + 1) % Word
    BY <2>2, CounterStep
  <2>4. c < N + SQS
    BY <1>1, <1>9
  <2> QED BY <2>1, <2>3, <2>4, <1>3, <1>9
<1>10. CASE c < F
  <2>1. cur1[q] = c /\ ~enq1[q] /\ ~enq[q] /\ c < N
    BY <1>3, <1>4, <1>10
  <2>2. tickets'[q] = (GetId(c) + 1) % Word
    BY <1>3, <1>7, <1>10
  <2>3. c < N + SQS
    BY <2>1, <1>1
  <2> QED BY <2>1, <2>2, <2>3, <1>3
<1>11. CASE N <= c
  <2>1. cur1[q] = c /\ (enq1[q] <=> enq[q]) /\ ~(c < N) /\ ~(c < F)
    BY <1>4, <1>11
  <2>2. tickets'[q] = (GetId(c) + (IF enq[q] THEN 1 ELSE 0)) % Word
    BY <2>1, <1>3, <1>7, <1>11
  <2>3. c < N + SQS
    BY <1>1, <1>3
  <2> QED BY <2>1, <2>2, <2>3, <1>3
<1> QED BY <1>8, <1>9, <1>10, <1>11

LEMMA FreedUsers ==
  ASSUME NEW TL \in Nat, NEW F \in Nat, NEW DH \in Nat, NEW N \in Nat, NEW cur \in [SqPos -> Nat],
         NEW enq \in [SqPos -> BOOLEAN], NEW cur1 \in [SqPos -> Nat], NEW enq1 \in [SqPos -> BOOLEAN],
         PosInv(TL, F, cur, enq), TurnInv(cur, enq), TicketInv(TL, DH), N <= TL, ticket \in [Threads -> Nat],
         UNCHANGED <<ticket, tailMark>>,
         \A u \in Threads : /\ Written(u)' <=> Written(u)
                            /\ pc'[u] \in {"slot", "tail", "ring"} => pc'[u] = pc[u],
         Freed(F, N, cur, enq, cur1, enq1)
  PROVE  TurnInv(cur1, enq1)'
<1> SUFFICES ASSUME NEW u \in Threads
             PROVE  /\ pc'[u] = "slot" => cur1[SPos(ticket[u])] <= ticket[u]
                    /\ pc'[u] \in {"tail", "ring"} =>
                         cur1[SPos(ticket[u])] = ticket[u] /\ ~enq1[SPos(ticket[u])]
                    /\ Written(u)' => ticket[u] <= cur1[SPos(ticket[u])]
                    /\ pc'[u] = "slot" /\ ticket[u] = cur1[SPos(ticket[u])] => ~tailMark[SPos(ticket[u])]
  BY DEF TurnInv
<1>1. PICK y \in Nat, p \in SqPos : y = ticket[u] /\ p = SPos(y)
  BY SPosFacts
<1>2. SQS \in Nat /\ SQS > 1
  BY SPosFacts
<1>3. PICK c \in Nat : c = cur[p]
  OBVIOUS
<1>4. /\ pc[u] = "slot" => c <= y
      /\ pc[u] \in {"tail", "ring"} => c = y /\ ~enq[p]
      /\ Written(u) => y <= c
      /\ pc[u] = "slot" /\ y = c => ~tailMark[p]
  BY <1>1, <1>3 DEF TurnInv
<1>5. /\ cur1[p] = (IF enq[p] /\ c < N THEN c + SQS ELSE c)
      /\ enq1[p] <=> (enq[p] /\ ~(c < N))
  BY <1>3, Zenon DEF Freed
<1>6. pc[u] = "slot" => TL <= y
  BY <1>1 DEF TicketInv
<1>7. SPos(c) = p /\ (tailMark[p] => TL <= c)
  BY <1>3 DEF PosInv
<1>8. CASE enq[p] /\ c < N
  <2>1. cur1[p] = c + SQS
    BY <1>5, <1>8
  <2>2. c < y => c + SQS <= y
    BY <1>1, <1>7, SPosFacts
  <2>3. pc[u] = "slot" => c < y
    BY <1>6, <1>8
  <2>4. ~tailMark[p]
    BY <1>7, <1>8
  <2>5. pc[u] \notin {"tail", "ring"}
    BY <1>4, <1>8
  <2>6. y <= c => y <= cur1[p]
    BY <2>1, <1>2
  <2> QED BY <2>1, <2>2, <2>3, <2>4, <2>5, <2>6, <1>1, <1>4
<1>9. CASE ~(enq[p] /\ c < N)
  <2>1. cur1[p] = c
    BY <1>5, <1>9
  <2> QED BY <2>1, <1>1, <1>4, <1>5
<1> QED BY <1>8, <1>9

(* The head goes over entries that are marked, hence posted and picked up, *)
(* and gives free what the device had fetched when it posted the last one. *)
LEMMA MoveHeadStep ==
  ASSUME NEW TL \in Nat, NEW F \in Nat, NEW DH \in Nat, NEW MH \in Nat, NEW SH \in Nat, NEW DT \in Nat,
         NEW cur \in [SqPos -> Nat], NEW enq \in [SqPos -> BOOLEAN],
         NEW own \in [Nat -> Threads \cup {None}], NEW at \in [Nat -> Nat],
         CidInv, QueueInv(TL, F, DH, MH, SH, DT, cur, enq, own, at),
         NEW t \in Threads, MoveHead(t)
  PROVE  \E F1, MH1 \in Nat, cur1 \in [SqPos -> Nat], enq1 \in [SqPos -> BOOLEAN] :
           QueueInv(TL, F1, DH, MH1, SH, DT, cur1, enq1, own, at)'
<1>0. Types
  BY DEF QueueInv
<1>1. PICK n \in 1 .. CQS :
        /\ HeadRun(n)
        /\ moved' = [moved EXCEPT ![t] = n]
        /\ headMark' = [q \in CqPos |-> headMark[q] /\ (q - head) % CQS >= n]
        /\ tickets' = [q \in SqPos |->
             IF (q - sqHead) % SQS < (cqe[(head + n - 1) % CQS].sqhd - sqHead) % SQS
               THEN Add(tickets[q], 1) ELSE tickets[q]]
  BY DEF MoveHead
<1>2. /\ pc[t] = "head" /\ pc'[t] = "free" /\ ~headLock /\ headLock' = TRUE
      /\ \A u \in Threads : u # t => pc'[u] = pc[u]
      /\ UNCHANGED <<cidVars, inTicket, sqe, tailMark, tailLock, tail, sqHead, sqDb, cqe, head, cqDb, devVars, cid,
                     ticket, pollVars, histVars>>
  BY DEF MoveHead, Goto, CidInv, CidType
<1>3. UNCHANGED <<inTicket, sqe, tailMark, tailLock, tail, sqHead, sqDb, devHead, fetched, ticket, cid,
                  issued, executed>>
  BY <1>2 DEF devVars, histVars
<1>4. UNCHANGED <<cqe, head, cqDb, devTail, hd, idx, loc, returned>>
  BY <1>2 DEF pollVars, devVars, histVars
<1>5. /\ head \in Nat /\ head = MH /\ SH = MH /\ sqHead = F /\ DT < MH + CQS /\ CQS \in Nat /\ n \in Nat /\ n > 0
      /\ n <= CQS
  <2>1. head \in Nat /\ head = MH /\ sqHead = F /\ head <= SH /\ SH <= MH /\ DT < SH + CQS
    BY <1>0, <1>2 DEF QueueInv, HeadInv, Types
  <2>2. SH = MH
    BY <2>1
  <2>3. CQS \in Nat
    BY CPosFacts
  <2> QED BY <2>1, <2>2, <2>3, <1>1
<1>6. \A j \in Nat : MH <= j /\ j < MH + n => headMark[CPos(j)]
  <2> SUFFICES ASSUME NEW j \in Nat, MH <= j, j < MH + n PROVE headMark[CPos(j)]
    OBVIOUS
  <2>1. PICK k \in 0 .. n - 1 : j = head + k
    <3>1. j - MH \in 0 .. n - 1 /\ j = head + (j - MH)
      BY <1>5
    <3> QED BY <3>1
  <2> QED BY <2>1, <1>1 DEF HeadRun, CPos
<1>7. PICK MH1 \in Nat, l \in Nat : MH1 = MH + n /\ MH1 = l + 1
  <2>1. MH + n \in Nat /\ (MH + n) - 1 \in Nat /\ MH + n = ((MH + n) - 1) + 1
    BY <1>5
  <2> QED BY <2>1
<1>8. MH <= l /\ l < DT /\ MH1 <= DT /\ n < CQS
  <2>1. MH <= l /\ l < MH + n /\ l < MH + CQS
    BY <1>5, <1>7
  <2>2. headMark[CPos(l)]
    BY <2>1, <1>6
  <2>3. l < DT
    BY <2>1, <2>2 DEF QueueInv, HeadInv
  <2> QED BY <2>1, <2>3, <1>5, <1>7
<1>9. PICK N \in Nat : N = at[l]
  OBVIOUS
<1>10. cqe[CPos(l)].sqhd = SPos(N) /\ F <= N /\ N <= DH
  BY <1>8, <1>9 DEF QueueInv, EntryInv
<1>11. /\ DH <= tail /\ tail <= TL /\ TL < F + SQS /\ N <= TL /\ tail \in Nat /\ inTicket \in Nat
       /\ TL <= inTicket /\ SQS \in Nat
  <2>1. DH <= tail /\ tail <= TL /\ TL < F + SQS /\ tail \in Nat /\ inTicket \in Nat /\ TL <= inTicket /\ SQS \in Nat
    BY <1>0, <1>5, SPosFacts DEF QueueInv, RingInv, Types
  <2>2. N <= TL
    BY <2>1, <1>10
  <2> QED BY <2>1, <2>2
<1>12. cqe[(head + n - 1) % CQS].sqhd = SPos(N)
  <2>1. head + n - 1 = l
    BY <1>5, <1>7
  <2>2. (head + n - 1) % CQS = CPos(l)
    BY <2>1, Zenon DEF CPos
  <2> QED BY <2>2, <1>10
<1>13. (SPos(N) - F) % SQS = N - F
  <2>1. \A a, x \in Nat : (a <= x /\ x < a + SQS) => (SPos(x) - a) % SQS = x - a
    BY SPosFacts
  <2>2. N < F + SQS
    BY <1>11
  <2> QED BY <2>1, <2>2, <1>10, Zenon
<1>14. tickets' = [q \in SqPos |-> IF (q - F) % SQS < N - F THEN Add(tickets[q], 1) ELSE tickets[q]]
  BY <1>1, <1>5, <1>12, <1>13, Zenon
<1>15. PICK cur1 \in [SqPos -> Nat], enq1 \in [SqPos -> BOOLEAN] :
         \A q \in SqPos : /\ cur1[q] = (IF enq[q] /\ cur[q] < N THEN cur[q] + SQS ELSE cur[q])
                          /\ enq1[q] <=> (enq[q] /\ ~(cur[q] < N))
  <2> DEFINE c == [q \in SqPos |-> IF enq[q] /\ cur[q] < N THEN cur[q] + SQS ELSE cur[q]]
             e == [q \in SqPos |-> enq[q] /\ ~(cur[q] < N)]
  <2>1. c \in [SqPos -> Nat] /\ e \in [SqPos -> BOOLEAN]
    BY <1>11
  <2>2. \A q \in SqPos : /\ c[q] = (IF enq[q] /\ cur[q] < N THEN cur[q] + SQS ELSE cur[q])
                         /\ e[q] <=> (enq[q] /\ ~(cur[q] < N))
    OBVIOUS
  <2> HIDE DEF c, e
  <2> QED BY <2>1, <2>2
<1>16. Freed(F, N, cur, enq, cur1, enq1)
  <2> SUFFICES ASSUME NEW q \in SqPos
               PROVE  /\ cur1[q] = (IF enq[q] /\ cur[q] < N THEN cur[q] + SQS ELSE cur[q])
                      /\ enq1[q] <=> (enq[q] /\ ~(cur[q] < N))
                      /\ tickets'[q] = (IF (q - F) % SQS < N - F THEN Add(tickets[q], 1) ELSE tickets[q])
    BY Zenon DEF Freed
  <2>1. tickets'[q] = (IF (q - F) % SQS < N - F THEN Add(tickets[q], 1) ELSE tickets[q])
    BY <1>14, Zenon
  <2>2. cur1[q] = (IF enq[q] /\ cur[q] < N THEN cur[q] + SQS ELSE cur[q])
    BY <1>15
  <2>3. enq1[q] <=> (enq[q] /\ ~(cur[q] < N))
    BY <1>15
  <2> QED BY <2>1, <2>2, <2>3, Zenon
<1>17. PosInv(TL, N, cur1, enq1)'
  <2>1. PosInv(TL, F, cur, enq) /\ inTicket' = inTicket /\ tailMark' = tailMark
    BY <1>3 DEF QueueInv
  <2> QED BY <2>1, <1>10, <1>11, <1>16, FreedTurns
<1>18. \A u \in Threads : /\ Ticketed(u)' <=> Ticketed(u)
                          /\ Written(u)' <=> Written(u)
                          /\ Executed(u)' <=> Executed(u)
                          /\ Command(u)' = Command(u)
                          /\ pc'[u] \in {"slot", "tail", "ring"} => pc'[u] = pc[u] /\ u # t
                          /\ pc[u] \in {"slot", "tail", "ring"} => pc'[u] = pc[u]
                          /\ pc'[u] = "put" <=> pc[u] = "put"
                          /\ pc'[u] = "lock" <=> pc[u] = "lock"
                          /\ pc'[u] \in {"head", "free", "store"} <=> pc[u] \in {"head", "free", "store"}
                          /\ u # t => pc'[u] \notin {"free", "store"}
  <2>1. \A u \in Threads : pc[u] \notin {"free", "store"}
    BY <1>2 DEF QueueInv, HeadInv
  <2> QED BY <2>1, <1>2, <1>3 DEF Ticketed, Written, Executed, Command
<1>19. TurnInv(cur1, enq1)'
  <2>1. ticket \in [Threads -> Nat]
    BY <1>0 DEF Types
  <2> QED BY <2>1, <1>3, <1>11, <1>15, <1>16, <1>18, FreedUsers DEF QueueInv
<1>20. moved'[t] = n /\ \A u \in Threads : u # t => moved'[u] = moved[u]
  BY <1>0, <1>1 DEF Types
<1>21. /\ \A j \in Nat : headMark'[CPos(j)] => headMark[CPos(j)]
       /\ \A j \in Nat : MH <= j /\ j < MH1 => ~headMark'[CPos(j)]
       /\ headMark' \in [CqPos -> BOOLEAN]
  <2>1. \A j \in Nat : CPos(j) \in CqPos
    BY CPosFacts
  <2>2. \A j \in Nat : headMark'[CPos(j)] <=> (headMark[CPos(j)] /\ (CPos(j) - MH) % CQS >= n)
    BY <2>1, <1>1, <1>5
  <2>3. ASSUME NEW j \in Nat, MH <= j, j < MH1 PROVE ~headMark'[CPos(j)]
    <3>1. \A a, x \in Nat : (a <= x /\ x < a + CQS) => (CPos(x) - a) % CQS = x - a
      BY CPosFacts
    <3>2. j < MH + CQS
      BY <2>3, <1>5, <1>7
    <3>3. (CPos(j) - MH) % CQS = j - MH
      BY <2>3, <3>1, <3>2, Zenon
    <3>4. ~(j - MH >= n)
      BY <2>3, <1>5, <1>7
    <3>5. ~((CPos(j) - MH) % CQS >= n)
      BY <3>3, <3>4
    <3> QED BY <3>5, <2>2
  <2>4. headMark' \in [CqPos -> BOOLEAN]
    BY <1>0, <1>1 DEF Types
  <2> QED BY <2>2, <2>3, <2>4
<1>22. Types'
  <2>1. \A q \in SqPos : Add(tickets[q], 1) \in Nat
    <3> SUFFICES ASSUME NEW q \in SqPos PROVE Add(tickets[q], 1) \in Nat
      OBVIOUS
    <3>1. Word \in Nat \ {0} /\ tickets[q] + 1 \in Int
      BY <1>0, SizesAssumption DEF Types
    <3>2. Add(tickets[q], 1) \in 0 .. Word - 1
      BY <3>1, ModRange, Zenon DEF Add
    <3> QED BY <3>2
  <2>2. tickets' \in [SqPos -> Nat]
    BY <2>1, <1>0, <1>14 DEF Types
  <2>3. moved' \in [Threads -> Nat]
    BY <1>0, <1>1, <1>5 DEF Types
  <2>4. headLock' \in BOOLEAN
    BY <1>2
  <2> QED BY <2>2, <2>3, <2>4, <1>0, <1>3, <1>4, <1>21 DEF Types
<1>23. HistInv'
  BY <1>2, <1>3, <1>4, <1>18 DEF QueueInv, HistInv
<1>24. RingInv(TL, N, DH)'
  <2>1. \A u \in Threads : pc'[u] = "ring" => pc[u] = "ring" /\ u # t /\ moved'[u] = moved[u]
    BY <1>18, <1>20
  <2> QED BY <2>1, <1>3, <1>5, <1>10 DEF QueueInv, RingInv
<1>25. TicketInv(TL, DH)'
  BY <1>3, <1>18 DEF QueueInv, TicketInv
<1>26. FetchInv(DH, DT)'
  BY <1>3, <1>18 DEF QueueInv, FetchInv
<1>27. HeadInv(N, MH1, SH, DT)'
  <2>1. head <= SH /\ SH <= MH1 /\ MH1 < head + CQS /\ DT < SH + CQS
    BY <1>5, <1>7, <1>8
  <2>2. ASSUME NEW j \in Nat, MH1 <= j, j < MH1 + CQS, headMark'[CPos(j)] PROVE j < DT
    <3>1. CASE j < MH + CQS
      <4>1. MH <= j
        BY <2>2, <1>5, <1>7
      <4>2. headMark[CPos(j)]
        BY <2>2, <1>21
      <4> QED BY <3>1, <4>1, <4>2 DEF QueueInv, HeadInv
    <3>2. CASE ~(j < MH + CQS)
      <4>1. PICK k \in Nat : j = k + CQS
        <5>1. j - CQS \in Nat /\ j = (j - CQS) + CQS
          BY <3>2, <1>5
        <5> QED BY <5>1
      <4>2. MH <= k /\ k < MH1
        BY <4>1, <2>2, <3>2, <1>5
      <4>3. CPos(j) = CPos(k)
        BY <4>1, CPosFacts
      <4> QED BY <4>2, <4>3, <2>2, <1>21
    <3> QED BY <3>1, <3>2
  <2>3. \A u \in Threads : pc'[u] \in {"free", "store"} => u = t
    BY <1>18
  <2>4. cqDb = CPos(SH) /\ devTail = DPos(DT)
    BY DEF QueueInv, HeadInv
  <2>5. MH1 - 1 = l /\ MH1 = head + moved'[t] /\ SH = head /\ moved'[t] > 0
    BY <1>5, <1>7, <1>20
  <2> QED BY <2>1, <2>2, <2>3, <2>4, <2>5, <1>2, <1>4, <1>8, <1>10 DEF HeadInv
<1>28. EntryInv(N, DH, MH1, DT, at)'
  <2>1. \A j \in Nat : MH1 <= j => MH <= j /\ l <= j
    BY <1>5, <1>7
  <2>2. \A j \in Nat : MH1 <= j /\ j < DT => cqe[CPos(j)].sqhd = SPos(at[j]) /\ N <= at[j] /\ at[j] <= DH
    BY <2>1, <1>8, <1>9 DEF QueueInv, EntryInv
  <2>3. \A j, k \in Nat : MH1 <= j /\ j <= k /\ k < DT => at[j] <= at[k]
    BY <2>1 DEF QueueInv, EntryInv
  <2>4. \A j \in Nat : DT <= j /\ j < DT + CQS => cqe[CPos(j)].phase # SearchPhase(j)
    BY DEF QueueInv, EntryInv
  <2> QED BY <2>2, <2>3, <2>4, <1>4 DEF EntryInv
<1>29. OwnInv(MH1, DT, own)'
  <2>1. \A j \in Nat : Live(DT, j)' <=> Live(DT, j)
    BY <1>4 DEF Live
  <2>2. ASSUME NEW j \in Nat, Live(DT, j)
        PROVE  /\ own[j] \in Threads /\ Ticketed(own[j])' /\ pc'[own[j]] # "put" /\ Executed(own[j])'
               /\ cqe[CPos(j)].cid = cid[own[j]]
               /\ pc'[own[j]] \in {"head", "free", "store"} \/ (MH1 <= j /\ ~headMark'[CPos(j)])
               /\ pc'[own[j]] \in {"lock", "head", "free", "store"} => loc[own[j]] = j
    <3>1. /\ own[j] \in Threads /\ Ticketed(own[j]) /\ pc[own[j]] # "put" /\ Executed(own[j])
          /\ cqe[CPos(j)].cid = cid[own[j]]
          /\ pc[own[j]] \in {"head", "free", "store"} \/ (MH <= j /\ ~headMark[CPos(j)])
          /\ pc[own[j]] \in {"lock", "head", "free", "store"} => loc[own[j]] = j
      BY <2>2 DEF QueueInv, OwnInv
    <3>2. (MH <= j /\ ~headMark[CPos(j)]) => (MH1 <= j /\ ~headMark'[CPos(j)])
      BY <1>5, <1>6, <1>7, <1>21
    <3> QED BY <3>1, <3>2, <1>18
  <2>3. \A j, k \in Nat : Live(DT, j) /\ Live(DT, k) /\ own[j] = own[k] => j = k
    BY DEF QueueInv, OwnInv
  <2>4. ASSUME NEW u \in Threads, Ticketed(u)', Executed(u)', pc'[u] \notin {"head", "free", "store", "put"}
        PROVE  \E j \in Nat : Live(DT, j) /\ own[j] = u
    BY <2>4, <1>18 DEF QueueInv, OwnInv
  <2> QED BY <2>1, <2>2, <2>3, <2>4, <1>3, <1>4 DEF OwnInv
<1>30. PollInv(DT)'
  BY <1>2, <1>4 DEF QueueInv, PollInv
<1>31. QueueInv(TL, N, DH, MH1, SH, DT, cur1, enq1, own, at)'
  BY <1>17, <1>19, <1>22, <1>23, <1>24, <1>25, <1>26, <1>27, <1>28, <1>29, <1>30 DEF QueueInv
<1> QED BY <1>15, <1>31

-----------------------------------------------------------------------------
(***************************************************************************)
(* Wrapping.  A ticket is handed out once per command.  When the counters  *)
(* can count all commands of a queue pair, no ticket comes back.           *)
(***************************************************************************)
Few == IsFiniteSet(Threads) /\ Cardinality(Threads) * Ops < Word

Issues == {p \in Threads \X (1 .. Ops) : p[2] <= issued[p[1]]}

CountInv ==
  /\ issued \in [Threads -> Nat]
  /\ \A t \in Threads : issued[t] <= Ops /\ (pc[t] = "ticket" => issued[t] < Ops)
  /\ inTicket = Cardinality(Issues)

(* head_lock is held by a thread in move_head_cq.                          *)
LockInv == headLock => \E t \in Threads : pc[t] \in {"free", "store"}

LEMMA SubsetBound ==
  ASSUME Few, NEW S \in SUBSET (Threads \X (1 .. Ops))
  PROVE  IsFiniteSet(S) /\ Cardinality(S) \in Nat /\ Cardinality(S) < Word
<1>1. IsFiniteSet(Threads) /\ Cardinality(Threads) \in Nat
  BY FS_CardinalityType DEF Few
<1>2. 1 \in Int /\ Ops \in Int
  BY OpsAssumption
<1>3. IsFiniteSet(1 .. Ops) /\ Cardinality(1 .. Ops) = (IF 1 > Ops THEN 0 ELSE Ops - 1 + 1)
  BY <1>2, FS_Interval, Zenon
<1>4. Cardinality(1 .. Ops) = Ops
  BY <1>3, OpsAssumption
<1>5. IsFiniteSet(Threads \X (1 .. Ops)) /\ Cardinality(Threads \X (1 .. Ops)) = Cardinality(Threads) * Cardinality(1 .. Ops)
  BY <1>1, <1>3, FS_Product
<1>6. Cardinality(Threads \X (1 .. Ops)) < Word
  BY <1>4, <1>5 DEF Few
<1>7. IsFiniteSet(S) /\ Cardinality(S) <= Cardinality(Threads \X (1 .. Ops))
  BY <1>5, FS_Subset
<1>8. Cardinality(S) \in Nat /\ Cardinality(Threads \X (1 .. Ops)) \in Nat
  BY <1>5, <1>7, FS_CardinalityType
<1>9. Word \in Nat
  BY SizesAssumption
<1> QED BY <1>6, <1>7, <1>8, <1>9

LEMMA CountInit == ASSUME Init PROVE CountInv /\ LockInv
<1>1. Issues = {}
  BY DEF Init, Issues
<1>2. Cardinality(Issues) = 0
  BY <1>1, FS_EmptySet
<1>3. CountInv
  BY <1>2, OpsAssumption DEF Init, CountInv
<1> QED BY <1>3 DEF Init, LockInv

(* The tickets of TakeTicket do not wrap.                                  *)
LEMMA NoWrap ==
  ASSUME Few, CidInv, CountInv, NEW t \in Threads, TakeTicket(t)
  PROVE  inTicket \in Nat /\ inTicket + 1 < Word /\ inTicket' = inTicket + 1 /\ CountInv'
<1>1. /\ pc[t] = "ticket" /\ issued[t] < Ops /\ issued[t] \in Nat /\ Ops \in Nat
      /\ issued' = [issued EXCEPT ![t] = @ + 1] /\ pc' = [pc EXCEPT ![t] = "slot"]
      /\ inTicket' = (inTicket + 1) % Word
  BY OpsAssumption DEF CountInv, TakeTicket, NextTicket, Add, Goto
<1>2. PICK i \in Nat : i = issued[t] + 1 /\ i \in 1 .. Ops
  BY <1>1
<1>3. issued'[t] = i /\ \A u \in Threads : u # t => issued'[u] = issued[u]
  BY <1>1, <1>2 DEF CountInv
<1>4. <<t, i>> \in Threads \X (1 .. Ops) /\ <<t, i>> \notin Issues
  BY <1>1, <1>2 DEF Issues
<1>5. Issues' = Issues \cup {<<t, i>>}
  <2>1. ASSUME NEW u \in Threads, NEW k \in 1 .. Ops
        PROVE  k <= issued'[u] <=> (k <= issued[u] \/ <<u, k>> = <<t, i>>)
    <3>1. CASE u = t
      BY <3>1, <1>1, <1>2, <1>3
    <3>2. CASE u # t
      BY <3>2, <1>3
    <3> QED BY <3>1, <3>2
  <2> QED BY <2>1, <1>4 DEF Issues
<1>6. IsFiniteSet(Issues) /\ Cardinality(Issues) \in Nat
  BY SubsetBound DEF Issues
<1>7. Cardinality(Issues \cup {<<t, i>>}) = Cardinality(Issues) + 1
  BY <1>4, <1>6, FS_AddElement
<1>8. Issues \cup {<<t, i>>} \in SUBSET (Threads \X (1 .. Ops))
  BY <1>4 DEF Issues
<1>9. Cardinality(Issues \cup {<<t, i>>}) < Word
  BY <1>8, SubsetBound
<1>10. inTicket = Cardinality(Issues)
  BY DEF CountInv
<1>11. inTicket \in Nat /\ inTicket + 1 < Word
  BY <1>6, <1>7, <1>9, <1>10
<1>12. inTicket' = inTicket + 1
  BY <1>1, <1>11, SizesAssumption
<1>13. inTicket' = Cardinality(Issues')
  BY <1>5, <1>7, <1>10, <1>12
<1>14. issued' \in [Threads -> Nat]
  BY <1>1 DEF CountInv
<1>15. \A u \in Threads : issued'[u] <= Ops /\ (pc'[u] = "ticket" => issued'[u] < Ops)
  <2> SUFFICES ASSUME NEW u \in Threads PROVE issued'[u] <= Ops /\ (pc'[u] = "ticket" => issued'[u] < Ops)
    OBVIOUS
  <2>1. CASE u = t
    <3>1. issued'[u] <= Ops
      BY <2>1, <1>1, <1>2, <1>3
    <3>2. pc'[u] # "ticket"
      BY <2>1, <1>1 DEF CidInv, CidType
    <3> QED BY <3>1, <3>2
  <2>2. CASE u # t
    <3>1. pc'[u] = "ticket" => pc[u] = "ticket"
      BY <2>2, <1>1
    <3> QED BY <2>2, <3>1, <1>3 DEF CountInv
  <2> QED BY <2>1, <2>2
<1> QED BY <1>11, <1>12, <1>13, <1>14, <1>15 DEF CountInv

(* The steps that neither begin a command nor hold head_lock.              *)
LEMMA OtherStep ==
  ASSUME NEW t \in Threads, CidInv,
         WriteEntry(t) \/ MoveTail(t) \/ RingTail(t) \/ Enqueued(t) \/ PollHead(t) \/ Scan(t) \/ LockPos(t)
           \/ Dequeued(t) \/ PutCid(t)
  PROVE  /\ UNCHANGED <<inTicket, issued, headLock>>
         /\ pc[t] \notin {"free", "store"}
         /\ \E l \in Labels \ {"ticket"} : pc' = [pc EXCEPT ![t] = l]
<1> USE DEF Labels, EnqueueLabels, DequeueLabels, Goto
<1>1. CASE WriteEntry(t)
  BY <1>1 DEF WriteEntry, histVars, cqVars
<1>2. CASE MoveTail(t)
  BY <1>2 DEF MoveTail, histVars, cqVars
<1>3. CASE RingTail(t)
  BY <1>3 DEF RingTail, histVars, cqVars
<1>4. CASE Enqueued(t)
  BY <1>4 DEF Enqueued, histVars, cqVars
<1>5. CASE PollHead(t)
  BY <1>5 DEF PollHead, histVars, cqVars, sqVars
<1>6. CASE Scan(t)
  <2> DEFINE h == Add(hd[t], idx[t])
  <2>1. Scanned(t, h) \in Labels \ {"ticket"}
    BY DEF Scanned
  <2>2. pc[t] = "scan" /\ pc' = [pc EXCEPT ![t] = Scanned(t, h)] /\ UNCHANGED <<sqVars, cqVars, histVars>>
    BY <1>6 DEF Scan
  <2> HIDE DEF h
  <2> QED
    BY <2>1, <2>2 DEF sqVars, cqVars, histVars
<1>7. CASE LockPos(t)
  BY <1>7 DEF LockPos, histVars, sqVars
<1>8. CASE Dequeued(t)
  BY <1>8 DEF Dequeued, histVars, sqVars
<1>9. CASE PutCid(t)
  BY <1>9 DEF PutCid, sqVars, cqVars
<1> QED BY <1>1, <1>2, <1>3, <1>4, <1>5, <1>6, <1>7, <1>8, <1>9

LEMMA CountStep ==
  ASSUME Few, CidInv, CountInv, LockInv, [Next]_vars
  PROVE  CountInv' /\ LockInv'
<1>1. ASSUME UNCHANGED <<inTicket, issued>>, \A u \in Threads : pc'[u] = "ticket" => pc[u] = "ticket" \/ issued[u] < Ops
      PROVE  CountInv'
  BY <1>1 DEF CountInv, Issues
<1>2. ASSUME NEW t \in Threads, NEW l, pc' = [pc EXCEPT ![t] = l], pc[t] \notin {"free", "store"}, headLock' = headLock
      PROVE  LockInv'
  <2> SUFFICES ASSUME headLock PROVE \E u \in Threads : pc'[u] \in {"free", "store"}
    BY <1>2 DEF LockInv
  <2>1. PICK u \in Threads : pc[u] \in {"free", "store"}
    BY DEF LockInv
  <2>2. pc'[u] = pc[u]
    BY <2>1, <1>2 DEF CidInv, CidType
  <2> QED BY <2>1, <2>2
<1>3. ASSUME NEW t \in Threads, GetCid(t) PROVE CountInv' /\ LockInv'
  <2>1. pc[t] = "idle" /\ issued[t] < Ops /\ UNCHANGED <<sqVars, cqVars, histVars>>
        /\ \E l : pc' = [pc EXCEPT ![t] = l]
    <3>1. pc[t] = "idle" /\ issued[t] < Ops /\ UNCHANGED <<sqVars, cqVars, histVars>>
          /\ (pc' = pc \/ pc' = [pc EXCEPT ![t] = "ticket"])
      BY <1>3 DEF GetCid, Goto
    <3>2. pc = [pc EXCEPT ![t] = pc[t]]
      BY DEF CidInv, CidType
    <3> QED BY <3>1, <3>2
  <2>2. PICK l : pc' = [pc EXCEPT ![t] = l]
    BY <2>1
  <2>3. UNCHANGED <<inTicket, issued, headLock>>
    BY <2>1 DEF sqVars, cqVars, histVars
  <2>4. \A u \in Threads : pc'[u] = "ticket" => pc[u] = "ticket" \/ issued[u] < Ops
    BY <2>1, <2>2 DEF CidInv, CidType
  <2> QED BY <1>1, <1>2, <2>1, <2>2, <2>3, <2>4
<1>4. ASSUME NEW t \in Threads, TakeTicket(t) PROVE CountInv' /\ LockInv'
  <2>1. CountInv'
    BY <1>4, NoWrap
  <2>2. pc[t] = "ticket" /\ pc' = [pc EXCEPT ![t] = "slot"] /\ headLock' = headLock
    BY <1>4 DEF TakeTicket, Goto, cqVars
  <2> QED BY <1>2, <2>1, <2>2
<1>5. ASSUME NEW t \in Threads,
             WriteEntry(t) \/ MoveTail(t) \/ RingTail(t) \/ Enqueued(t) \/ PollHead(t) \/ Scan(t) \/ LockPos(t)
               \/ Dequeued(t) \/ PutCid(t)
      PROVE  CountInv' /\ LockInv'
  <2>1. UNCHANGED <<inTicket, issued, headLock>> /\ pc[t] \notin {"free", "store"}
    BY <1>5, OtherStep
  <2>2. PICK l \in Labels \ {"ticket"} : pc' = [pc EXCEPT ![t] = l]
    BY <1>5, OtherStep
  <2>3. \A u \in Threads : pc'[u] = "ticket" => pc[u] = "ticket"
    BY <2>2 DEF CidInv, CidType
  <2> QED BY <1>1, <1>2, <2>1, <2>2, <2>3
<1>6. ASSUME NEW t \in Threads, NEW l \in {"free", "store", "head"}, pc' = [pc EXCEPT ![t] = l],
             UNCHANGED <<inTicket, issued>>, l = "head" => headLock' = FALSE
      PROVE  CountInv' /\ LockInv'
  <2>1. pc'[t] = l /\ \A u \in Threads : pc'[u] = "ticket" => pc[u] = "ticket"
    BY <1>6 DEF CidInv, CidType
  <2>2. LockInv'
    BY <1>6, <2>1 DEF LockInv
  <2> QED BY <1>1, <1>6, <2>1, <2>2
<1>7. ASSUME NEW t \in Threads, MoveHead(t) PROVE CountInv' /\ LockInv'
  BY <1>6, <1>7 DEF MoveHead, Goto, histVars
<1>8. ASSUME NEW t \in Threads, RingHead(t) PROVE CountInv' /\ LockInv'
  BY <1>6, <1>8 DEF RingHead, Goto, histVars
<1>9. ASSUME NEW t \in Threads, StoreHead(t) PROVE CountInv' /\ LockInv'
  BY <1>6, <1>9 DEF StoreHead, Goto, histVars, sqVars
<1>10. ASSUME Device PROVE CountInv' /\ LockInv'
  <2>1. UNCHANGED <<inTicket, issued, headLock, pc>>
    BY <1>10 DEF Device, DevFetch, DevComplete, sqVars, cqVars, histVars
  <2> QED BY <2>1, <1>1 DEF LockInv
<1>11. CASE UNCHANGED vars
  <2>1. UNCHANGED <<inTicket, issued, headLock, pc>>
    BY <1>11 DEF vars, sqVars, cqVars, histVars
  <2> QED BY <2>1, <1>1 DEF LockInv
<1> QED BY <1>3, <1>4, <1>5, <1>7, <1>8, <1>9, <1>10, <1>11 DEF Next, Step, Enqueue, Poll, Dequeue

-----------------------------------------------------------------------------
(***************************************************************************)
(* The inductive step, and what the invariant says of the program.         *)
(***************************************************************************)
LEMMA Witnessed ==
  ASSUME NEW TL \in Nat, NEW F \in Nat, NEW DH \in Nat, NEW MH \in Nat, NEW SH \in Nat, NEW DT \in Nat,
         NEW cur \in [SqPos -> Nat], NEW enq \in [SqPos -> BOOLEAN],
         NEW own \in [Nat -> Threads \cup {None}], NEW at \in [Nat -> Nat],
         QueueInv(TL, F, DH, MH, SH, DT, cur, enq, own, at)'
  PROVE  SomeQueueInv'
BY DEF SomeQueueInv

LEMMA QueueStutter ==
  ASSUME NEW TL \in Nat, NEW F \in Nat, NEW DH \in Nat, NEW MH \in Nat, NEW SH \in Nat, NEW DT \in Nat,
         NEW cur \in [SqPos -> Nat], NEW enq \in [SqPos -> BOOLEAN],
         NEW own \in [Nat -> Threads \cup {None}], NEW at \in [Nat -> Nat],
         CidInv, QueueInv(TL, F, DH, MH, SH, DT, cur, enq, own, at),
         UNCHANGED vars
  PROVE  QueueInv(TL, F, DH, MH, SH, DT, cur, enq, own, at)'
<1>1. UNCHANGED <<inTicket, tickets, sqe, tailMark, tailLock, tail, sqHead, sqDb, cqe, headMark, headLock, head, cqDb,
                  devHead, devTail, fetched>>
  BY DEF vars, sqVars, cqVars, devVars
<1>2. UNCHANGED <<pc, cid, ticket, hd, idx, loc, moved, issued, executed, returned>>
  BY DEF vars, pollVars, histVars
<1>3. \A u \in Threads : /\ Ticketed(u)' <=> Ticketed(u)
                         /\ Written(u)' <=> Written(u)
                         /\ Executed(u)' <=> Executed(u)
                         /\ Command(u)' = Command(u)
  BY <1>2 DEF Ticketed, Written, Executed, Command
<1>4. Types'
  BY <1>1, <1>2 DEF QueueInv, Types
<1>5. HistInv'
  BY <1>2, <1>3 DEF QueueInv, HistInv
<1>6. RingInv(TL, F, DH)'
  BY <1>1, <1>2 DEF QueueInv, RingInv
<1>7. TicketInv(TL, DH)'
  BY <1>1, <1>2, <1>3 DEF QueueInv, TicketInv
<1>8. PosInv(TL, F, cur, enq)'
  BY <1>1 DEF QueueInv, PosInv
<1>9. TurnInv(cur, enq)'
  BY <1>1, <1>2, <1>3 DEF QueueInv, TurnInv
<1>10. FetchInv(DH, DT)'
  BY <1>1, <1>2, <1>3 DEF QueueInv, FetchInv
<1>11. HeadInv(F, MH, SH, DT)'
  BY <1>1, <1>2 DEF QueueInv, HeadInv
<1>12. EntryInv(F, DH, MH, DT, at)'
  BY <1>1 DEF QueueInv, EntryInv
<1>13. OwnInv(MH, DT, own)'
  <2>1. \A j \in Nat : Live(DT, j)' <=> Live(DT, j)
    BY <1>1 DEF Live
  <2> QED BY <2>1, <1>1, <1>2, <1>3 DEF QueueInv, OwnInv
<1>14. PollInv(DT)'
  BY <1>1, <1>2 DEF QueueInv, PollInv
<1> QED BY <1>4, <1>5, <1>6, <1>7, <1>8, <1>9, <1>10, <1>11, <1>12, <1>13, <1>14 DEF QueueInv

(* One step per action; the ghosts move as the action does.                *)
LEMMA QueueInvStep ==
  ASSUME Few, CidInv, CountInv, SomeQueueInv, [Next]_vars, ~lapped'
  PROVE  SomeQueueInv'
<1>1. PICK TL \in Nat, F \in Nat, DH \in Nat, MH \in Nat, SH \in Nat, DT \in Nat, cur \in [SqPos -> Nat],
           enq \in [SqPos -> BOOLEAN], own \in [Nat -> Threads \cup {None}], at \in [Nat -> Nat] :
        QueueInv(TL, F, DH, MH, SH, DT, cur, enq, own, at)
  BY DEF SomeQueueInv
<1>2. ASSUME NEW t \in Threads, GetCid(t) PROVE SomeQueueInv'
  <2>1. QueueInv(TL, F, DH, MH, SH, DT, cur, enq, own, at)'
    BY <1>1, <1>2, GetCidStep
  <2> QED BY <2>1, Witnessed
<1>3. ASSUME NEW t \in Threads, TakeTicket(t) PROVE SomeQueueInv'
  <2>1. inTicket + 1 < Word
    BY <1>3, NoWrap
  <2>2. QueueInv(TL, F, DH, MH, SH, DT, cur, enq, own, at)'
    BY <2>1, <1>1, <1>3, TakeTicketStep
  <2> QED BY <2>2, Witnessed
<1>4. ASSUME NEW t \in Threads, WriteEntry(t) PROVE SomeQueueInv'
  <2>1. QueueInv(TL, F, DH, MH, SH, DT, cur, enq, own, at)'
    BY <1>1, <1>4, WriteEntryStep
  <2> QED BY <2>1, Witnessed
<1>5. ASSUME NEW t \in Threads, MoveTail(t) PROVE SomeQueueInv'
  <2>1. PICK TL1 \in Nat : QueueInv(TL1, F, DH, MH, SH, DT, cur, enq, own, at)'
    BY <1>1, <1>5, MoveTailStep
  <2> QED BY <2>1, Witnessed
<1>6. ASSUME NEW t \in Threads, RingTail(t) PROVE SomeQueueInv'
  <2>1. QueueInv(TL, F, DH, MH, SH, DT, cur, enq, own, at)'
    BY <1>1, <1>6, RingTailStep
  <2> QED BY <2>1, Witnessed
<1>7. ASSUME NEW t \in Threads, Enqueued(t) PROVE SomeQueueInv'
  <2>1. PICK cur1 \in [SqPos -> Nat], enq1 \in [SqPos -> BOOLEAN] :
          QueueInv(TL, F, DH, MH, SH, DT, cur1, enq1, own, at)'
    BY <1>1, <1>7, EnqueuedStep
  <2> QED BY <2>1, Witnessed
<1>8. ASSUME DevFetch PROVE SomeQueueInv'
  <2>1. PICK DH1 \in Nat : QueueInv(TL, F, DH1, MH, SH, DT, cur, enq, own, at)'
    BY <1>1, <1>8, DevFetchStep
  <2> QED BY <2>1, Witnessed
<1>9. ASSUME DevComplete PROVE SomeQueueInv'
  <2>1. PICK DT1 \in Nat, own1 \in [Nat -> Threads \cup {None}], at1 \in [Nat -> Nat] :
          QueueInv(TL, F, DH, MH, SH, DT1, cur, enq, own1, at1)'
    BY <1>1, <1>9, DevCompleteStep
  <2> QED BY <2>1, Witnessed
<1>10. ASSUME NEW t \in Threads, PollHead(t) PROVE SomeQueueInv'
  <2>1. QueueInv(TL, F, DH, MH, SH, DT, cur, enq, own, at)'
    BY <1>1, <1>10, PollHeadStep
  <2> QED BY <2>1, Witnessed
<1>11. ASSUME NEW t \in Threads, Scan(t) PROVE SomeQueueInv'
  <2>1. QueueInv(TL, F, DH, MH, SH, DT, cur, enq, own, at)'
    BY <1>1, <1>11, ScanStep
  <2> QED BY <2>1, Witnessed
<1>12. ASSUME NEW t \in Threads, LockPos(t) PROVE SomeQueueInv'
  <2>1. QueueInv(TL, F, DH, MH, SH, DT, cur, enq, own, at)'
    BY <1>1, <1>12, LockPosStep
  <2> QED BY <2>1, Witnessed
<1>13. ASSUME NEW t \in Threads, MoveHead(t) PROVE SomeQueueInv'
  <2>1. PICK F1 \in Nat, MH1 \in Nat, cur1 \in [SqPos -> Nat], enq1 \in [SqPos -> BOOLEAN] :
          QueueInv(TL, F1, DH, MH1, SH, DT, cur1, enq1, own, at)'
    BY <1>1, <1>13, MoveHeadStep
  <2> QED BY <2>1, Witnessed
<1>14. ASSUME NEW t \in Threads, RingHead(t) PROVE SomeQueueInv'
  <2>1. QueueInv(TL, F, DH, MH, MH, DT, cur, enq, own, at)'
    BY <1>1, <1>14, RingHeadStep
  <2> QED BY <2>1, Witnessed
<1>15. ASSUME NEW t \in Threads, StoreHead(t) PROVE SomeQueueInv'
  <2>1. QueueInv(TL, F, DH, MH, SH, DT, cur, enq, own, at)'
    BY <1>1, <1>15, StoreHeadStep
  <2> QED BY <2>1, Witnessed
<1>16. ASSUME NEW t \in Threads, Dequeued(t) PROVE SomeQueueInv'
  <2>1. QueueInv(TL, F, DH, MH, SH, DT, cur, enq, own, at)'
    BY <1>1, <1>16, DequeuedStep
  <2> QED BY <2>1, Witnessed
<1>17. ASSUME NEW t \in Threads, PutCid(t) PROVE SomeQueueInv'
  <2>1. QueueInv(TL, F, DH, MH, SH, DT, cur, enq, own, at)'
    BY <1>1, <1>17, PutCidStep
  <2> QED BY <2>1, Witnessed
<1>18. CASE UNCHANGED vars
  <2>1. QueueInv(TL, F, DH, MH, SH, DT, cur, enq, own, at)'
    BY <1>1, <1>18, QueueStutter
  <2> QED BY <2>1, Witnessed
<1> QED BY <1>2, <1>3, <1>4, <1>5, <1>6, <1>7, <1>8, <1>9, <1>10, <1>11, <1>12, <1>13, <1>14, <1>15, <1>16, <1>17,
           <1>18 DEF Next, Device, Step, Enqueue, Poll, Dequeue

LEMMA LappedStays == ASSUME lapped, [Next]_vars PROVE lapped'
<1>1. CASE UNCHANGED vars
  BY <1>1 DEF vars
<1>2. CASE Device
  BY <1>2 DEF Device, DevFetch, DevComplete
<1>3. ASSUME NEW t \in Threads, Enqueue(t) \/ GetCid(t) \/ PutCid(t) PROVE lapped'
  BY <1>3 DEF Enqueue, GetCid, PutCid, TakeTicket, WriteEntry, MoveTail, RingTail, Enqueued
<1>4. ASSUME NEW t \in Threads, Poll(t) PROVE lapped'
  BY <1>4 DEF Poll, PollHead, Scan
<1>5. ASSUME NEW t \in Threads, Dequeue(t) PROVE lapped'
  BY <1>5 DEF Dequeue, LockPos, MoveHead, RingHead, StoreHead, Dequeued
<1> QED BY <1>1, <1>2, <1>3, <1>4, <1>5 DEF Next, Step

(* The inductive invariant of the queue pair.                              *)
IInv == CidInv /\ CountInv /\ LockInv /\ (lapped \/ SomeQueueInv)

LEMMA IInvHolds == ASSUME Few PROVE Spec => []IInv
<1>1. Init => IInv
  BY CidInvInit, CountInit, QueueInvInit DEF IInv
<1>2. IInv /\ [Next]_vars => IInv'
  <2> SUFFICES ASSUME IInv, [Next]_vars PROVE IInv'
    OBVIOUS
  <2>1. CidInv' /\ CountInv' /\ LockInv'
    BY CidInvStep, CountStep DEF IInv
  <2>2. lapped' \/ SomeQueueInv'
    <3>1. CASE lapped
      BY <3>1, LappedStays
    <3>2. CASE ~lapped
      BY <3>2, QueueInvStep DEF IInv
    <3> QED BY <3>1, <3>2
  <2> QED BY <2>1, <2>2 DEF IInv
<1> QED BY <1>1, <1>2, PTL DEF Spec

LEMMA KeptFact ==
  ASSUME NEW TL \in Nat, NEW F \in Nat, NEW DH \in Nat, NEW MH \in Nat, NEW SH \in Nat, NEW DT \in Nat,
         NEW cur \in [SqPos -> Nat], NEW enq \in [SqPos -> BOOLEAN],
         NEW own \in [Nat -> Threads \cup {None}], NEW at \in [Nat -> Nat],
         CidInv, QueueInv(TL, F, DH, MH, SH, DT, cur, enq, own, at)
  PROVE  NoOverwrite
<1> SUFFICES ASSUME NEW t \in Threads, Unfetched(t) PROVE sqe[ticket[t] % SQS] = Command(t)
  BY DEF NoOverwrite, Command
<1>1. Written(t) /\ Ticketed(t) /\ Command(t) \notin fetched /\ executed[t] < issued[t]
  BY DEF Unfetched, Written, Ticketed, Command
<1>2. ticket[t] \in Nat /\ executed[t] \in Nat /\ issued[t] \in Nat
  BY DEF QueueInv, Types
<1>3. ~Executed(t)
  BY <1>1, <1>2 DEF Executed
<1>4. ~(ticket[t] < DH)
  BY <1>1, <1>3 DEF QueueInv, FetchInv
<1>5. DH <= ticket[t]
  BY <1>2, <1>4
<1> QED BY <1>1, <1>5 DEF QueueInv, FetchInv, SPos

(* The head that cq_poll will find, or finds already.                      *)
LEMMA ShownFact ==
  ASSUME NEW TL \in Nat, NEW F \in Nat, NEW DH \in Nat, NEW MH \in Nat, NEW SH \in Nat, NEW DT \in Nat,
         NEW cur \in [SqPos -> Nat], NEW enq \in [SqPos -> BOOLEAN],
         NEW own \in [Nat -> Threads \cup {None}], NEW at \in [Nat -> Nat],
         CidInv, QueueInv(TL, F, DH, MH, SH, DT, cur, enq, own, at),
         LockInv
  PROVE  ShownHead = SH
<1>0. head \in Nat /\ head <= SH /\ SH <= MH /\ MH <= DT
  BY DEF QueueInv, HeadInv, Types
<1>1. CASE \E u \in Threads : pc[u] = "store"
  <2>1. PICK v \in Threads : v = (CHOOSE u \in Threads : pc[u] = "store") /\ pc[v] = "store"
    BY <1>1
  <2>2. ShownHead = Add(head, moved[v])
    BY <1>1, <2>1 DEF ShownHead
  <2>3. SH = head + moved[v]
    BY <2>1 DEF QueueInv, HeadInv
  <2>4. IsFiniteSet(fetched) /\ DT + Cardinality(fetched) = DH
    BY DEF QueueInv, FetchInv
  <2>5. PICK k \in Nat : k = Cardinality(fetched)
    BY <2>4, FS_CardinalityType
  <2>6. DH <= tail /\ tail <= TL /\ TL <= inTicket /\ inTicket < Word /\ Word \in Nat /\ tail \in Nat /\ inTicket \in Nat
    BY SizesAssumption DEF QueueInv, RingInv, Types
  <2>7. SH < Word
    BY <2>4, <2>5, <2>6, <1>0
  <2> QED BY <2>2, <2>3, <2>6, <2>7 DEF Add
<1>2. CASE ~(\E u \in Threads : pc[u] = "store")
  <2>1. ShownHead = head
    BY <1>2 DEF ShownHead
  <2>2. CASE headLock
    <3>1. PICK v \in Threads : pc[v] = "free"
      BY <1>2, <2>2 DEF LockInv
    <3>2. SH = head
      BY <3>1 DEF QueueInv, HeadInv
    <3> QED BY <2>1, <3>2
  <2>3. CASE ~headLock
    <3>1. head = MH
      BY <2>3 DEF QueueInv, HeadInv
    <3> QED BY <2>1, <3>1, <1>0
  <2> QED BY <2>2, <2>3
<1> QED BY <1>1, <1>2

LEMMA FoundFact ==
  ASSUME NEW TL \in Nat, NEW F \in Nat, NEW DH \in Nat, NEW MH \in Nat, NEW SH \in Nat, NEW DT \in Nat,
         NEW cur \in [SqPos -> Nat], NEW enq \in [SqPos -> BOOLEAN],
         NEW own \in [Nat -> Threads \cup {None}], NEW at \in [Nat -> Nat],
         CidInv, QueueInv(TL, F, DH, MH, SH, DT, cur, enq, own, at),
         LockInv
  PROVE  CompletionFound
<1>0. ShownHead = SH
  BY ShownFact
<1> SUFFICES ASSUME NEW t \in Threads, pc[t] \in {"poll", "scan"}, executed[t] = issued[t]
             PROVE  \E i \in 0 .. CQS - 2 :
                      /\ cqe[(SH + i) % CQS].cid = cid[t]
                      /\ \A k \in 0 .. i : cqe[(SH + k) % CQS].phase = SearchPhase(Add(SH, k))
  BY <1>0 DEF CompletionFound
<1>1. PICK j \in Nat : Live(DT, j) /\ own[j] = t
  BY DEF QueueInv, OwnInv, Ticketed, Executed
<1>2. MH <= j /\ j < DT /\ cqe[CPos(j)].cid = cid[t]
  BY <1>1 DEF QueueInv, OwnInv, Live
<1>3. SH <= MH /\ DT < SH + CQS /\ CQS \in Nat /\ CQS > 1
  BY CPosFacts DEF QueueInv, HeadInv
<1>4. PICK i \in 0 .. CQS - 2 : j = SH + i
  <2>1. j - SH \in 0 .. CQS - 2 /\ j = SH + (j - SH)
    BY <1>2, <1>3
  <2> QED BY <2>1
<1>5. DT < Word /\ Word \in Nat
  <2>4. IsFiniteSet(fetched) /\ DT + Cardinality(fetched) = DH
    BY DEF QueueInv, FetchInv
  <2>5. PICK k \in Nat : k = Cardinality(fetched)
    BY <2>4, FS_CardinalityType
  <2>6. DH <= tail /\ tail <= TL /\ TL <= inTicket /\ inTicket < Word /\ Word \in Nat /\ tail \in Nat /\ inTicket \in Nat
    BY SizesAssumption DEF QueueInv, RingInv, Types
  <2> QED BY <2>4, <2>5, <2>6
<1>6. ASSUME NEW k \in 0 .. i PROVE cqe[(SH + k) % CQS].phase = SearchPhase(Add(SH, k))
  <2>1. PICK m \in Nat : m = SH + k /\ m < DT
    BY <1>2, <1>4
  <2>2. Add(SH, k) = m
    BY <2>1, <1>5 DEF Add
  <2>3. PICK x \in Nat : x = m + CQS /\ DT <= x /\ x < DT + CQS
    BY <2>1, <1>3
  <2>4. cqe[CPos(x)].phase # SearchPhase(x)
    BY <2>3 DEF QueueInv, EntryInv
  <2>5. CPos(x) = CPos(m) /\ CPos(m) \in CqPos
    BY <2>3, CPosFacts
  <2>6. SearchPhase(x) = 1 - SearchPhase(m) /\ SearchPhase(m) \in {0, 1}
    BY <2>3, PhaseFacts
  <2>7. cqe[CPos(m)].phase \in {0, 1}
    BY <2>5 DEF QueueInv, Types
  <2>8. cqe[CPos(m)].phase = SearchPhase(m)
    BY <2>4, <2>5, <2>6, <2>7
  <2>9. (SH + k) % CQS = CPos(m)
    BY <2>1, Zenon DEF CPos
  <2> QED BY <2>2, <2>8, <2>9
<1>7. cqe[(SH + i) % CQS].cid = cid[t]
  BY <1>2, <1>4 DEF CPos
<1> QED BY <1>6, <1>7

LEMMA InvariantFacts ==
  ASSUME IInv, ~lapped
  PROVE  NoOverwrite /\ CompletionFound /\ HistInv /\ Types
<1>1. PICK TL \in Nat, F \in Nat, DH \in Nat, MH \in Nat, SH \in Nat, DT \in Nat, cur \in [SqPos -> Nat],
           enq \in [SqPos -> BOOLEAN], own \in [Nat -> Threads \cup {None}], at \in [Nat -> Nat] :
        QueueInv(TL, F, DH, MH, SH, DT, cur, enq, own, at)
  BY DEF IInv, SomeQueueInv
<1>2. CidInv /\ LockInv
  BY DEF IInv
<1>3. NoOverwrite
  BY <1>1, <1>2, KeptFact
<1>4. CompletionFound
  BY <1>1, <1>2, FoundFact
<1>5. HistInv /\ Types
  BY <1>1 DEF QueueInv
<1> QED BY <1>3, <1>4, <1>5

(* As long as fewer than Word commands go through the queue pair and no    *)
(* scan has placed its entry behind the head: sq_enqueue never writes over *)
(* a command that the device has not fetched, whichever threads move the   *)
(* tail and the head for the others.                                       *)
THEOREM CommandsKept == ASSUME Few PROVE Spec => [](~lapped => NoOverwrite)
<1>1. IInv => (~lapped => NoOverwrite)
  BY InvariantFacts
<1> QED BY <1>1, IInvHolds, PTL

(* Under the same conditions, a completion that nobody has picked up is    *)
(* where cq_poll of its thread looks for it, and no entry before it ends   *)
(* the scan.                                                               *)
THEOREM CompletionsFound == ASSUME Few PROVE Spec => [](~lapped => CompletionFound)
<1>1. IInv => (~lapped => CompletionFound)
  BY InvariantFacts
<1> QED BY <1>1, IInvHolds, PTL

(* A thread goes on after cq_poll with the completion of its own command,  *)
(* never with a stale entry that carries its identifier.                   *)
THEOREM PollReturnsOwn == ASSUME Few PROVE Spec => []OwnCompletion
<1>1. IInv => OwnCompletion
  <2> SUFFICES ASSUME IInv, ~lapped, NEW t \in Threads, pc[t] \in DequeueLabels \ {"poll", "scan"}
               PROVE  executed[t] = issued[t]
    BY DEF OwnCompletion
  <2>1. pc[t] \in {"lock", "head", "free", "store", "put"}
    BY DEF DequeueLabels
  <2> QED BY <2>1, InvariantFacts DEF HistInv, Executed
<1> QED BY <1>1, IInvHolds, PTL

(* What the device works on is a command that has been handed over and not *)
(* executed yet.                                                           *)
LEMMA FetchedFact ==
  ASSUME IInv, ~lapped, NEW c \in fetched
  PROVE  c.by \in Threads /\ executed[c.by] < issued[c.by]
<1>1. PICK TL \in Nat, F \in Nat, DH \in Nat, MH \in Nat, SH \in Nat, DT \in Nat, cur \in [SqPos -> Nat],
           enq \in [SqPos -> BOOLEAN], own \in [Nat -> Threads \cup {None}], at \in [Nat -> Nat] :
        QueueInv(TL, F, DH, MH, SH, DT, cur, enq, own, at)
  BY DEF IInv, SomeQueueInv
<1>2. PICK t \in Threads : c = Command(t) /\ Ticketed(t) /\ ~Executed(t)
  BY <1>1 DEF QueueInv, FetchInv
<1>3. c.by = t
  BY <1>2 DEF Command
<1>4. executed[t] = returned[t] /\ issued[t] = returned[t] + 1 /\ returned[t] \in Nat
  BY <1>1, <1>2 DEF QueueInv, HistInv, Types, Executed
<1> QED BY <1>3, <1>4

LEMMA ChannelStep ==
  ASSUME IInv, ~lapped, [Next]_vars
  PROVE  [Channel!Next]_(Channel!vars)
<1> USE DEF Channel!Next, Channel!vars
<1>0. HistInv /\ Types
  BY InvariantFacts
<1>1. ASSUME UNCHANGED histVars PROVE [Channel!Next]_(Channel!vars)
  BY <1>1 DEF histVars
<1>2. ASSUME NEW t \in Threads, TakeTicket(t) PROVE [Channel!Next]_(Channel!vars)
  <2>1. pc[t] = "ticket" /\ issued' = [issued EXCEPT ![t] = @ + 1] /\ UNCHANGED <<executed, returned>>
    BY <1>2 DEF TakeTicket
  <2>2. issued[t] = returned[t] /\ issued[t] < Ops
    BY <2>1, <1>0 DEF HistInv, Ticketed, IInv, CountInv
  <2> QED BY <2>1, <2>2 DEF Channel!Issue
<1>3. ASSUME NEW t \in Threads, PutCid(t) PROVE [Channel!Next]_(Channel!vars)
  <2>1. pc[t] = "put" /\ returned' = [returned EXCEPT ![t] = @ + 1] /\ UNCHANGED <<issued, executed>>
    BY <1>3 DEF PutCid
  <2>2. executed[t] = returned[t] + 1 /\ returned[t] \in Nat
    BY <2>1, <1>0 DEF HistInv, Ticketed, Executed, Types
  <2>3. returned[t] < executed[t]
    BY <2>2
  <2> QED BY <2>1, <2>3 DEF Channel!Return
<1>4. ASSUME DevComplete PROVE [Channel!Next]_(Channel!vars)
  <2>1. PICK c \in fetched : executed' = [executed EXCEPT ![c.by] = @ + 1]
    BY <1>4 DEF DevComplete
  <2>2. UNCHANGED <<issued, returned>>
    BY <1>4 DEF DevComplete
  <2>3. PICK t \in Threads : t = c.by /\ executed[t] < issued[t]
    BY FetchedFact
  <2> QED BY <2>1, <2>2, <2>3 DEF Channel!Execute
<1>5. ASSUME NEW t \in Threads, GetCid(t) \/ WriteEntry(t) \/ MoveTail(t) \/ RingTail(t) \/ Enqueued(t) PROVE UNCHANGED histVars
  BY <1>5 DEF GetCid, WriteEntry, MoveTail, RingTail, Enqueued
<1>6. ASSUME NEW t \in Threads, Poll(t) \/ Dequeue(t) PROVE UNCHANGED histVars
  BY <1>6 DEF Poll, Dequeue, PollHead, Scan, LockPos, MoveHead, RingHead, StoreHead, Dequeued
<1>7. ASSUME DevFetch PROVE UNCHANGED histVars
  BY <1>7 DEF DevFetch
<1>8. CASE UNCHANGED vars
  BY <1>1, <1>8 DEF vars
<1> QED
  BY <1>1, <1>2, <1>3, <1>4, <1>5, <1>6, <1>7, <1>8 DEF Next, Device, Step, Enqueue

(* Under the same conditions the queue pair implements the channel: every  *)
(* command is executed once, after it was handed over, and cq_dequeue      *)
(* returns to its issuer after that and before the next command.           *)
THEOREM ChannelImplemented == ASSUME Few PROVE Spec /\ []~lapped => Channel!Spec
<1>1. Init => Channel!Init
  BY DEF Init, Channel!Init
<1>2. IInv /\ ~lapped /\ [Next]_vars => [Channel!Next]_(Channel!vars)
  BY ChannelStep
<1> QED BY <1>1, <1>2, IInvHolds, PTL DEF Spec, Channel!Spec
=============================================================================
