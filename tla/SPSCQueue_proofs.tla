--------------------------- MODULE SPSCQueue_proofs ---------------------------
(***************************************************************************)
(* Facts about the operations of SPSCQueue, for every Capacity. The        *)
(* modules that prove something of the two clients of the queue cite them. *)
(***************************************************************************)
EXTENDS SPSCQueue, TLAPS

-----------------------------------------------------------------------------
(* Arithmetic of the ring.                                                 *)

(* Division with remainder. *)
LEMMA DivMod ==
  ASSUME NEW a \in Nat, NEW c \in Nat \ {0}
  PROVE  /\ a \div c \in Nat
         /\ a % c \in 0 .. c - 1
         /\ a = (c * (a \div c)) + (a % c)
  OBVIOUS

(* The remainder is determined by any such decomposition. *)
LEMMA ModUnique ==
  ASSUME NEW c \in Nat \ {0}, NEW q \in Int, NEW r \in 0 .. c - 1
  PROVE  ((c * q) + r) % c = r
  BY SMT

(* Mask() yields a slot index. *)
LEMMA MaskIsSlot == ASSUME NEW a \in Nat PROVE Mask(a) \in Slot
  BY DivMod, CapacityAssumption DEF Mask, Slot

(* The successor of a masked index is the mask of the successor: the       *)
(* indices kept by the code follow the counts of commits and pops.         *)
LEMMA MaskSucc ==
  ASSUME NEW a \in Nat
  PROVE  Mask(Mask(a) + 1) = Mask(a + 1)
<1> DEFINE c == Capacity
           q == a \div c
           r == a % c
<1>1. c \in Nat \ {0} /\ q \in Nat /\ r \in 0 .. c - 1 /\ a = (c * q) + r
  BY DivMod, CapacityAssumption
<1> HIDE DEF c, q, r
<1>2. CASE r + 1 < c
  <2>1. a + 1 = (c * q) + (r + 1)
    BY <1>1
  <2>2. (a + 1) % c = r + 1
    BY <2>1, <1>1, <1>2, ModUnique
  <2>3. (r + 1) % c = r + 1
    BY <1>1, <1>2
  <2> QED
    BY <2>2, <2>3 DEF Mask, r, c
<1>3. CASE r + 1 = c
  <2>1. a + 1 = (c * (q + 1)) + 0
    BY <1>1, <1>3
  <2>2. (a + 1) % c = 0
    BY <2>1, <1>1, <1>3, ModUnique
  <2>3. (r + 1) % c = 0
    BY <1>1, <1>3
  <2> QED
    BY <2>2, <2>3 DEF Mask, r, c
<1> QED
  BY <1>1, <1>2, <1>3

(* One lap further is the same slot. *)
LEMMA MaskLap ==
  ASSUME NEW a \in Nat
  PROVE  Mask(a + Capacity) = Mask(a)
<1> DEFINE c == Capacity
           q == a \div c
           r == a % c
<1>1. c \in Nat \ {0} /\ q \in Nat /\ r \in 0 .. c - 1 /\ a = (c * q) + r
  BY DivMod, CapacityAssumption
<1> HIDE DEF c, q, r
<1>2. a + c = (c * (q + 1)) + r
  BY <1>1
<1>3. (a + c) % c = r
  BY <1>1, <1>2, ModUnique
<1> QED
  BY <1>3 DEF Mask, r, c

(* Less than a lap apart, two counts never share a slot. *)
LEMMA MaskDistinct ==
  ASSUME NEW a \in Nat, NEW b \in Nat, a < b, b < a + Capacity
  PROVE  Mask(a) # Mask(b)
<1> DEFINE c == Capacity
           p == a \div c
           q == b \div c
<1>c. c \in Nat \ {0}
  BY CapacityAssumption
<1>p. p \in Nat /\ a % c \in 0 .. c - 1 /\ a = (c * p) + (a % c)
  BY <1>c, DivMod
<1>q. q \in Nat /\ b % c \in 0 .. c - 1 /\ b = (c * q) + (b % c)
  BY <1>c, DivMod
<1>2. a < b /\ b < a + c
  OBVIOUS
<1> SUFFICES ASSUME a % c = b % c PROVE FALSE
  BY DEF Mask
<1> HIDE DEF c, p, q
<1>3. b - a = c * (q - p)
  BY <1>c, <1>p, <1>q
<1>4. CASE q - p <= 0
  <2>1. c * (q - p) <= 0
    BY <1>c, <1>p, <1>q, <1>4
  <2> QED
    BY <2>1, <1>2, <1>3, <1>c, <1>p, <1>q
<1>5. CASE q - p >= 1
  <2>1. c * (q - p) >= c
    BY <1>c, <1>p, <1>q, <1>5
  <2> QED
    BY <2>1, <1>2, <1>3, <1>c, <1>p, <1>q
<1> QED
  BY <1>c, <1>p, <1>q, <1>4, <1>5

-----------------------------------------------------------------------------
(* The invariant of the queue alone: the indices are the masked counts,    *)
(* neither side has seen more than there is, the consumer has released     *)
(* only what it has seen, and even by what the producer has seen of the    *)
(* pops the ring holds at most Capacity - 1 items.                         *)
QueueInv ==
  /\ QueueTypeOK
  /\ head = Mask(commits)
  /\ tail = Mask(pops)
  /\ tailSeen <= pops
  /\ pops <= headSeen
  /\ headSeen <= commits
  /\ commits + 1 <= tailSeen + Capacity

(* The producer has allocated the slot at head. *)
Allocated == commits + 2 <= tailSeen + Capacity

LEMMA QueueInitInv == QueueInit => QueueInv
<1> SUFFICES ASSUME QueueInit PROVE QueueInv
  OBVIOUS
<1>1. Mask(0) = 0 /\ 0 \in Slot
  BY CapacityAssumption DEF Mask, Slot
<1> QED
  BY <1>1, CapacityAssumption DEF QueueInit, QueueInv, QueueTypeOK

(* try_alloc() succeeds only if a slot is free, although it may compare    *)
(* with an old tail.                                                       *)
LEMMA TryAllocInv ==
  ASSUME QueueInv, NEW n, TryAlloc(n)
  PROVE  QueueInv' /\ Allocated'
<1> USE CapacityAssumption DEF QueueInv, QueueTypeOK
<1>1. n \in Nat /\ tailSeen <= n /\ n <= pops /\ tailSeen' = n
      /\ UNCHANGED <<head, tail, buffer, commits, pops, headSeen>>
  BY DEF TryAlloc, LoadTail
<1>2. QueueInv'
  BY <1>1
<1>3. commits + 1 # n + Capacity
  <2>1. Mask(head + 1) = Mask(commits + 1)
    BY MaskSucc
  <2>2. Mask(head + 1) # Mask(n)
    BY DEF TryAlloc
  <2> QED
    BY <2>1, <2>2, MaskLap, <1>1
<1> QED
  BY <1>1, <1>2, <1>3 DEF Allocated

LEMMA TryAllocFullInv ==
  ASSUME QueueInv, NEW n, TryAllocFull(n)
  PROVE  QueueInv'
  BY CapacityAssumption DEF QueueInv, QueueTypeOK, TryAllocFull, LoadTail

LEMMA WriteSlotInv ==
  ASSUME QueueInv, NEW item \in Item, WriteSlot(item)
  PROVE  QueueInv' /\ buffer'[head] = item
  BY DEF QueueInv, QueueTypeOK, WriteSlot

LEMMA CommitInv ==
  ASSUME QueueInv, Allocated, Commit
  PROVE  QueueInv'
<1> USE CapacityAssumption DEF QueueInv, QueueTypeOK, Commit
<1>1. head' = Mask(commits + 1) /\ head' \in Slot
  BY MaskSucc, MaskIsSlot
<1> QED
  BY <1>1 DEF Allocated

(* front() returns an item only if one was committed. *)
LEMMA FrontInv ==
  ASSUME QueueInv, NEW n, Front(n)
  PROVE  QueueInv' /\ ReadIsOrdered'
  BY CapacityAssumption DEF QueueInv, QueueTypeOK, Front, LoadHead, ReadIsOrdered

(* front() reports an empty queue only if no commit it could have seen is  *)
(* left.                                                                   *)
LEMMA FrontEmptyInv ==
  ASSUME QueueInv, NEW n, FrontEmpty(n)
  PROVE  QueueInv' /\ headSeen' = pops /\ headSeen <= pops
<1> USE CapacityAssumption DEF QueueInv, QueueTypeOK
<1>1. n \in Nat /\ headSeen <= n /\ n <= commits /\ headSeen' = n /\ Mask(n) = tail
      /\ UNCHANGED <<head, tail, buffer, commits, pops, tailSeen>>
  BY DEF FrontEmpty, LoadHead
<1>2. n = pops
  <2>1. n < pops + Capacity
    BY <1>1
  <2> QED
    BY <2>1, <1>1, MaskDistinct
<1> QED
  BY <1>1, <1>2

LEMMA PopInv ==
  ASSUME QueueInv, ReadIsOrdered, Pop
  PROVE  QueueInv'
<1> USE CapacityAssumption DEF QueueInv, QueueTypeOK, Pop
<1>1. tail' = Mask(pops + 1) /\ tail' \in Slot
  BY MaskSucc, MaskIsSlot
<1> QED
  BY <1>1 DEF ReadIsOrdered

LEMMA SyncInv ==
  ASSUME QueueInv, ConsumerSyncsWithProducer
  PROVE  QueueInv' /\ headSeen' = commits'
  BY DEF QueueInv, QueueTypeOK, ConsumerSyncsWithProducer

(* Writing the allocated slot changes no item in the queue. *)
LEMMA WriteSlotKeepsItems ==
  ASSUME QueueInv, Allocated, NEW item \in Item, WriteSlot(item)
  PROVE  \A i \in Nat : pops <= i /\ i < commits => buffer'[Mask(i)] = buffer[Mask(i)]
<1> USE CapacityAssumption DEF QueueInv, QueueTypeOK
<1> SUFFICES ASSUME NEW i \in Nat, pops <= i, i < commits
             PROVE  buffer'[Mask(i)] = buffer[Mask(i)]
  OBVIOUS
<1>1. Mask(i) # head
  BY MaskDistinct DEF Allocated
<1>2. Mask(i) \in Slot
  BY MaskIsSlot
<1> QED
  BY <1>1, <1>2 DEF WriteSlot

(* size() is exact for the value of tail_ that it loaded. *)
LEMMA SizeSeenIsDistance ==
  ASSUME QueueInv, NEW n \in tailSeen .. pops
  PROVE  SizeSeen(n) = commits - n /\ SizeSeen(n) \in 0 .. usable_capacity
<1> DEFINE c == Capacity
           p == n \div c
           q == commits \div c
           d == commits - n
<1>c. c \in Nat \ {0}
  BY CapacityAssumption
<1>n. n \in Nat /\ commits \in Nat /\ n <= commits /\ commits < n + c
  BY <1>c DEF QueueInv, QueueTypeOK
<1>d. d \in 0 .. c - 1
  BY <1>c, <1>n
<1>p. p \in Nat /\ n % c \in 0 .. c - 1 /\ n = (c * p) + (n % c)
  BY <1>c, <1>n, DivMod
<1>q. q \in Nat /\ commits % c \in 0 .. c - 1 /\ commits = (c * q) + (commits % c)
  BY <1>c, <1>n, DivMod
<1>s. SizeSeen(n) = ((commits % c) - (n % c)) % c
  BY DEF QueueInv, SizeSeen, Mask
<1>u. d = commits - n /\ usable_capacity = c - 1
  BY DEF usable_capacity
<1> HIDE DEF c, p, q, d
<1>1. (commits % c) - (n % c) = (c * (p - q)) + d
  BY <1>c, <1>n, <1>p, <1>q, <1>u
<1>2. p - q \in Int
  BY <1>p, <1>q
<1>3. ((c * (p - q)) + d) % c = d
  BY <1>2, <1>c, <1>d, ModUnique
<1>4. SizeSeen(n) = d
  BY <1>1, <1>3, <1>s, Zenon
<1> QED
  BY <1>4, <1>d, <1>u

=============================================================================
