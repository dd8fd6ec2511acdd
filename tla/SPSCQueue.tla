------------------------------ MODULE SPSCQueue ------------------------------
(***************************************************************************)
(* SPSCQueue<T, Capacity> of src/common/spsc_queue.hpp: a ring of Capacity *)
(* slots, one producer that owns head_, one consumer that owns tail_.      *)
(*                                                                         *)
(* This module holds the queue's state and its operations, split at the    *)
(* accesses to shared memory; the modules that EXTEND it supply the two    *)
(* threads (SPSCBench for spsc_bench.cpp, ThreadedReceiver for             *)
(* receiver_threaded.cpp).                                                 *)
(*                                                                         *)
(* C++ memory order. head_ and tail_ have one writer each, so their        *)
(* modification orders are the sequences of values stored by commit() and  *)
(* pop(); `commits' and `pops' are the lengths of those orders, and the    *)
(* n-th value stored is Mask(n). A load by the other thread may return an  *)
(* old value, but never one older than a value it already depends on: it   *)
(* returns the n-th value for some n from `tailSeen' (`headSeen') up to    *)
(* the latest. Because the stores are release and the loads acquire, that  *)
(* load makes the first n pops (commits) happen before everything the      *)
(* loading thread does next. tailSeen and headSeen therefore record what   *)
(* happens before the producer and before the consumer.                    *)
(***************************************************************************)
EXTENDS Integers, Sequences

CONSTANTS
  Capacity,  \* number of slots; a power of two (spsc_queue.hpp:19)
  Item,      \* the values of T that are pushed
  NoItem     \* the content of a slot that was never written

ASSUME CapacityAssumption ==
  /\ Capacity \in Nat \ {0}
  /\ \E n \in 0 .. Capacity : Capacity = 2 ^ n

ASSUME NoItemAssumption == NoItem \notin Item

VARIABLES
  head,      \* head_: latest index stored by the producer
  tail,      \* tail_: latest index stored by the consumer
  buffer,    \* buffer_
  commits,   \* how often head_ was stored
  pops,      \* how often tail_ was stored
  tailSeen,  \* number of pops that happen before the producer's next step
  headSeen   \* number of commits that happen before the consumer's next step

queueVars == <<head, tail, buffer, commits, pops, tailSeen, headSeen>>

Slot == 0 .. Capacity - 1

(* `& mask_', for a Capacity that is a power of two. *)
Mask(i) == i % Capacity

usable_capacity == Capacity - 1

QueueInit ==
  /\ head = 0
  /\ tail = 0
  /\ buffer = [s \in Slot |-> NoItem]
  /\ commits = 0
  /\ pops = 0
  /\ tailSeen = 0
  /\ headSeen = 0

-----------------------------------------------------------------------------
(* Faulty variants of the definitions that follow.                         *)

LoadTailRelaxed(n) == n \in tailSeen .. pops /\ UNCHANGED tailSeen

(* try_alloc() without its test for a full queue. *)
TryAllocIgnoringFull(n) ==
  /\ n \in tailSeen .. pops
  /\ tailSeen' = n
  /\ UNCHANGED <<head, tail, buffer, commits, pops, headSeen>>

(* The flag is loaded with relaxed order: no commit happens before it. *)
ConsumerDoesNotSync == UNCHANGED queueVars

(* size() as the distance to the last item instead of to the free slot. *)
SizeToLast(n) == Mask(head - 1 - Mask(n))

-----------------------------------------------------------------------------
(* Producer side.                                                          *)

(* tail_.load(acquire), returning the n-th value of tail_. *)
LoadTail(n) ==
  /\ n \in tailSeen .. pops
  /\ tailSeen' = n

(* try_alloc() finding the queue full. *)
TryAllocFull(n) ==
  /\ LoadTail(n)
  /\ Mask(head + 1) = Mask(n)
  /\ UNCHANGED <<head, tail, buffer, commits, pops, headSeen>>

(* try_alloc() returning &buffer_[head]. *)
TryAlloc(n) ==
  /\ LoadTail(n)
  /\ Mask(head + 1) # Mask(n)
  /\ UNCHANGED <<head, tail, buffer, commits, pops, headSeen>>

(* The write through the pointer that try_alloc() returned. *)
WriteSlot(item) ==
  /\ buffer' = [buffer EXCEPT ![head] = item]
  /\ UNCHANGED <<head, tail, commits, pops, tailSeen, headSeen>>

(* commit(): head_.store(release). *)
Commit ==
  /\ head' = Mask(head + 1)
  /\ commits' = commits + 1
  /\ UNCHANGED <<tail, buffer, pops, tailSeen, headSeen>>

(* size() called by the producer, its load of tail_ returning the n-th     *)
(* value.                                                                  *)
SizeSeen(n) == Mask(head - Mask(n))

-----------------------------------------------------------------------------
(* Consumer side.                                                          *)

(* head_.load(acquire), returning the n-th value of head_. *)
LoadHead(n) ==
  /\ n \in headSeen .. commits
  /\ headSeen' = n

(* front() finding the queue empty. *)
FrontEmpty(n) ==
  /\ LoadHead(n)
  /\ Mask(n) = tail
  /\ UNCHANGED <<head, tail, buffer, commits, pops, tailSeen>>

(* front() returning &buffer_[tail]. *)
Front(n) ==
  /\ LoadHead(n)
  /\ Mask(n) # tail
  /\ UNCHANGED <<head, tail, buffer, commits, pops, tailSeen>>

(* The item read through the pointer that front() returned. *)
FrontItem == buffer[tail]

(* pop(): tail_.store(release). T is trivially destructible, so the slot   *)
(* keeps its old content.                                                  *)
Pop ==
  /\ tail' = Mask(tail + 1)
  /\ pops' = pops + 1
  /\ UNCHANGED <<head, buffer, commits, tailSeen, headSeen>>

(* An acquire load by the consumer of a flag that the producer set with    *)
(* release after its last commit: all commits happen before it.            *)
ConsumerSyncsWithProducer ==
  /\ headSeen' = commits
  /\ UNCHANGED <<head, tail, buffer, commits, pops, tailSeen>>

-----------------------------------------------------------------------------
(* The items in the queue, oldest first: slots from tail_ up to head_.     *)
Contents == [i \in 1 .. commits - pops |-> buffer[Mask(pops + i - 1)]]

(* The write that the producer is about to make does not race with the     *)
(* consumer's read of the item that was in the slot one lap earlier: that  *)
(* read, and the pop after it, happen before the write.                    *)
WriteIsOrdered == commits < tailSeen + Capacity

(* The read that the consumer is about to make does not race with the      *)
(* producer's write of the item: the write, and the commit after it,       *)
(* happen before the read.                                                 *)
ReadIsOrdered == pops < headSeen

QueueTypeOK ==
  /\ head \in Slot
  /\ tail \in Slot
  /\ buffer \in [Slot -> Item \union {NoItem}]
  /\ commits \in Nat
  /\ pops \in Nat
  /\ tailSeen \in Nat
  /\ headSeen \in Nat

=============================================================================
