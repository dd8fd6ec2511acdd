------------------------------ MODULE SPSCBench ------------------------------
(***************************************************************************)
(* run_once() of src/bench/spsc_bench.cpp: a producer that retries until   *)
(* every element is in the queue, sets producer_done and joins a consumer  *)
(* that polls the queue until it is empty and the producer is done.        *)
(*                                                                         *)
(* Left out: timing, CPU pinning, and the counts of retries and of items,  *)
(* which no decision of the two loops reads.                               *)
(***************************************************************************)
EXTENDS SPSCQueue

CONSTANT Elements      \* how many elements are handed over

ASSUME ElementsAssumption ==
  /\ Elements \in Nat
  /\ Item = 0 .. Elements - 1

VARIABLES
  ppc,            \* program counter of the producer
  index,          \* the element being pushed
  producer_done,  \* the flag, release/acquire
  cpc,            \* program counter of the consumer
  held,           \* the element the consumer read through front()
  consumed        \* every element the consumer took, in order (history)

threadVars == <<ppc, index, producer_done, cpc, held, consumed>>
vars == <<queueVars, threadVars>>

Init ==
  /\ QueueInit
  /\ ppc = "push"
  /\ index = 0
  /\ producer_done = FALSE
  /\ cpc = "front"
  /\ held = NoItem
  /\ consumed = <<>>

-----------------------------------------------------------------------------
(* Faulty variants.                                                        *)

(* The producer joins without setting the flag. *)
ProducerDoneUnset ==
  /\ ppc = "push"
  /\ index = Elements
  /\ ppc' = "join"
  /\ UNCHANGED <<queueVars, index, producer_done, cpc, held, consumed>>

-----------------------------------------------------------------------------
(* Producer.                                                               *)

(* try_alloc() inside push(): on success go on to write the slot, on       *)
(* failure try again.                                                      *)
ProducerAlloc(n) ==
  /\ ppc = "push"
  /\ index < Elements
  /\ \/ TryAlloc(n) /\ ppc' = "write"
     \/ TryAllocFull(n) /\ ppc' = "push"
  /\ UNCHANGED <<index, producer_done, cpc, held, consumed>>

ProducerWrite ==
  /\ ppc = "write"
  /\ WriteSlot(index)
  /\ ppc' = "commit"
  /\ UNCHANGED <<index, producer_done, cpc, held, consumed>>

ProducerCommit ==
  /\ ppc = "commit"
  /\ Commit
  /\ index' = index + 1
  /\ ppc' = "push"
  /\ UNCHANGED <<producer_done, cpc, held, consumed>>

ProducerDone ==
  /\ ppc = "push"
  /\ index = Elements
  /\ producer_done' = TRUE
  /\ ppc' = "join"
  /\ UNCHANGED <<queueVars, index, cpc, held, consumed>>

ProducerJoin ==
  /\ ppc = "join"
  /\ cpc = "exit"
  /\ ppc' = "returned"
  /\ UNCHANGED <<queueVars, index, producer_done, cpc, held, consumed>>

-----------------------------------------------------------------------------
(* Consumer.                                                               *)

ConsumerFront(n) ==
  /\ cpc = "front"
  /\ \/ Front(n) /\ cpc' = "read"
     \/ FrontEmpty(n) /\ cpc' = "check"
  /\ UNCHANGED <<ppc, index, producer_done, held, consumed>>

(* The payload is touched through the pointer, then the slot is released. *)
ConsumerRead ==
  /\ cpc = "read"
  /\ held' = FrontItem
  /\ cpc' = "pop"
  /\ UNCHANGED <<queueVars, ppc, index, producer_done, consumed>>

ConsumerPop ==
  /\ cpc = "pop"
  /\ Pop
  /\ consumed' = Append(consumed, held)
  /\ cpc' = "front"
  /\ UNCHANGED <<ppc, index, producer_done, held>>

(* producer_done.load(acquire) reads TRUE. *)
ConsumerSeesDone ==
  /\ cpc = "check"
  /\ producer_done
  /\ ConsumerSyncsWithProducer
  /\ cpc' = "recheck"
  /\ UNCHANGED <<ppc, index, producer_done, held, consumed>>

(* producer_done.load(acquire) reads FALSE, which it may for a while after *)
(* the store.                                                              *)
ConsumerSeesNotDone ==
  /\ cpc = "check"
  /\ cpc' = "front"
  /\ UNCHANGED <<queueVars, ppc, index, producer_done, held, consumed>>

(* front() once more: leave the loop only if the queue is still empty.     *)
ConsumerRecheck(n) ==
  /\ cpc = "recheck"
  /\ \/ FrontEmpty(n) /\ cpc' = "exit"
     \/ Front(n) /\ cpc' = "front"
  /\ UNCHANGED <<ppc, index, producer_done, held, consumed>>

-----------------------------------------------------------------------------
Producer ==
  \/ \E n \in tailSeen .. pops : ProducerAlloc(n)
  \/ ProducerWrite
  \/ ProducerCommit
  \/ ProducerDone
  \/ ProducerJoin

Consumer ==
  \/ \E n \in headSeen .. commits : ConsumerFront(n) \/ ConsumerRecheck(n)
  \/ ConsumerRead
  \/ ConsumerPop
  \/ ConsumerSeesDone
  \/ ConsumerSeesNotDone

Terminated == ppc = "returned" /\ UNCHANGED vars

Next == Producer \/ Consumer \/ Terminated

Spec == Init /\ [][Next]_vars

(* Both threads keep running, and a store becomes visible to the other     *)
(* thread in a finite time: a load that is repeated for ever does not      *)
(* return an old value for ever.                                           *)
Fairness ==
  /\ WF_vars(Producer)
  /\ WF_vars(Consumer)
  /\ SF_vars(ProducerAlloc(pops))
  /\ SF_vars(ConsumerFront(commits))
  /\ SF_vars(ConsumerSeesDone)

FairSpec == Spec /\ Fairness

-----------------------------------------------------------------------------
TypeOK ==
  /\ QueueTypeOK
  /\ ppc \in {"push", "write", "commit", "join", "returned"}
  /\ index \in 0 .. Elements
  /\ producer_done \in BOOLEAN
  /\ cpc \in {"front", "read", "pop", "check", "recheck", "exit"}
  /\ held \in Item \union {NoItem}
  /\ consumed \in Seq(Item)

(* No slot access races with the other thread's: every write of a slot     *)
(* (push) is ordered after the read it overwrites, and every read through  *)
(* front() is ordered after the write it reads, although either thread may *)
(* act on an old value of the other's index.                               *)
NoDataRace ==
  /\ ppc = "write" => WriteIsOrdered
  /\ cpc = "read" => ReadIsOrdered

(* When run_once() returns, every element has been consumed exactly once   *)
(* and in order: the consumer's exit test (empty, then done, then empty    *)
(* again) cannot leave an element behind.                                  *)
LosslessHandoff ==
  ppc = "returned" => consumed = [i \in 1 .. Elements |-> i - 1]

FIFO == INSTANCE BoundedFIFO
          WITH Bound <- usable_capacity, queue <- Contents, taken <- consumed

(* The ring of slots and indices behaves as a bounded FIFO: commit()       *)
(* appends, pop() removes the oldest item, which is the one front() gave,  *)
(* nothing else changes the content, and at most usable_capacity() items   *)
(* are ever in it.                                                         *)
ImplementsFIFO == FIFO!Spec

(* run_once() returns: neither the producer's retry loop nor the           *)
(* consumer's polling loop runs for ever.                                  *)
Terminates == <>(ppc = "returned")

=============================================================================
