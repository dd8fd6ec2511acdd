----------------------------- MODULE BoundedFIFO -----------------------------
(***************************************************************************)
(* What a single-producer single-consumer queue promises: a bounded        *)
(* sequence of items, extended at one end and consumed from the other.     *)
(* `taken' records, in order, every item the consumer has been given.      *)
(*                                                                         *)
(* It says nothing of indices, slots or memory order: spsc_queue.hpp is    *)
(* shown to implement it by the modules that drive SPSCQueue.              *)
(***************************************************************************)
EXTENDS Naturals, Sequences

CONSTANTS
  Item,    \* the items that can be handed over
  Bound    \* usable_capacity(): how many items the queue can hold

VARIABLES
  queue,   \* the items published and not yet released, oldest first
  taken    \* the items the consumer has been given, in order

vars == <<queue, taken>>

Init ==
  /\ queue = <<>>
  /\ taken = <<>>

(* A push that succeeds. A push that finds the queue full changes nothing. *)
Put(item) ==
  /\ Len(queue) < Bound
  /\ queue' = Append(queue, item)
  /\ UNCHANGED taken

(* A front() that returns an item, and the pop() that releases it. *)
Get ==
  /\ queue # <<>>
  /\ taken' = Append(taken, Head(queue))
  /\ queue' = Tail(queue)

Next == Get \/ \E item \in Item : Put(item)

Spec == Init /\ [][Next]_vars

=============================================================================
