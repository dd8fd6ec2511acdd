--------------------------- MODULE SequenceTracker ---------------------------
(***************************************************************************)
(* SequenceTracker of src/common/sequence_tracker.hpp: online counts of    *)
(* unique, duplicate, reordered and missing sequence numbers in constant   *)
(* memory. Sequence numbers are grouped in blocks; a direct-mapped ring of *)
(* BlockCount slots remembers which numbers of the resident blocks have    *)
(* arrived, and a block that maps to an occupied slot retires the older    *)
(* one. A tracker is a record, and observe(t, n) the tracker after n.      *)
(*                                                                         *)
(* The reference is what the tracker would report if it kept every         *)
(* arrival: sequence_statistics() of analysis/latency_utils.py, which the  *)
(* analysis applies to the logged packets.                                 *)
(***************************************************************************)
EXTENDS Integers, Sequences, FiniteSets

CONSTANTS
  BlockSize,    \* block_size: sequence numbers per block (4096)
  BlockCount,   \* block_count: slots of the ring (16)
  MaxSequence   \* the largest sequence number (UINT32_MAX)

ASSUME TrackerAssumption ==
  /\ BlockSize \in Nat \ {0}
  /\ BlockCount \in Nat \ {0}
  /\ MaxSequence \in Nat

Sequence == 0 .. MaxSequence
SlotIndex == 0 .. BlockCount - 1

NewTracker ==
  [epochs |-> [s \in SlotIndex |-> 0],
   blocks |-> [s \in SlotIndex |-> {}],
   unique |-> 0, duplicates |-> 0, reordered |-> 0, out_of_window |-> 0,
   minimum |-> MaxSequence, high_watermark |-> 0]

-----------------------------------------------------------------------------
(* Faulty variants of the definitions that follow.                         *)

(* The slot is taken from the low bits of the sequence number. *)
SlotOfLowBits(sequence) == sequence % BlockCount

(* The bit is tested and never set. *)
ResidentWithoutBit(t, sequence, bits) ==
  [t EXCEPT !.epochs[(sequence \div BlockSize) % BlockCount] = (sequence \div BlockSize) + 1]

(* gaps() without its clamp: the unsigned subtraction wraps. *)
GapsUnclamped(t) ==
  IF t.unique = 0 THEN 0
  ELSE (t.high_watermark - t.minimum + 1 - t.unique) % (4 * (MaxSequence + 1))

(* An arrival is compared with the smallest number instead of the largest. *)
ReorderedBelowMinimum(t, sequence) == t.unique # 0 /\ sequence < t.minimum

-----------------------------------------------------------------------------
(* sequence >> block_shift, biased by one *)
Epoch(sequence) == (sequence \div BlockSize) + 1
(* (sequence >> block_shift) & (block_count - 1) *)
SlotOf(sequence) == (sequence \div BlockSize) % BlockCount
(* sequence & (block_size - 1) *)
Within(sequence) == sequence % BlockSize

(* The block was resident once and a later one took its slot.              *)
Retired(t, sequence) == t.epochs[SlotOf(sequence)] > Epoch(sequence)

(* The bits of this block, after a slot held by an older one is cleared.   *)
Retained(t, sequence) ==
  IF t.epochs[SlotOf(sequence)] = Epoch(sequence)
    THEN t.blocks[SlotOf(sequence)]
    ELSE {}

(* The block of this number becomes resident, with these bits.             *)
Resident(t, sequence, bits) ==
  [t EXCEPT !.epochs[SlotOf(sequence)] = Epoch(sequence),
            !.blocks[SlotOf(sequence)] = bits]

IsReordered(t, sequence) == t.unique # 0 /\ sequence < t.high_watermark

(* The part of observe() after the duplicate test.                         *)
CountUnique(t, sequence) ==
  [t EXCEPT
     !.reordered = IF IsReordered(t, sequence) THEN @ + 1 ELSE @,
     !.minimum = IF t.unique = 0 \/ sequence < @ THEN sequence ELSE @,
     !.high_watermark = IF sequence > @ THEN sequence ELSE @,
     !.unique = @ + 1]

(* observe(). Of a retired block nothing tells whether the number is a     *)
(* duplicate, and it is counted as unique.                                 *)
observe(t, sequence) ==
  LET bits == Retained(t, sequence)
      bit == Within(sequence)
  IN  CASE Retired(t, sequence) ->
             CountUnique([t EXCEPT !.out_of_window = @ + 1], sequence)
        [] ~Retired(t, sequence) /\ bit \in bits ->
             [Resident(t, sequence, bits) EXCEPT !.duplicates = @ + 1]
        [] ~Retired(t, sequence) /\ bit \notin bits ->
             CountUnique(Resident(t, sequence, bits \union {bit}), sequence)

gaps(t) ==
  LET span == t.high_watermark - t.minimum + 1
  IN  IF t.unique = 0 \/ t.unique >= span THEN 0 ELSE span - t.unique

-----------------------------------------------------------------------------
(* The reference: sequence_statistics() on all arrivals.                   *)

Before(arrived, i) == {arrived[j] : j \in 1 .. i - 1}

Seen(arrived) == {arrived[i] : i \in 1 .. Len(arrived)}

ReferenceDuplicates(arrived) == Len(arrived) - Cardinality(Seen(arrived))

ReferenceReordered(arrived) ==
  Cardinality({i \in 1 .. Len(arrived) :
                 /\ arrived[i] \notin Before(arrived, i)
                 /\ \E value \in Before(arrived, i) : arrived[i] < value})

(* The numbers between the smallest and the largest that did not arrive.   *)
ReferenceGaps(arrived) ==
  Cardinality({value \in Sequence :
                 /\ value \notin Seen(arrived)
                 /\ \E low \in Seen(arrived) : low < value
                 /\ \E high \in Seen(arrived) : value < high})

-----------------------------------------------------------------------------
(* What a tracker that has observed these arrivals promises.               *)

(* Every arrival is counted once, as unique or as duplicate, and unique()  *)
(* overstates the distinct numbers by at most out_of_window().             *)
IsBracketed(t, arrived) ==
  /\ t.unique + t.duplicates = Len(arrived)
  /\ Cardinality(Seen(arrived)) <= t.unique
  /\ t.unique <= Cardinality(Seen(arrived)) + t.out_of_window

(* With out_of_window() = 0 it reports what a tracker that kept every      *)
(* arrival would report.                                                   *)
IsExactInsideWindow(t, arrived) ==
  t.out_of_window = 0 =>
    /\ t.unique = Cardinality(Seen(arrived))
    /\ t.duplicates = ReferenceDuplicates(arrived)
    /\ t.reordered = ReferenceReordered(arrived)
    /\ gaps(t) = ReferenceGaps(arrived)

(* gaps() never invents a loss, and hides one only behind as many          *)
(* out_of_window() arrivals.                                               *)
ShowsLoss(t, arrived) ==
  /\ gaps(t) <= ReferenceGaps(arrived)
  /\ ReferenceGaps(arrived) <= gaps(t) + t.out_of_window

(* An arrival further than this behind the highest number may be out of    *)
(* the window; a duplicate nearer than that is always detected.            *)
Lookback == (BlockCount - 1) * BlockSize

=============================================================================
