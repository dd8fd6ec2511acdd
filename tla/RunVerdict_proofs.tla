--------------------------- MODULE RunVerdict_proofs ---------------------------
(***************************************************************************)
(* The properties of RunVerdict, for every number of packets, block size,  *)
(* ring, socket buffer, reordering allowance and number of troubles.       *)
(*                                                                         *)
(* The first half is about the tracker alone: whatever arrives, its counts *)
(* are bracketed by those of a full record, exact inside the window, and   *)
(* the window reaches back at least Lookback numbers. The second half is   *)
(* about the run that reads it.                                            *)
(***************************************************************************)
EXTENDS RunVerdict, FiniteSetTheorems, TLAPS

-----------------------------------------------------------------------------
(* Blocks. *)

(* A block number and the place in the block, and what they determine.     *)
LEMMA BlockArithmetic ==
  ASSUME NEW n \in Sequence
  PROVE  /\ n \in Nat
         /\ n \div BlockSize \in Nat
         /\ Epoch(n) = (n \div BlockSize) + 1
         /\ Epoch(n) \in Nat \ {0}
         /\ SlotOf(n) \in SlotIndex
         /\ Within(n) \in 0 .. BlockSize - 1
         /\ n = (BlockSize * (n \div BlockSize)) + Within(n)
<1>1. n \in Nat
  BY TrackerAssumption DEF Sequence
<1>2. /\ n \div BlockSize \in Nat
      /\ n % BlockSize \in 0 .. BlockSize - 1
      /\ n = (BlockSize * (n \div BlockSize)) + (n % BlockSize)
  BY <1>1, TrackerAssumption
<1>3. (n \div BlockSize) % BlockCount \in 0 .. BlockCount - 1
  BY <1>2, TrackerAssumption
<1> QED
  BY <1>1, <1>2, <1>3 DEF Epoch, SlotOf, Within, SlotIndex

(* No two numbers have the same bit.                                       *)
LEMMA BitIsUnique ==
  ASSUME NEW n \in Sequence, NEW m \in Sequence,
         Epoch(n) = Epoch(m), Within(n) = Within(m)
  PROVE  n = m
BY BlockArithmetic

(* Two blocks that share a slot are a whole ring apart, so their numbers   *)
(* are more than Lookback apart.                                           *)
LEMMA SlotDistance ==
  ASSUME NEW n \in Sequence, NEW k \in Sequence,
         SlotOf(n) = SlotOf(k), Epoch(n) < Epoch(k)
  PROVE  k - n > Lookback /\ Lookback \in Nat
<1> DEFINE a == k \div BlockSize
           b == n \div BlockSize
<1>1. a \in Nat /\ b \in Nat /\ b < a
  BY BlockArithmetic
<1>2. a % BlockCount = b % BlockCount
  BY DEF SlotOf
<1>3. k >= BlockSize * a /\ n < (BlockSize * b) + BlockSize /\ k \in Nat /\ n \in Nat
  BY BlockArithmetic, TrackerAssumption, BlockSize * a \in Nat, BlockSize * b \in Nat
<1> HIDE DEF a, b
<1> DEFINE p == a \div BlockCount
           q == b \div BlockCount
           r == a % BlockCount
<1>4. /\ p \in Nat /\ q \in Nat /\ r \in 0 .. BlockCount - 1
      /\ a = (BlockCount * p) + r
      /\ b = (BlockCount * q) + r
  BY <1>1, <1>2, TrackerAssumption
<1> HIDE DEF p, q, r
<1>5. q < p
  BY <1>1, <1>4, TrackerAssumption
<1>6. BlockCount * p >= BlockCount * (q + 1)
  BY <1>4, <1>5, TrackerAssumption
<1>7. a >= b + BlockCount
  BY <1>4, <1>6, TrackerAssumption
<1>8. BlockSize * a >= BlockSize * (b + BlockCount)
  BY <1>1, <1>7, TrackerAssumption
<1>9. BlockSize * (b + BlockCount) = (BlockSize * b) + BlockSize + Lookback
  BY <1>1, TrackerAssumption DEF Lookback
<1>10. Lookback \in Nat
  BY TrackerAssumption DEF Lookback
<1>11. BlockSize * a \in Nat /\ BlockSize * b \in Nat
  BY <1>1, TrackerAssumption
<1> QED
  BY <1>3, <1>8, <1>9, <1>10, <1>11, TrackerAssumption

-----------------------------------------------------------------------------
(* Arrivals. *)

(* One more arrival adds its number to those seen.                         *)
LEMMA SeenAppend ==
  ASSUME NEW arrivals \in Seq(Sequence), NEW n \in Sequence
  PROVE  /\ Append(arrivals, n) \in Seq(Sequence)
         /\ Len(Append(arrivals, n)) = Len(arrivals) + 1
         /\ Len(arrivals) \in Nat
         /\ Seen(Append(arrivals, n)) = Seen(arrivals) \union {n}
         /\ Seen(arrivals) \subseteq Sequence
         /\ Before(Append(arrivals, n), Len(arrivals) + 1) = Seen(arrivals)
         /\ \A i \in 1 .. Len(arrivals) :
              /\ Append(arrivals, n)[i] = arrivals[i]
              /\ Before(Append(arrivals, n), i) = Before(arrivals, i)
BY DEF Seen, Before

-----------------------------------------------------------------------------
(* The invariant of a tracker and the arrivals it has observed.            *)

Tracker ==
  [epochs : [SlotIndex -> Nat], blocks : [SlotIndex -> SUBSET (0 .. BlockSize - 1)],
   unique : Nat, duplicates : Nat, reordered : Nat, out_of_window : Nat,
   minimum : Nat, high_watermark : Nat]

(* The bit of this number is set in the ring.                              *)
Remembered(t, n) ==
  t.epochs[SlotOf(n)] = Epoch(n) /\ Within(n) \in t.blocks[SlotOf(n)]

(* The ring holds what was seen: a number has its bit, unless its block is *)
(* retired; no other number has one; and only a block of which a number    *)
(* was seen is resident.                                                   *)
RingInv(t, arrivals) ==
  /\ \A n \in Seen(arrivals) : Remembered(t, n) \/ Retired(t, n)
  /\ \A n \in Sequence : Remembered(t, n) => n \in Seen(arrivals)
  /\ \A s \in SlotIndex : t.epochs[s] # 0 =>
       \E k \in Seen(arrivals) : SlotOf(k) = s /\ Epoch(k) = t.epochs[s]

(* minimum and high_watermark are the extremes of what was seen.           *)
ExtremesInv(t, arrivals) ==
  /\ Seen(arrivals) = {} => t.unique = 0 /\ t.high_watermark = 0
  /\ Seen(arrivals) # {} =>
       /\ t.unique # 0
       /\ t.minimum \in Seen(arrivals) /\ t.high_watermark \in Seen(arrivals)
       /\ \A n \in Seen(arrivals) : t.minimum <= n /\ n <= t.high_watermark

(* The counts. A number out of the window is reordered.                    *)
CountInv(t, arrivals) ==
  /\ IsBracketed(t, arrivals)
  /\ t.out_of_window <= t.reordered
  /\ t.out_of_window = 0 => t.reordered = ReferenceReordered(arrivals)

TrackerInv(t, arrivals) ==
  /\ t \in Tracker
  /\ arrivals \in Seq(Sequence)
  /\ IsFiniteSet(Seen(arrivals))
  /\ RingInv(t, arrivals)
  /\ ExtremesInv(t, arrivals)
  /\ CountInv(t, arrivals)

LEMMA NewTrackerInv == TrackerInv(NewTracker, <<>>)
<1> DEFINE t == NewTracker
<1>1. t \in Tracker
  BY TrackerAssumption DEF NewTracker, Tracker
<1>2. Seen(<<>>) = {} /\ Len(<<>>) = 0 /\ <<>> \in Seq(Sequence)
  BY DEF Seen
<1>3. ReferenceReordered(<<>>) = 0
  <2>1. {i \in 1 .. Len(<<>>) : /\ <<>>[i] \notin Before(<<>>, i)
                               /\ \E value \in Before(<<>>, i) : <<>>[i] < value} = {}
    BY <1>2
  <2> QED
    BY <2>1, FS_EmptySet, Zenon DEF ReferenceReordered
<1>4. RingInv(t, <<>>)
  <2>1. \A n \in Sequence : ~Remembered(t, n)
    BY BlockArithmetic DEF Remembered, NewTracker
  <2>2. \A s \in SlotIndex : t.epochs[s] = 0
    BY DEF NewTracker
  <2> QED
    BY <1>2, <2>1, <2>2 DEF RingInv
<1>5. ExtremesInv(t, <<>>)
  BY <1>2 DEF ExtremesInv, NewTracker
<1>6. CountInv(t, <<>>)
  BY <1>2, <1>3, FS_EmptySet DEF CountInv, IsBracketed, NewTracker
<1> QED
  BY <1>1, <1>2, <1>4, <1>5, <1>6, FS_EmptySet DEF TrackerInv

(* A retired number is far behind the highest one.                         *)
LEMMA RetiredIsFar ==
  ASSUME NEW t, NEW arrivals, TrackerInv(t, arrivals), NEW n \in Sequence, Retired(t, n)
  PROVE  /\ t.unique # 0
         /\ t.high_watermark \in Nat /\ n \in Nat
         /\ t.high_watermark - n > Lookback
         /\ Lookback \in Nat
<1>1. SlotOf(n) \in SlotIndex /\ Epoch(n) \in Nat \ {0} /\ n \in Nat
  BY BlockArithmetic
<1>2. t.epochs[SlotOf(n)] \in Nat /\ t.high_watermark \in Nat
  BY <1>1 DEF TrackerInv, Tracker
<1>3. t.epochs[SlotOf(n)] # 0
  BY <1>1, <1>2 DEF Retired
<1>4. PICK k \in Seen(arrivals) : SlotOf(k) = SlotOf(n) /\ Epoch(k) = t.epochs[SlotOf(n)]
  BY <1>1, <1>3 DEF TrackerInv, RingInv
<1>5. k \in Sequence /\ k \in Nat
  BY SeenAppend, BlockArithmetic DEF TrackerInv
<1>6. k - n > Lookback /\ Lookback \in Nat
  BY <1>4, <1>5, SlotDistance DEF Retired
<1>7. t.unique # 0 /\ k <= t.high_watermark
  BY DEF TrackerInv, ExtremesInv
<1> QED
  BY <1>1, <1>2, <1>5, <1>6, <1>7

(* The part of observe() after the duplicate test, on a tracker that       *)
(* already holds the number.                                               *)
LEMMA ObserveCases ==
  ASSUME NEW t, NEW arrivals, TrackerInv(t, arrivals), NEW n \in Sequence
  PROVE  \/ /\ Retired(t, n)
            /\ observe(t, n) = CountUnique([t EXCEPT !.out_of_window = @ + 1], n)
         \/ /\ ~Retired(t, n)
            /\ Within(n) \in Retained(t, n)
            /\ n \in Seen(arrivals)
            /\ observe(t, n) = [Resident(t, n, Retained(t, n)) EXCEPT !.duplicates = @ + 1]
         \/ /\ ~Retired(t, n)
            /\ Within(n) \notin Retained(t, n)
            /\ n \notin Seen(arrivals)
            /\ observe(t, n) = CountUnique(Resident(t, n, Retained(t, n) \union {Within(n)}), n)
<1>1. SlotOf(n) \in SlotIndex /\ Epoch(n) \in Nat \ {0}
  BY BlockArithmetic
<1>2. CASE Retired(t, n)
  BY <1>2 DEF observe
<1>3. CASE ~Retired(t, n) /\ Within(n) \in Retained(t, n)
  <2>1. Remembered(t, n)
    BY <1>3 DEF Retained, Remembered
  <2>2. n \in Seen(arrivals)
    BY <2>1 DEF TrackerInv, RingInv
  <2> QED
    BY <1>3, <2>2 DEF observe
<1>4. CASE ~Retired(t, n) /\ Within(n) \notin Retained(t, n)
  <2>1. ~Remembered(t, n)
    BY <1>4 DEF Retained, Remembered
  <2>2. n \notin Seen(arrivals)
    BY <1>4, <2>1 DEF TrackerInv, RingInv
  <2> QED
    BY <1>4, <2>2 DEF observe
<1> QED
  BY <1>2, <1>3, <1>4

-----------------------------------------------------------------------------
(* Each part of the invariant is preserved.                                *)

LEMMA ObserveType ==
  ASSUME NEW t \in Tracker, NEW n \in Sequence
  PROVE  observe(t, n) \in Tracker
<1>1. SlotOf(n) \in SlotIndex /\ Epoch(n) \in Nat /\ n \in Nat /\ Within(n) \in 0 .. BlockSize - 1
  BY BlockArithmetic
<1>2. ASSUME NEW u \in Tracker PROVE CountUnique(u, n) \in Tracker
  <2> DEFINE r == IF IsReordered(u, n) THEN u.reordered + 1 ELSE u.reordered
             m == IF u.unique = 0 \/ n < u.minimum THEN n ELSE u.minimum
             h == IF n > u.high_watermark THEN n ELSE u.high_watermark
             c == u.unique + 1
  <2>1. r \in Nat /\ m \in Nat /\ h \in Nat /\ c \in Nat
    BY <1>1 DEF Tracker
  <2>2. CountUnique(u, n) = [u EXCEPT !.reordered = r, !.minimum = m, !.high_watermark = h,
                                      !.unique = c]
    BY DEF CountUnique
  <2> HIDE DEF r, m, h, c
  <2>3. [u EXCEPT !.reordered = r, !.minimum = m, !.high_watermark = h, !.unique = c] \in Tracker
    BY <2>1 DEF Tracker
  <2> QED
    BY <2>2, <2>3
<1>3. Retained(t, n) \subseteq 0 .. BlockSize - 1
  BY <1>1 DEF Retained, Tracker
<1>4. ASSUME NEW bits \in SUBSET (0 .. BlockSize - 1)
      PROVE  Resident(t, n, bits) \in Tracker
  BY <1>1 DEF Resident, Tracker
<1>5. ASSUME NEW u \in Tracker
      PROVE  [u EXCEPT !.out_of_window = @ + 1] \in Tracker /\ [u EXCEPT !.duplicates = @ + 1] \in Tracker
  BY DEF Tracker
<1>6. [Resident(t, n, Retained(t, n)) EXCEPT !.duplicates = @ + 1] \in Tracker
  BY <1>3, <1>4, <1>5
<1>7. CountUnique(Resident(t, n, Retained(t, n) \union {Within(n)}), n) \in Tracker
  BY <1>1, <1>2, <1>3, <1>4
<1>8. CountUnique([t EXCEPT !.out_of_window = @ + 1], n) \in Tracker
  BY <1>2, <1>5
<1> QED
  BY <1>6, <1>7, <1>8 DEF observe

(* What observe() does to the ring and to the counters.                    *)
LEMMA ObserveFields ==
  ASSUME NEW t, NEW arrivals, TrackerInv(t, arrivals), NEW n \in Sequence
  PROVE  LET u == observe(t, n)
             unseen == Retired(t, n) \/ n \notin Seen(arrivals)
         IN  /\ Retired(t, n) => u.epochs = t.epochs /\ u.blocks = t.blocks
             /\ ~Retired(t, n) =>
                  /\ u.epochs = [t.epochs EXCEPT ![SlotOf(n)] = Epoch(n)]
                  /\ u.blocks = [t.blocks EXCEPT ![SlotOf(n)] = Retained(t, n) \union {Within(n)}]
             /\ u.out_of_window = IF Retired(t, n) THEN t.out_of_window + 1 ELSE t.out_of_window
             /\ u.unique = IF unseen THEN t.unique + 1 ELSE t.unique
             /\ u.duplicates = IF unseen THEN t.duplicates ELSE t.duplicates + 1
             /\ u.reordered = IF unseen /\ IsReordered(t, n) THEN t.reordered + 1 ELSE t.reordered
             /\ u.minimum = IF unseen /\ (t.unique = 0 \/ n < t.minimum) THEN n ELSE t.minimum
             /\ u.high_watermark = IF unseen /\ n > t.high_watermark THEN n ELSE t.high_watermark
<1> DEFINE u == observe(t, n)
<1>1. t \in Tracker
  BY DEF TrackerInv
<1>2. CASE /\ Retired(t, n)
           /\ u = CountUnique([t EXCEPT !.out_of_window = @ + 1], n)
  BY <1>1, <1>2 DEF CountUnique, IsReordered, Tracker
<1>3. CASE /\ ~Retired(t, n)
           /\ Within(n) \in Retained(t, n)
           /\ n \in Seen(arrivals)
           /\ u = [Resident(t, n, Retained(t, n)) EXCEPT !.duplicates = @ + 1]
  <2>1. Retained(t, n) \union {Within(n)} = Retained(t, n)
    BY <1>3
  <2> QED
    BY <1>1, <1>3, <2>1 DEF Resident, Tracker
<1>4. CASE /\ ~Retired(t, n)
           /\ Within(n) \notin Retained(t, n)
           /\ n \notin Seen(arrivals)
           /\ u = CountUnique(Resident(t, n, Retained(t, n) \union {Within(n)}), n)
  BY <1>1, <1>4 DEF CountUnique, IsReordered, Resident, Tracker
<1> QED
  BY ObserveCases, <1>2, <1>3, <1>4

LEMMA RingStep ==
  ASSUME NEW t, NEW arrivals, TrackerInv(t, arrivals), NEW n \in Sequence
  PROVE  RingInv(observe(t, n), Append(arrivals, n))
<1> DEFINE u == observe(t, n)
           s == SlotOf(n)
<1>1. /\ arrivals \in Seq(Sequence)
      /\ Seen(Append(arrivals, n)) = Seen(arrivals) \union {n}
      /\ Seen(arrivals) \subseteq Sequence
  BY SeenAppend DEF TrackerInv
<1>2. /\ \A m \in Seen(arrivals) : Remembered(t, m) \/ Retired(t, m)
      /\ \A m \in Sequence : Remembered(t, m) => m \in Seen(arrivals)
      /\ \A i \in SlotIndex : t.epochs[i] # 0 =>
            \E k \in Seen(arrivals) : SlotOf(k) = i /\ Epoch(k) = t.epochs[i]
  BY DEF TrackerInv, RingInv
<1>3. t.epochs \in [SlotIndex -> Nat] /\ t.blocks \in [SlotIndex -> SUBSET (0 .. BlockSize - 1)]
  BY DEF TrackerInv, Tracker
<1>4. \A m \in Sequence : SlotOf(m) \in SlotIndex /\ Epoch(m) \in Nat \ {0}
  BY BlockArithmetic
<1>5. CASE Retired(t, n)
  <2>1. u.epochs = t.epochs /\ u.blocks = t.blocks
    BY <1>5, ObserveFields
  <2> HIDE DEF u
  <2> QED
    BY <1>1, <1>2, <1>5, <2>1 DEF RingInv, Remembered, Retired, u
<1>6. CASE ~Retired(t, n)
  <2>1. /\ u.epochs = [t.epochs EXCEPT ![s] = Epoch(n)]
        /\ u.blocks = [t.blocks EXCEPT ![s] = Retained(t, n) \union {Within(n)}]
    BY <1>6, ObserveFields
  <2> HIDE DEF u
  <2>2. /\ u.epochs[s] = Epoch(n) /\ u.blocks[s] = Retained(t, n) \union {Within(n)}
        /\ \A i \in SlotIndex : i # s => u.epochs[i] = t.epochs[i] /\ u.blocks[i] = t.blocks[i]
    BY <1>3, <1>4, <2>1
  <2>3. t.epochs[s] \in Nat /\ t.epochs[s] <= Epoch(n)
    BY <1>3, <1>4, <1>6 DEF Retired
  <2>4. ASSUME NEW m \in Seen(arrivals)
        PROVE  Remembered(u, m) \/ Retired(u, m)
    <3>1. m \in Sequence /\ SlotOf(m) \in SlotIndex /\ Epoch(m) \in Nat
      BY <1>1, <1>4
    <3>2. CASE SlotOf(m) # s
      BY <1>2, <2>2, <3>1, <3>2 DEF Remembered, Retired
    <3>3. CASE SlotOf(m) = s /\ Epoch(m) = Epoch(n)
      <4>1. t.epochs[s] = Epoch(n) /\ Within(m) \in t.blocks[s]
        BY <1>2, <1>4, <2>3, <3>3 DEF Remembered, Retired
      <4> QED
        BY <2>2, <3>3, <4>1 DEF Remembered, Retained
    <3>4. CASE SlotOf(m) = s /\ Epoch(m) # Epoch(n)
      <4>1. Epoch(m) <= t.epochs[s]
        BY <1>2, <2>3, <3>1, <3>4 DEF Remembered, Retired
      <4> QED
        BY <1>4, <2>2, <2>3, <3>1, <3>4, <4>1 DEF Retired
    <3> QED
      BY <3>2, <3>3, <3>4
  <2>5. Remembered(u, n)
    BY <2>2 DEF Remembered
  <2>6. ASSUME NEW m \in Sequence, Remembered(u, m)
        PROVE  m \in Seen(arrivals) \union {n}
    <3>1. CASE SlotOf(m) # s
      BY <1>2, <1>4, <2>2, <2>6, <3>1 DEF Remembered
    <3>2. CASE SlotOf(m) = s /\ Within(m) = Within(n)
      BY <2>2, <2>6, <3>2, BitIsUnique DEF Remembered
    <3>3. CASE SlotOf(m) = s /\ Within(m) # Within(n)
      <4>1. Epoch(m) = Epoch(n) /\ Within(m) \in Retained(t, n)
        BY <2>2, <2>6, <3>3 DEF Remembered
      <4>2. t.epochs[s] = Epoch(m) /\ Within(m) \in t.blocks[s]
        BY <4>1 DEF Retained
      <4> QED
        BY <1>2, <3>3, <4>2 DEF Remembered
    <3> QED
      BY <3>1, <3>2, <3>3
  <2>7. ASSUME NEW i \in SlotIndex, u.epochs[i] # 0
        PROVE  \E k \in Seen(arrivals) \union {n} : SlotOf(k) = i /\ Epoch(k) = u.epochs[i]
    BY <1>2, <2>2, <2>7
  <2> QED
    BY <1>1, <2>4, <2>5, <2>6, <2>7 DEF RingInv, u
<1> QED
  BY <1>5, <1>6

LEMMA ExtremesStep ==
  ASSUME NEW t, NEW arrivals, TrackerInv(t, arrivals), NEW n \in Sequence
  PROVE  ExtremesInv(observe(t, n), Append(arrivals, n))
<1> DEFINE u == observe(t, n)
           S == Seen(arrivals)
<1>1. /\ Seen(Append(arrivals, n)) = S \union {n}
      /\ S \subseteq Sequence
  BY SeenAppend DEF TrackerInv
<1>2. Sequence \subseteq Nat
  BY BlockArithmetic
<1>3. t.minimum \in Nat /\ t.high_watermark \in Nat /\ t.unique \in Nat
  BY DEF TrackerInv, Tracker
<1>4. /\ S = {} => t.unique = 0 /\ t.high_watermark = 0
      /\ S # {} => /\ t.unique # 0
                   /\ t.minimum \in S /\ t.high_watermark \in S
                   /\ \A m \in S : t.minimum <= m /\ m <= t.high_watermark
  BY DEF TrackerInv, ExtremesInv
<1>5. Retired(t, n) => S # {} /\ n < t.high_watermark
  BY <1>3, <1>4, RetiredIsFar
<1>6. LET unseen == Retired(t, n) \/ n \notin S
      IN  /\ u.unique = IF unseen THEN t.unique + 1 ELSE t.unique
          /\ u.minimum = IF unseen /\ (t.unique = 0 \/ n < t.minimum) THEN n ELSE t.minimum
          /\ u.high_watermark = IF unseen /\ n > t.high_watermark THEN n ELSE t.high_watermark
  BY ObserveFields
<1> HIDE DEF u, S
<1>7. CASE ~Retired(t, n) /\ n \in S
  <2>1. S \union {n} = S
    BY <1>7
  <2> QED
    BY <1>1, <1>4, <1>6, <1>7, <2>1 DEF ExtremesInv, u, S
<1>8. CASE Retired(t, n) \/ n \notin S
  <2>1. u.unique # 0
    BY <1>3, <1>6, <1>8
  <2>2. CASE S = {}
    <3>1. n \in Nat /\ u.minimum = n /\ u.high_watermark = n
      BY <1>2, <1>4, <1>6, <1>8, <2>2
    <3> QED
      BY <1>1, <2>1, <2>2, <3>1 DEF ExtremesInv, u, S
  <2>3. CASE S # {}
    <3>1. /\ u.minimum = IF n < t.minimum THEN n ELSE t.minimum
          /\ u.high_watermark = IF n > t.high_watermark THEN n ELSE t.high_watermark
      BY <1>4, <1>6, <1>8, <2>3
    <3>2. n \in Nat /\ S \subseteq Nat
      BY <1>1, <1>2
    <3>3. \A m \in S \union {n} : u.minimum <= m /\ m <= u.high_watermark
      BY <1>3, <1>4, <2>3, <3>1, <3>2
    <3>4. u.minimum \in S \union {n} /\ u.high_watermark \in S \union {n}
      BY <1>4, <2>3, <3>1
    <3> QED
      BY <1>1, <2>1, <3>3, <3>4 DEF ExtremesInv, u, S
  <2> QED
    BY <2>2, <2>3
<1> QED
  BY <1>7, <1>8

(* The reference count of reordered numbers after one more arrival.        *)
LEMMA ReorderedAppend ==
  ASSUME NEW arrivals \in Seq(Sequence), NEW n \in Sequence
  PROVE  /\ ReferenceReordered(arrivals) \in Nat
         /\ ReferenceReordered(Append(arrivals, n)) =
              IF n \notin Seen(arrivals) /\ \E value \in Seen(arrivals) : n < value
                THEN ReferenceReordered(arrivals) + 1
                ELSE ReferenceReordered(arrivals)
<1> DEFINE R(a) == {i \in 1 .. Len(a) : /\ a[i] \notin Before(a, i)
                                        /\ \E value \in Before(a, i) : a[i] < value}
           after == Append(arrivals, n)
           last == Len(arrivals) + 1
           counts == n \notin Seen(arrivals) /\ \E value \in Seen(arrivals) : n < value
<1>1. /\ Len(arrivals) \in Nat /\ Len(after) = last
      /\ Before(after, last) = Seen(arrivals)
      /\ \A i \in 1 .. Len(arrivals) : after[i] = arrivals[i] /\ Before(after, i) = Before(arrivals, i)
  BY SeenAppend
<1>2. after[last] = n
  OBVIOUS
<1>3. 1 .. last = (1 .. Len(arrivals)) \union {last} /\ last \notin 1 .. Len(arrivals)
  BY <1>1
<1>4. IsFiniteSet(R(arrivals)) /\ Cardinality(R(arrivals)) \in Nat
  <2>1. R(arrivals) \in SUBSET (1 .. Len(arrivals))
    OBVIOUS
  <2>2. IsFiniteSet(1 .. Len(arrivals))
    BY <1>1, FS_Interval
  <2> HIDE DEF R
  <2>3. IsFiniteSet(R(arrivals))
    BY <2>1, <2>2, FS_Subset, Zenon
  <2> QED
    BY <2>3, FS_CardinalityType
<1>5. last \notin R(arrivals)
  BY <1>3
<1>6. R(after) = IF counts THEN R(arrivals) \union {last} ELSE R(arrivals)
  <2>1. \A i \in 1 .. Len(arrivals) : i \in R(after) <=> i \in R(arrivals)
    BY <1>1, <1>3
  <2>2. last \in R(after) <=> counts
    BY <1>1, <1>2, <1>3
  <2>3. R(after) \subseteq (1 .. Len(arrivals)) \union {last} /\ R(arrivals) \subseteq 1 .. Len(arrivals)
    BY <1>1, <1>3
  <2> HIDE DEF R, counts, last, after
  <2>4. CASE counts
    BY <1>3, <2>1, <2>2, <2>3, <2>4
  <2>5. CASE ~counts
    <3>1. \A i : i \in R(after) <=> i \in R(arrivals)
      BY <1>3, <2>1, <2>2, <2>3, <2>5
    <3>2. R(after) = R(arrivals)
      BY <3>1
    <3> QED
      BY <2>5, <3>2
  <2> QED
    BY <2>4, <2>5
<1>7. Cardinality(R(after)) = IF counts THEN Cardinality(R(arrivals)) + 1 ELSE Cardinality(R(arrivals))
  <2> HIDE DEF R, counts
  <2> QED
    BY <1>4, <1>5, <1>6, FS_AddElement
<1>8. ReferenceReordered(arrivals) = Cardinality(R(arrivals)) /\ ReferenceReordered(after) = Cardinality(R(after))
  BY Zenon DEF ReferenceReordered
<1> HIDE DEF R
<1> QED
  BY <1>4, <1>7, <1>8

LEMMA CountStep ==
  ASSUME NEW t, NEW arrivals, TrackerInv(t, arrivals), NEW n \in Sequence
  PROVE  CountInv(observe(t, n), Append(arrivals, n)) /\ IsFiniteSet(Seen(Append(arrivals, n)))
<1> DEFINE u == observe(t, n)
           S == Seen(arrivals)
           unseen == Retired(t, n) \/ n \notin S
<1>1. /\ arrivals \in Seq(Sequence) /\ IsFiniteSet(S)
      /\ Len(arrivals) \in Nat /\ Len(Append(arrivals, n)) = Len(arrivals) + 1
      /\ Seen(Append(arrivals, n)) = S \union {n}
      /\ S \subseteq Nat /\ n \in Nat
  BY SeenAppend, BlockArithmetic DEF TrackerInv
<1>2. /\ t.minimum \in Nat /\ t.high_watermark \in Nat /\ t.unique \in Nat
      /\ t.duplicates \in Nat /\ t.reordered \in Nat /\ t.out_of_window \in Nat
  BY DEF TrackerInv, Tracker
<1>3. /\ Cardinality(S) \in Nat /\ IsFiniteSet(S \union {n})
      /\ Cardinality(S \union {n}) = IF n \in S THEN Cardinality(S) ELSE Cardinality(S) + 1
  BY <1>1, FS_AddElement, FS_CardinalityType
<1>4. /\ t.unique + t.duplicates = Len(arrivals)
      /\ Cardinality(S) <= t.unique
      /\ t.unique <= Cardinality(S) + t.out_of_window
      /\ t.out_of_window <= t.reordered
      /\ t.out_of_window = 0 => t.reordered = ReferenceReordered(arrivals)
  BY DEF TrackerInv, CountInv, IsBracketed
<1>5. /\ u.out_of_window = IF Retired(t, n) THEN t.out_of_window + 1 ELSE t.out_of_window
      /\ u.unique = IF unseen THEN t.unique + 1 ELSE t.unique
      /\ u.duplicates = IF unseen THEN t.duplicates ELSE t.duplicates + 1
      /\ u.reordered = IF unseen /\ IsReordered(t, n) THEN t.reordered + 1 ELSE t.reordered
  BY ObserveFields
<1>6. Retired(t, n) => IsReordered(t, n)
  BY RetiredIsFar DEF IsReordered
<1>7. IsReordered(t, n) <=> \E value \in S : n < value
  BY <1>1, <1>2 DEF TrackerInv, ExtremesInv, IsReordered
<1> HIDE DEF u, S
<1>8. IsBracketed(u, Append(arrivals, n))
  <2>1. Retired(t, n) \in BOOLEAN
    BY DEF Retired
  <2>2. u.unique + u.duplicates = Len(arrivals) + 1
    BY <1>1, <1>2, <1>4, <1>5
  <2>3. Cardinality(S \union {n}) <= u.unique
    BY <1>2, <1>3, <1>4, <1>5
  <2>4. u.unique <= Cardinality(S \union {n}) + u.out_of_window
    BY <1>2, <1>3, <1>4, <1>5
  <2> QED
    BY <1>1, <2>2, <2>3, <2>4 DEF IsBracketed
<1>9. u.out_of_window <= u.reordered
  BY <1>2, <1>4, <1>5, <1>6
<1>10. u.out_of_window = 0 => u.reordered = ReferenceReordered(Append(arrivals, n))
  <2>1. SUFFICES ASSUME u.out_of_window = 0
                 PROVE  u.reordered = ReferenceReordered(Append(arrivals, n))
    OBVIOUS
  <2>2. ~Retired(t, n) /\ t.out_of_window = 0
    BY <1>2, <1>5, <2>1
  <2>3. ReferenceReordered(Append(arrivals, n)) =
          IF n \notin S /\ \E value \in S : n < value
            THEN ReferenceReordered(arrivals) + 1
            ELSE ReferenceReordered(arrivals)
    BY <1>1, ReorderedAppend DEF S
  <2> QED
    BY <1>4, <1>5, <1>7, <2>2, <2>3
<1> QED
  BY <1>1, <1>3, <1>8, <1>9, <1>10 DEF CountInv, u, S

(* observe() keeps the invariant.                                          *)
LEMMA ObserveInv ==
  ASSUME NEW t, NEW arrivals, TrackerInv(t, arrivals), NEW n \in Sequence
  PROVE  TrackerInv(observe(t, n), Append(arrivals, n))
BY ObserveType, RingStep, ExtremesStep, CountStep, SeenAppend DEF TrackerInv

-----------------------------------------------------------------------------
(* Consequences. *)

(* The reference gaps are the numbers of the span that were not seen.      *)
LEMMA SpanCount ==
  ASSUME NEW t, NEW arrivals, TrackerInv(t, arrivals), Seen(arrivals) # {}
  PROVE  LET span == t.high_watermark - t.minimum + 1
         IN  /\ span \in Nat
             /\ Cardinality(Seen(arrivals)) \in Nat
             /\ Cardinality(Seen(arrivals)) <= span
             /\ ReferenceGaps(arrivals) = span - Cardinality(Seen(arrivals))
<1> DEFINE S == Seen(arrivals)
           low == t.minimum
           high == t.high_watermark
           G == {value \in Sequence : /\ value \notin S
                                      /\ \E l \in S : l < value
                                      /\ \E h \in S : value < h}
<1>1. /\ S \subseteq Sequence /\ IsFiniteSet(S) /\ Cardinality(S) \in Nat
  <2>1. IsFiniteSet(S) /\ arrivals \in Seq(Sequence)
    BY DEF TrackerInv
  <2>2. S \subseteq Sequence
    BY <2>1 DEF Seen
  <2> HIDE DEF S
  <2> QED
    BY <2>1, <2>2, FS_CardinalityType
<1>2. /\ low \in S /\ high \in S /\ low \in Nat /\ high \in Nat /\ low <= high
      /\ \A n \in S : low <= n /\ n <= high
  BY DEF TrackerInv, Tracker, ExtremesInv
<1>3. S \subseteq low .. high /\ low .. high \subseteq Sequence
  BY <1>1, <1>2, TrackerAssumption DEF Sequence
<1>4. IsFiniteSet(low .. high) /\ Cardinality(low .. high) = high - low + 1
  <2>1. low \in Int /\ high \in Int /\ ~(low > high)
    BY <1>2
  <2> HIDE DEF low, high
  <2> QED
    BY <2>1, FS_Interval
<1>5. G = (low .. high) \ S
  <2> HIDE DEF S, low, high
  <2>1. ASSUME NEW v \in G PROVE v \in (low .. high) \ S
    BY <1>1, <1>2, TrackerAssumption DEF Sequence
  <2>2. ASSUME NEW v \in (low .. high) \ S PROVE v \in G
    <3>1. v \in Sequence /\ v \in Nat /\ v # low /\ v # high
      BY <1>2, <1>3
    <3>2. low < v /\ v < high
      BY <1>2, <3>1
    <3> QED
      BY <1>2, <3>1, <3>2
  <2> QED
    BY <2>1, <2>2
<1>6. Cardinality(G) = Cardinality(low .. high) - Cardinality(S)
  <2>1. (low .. high) \cap S = S
    BY <1>3
  <2> HIDE DEF G, S, low, high
  <2>2. Cardinality((low .. high) \ S) = Cardinality(low .. high) - Cardinality((low .. high) \cap S)
    BY <1>4, FS_Difference, Zenon
  <2> QED
    BY <1>5, <2>1, <2>2, Zenon
<1>7. Cardinality(S) <= Cardinality(low .. high)
  BY <1>3, <1>4, FS_Subset
<1>8. ReferenceGaps(arrivals) = Cardinality(G)
  BY Zenon DEF ReferenceGaps
<1> HIDE DEF G, S
<1> QED
  BY <1>1, <1>2, <1>4, <1>6, <1>7, <1>8 DEF S

(* A tracker never invents a loss and hides few.                           *)
LEMMA InvShowsLoss ==
  ASSUME NEW t, NEW arrivals, TrackerInv(t, arrivals)
  PROVE  ShowsLoss(t, arrivals)
<1>1. t.unique \in Nat /\ t.out_of_window \in Nat
  BY DEF TrackerInv, Tracker
<1>2. CASE Seen(arrivals) = {}
  <2>1. ReferenceGaps(arrivals) = 0
    BY <1>2, FS_EmptySet DEF ReferenceGaps
  <2>2. gaps(t) = 0
    BY <1>2 DEF TrackerInv, ExtremesInv, gaps
  <2> QED
    BY <1>1, <2>1, <2>2 DEF ShowsLoss
<1>3. CASE Seen(arrivals) # {}
  <2> DEFINE span == t.high_watermark - t.minimum + 1
  <2>1. /\ span \in Nat /\ Cardinality(Seen(arrivals)) \in Nat
        /\ Cardinality(Seen(arrivals)) <= span
        /\ ReferenceGaps(arrivals) = span - Cardinality(Seen(arrivals))
    BY <1>3, SpanCount
  <2>2. t.unique # 0 /\ Cardinality(Seen(arrivals)) <= t.unique
        /\ t.unique <= Cardinality(Seen(arrivals)) + t.out_of_window
    BY <1>3 DEF TrackerInv, ExtremesInv, CountInv, IsBracketed
  <2>3. gaps(t) = IF t.unique >= span THEN 0 ELSE span - t.unique
    BY <2>2 DEF gaps
  <2> QED
    BY <1>1, <2>1, <2>2, <2>3 DEF ShowsLoss
<1> QED
  BY <1>2, <1>3

(* With nothing out of the window a tracker is as good as a full record.   *)
LEMMA InvIsExact ==
  ASSUME NEW t, NEW arrivals, TrackerInv(t, arrivals)
  PROVE  IsBracketed(t, arrivals) /\ IsExactInsideWindow(t, arrivals)
<1>1. IsBracketed(t, arrivals)
  BY DEF TrackerInv, CountInv
<1>2. ASSUME t.out_of_window = 0
      PROVE  /\ t.unique = Cardinality(Seen(arrivals))
             /\ t.duplicates = ReferenceDuplicates(arrivals)
             /\ t.reordered = ReferenceReordered(arrivals)
             /\ gaps(t) = ReferenceGaps(arrivals)
  <2>1. t.unique \in Nat /\ t.duplicates \in Nat /\ Cardinality(Seen(arrivals)) \in Nat
    BY FS_CardinalityType DEF TrackerInv, Tracker
  <2>2. t.unique = Cardinality(Seen(arrivals)) /\ t.unique + t.duplicates = Len(arrivals)
    BY <1>1, <1>2, <2>1 DEF IsBracketed
  <2>3. t.duplicates = ReferenceDuplicates(arrivals)
    BY <2>1, <2>2 DEF ReferenceDuplicates
  <2>4. t.reordered = ReferenceReordered(arrivals)
    BY <1>2 DEF TrackerInv, CountInv
  <2>5. gaps(t) \in Nat /\ ReferenceGaps(arrivals) \in Nat
    <3>1. CASE Seen(arrivals) = {}
      <4>1. ReferenceGaps(arrivals) = 0
        BY <3>1, FS_EmptySet DEF ReferenceGaps
      <4> QED
        BY <3>1, <4>1 DEF TrackerInv, ExtremesInv, gaps
    <3>2. CASE Seen(arrivals) # {}
      BY <2>1, <3>2, SpanCount DEF gaps
    <3> QED
      BY <3>1, <3>2
  <2>6. gaps(t) = ReferenceGaps(arrivals)
    BY <1>2, <2>5, InvShowsLoss DEF ShowsLoss
  <2> QED
    BY <2>2, <2>3, <2>4, <2>6
<1> QED
  BY <1>1, <1>2 DEF IsExactInsideWindow

-----------------------------------------------------------------------------
(* The invariant. *)

ThrottledResult == {"answers", "unavailable", "error", "set", "clear"}
State == [throttled : ThrottledResult, link : {"gigabit", "slower", "error"}]

TypeInv ==
  /\ step \in 1 .. 11
  /\ next \in Nat /\ next <= MaxSequence + 1
  /\ held \subseteq Sequence
  /\ socket \in Seq(Sequence)
  /\ failed_sends \in Nat /\ spsc_overflow \in Nat /\ pending \in Nat
  /\ kernel \in [Node -> [Counter -> Nat]]
  /\ flag \in [Node -> BOOLEAN]
  /\ counters \in [Node -> [When -> [Counter -> Nat \union {Unavailable}]]]
  /\ states \in [Node -> [When -> State]]
  /\ lost \subseteq Sequence

(* Each path of the receiver has the tracker of what it has seen.          *)
TrackInv == TrackerInv(rx, arrived) /\ TrackerInv(pr, processed)

(* A number that was submitted is lost, on its way, in the socket or       *)
(* received; a lost one is nowhere else. When the sender has exited,       *)
(* nothing is on its way; when the receiver has been stopped, pending is   *)
(* what it did not read.                                                   *)
FlightInv ==
  /\ \A n \in Sequence : n < next <=>
       n \in lost \union held \union Seen(socket) \union Seen(arrived)
  /\ \A n \in lost : n \notin held /\ n \notin Seen(socket) /\ n \notin Seen(arrived)
  /\ Seen(processed) \subseteq Seen(arrived)
  /\ step > 5 => held = {} /\ next = MaxSequence + 1
  /\ step = 11 => pending = Len(socket)

(* The two snapshots of a node differ in this counter, or will, or the     *)
(* second one could not be taken.                                          *)
ShotAfter(node) == step > (IF node = "receiver" THEN 6 ELSE 7)
Shows(node, c) ==
  LET now == IF ShotAfter(node) THEN counters[node]["after"][c] ELSE kernel[node][c]
  IN  now = Unavailable \/ now > counters[node]["before"][c]

(* The state of a node after the run says that it was throttled, or will,  *)
(* or could not be read.                                                   *)
StateAfter(node) == step > (IF node = "receiver" THEN 8 ELSE 9)
ShowsThrottling(node) ==
  flag[node] /\ (StateAfter(node) => states[node]["after"].throttled # "clear")

DropShows == \E node \in Node : Shows(node, "udp_errors") \/ Shows(node, "nic_errors")
PauseShows == \E node \in Node : Shows(node, "nic_pause")
ThrottlingShows == \E node \in Node : ShowsThrottling(node)

(* All counters but the drops of open sockets only rise.                   *)
BeforeIsLower ==
  \A node \in Node, c \in Counter \ {"udp_socket_drops"} :
    counters[node]["before"][c] <= kernel[node][c]

(* What has disturbed a node while the sender ran shows in the probes.     *)
DisturbInv ==
  /\ BeforeIsLower
  /\ disturbed \subseteq {"drop", "qdisc drop", "pause", "throttling"}
  /\ step < 5 => disturbed = {}
  /\ "drop" \in disturbed => DropShows
  /\ "pause" \in disturbed => PauseShows
  /\ "throttling" \in disturbed => ThrottlingShows

Inv == TypeInv /\ TrackInv /\ FlightInv /\ DisturbInv

-----------------------------------------------------------------------------
(* Helpers. *)

(* Where the controller is. *)
LEMMA ScriptSteps ==
  ASSUME step \in 1 .. 11
  PROVE  /\ Len(Script) = 11
         /\ Sending <=> step = 5
         /\ Doing("stop") <=> step = 10
         /\ Done <=> step = 11
         /\ Doing("snapshot") =>
              \/ step = 3 /\ Script[step].node = "receiver" /\ Script[step].when = "before"
              \/ step = 4 /\ Script[step].node = "sender" /\ Script[step].when = "before"
              \/ step = 6 /\ Script[step].node = "receiver" /\ Script[step].when = "after"
              \/ step = 7 /\ Script[step].node = "sender" /\ Script[step].when = "after"
         /\ Doing("state") =>
              \/ step = 1 /\ Script[step].node = "receiver" /\ Script[step].when = "before"
              \/ step = 2 /\ Script[step].node = "sender" /\ Script[step].when = "before"
              \/ step = 8 /\ Script[step].node = "receiver" /\ Script[step].when = "after"
              \/ step = 9 /\ Script[step].node = "sender" /\ Script[step].when = "after"
<1>1. /\ Len(Script) = 11
      /\ Script[1] = Probe("state", "receiver", "before")
      /\ Script[2] = Probe("state", "sender", "before")
      /\ Script[3] = Probe("snapshot", "receiver", "before")
      /\ Script[4] = Probe("snapshot", "sender", "before")
      /\ Script[5] = Probe("send", "both", "once")
      /\ Script[6] = Probe("snapshot", "receiver", "after")
      /\ Script[7] = Probe("snapshot", "sender", "after")
      /\ Script[8] = Probe("state", "receiver", "after")
      /\ Script[9] = Probe("state", "sender", "after")
      /\ Script[10] = Probe("stop", "both", "once")
      /\ Script[11] = Probe("done", "both", "once")
  BY DEF Script, Act
<1>2. step = 1 \/ step = 2 \/ step = 3 \/ step = 4 \/ step = 5 \/ step = 6 \/ step = 7
      \/ step = 8 \/ step = 9 \/ step = 10 \/ step = 11
  OBVIOUS
<1>3. \A k, n, w : Probe(k, n, w).kind = k /\ Probe(k, n, w).node = n /\ Probe(k, n, w).when = w
  BY DEF Probe
<1> HIDE DEF Script
<1> QED
  BY <1>1, <1>2, <1>3 DEF Doing, Sending, Done

LEMMA SeenConcat ==
  ASSUME NEW a \in Seq(Sequence), NEW b \in Seq(Sequence)
  PROVE  Seen(a \o b) = Seen(a) \union Seen(b)
<1>1. /\ Len(a \o b) = Len(a) + Len(b) /\ Len(a) \in Nat /\ Len(b) \in Nat
      /\ \A i \in 1 .. Len(a) : (a \o b)[i] = a[i]
      /\ \A i \in 1 .. Len(b) : (a \o b)[Len(a) + i] = b[i]
  OBVIOUS
<1>2. ASSUME NEW x \in Seen(a \o b) PROVE x \in Seen(a) \union Seen(b)
  <2>1. PICK i \in 1 .. Len(a) + Len(b) : x = (a \o b)[i]
    BY <1>1 DEF Seen
  <2>2. CASE i \in 1 .. Len(a)
    BY <1>1, <2>1, <2>2 DEF Seen
  <2>3. CASE i \notin 1 .. Len(a)
    <3>1. i - Len(a) \in 1 .. Len(b) /\ i = Len(a) + (i - Len(a))
      BY <1>1, <2>3
    <3>2. x = b[i - Len(a)]
      BY <1>1, <2>1, <3>1
    <3> QED
      BY <3>1, <3>2 DEF Seen
  <2> QED
    BY <2>2, <2>3
<1>3. ASSUME NEW x \in Seen(a) PROVE x \in Seen(a \o b)
  BY <1>1 DEF Seen
<1>4. ASSUME NEW x \in Seen(b) PROVE x \in Seen(a \o b)
  <2>1. PICK i \in 1 .. Len(b) : x = b[i]
    BY DEF Seen
  <2>2. Len(a) + i \in 1 .. Len(a \o b) /\ x = (a \o b)[Len(a) + i]
    BY <1>1, <2>1
  <2> QED
    BY <2>2 DEF Seen
<1> QED
  BY <1>2, <1>3, <1>4

LEMMA SeenTail ==
  ASSUME NEW s \in Seq(Sequence), s # <<>>
  PROVE  /\ Head(s) \in Sequence /\ Tail(s) \in Seq(Sequence)
         /\ Seen(s) = {Head(s)} \union Seen(Tail(s))
<1>1. Head(s) \in Sequence /\ Tail(s) \in Seq(Sequence) /\ <<Head(s)>> \in Seq(Sequence)
  OBVIOUS
<1>2. s = <<Head(s)>> \o Tail(s)
  OBVIOUS
<1>3. Seen(<<Head(s)>>) = {Head(s)}
  BY DEF Seen
<1> QED
  BY <1>1, <1>2, <1>3, SeenConcat

(* What the delivery of a number does.                                     *)
LEMMA DeliveredFacts ==
  ASSUME TypeInv, NEW n \in Sequence, Delivered(n)
  PROVE  /\ \/ /\ socket' = Append(socket, n) /\ socket' \in Seq(Sequence)
               /\ lost' = lost
            \/ /\ socket' = socket
               /\ lost' = IF n \in Seen(arrived \o socket) THEN lost ELSE lost \union {n}
         /\ \/ UNCHANGED <<kernel, disturbed>>
            \/ /\ kernel'["receiver"]["udp_errors"] = kernel["receiver"]["udp_errors"] + 1
               /\ disturbed' = disturbed \union {"drop"}
         /\ kernel' \in [Node -> [Counter -> Nat]]
         /\ \A node \in Node, c \in Counter : kernel[node][c] <= kernel'[node][c]
<1>1. socket \in Seq(Sequence) /\ kernel \in [Node -> [Counter -> Nat]] /\ "receiver" \in Node
      /\ {"udp_errors", "udp_socket_drops"} \subseteq Counter
  BY DEF TypeInv, Node, Counter
<1>2. CASE Len(socket) < SocketSize
  <2>1. socket' = Append(socket, n) /\ lost' = lost /\ kernel' = kernel /\ disturbed' = disturbed
    BY <1>2 DEF Delivered
  <2>2. \A node \in Node, c \in Counter : kernel[node][c] \in Nat
    BY <1>1
  <2>3. Append(socket, n) \in Seq(Sequence)
    BY <1>1
  <2> QED
    BY <1>1, <2>1, <2>2, <2>3
<1>3. CASE ~(Len(socket) < SocketSize)
  <2>1. /\ socket' = socket
        /\ lost' = IF n \in Seen(arrived \o socket) THEN lost ELSE lost \union {n}
        /\ kernel' = [kernel EXCEPT !["receiver"]["udp_errors"] = @ + 1,
                                    !["receiver"]["udp_socket_drops"] = @ + 1]
        /\ disturbed' = disturbed \union {"drop"}
    BY <1>3 DEF Delivered
  <2>2. kernel' = [kernel EXCEPT !["receiver"] =
                     [kernel["receiver"] EXCEPT !["udp_errors"] = @ + 1,
                                                !["udp_socket_drops"] = @ + 1]]
    BY <1>1, <2>1
  <2>3. [kernel["receiver"] EXCEPT !["udp_errors"] = @ + 1, !["udp_socket_drops"] = @ + 1]
          \in [Counter -> Nat]
    BY <1>1
  <2>4. kernel' \in [Node -> [Counter -> Nat]]
    BY <1>1, <2>2, <2>3
  <2>5. \A node \in Node, c \in Counter : kernel[node][c] <= kernel'[node][c]
    BY <1>1, <2>2
  <2>6. kernel'["receiver"]["udp_errors"] = kernel["receiver"]["udp_errors"] + 1
    BY <1>1, <2>2
  <2> QED
    BY <2>1, <2>4, <2>5, <2>6
<1> QED
  BY <1>2, <1>3

(* A rise of a counter of a node.                                          *)
LEMMA CountsFacts ==
  ASSUME TypeInv, NEW node \in Node, NEW c \in Counter, NodeCounts(node, c)
  PROVE  /\ kernel' \in [Node -> [Counter -> Nat]]
         /\ \A m \in Node, k \in Counter : kernel[m][k] <= kernel'[m][k]
         /\ kernel'[node][c] = kernel[node][c] + 1
         /\ c = "udp_socket_drops" =>
              kernel'[node]["udp_errors"] = kernel[node]["udp_errors"] + 1
<1> DEFINE up == [k \in Counter |->
              kernel[node][k] + (IF k = c \/ {k, c} = {"udp_errors", "udp_socket_drops"} THEN 1 ELSE 0)]
<1>1. kernel \in [Node -> [Counter -> Nat]] /\ "udp_errors" \in Counter
  BY DEF TypeInv, Counter
<1>2. kernel' = [kernel EXCEPT ![node] = up]
  BY <1>1 DEF NodeCounts
<1>3. up \in [Counter -> Nat] /\ \A k \in Counter : kernel[node][k] <= up[k]
  BY <1>1
<1>4. up[c] = kernel[node][c] + 1
      /\ (c = "udp_socket_drops" => up["udp_errors"] = kernel[node]["udp_errors"] + 1)
  BY <1>1
<1> HIDE DEF up
<1> QED
  BY <1>1, <1>2, <1>3, <1>4

(* A loss on the way, counted or not.                                      *)
LEMMA LostFacts ==
  ASSUME TypeInv,
         NEW counted \in {{}, {<<"sender", "qdisc_drops">>}, {<<"receiver", "nic_errors">>}},
         SendLost(counted)
  PROVE  /\ kernel' \in [Node -> [Counter -> Nat]]
         /\ \A m \in Node, k \in Counter : kernel[m][k] <= kernel'[m][k]
         /\ \/ disturbed' = disturbed \/ disturbed' = disturbed \union {"qdisc drop"}
            \/ /\ disturbed' = disturbed \union {"drop"}
               /\ kernel'["receiver"]["nic_errors"] = kernel["receiver"]["nic_errors"] + 1
<1>1. kernel \in [Node -> [Counter -> Nat]]
      /\ "receiver" \in Node /\ "nic_errors" \in Counter
  BY DEF TypeInv, Node, Counter
<1>2. /\ kernel' = [n \in Node |-> [c \in Counter |->
                      kernel[n][c] + (IF <<n, c>> \in counted THEN 1 ELSE 0)]]
      /\ disturbed' = disturbed \union {Disturbance(k[2]) : k \in counted}
  BY DEF SendLost
<1>3. \A n \in Node, c \in Counter :
        kernel'[n][c] = kernel[n][c] + (IF <<n, c>> \in counted THEN 1 ELSE 0)
  BY <1>2
<1>4. kernel' \in [Node -> [Counter -> Nat]]
  <2>1. ASSUME NEW n \in Node
        PROVE  [c \in Counter |-> kernel[n][c] + (IF <<n, c>> \in counted THEN 1 ELSE 0)]
                 \in [Counter -> Nat]
    BY <1>1
  <2> QED
    BY <1>2, <2>1
<1>5. \A m \in Node, k \in Counter : kernel[m][k] <= kernel'[m][k]
  <2>1. \A m \in Node, k \in Counter : kernel[m][k] \in Nat
    BY <1>1
  <2>2. \A m \in Node, k \in Counter :
          kernel'[m][k] = kernel[m][k] \/ kernel'[m][k] = kernel[m][k] + 1
    <3>1. ASSUME NEW m \in Node, NEW k \in Counter, <<m, k>> \in counted
          PROVE  kernel'[m][k] = kernel[m][k] + 1
      BY <1>3, <3>1
    <3>2. ASSUME NEW m \in Node, NEW k \in Counter, <<m, k>> \notin counted
          PROVE  kernel'[m][k] = kernel[m][k]
      <4>1. kernel'[m][k] = kernel[m][k] + 0
        BY <1>3, <3>2
      <4> QED
        BY <2>1, <4>1
    <3> QED
      BY <3>1, <3>2
  <2> QED
    BY <2>1, <2>2
<1>6. CASE counted = {<<"receiver", "nic_errors">>}
  <2>1. kernel'["receiver"]["nic_errors"] = kernel["receiver"]["nic_errors"] + 1
    BY <1>1, <1>3, <1>6
  <2>2. Disturbance("nic_errors") = "drop"
    BY DEF Disturbance
  <2>3. {Disturbance(k[2]) : k \in counted} = {Disturbance("nic_errors")}
    BY <1>6
  <2>4. disturbed' = disturbed \union {"drop"}
    BY <1>2, <2>2, <2>3
  <2> QED
    BY <1>4, <1>5, <2>1, <2>4
<1>7. CASE counted = {<<"sender", "qdisc_drops">>}
  <2>1. Disturbance("qdisc_drops") = "qdisc drop"
    BY DEF Disturbance
  <2>2. {Disturbance(k[2]) : k \in counted} = {Disturbance("qdisc_drops")}
    BY <1>7
  <2>3. disturbed' = disturbed \union {"qdisc drop"}
    BY <1>2, <2>1, <2>2
  <2> QED
    BY <1>4, <1>5, <2>3
<1>8. CASE counted = {}
  BY <1>2, <1>4, <1>5, <1>8
<1> QED
  BY <1>6, <1>7, <1>8

-----------------------------------------------------------------------------
(* Types. *)

LEMMA InitInv == Init => Inv
<1> SUFFICES ASSUME Init PROVE Inv
  OBVIOUS
<1>1. TypeInv
  <2>1. kernel \in [Node -> [Counter -> Nat]]
    BY DEF Init
  <2>2. counters \in [Node -> [When -> [Counter -> Nat \union {Unavailable}]]]
    <3>1. NoSnapshot \in [Counter -> Nat \union {Unavailable}]
      BY DEF NoSnapshot
    <3> QED
      BY <3>1 DEF Init
  <2>3. states \in [Node -> [When -> State]]
    <3>1. NoState \in State
      BY DEF NoState, State, ThrottledResult
    <3> QED
      BY <3>1 DEF Init
  <2>4. flag \in [Node -> BOOLEAN]
    BY DEF Init
  <2> QED
    BY <2>1, <2>2, <2>3, <2>4, VerdictAssumption, TrackerAssumption DEF Init, TypeInv
<1>2. TrackInv
  BY NewTrackerInv DEF Init, TrackInv
<1>3. FlightInv
  BY BlockArithmetic DEF Init, FlightInv, Seen
<1>4. DisturbInv
  <2>1. \A node \in Node, c \in Counter :
          counters[node]["before"][c] = -1 /\ kernel[node][c] \in Nat
    BY <1>1 DEF Init, When, NoSnapshot, Unavailable, TypeInv
  <2> QED
    BY <2>1 DEF Init, DisturbInv, BeforeIsLower
<1> QED
  BY <1>1, <1>2, <1>3, <1>4 DEF Inv

LEMMA TypeStep == TypeInv /\ [Next]_vars => TypeInv'
<1> SUFFICES ASSUME TypeInv, [Next]_vars PROVE TypeInv'
  OBVIOUS
<1>0. MaxSequence \in Nat /\ Sequence = 0 .. MaxSequence
  BY TrackerAssumption DEF Sequence
<1>1. CASE UNCHANGED vars
  BY <1>1 DEF TypeInv, vars, packetVars, nodeVars, probeVars, historyVars
<1>2. CASE Submit /\ UNCHANGED <<step, failed_sends, spsc_overflow, pending, flag, probeVars>>
           /\ lost' \subseteq lost \union {next} /\ held' \subseteq held \union {next}
           /\ socket' \in Seq(Sequence) /\ kernel' \in [Node -> [Counter -> Nat]]
  BY <1>0, <1>2 DEF TypeInv, Submit, probeVars
<1>3. CASE SendDelivered
  <2>1. next \in Sequence
    BY <1>0, <1>3 DEF SendDelivered, Submit, TypeInv
  <2>2. socket' \in Seq(Sequence) /\ lost' \subseteq lost \union {next}
        /\ kernel' \in [Node -> [Counter -> Nat]]
    BY <1>3, <2>1, DeliveredFacts DEF SendDelivered, TypeInv
  <2> QED
    BY <1>2, <1>3, <2>2 DEF SendDelivered
<1>4. CASE SendFails
  BY <1>0, <1>4 DEF TypeInv, SendFails, Submit, nodeVars, probeVars
<1>5. ASSUME NEW counted \in {{}, {<<"sender", "qdisc_drops">>}, {<<"receiver", "nic_errors">>}},
             SendLost(counted)
      PROVE  TypeInv'
  BY <1>2, <1>5, LostFacts DEF SendLost, TypeInv
<1>6. CASE SendDelayed
  BY <1>0, <1>6 DEF TypeInv, SendDelayed, Submit, nodeVars, probeVars
<1>7. ASSUME NEW n \in Sequence, Repeat(n) PROVE TypeInv'
  BY <1>7 DEF TypeInv, Repeat, nodeVars, probeVars
<1>8. ASSUME NEW n \in Sequence, DeliverLate(n) PROVE TypeInv'
  <2>1. socket' \in Seq(Sequence) /\ lost' \subseteq lost \union {n}
        /\ kernel' \in [Node -> [Counter -> Nat]]
    BY <1>8, DeliveredFacts DEF DeliverLate, TypeInv
  <2> QED
    BY <1>8, <2>1 DEF TypeInv, DeliverLate, probeVars
<1>9. ASSUME NEW overflows \in BOOLEAN, Read(overflows) PROVE TypeInv'
  <2>1. socket' \in Seq(Sequence)
    BY <1>9, SeenTail DEF Read, TypeInv
  <2>2. spsc_overflow' \in Nat
    BY <1>9 DEF Read, TypeInv
  <2> QED
    BY <1>9, <2>1, <2>2 DEF TypeInv, Read, nodeVars, probeVars
<1>10. ASSUME NEW node \in Node, NEW c \in Counter, NodeCounts(node, c) PROVE TypeInv'
  <2>1. kernel' \in [Node -> [Counter -> Nat]]
    BY <1>10, CountsFacts
  <2> QED
    BY <1>10, <2>1 DEF TypeInv, NodeCounts, packetVars, probeVars
<1>11. ASSUME NEW node \in Node, SocketCloses(node) PROVE TypeInv'
  <2>1. kernel \in [Node -> [Counter -> Nat]] /\ kernel[node]["udp_socket_drops"] > 0
        /\ "udp_socket_drops" \in Counter
    BY <1>11 DEF TypeInv, SocketCloses, Counter
  <2>2. kernel' = [kernel EXCEPT ![node] = [kernel[node] EXCEPT !["udp_socket_drops"] = @ - 1]]
    BY <1>11, <2>1 DEF SocketCloses
  <2>3. [kernel[node] EXCEPT !["udp_socket_drops"] = @ - 1] \in [Counter -> Nat]
    BY <2>1
  <2>4. kernel' \in [Node -> [Counter -> Nat]]
    BY <2>1, <2>2, <2>3
  <2> QED
    BY <1>11, <2>4 DEF TypeInv, SocketCloses, packetVars, probeVars
<1>12. ASSUME NEW node \in Node, Throttle(node) PROVE TypeInv'
  BY <1>12 DEF TypeInv, Throttle, packetVars, probeVars
<1>13. ASSUME NEW outcome \in {"read", "error"} \union Counter, snapshot_counters(outcome)
       PROVE  TypeInv'
  <2>1. step' \in 1 .. 11
    BY <1>13, ScriptSteps DEF TypeInv, snapshot_counters
  <2>2. Script[step].node \in Node /\ Script[step].when \in When
    BY <1>13, ScriptSteps DEF TypeInv, snapshot_counters, Node, When
  <2>3. \A node \in Node : NodeSnapshot(node, outcome) \in [Counter -> Nat \union {Unavailable}]
    BY DEF TypeInv, NodeSnapshot, ZeroWhenEmpty
  <2>4. counters' = [counters EXCEPT ![Script[step].node] =
                       [counters[Script[step].node] EXCEPT
                          ![Script[step].when] = NodeSnapshot(Script[step].node, outcome)]]
    BY <1>13, <2>2 DEF snapshot_counters, TypeInv
  <2>5. counters' \in [Node -> [When -> [Counter -> Nat \union {Unavailable}]]]
    BY <2>2, <2>3, <2>4 DEF TypeInv
  <2> QED
    BY <1>13, <2>1, <2>5 DEF TypeInv, snapshot_counters, packetVars, nodeVars
<1>14. ASSUME NEW probe \in {"answers", "unavailable", "error"},
              NEW link \in {"gigabit", "slower", "error"}, run_state(probe, link)
       PROVE  TypeInv'
  <2>1. step' \in 1 .. 11
    BY <1>14, ScriptSteps DEF TypeInv, run_state
  <2>2. Script[step].node \in Node /\ Script[step].when \in When
    BY <1>14, ScriptSteps DEF TypeInv, run_state, Node, When
  <2> DEFINE state == [throttled |-> IF probe # "answers" THEN probe
                                     ELSE IF flag[Script[step].node] THEN "set" ELSE "clear",
                       link |-> link]
  <2>3. state \in State
    BY DEF State, ThrottledResult
  <2>4. states' = [states EXCEPT ![Script[step].node] =
                     [states[Script[step].node] EXCEPT ![Script[step].when] = state]]
    BY <1>14, <2>2 DEF run_state, TypeInv
  <2> HIDE DEF state
  <2>5. states' \in [Node -> [When -> State]]
    BY <2>2, <2>3, <2>4 DEF TypeInv
  <2> QED
    BY <1>14, <2>1, <2>5 DEF TypeInv, run_state, packetVars, nodeVars
<1>15. ASSUME NEW ok \in BOOLEAN, SenderExits(ok) PROVE TypeInv'
  <2>1. step' \in 1 .. 11
    BY <1>15, ScriptSteps DEF TypeInv, SenderExits
  <2> QED
    BY <1>15, <2>1 DEF TypeInv, SenderExits, nodeVars, probeVars, historyVars
<1>16. CASE StopReceiver
  <2>1. step' \in 1 .. 11
    BY <1>16, ScriptSteps DEF TypeInv, StopReceiver
  <2>2. pending' \in Nat
    BY <1>16 DEF TypeInv, StopReceiver
  <2> QED
    BY <1>16, <2>1, <2>2 DEF TypeInv, StopReceiver, nodeVars, probeVars, historyVars
<1> QED
  BY <1>1, <1>3, <1>4, <1>5, <1>6, <1>7, <1>8, <1>9, <1>10, <1>11, <1>12, <1>13, <1>14, <1>15, <1>16
  DEF Next, Network, Nodes, Controller, Finished

-----------------------------------------------------------------------------
(* Trackers and packets. *)

(* Only Read() changes what the receiver has seen.                         *)
receiverVars == <<arrived, processed, rx, pr>>

LEMMA ReadOrNot ==
  ASSUME [Next]_vars
  PROVE  UNCHANGED receiverVars \/ \E overflows \in BOOLEAN : Read(overflows)
BY DEF Next, Network, Nodes, Controller, Finished, vars, packetVars, receiverVars, SendDelivered,
   SendFails, SendLost, SendDelayed, Repeat, DeliverLate, NodeCounts, SocketCloses, Throttle,
   snapshot_counters, run_state, SenderExits, StopReceiver

LEMMA ReadFacts ==
  ASSUME TypeInv, NEW overflows \in BOOLEAN, Read(overflows)
  PROVE  /\ Head(socket) \in Sequence
         /\ arrived' = Append(arrived, Head(socket)) /\ rx' = observe(rx, Head(socket))
         /\ \/ processed' = processed /\ pr' = pr
            \/ processed' = Append(processed, Head(socket)) /\ pr' = observe(pr, Head(socket))
BY SeenTail DEF Read, TypeInv

LEMMA TrackStep == TypeInv /\ TrackInv /\ [Next]_vars => TrackInv'
<1> SUFFICES ASSUME TypeInv, TrackInv, [Next]_vars PROVE TrackInv'
  OBVIOUS
<1>1. CASE UNCHANGED receiverVars
  BY <1>1 DEF TrackInv, receiverVars
<1>2. ASSUME NEW overflows \in BOOLEAN, Read(overflows) PROVE TrackInv'
  BY <1>2, ReadFacts, ObserveInv DEF TrackInv
<1> QED
  BY <1>1, <1>2, ReadOrNot

LEMMA FlightStep == TypeInv /\ TrackInv /\ FlightInv /\ [Next]_vars => FlightInv'
<1> SUFFICES ASSUME TypeInv, TrackInv, FlightInv, [Next]_vars PROVE FlightInv'
  OBVIOUS
<1>1. /\ step \in 1 .. 11 /\ next \in Nat /\ MaxSequence \in Nat /\ Sequence = 0 .. MaxSequence
      /\ held \subseteq Sequence /\ lost \subseteq Sequence
      /\ socket \in Seq(Sequence) /\ arrived \in Seq(Sequence) /\ processed \in Seq(Sequence)
  BY TrackerAssumption DEF TypeInv, TrackInv, TrackerInv, Sequence
<1>2. Seen(arrived \o socket) = Seen(arrived) \union Seen(socket)
  BY <1>1, SeenConcat
<1>3. \A n \in Sequence : Seen(Append(socket, n)) = Seen(socket) \union {n}
  BY <1>1, SeenAppend
<1>4. CASE UNCHANGED <<step, next, held, socket, arrived, processed, pending, lost>>
  BY <1>4 DEF FlightInv
(* A number leaves the sender, to one of the places.                       *)
<1>5. CASE Submit /\ UNCHANGED <<step, arrived, processed, pending>>
           /\ \/ /\ lost' = lost /\ held' = held
                 /\ Seen(socket') = Seen(socket) \union {next}
              \/ lost' = lost \union {next} /\ held' = held /\ socket' = socket
              \/ lost' = lost /\ held' = held \union {next} /\ socket' = socket
  <2>1. next \in Sequence /\ next' = next + 1 /\ step = 5
    BY <1>1, <1>5, ScriptSteps DEF Submit
  <2>2. next \notin lost /\ next \notin held /\ next \notin Seen(socket) /\ next \notin Seen(arrived)
    BY <1>1, <2>1 DEF FlightInv
  <2>3. \A n \in Sequence : n < next' <=> n < next \/ n = next
    BY <1>1, <2>1
  <2>4. Seen(arrived)' = Seen(arrived) /\ Seen(processed)' = Seen(processed)
        /\ Seen(socket)' = Seen(socket') /\ step' = step
    BY <1>5
  <2>5. CASE lost' = lost /\ held' = held /\ Seen(socket') = Seen(socket) \union {next}
    BY <2>1, <2>2, <2>3, <2>4, <2>5 DEF FlightInv
  <2>6. CASE lost' = lost \union {next} /\ held' = held /\ socket' = socket
    BY <2>1, <2>2, <2>3, <2>4, <2>6 DEF FlightInv
  <2>7. CASE lost' = lost /\ held' = held \union {next} /\ socket' = socket
    BY <2>1, <2>2, <2>3, <2>4, <2>7 DEF FlightInv
  <2> QED
    BY <1>5, <2>5, <2>6, <2>7
<1>6. CASE SendDelivered
  <2>1. next \in Sequence
    BY <1>1, <1>6 DEF SendDelivered, Submit
  <2>2. next \notin Seen(arrived \o socket)
    BY <1>1, <1>2, <2>1 DEF FlightInv
  <2>3. \/ lost' = lost /\ Seen(socket') = Seen(socket) \union {next}
        \/ lost' = lost \union {next} /\ socket' = socket
    BY <1>3, <1>6, <2>1, <2>2, DeliveredFacts DEF SendDelivered
  <2> QED
    BY <1>5, <1>6, <2>3 DEF SendDelivered
<1>7. CASE SendFails
  BY <1>5, <1>7 DEF SendFails
<1>8. ASSUME NEW counted \in {{}, {<<"sender", "qdisc_drops">>}, {<<"receiver", "nic_errors">>}},
             SendLost(counted)
      PROVE  FlightInv'
  BY <1>5, <1>8 DEF SendLost
<1>9. CASE SendDelayed
  BY <1>5, <1>9 DEF SendDelayed
<1>10. ASSUME NEW n \in Sequence, Repeat(n) PROVE FlightInv'
  <2>1. step = 5 /\ n < next /\ n \notin lost /\ held' = held \union {n}
        /\ UNCHANGED <<step, next, socket, arrived, processed, pending, lost>>
    BY <1>1, <1>10, ScriptSteps DEF Repeat
  <2> QED
    BY <2>1 DEF FlightInv
<1>11. ASSUME NEW n \in Sequence, DeliverLate(n) PROVE FlightInv'
  <2>1. step = 5 /\ n \in held /\ held' = held \ {n}
        /\ UNCHANGED <<step, next, arrived, processed, pending>>
    BY <1>1, <1>11, ScriptSteps DEF DeliverLate
  <2>2. \/ lost' = lost /\ Seen(socket') = Seen(socket) \union {n}
        \/ /\ socket' = socket
           /\ lost' = IF n \in Seen(arrived) \union Seen(socket) THEN lost ELSE lost \union {n}
    BY <1>2, <1>3, <1>11, DeliveredFacts DEF DeliverLate
  <2>3. Seen(arrived)' = Seen(arrived) /\ Seen(processed)' = Seen(processed)
        /\ Seen(socket)' = Seen(socket') /\ step' = step /\ next' = next
    BY <2>1
  <2>4. n < next /\ n \notin lost
    BY <2>1 DEF FlightInv
  <2>5. CASE lost' = lost /\ Seen(socket') = Seen(socket) \union {n}
    BY <2>1, <2>3, <2>4, <2>5 DEF FlightInv
  <2>6. CASE socket' = socket /\ n \in Seen(arrived) \union Seen(socket) /\ lost' = lost
    BY <2>1, <2>3, <2>4, <2>6 DEF FlightInv
  <2>7. CASE socket' = socket /\ n \notin Seen(arrived) \union Seen(socket)
             /\ lost' = lost \union {n}
    BY <2>1, <2>3, <2>4, <2>7 DEF FlightInv
  <2> QED
    BY <2>2, <2>5, <2>6, <2>7
<1>12. ASSUME NEW overflows \in BOOLEAN, Read(overflows) PROVE FlightInv'
  <2> DEFINE n == Head(socket)
  <2>1. /\ step < 11 /\ socket # <<>> /\ socket' = Tail(socket)
        /\ UNCHANGED <<step, next, held, lost, pending>>
    BY <1>1, <1>12, ScriptSteps DEF Read
  <2>2. n \in Sequence /\ Seen(socket) = {n} \union Seen(Tail(socket))
    BY <1>1, <2>1, SeenTail
  <2>3. /\ arrived' = Append(arrived, n)
        /\ processed' = processed \/ processed' = Append(processed, n)
    BY <1>12, ReadFacts
  <2> HIDE DEF n
  <2>4. Seen(arrived') = Seen(arrived) \union {n}
    BY <1>1, <2>2, <2>3, SeenAppend
  <2>5. Seen(processed') \subseteq Seen(processed) \union {n}
    <3>1. Seen(Append(processed, n)) = Seen(processed) \union {n}
      BY <1>1, <2>2, SeenAppend
    <3>2. CASE processed' = processed
      BY <3>2
    <3>3. CASE processed' = Append(processed, n)
      BY <3>1, <3>3
    <3> QED
      BY <2>3, <3>2, <3>3
  <2>6. Seen(arrived)' = Seen(arrived') /\ Seen(processed)' = Seen(processed')
        /\ Seen(socket)' = Seen(Tail(socket)) /\ step' = step /\ next' = next
        /\ held' = held /\ lost' = lost
    BY <2>1
  <2>7. Seen(socket)' \union Seen(arrived)' = Seen(socket) \union Seen(arrived)
    BY <2>2, <2>4, <2>6
  <2>8. (\A m \in Sequence : m < next <=>
           m \in lost \union held \union Seen(socket) \union Seen(arrived))'
    BY <2>6, <2>7 DEF FlightInv
  <2>9. (\A m \in lost : m \notin held /\ m \notin Seen(socket) /\ m \notin Seen(arrived))'
    BY <2>6, <2>7 DEF FlightInv
  <2>10. (Seen(processed) \subseteq Seen(arrived))'
    BY <2>4, <2>5, <2>6 DEF FlightInv
  <2>11. step' # 11 /\ (step' > 5 => held' = {} /\ next' = MaxSequence + 1)
    BY <1>1, <2>1, <2>6 DEF FlightInv
  <2> QED
    BY <2>8, <2>9, <2>10, <2>11 DEF FlightInv
<1>13. ASSUME NEW ok \in BOOLEAN, SenderExits(ok) PROVE FlightInv'
  <2>1. step' = 6 /\ held = {} /\ next = MaxSequence + 1
        /\ UNCHANGED <<next, held, socket, arrived, processed, lost>>
    BY <1>1, <1>13, ScriptSteps DEF SenderExits, historyVars
  <2> QED
    BY <2>1 DEF FlightInv
<1>14. CASE StopReceiver
  <2>1. step = 10 /\ step' = 11 /\ pending' = Len(socket)
        /\ UNCHANGED <<next, held, socket, arrived, processed, lost>>
    BY <1>1, <1>14, ScriptSteps DEF StopReceiver, historyVars
  <2> QED
    BY <2>1 DEF FlightInv
(* A probe, before or after the sender runs.                               *)
<1>15. CASE /\ Doing("snapshot") \/ Doing("state")
            /\ step' = step + 1
            /\ UNCHANGED <<next, held, socket, arrived, processed, lost>>
  <2>1. step # 5 /\ step < 10
    BY <1>1, <1>15, ScriptSteps
  <2> QED
    BY <1>1, <1>15, <2>1 DEF FlightInv
<1>16. ASSUME NEW outcome \in {"read", "error"} \union Counter, snapshot_counters(outcome)
       PROVE  FlightInv'
  BY <1>15, <1>16 DEF snapshot_counters, packetVars
<1>17. ASSUME NEW probe \in {"answers", "unavailable", "error"},
              NEW link \in {"gigabit", "slower", "error"}, run_state(probe, link)
       PROVE  FlightInv'
  BY <1>15, <1>17 DEF run_state, packetVars
<1>18. CASE Nodes
  BY <1>4, <1>18 DEF Nodes, NodeCounts, SocketCloses, Throttle, packetVars
<1>19. CASE UNCHANGED vars
  BY <1>4, <1>19 DEF vars, packetVars, historyVars
<1> QED
  BY <1>6, <1>7, <1>8, <1>9, <1>10, <1>11, <1>12, <1>13, <1>14, <1>16, <1>17, <1>18, <1>19
  DEF Next, Network, Controller, Finished

-----------------------------------------------------------------------------
(* Disturbances of the nodes. *)

LEMMA CounterTypes ==
  ASSUME TypeInv
  PROVE  /\ \A node \in Node, c \in Counter :
              /\ kernel[node][c] \in Nat
              /\ \A w \in When : counters[node][w][c] \in Nat \union {Unavailable}
         /\ {"udp_errors", "nic_errors", "nic_pause"} \subseteq Counter \ {"udp_socket_drops"}
         /\ "before" \in When /\ "after" \in When /\ Unavailable = -1
         /\ Node = {"receiver", "sender"}
BY DEF TypeInv, Counter, When, Unavailable, Node

(* A step that leaves controller and probes alone, lets counters and       *)
(* throttling bits only rise, and says of what it adds to disturbed while  *)
(* the sender runs which of them has risen.                                *)
ProbesStay == UNCHANGED <<step, counters, states>>

CountersRise ==
  /\ kernel' \in [Node -> [Counter -> Nat]]
  /\ \A node \in Node, c \in Counter \ {"udp_socket_drops"} : kernel[node][c] <= kernel'[node][c]

FlagsStay == \A node \in Node : flag[node] => flag'[node]

SomeFlag == \E node \in Node : flag[node]

Rose(c) == \E node \in Node : kernel[node][c] < kernel'[node][c]

NewIsShown ==
  \/ disturbed' = disturbed
  \/ /\ step = 5
     /\ \/ disturbed' = disturbed \union {"qdisc drop"}
        \/ disturbed' = disturbed \union {"drop"} /\ (Rose("udp_errors") \/ Rose("nic_errors"))
        \/ disturbed' = disturbed \union {"pause"} /\ Rose("nic_pause")
        \/ disturbed' = disturbed \union {"throttling"} /\ SomeFlag'

(* What is shown stays shown, and what rises while the sender runs is.     *)
LEMMA ShownStays ==
  ASSUME TypeInv, DisturbInv, ProbesStay, CountersRise
  PROVE  /\ \A node \in Node, c \in {"udp_errors", "nic_errors", "nic_pause"} :
              /\ Shows(node, c) => Shows(node, c)'
              /\ step = 5 /\ kernel[node][c] < kernel'[node][c] => Shows(node, c)'
         /\ \A node \in Node, c \in Counter \ {"udp_socket_drops"} :
              counters'[node]["before"][c] <= kernel'[node][c]
<1>1. step' = step /\ counters' = counters
  BY DEF ProbesStay
<1>2. ASSUME NEW node \in Node, NEW c \in Counter \ {"udp_socket_drops"}
      PROVE  /\ kernel[node][c] \in Nat /\ kernel'[node][c] \in Nat
             /\ counters[node]["before"][c] \in Int
             /\ counters[node]["before"][c] <= kernel[node][c]
             /\ kernel[node][c] <= kernel'[node][c]
             /\ kernel[node][c] # Unavailable
  <2>1. kernel[node][c] \in Nat /\ counters[node]["before"][c] \in Nat \union {Unavailable}
        /\ Unavailable = -1
    BY CounterTypes
  <2>2. kernel'[node][c] \in Nat /\ kernel[node][c] <= kernel'[node][c]
    BY DEF CountersRise
  <2>3. counters[node]["before"][c] <= kernel[node][c]
    BY DEF DisturbInv, BeforeIsLower
  <2> QED
    BY <2>1, <2>2, <2>3
<1>3. ASSUME NEW node \in Node, NEW c \in {"udp_errors", "nic_errors", "nic_pause"}
      PROVE  /\ Shows(node, c) => Shows(node, c)'
             /\ step = 5 /\ kernel[node][c] < kernel'[node][c] => Shows(node, c)'
  <2>1. c \in Counter \ {"udp_socket_drops"}
    BY CounterTypes
  <2>2. CASE ShotAfter(node)
    <3>1. ShotAfter(node)' /\ step # 5
      BY <1>1, <2>2 DEF ShotAfter
    <3> QED
      BY <1>1, <2>2, <3>1 DEF Shows
  <2>3. CASE ~ShotAfter(node)
    <3>1. ~ShotAfter(node)'
      BY <1>1, <2>3 DEF ShotAfter
    <3>2. Shows(node, c) <=> kernel[node][c] > counters[node]["before"][c]
      BY <1>2, <2>1, <2>3 DEF Shows
    <3>3. kernel'[node][c] > counters[node]["before"][c] => Shows(node, c)'
      BY <1>1, <3>1 DEF Shows
    <3> QED
      BY <1>2, <2>1, <3>2, <3>3
  <2> QED
    BY <2>2, <2>3
<1>4. ASSUME NEW node \in Node, NEW c \in Counter \ {"udp_socket_drops"}
      PROVE  counters'[node]["before"][c] <= kernel'[node][c]
  BY <1>1, <1>2
<1> QED
  BY <1>3, <1>4

(* A step that adds nothing to disturbed. *)
LEMMA QuietStep ==
  ASSUME DisturbInv, disturbed' = disturbed, step' < 5 => disturbed = {}, BeforeIsLower',
         DropShows => DropShows', PauseShows => PauseShows',
         ThrottlingShows => ThrottlingShows'
  PROVE  DisturbInv'
BY DEF DisturbInv

(* A step that adds to disturbed what is shown. *)
LEMMA AddedStep ==
  ASSUME DisturbInv, NEW what \in {"drop", "qdisc drop", "pause", "throttling"},
         disturbed' = disturbed \union {what}, ~(step' < 5), BeforeIsLower',
         DropShows => DropShows', PauseShows => PauseShows',
         ThrottlingShows => ThrottlingShows',
         what = "drop" => DropShows', what = "pause" => PauseShows',
         what = "throttling" => ThrottlingShows'
  PROVE  DisturbInv'
<1>1. disturbed' \subseteq {"drop", "qdisc drop", "pause", "throttling"}
  BY DEF DisturbInv
<1>2. /\ "drop" \in disturbed' => "drop" \in disturbed \/ what = "drop"
      /\ "pause" \in disturbed' => "pause" \in disturbed \/ what = "pause"
      /\ "throttling" \in disturbed' => "throttling" \in disturbed \/ what = "throttling"
  OBVIOUS
<1>3. "drop" \in disturbed' => DropShows'
  BY <1>2, Zenon DEF DisturbInv
<1>4. "pause" \in disturbed' => PauseShows'
  BY <1>2, Zenon DEF DisturbInv
<1>5. "throttling" \in disturbed' => ThrottlingShows'
  BY <1>2, Zenon DEF DisturbInv
<1> QED
  BY <1>1, <1>3, <1>4, <1>5, Zenon DEF DisturbInv

(* When the controller moves on, the probes that it leaves behind. *)
LEMMA Passing ==
  ASSUME step \in 1 .. 11, step' = step + 1, NEW m \in Node
  PROVE  /\ ShotAfter(m)' <=>
              ShotAfter(m) \/ (m = "receiver" /\ step = 6) \/ (m = "sender" /\ step = 7)
         /\ StateAfter(m)' <=>
              StateAfter(m) \/ (m = "receiver" /\ step = 8) \/ (m = "sender" /\ step = 9)
         /\ ShotAfter(m) => step > 6
         /\ StateAfter(m) => step > 8
<1>1. CASE m = "receiver"
  BY <1>1 DEF ShotAfter, StateAfter
<1>2. CASE m = "sender"
  BY <1>2 DEF ShotAfter, StateAfter
<1> QED
  BY <1>1, <1>2 DEF Node

(* What was shown is shown, if that holds of each node. *)
LEMMA QuietShows ==
  ASSUME \A node \in Node, c \in {"udp_errors", "nic_errors", "nic_pause"} :
           Shows(node, c) => Shows(node, c)'
  PROVE  (DropShows => DropShows') /\ (PauseShows => PauseShows')
<1>1. \A node \in Node : /\ Shows(node, "udp_errors") => Shows(node, "udp_errors")'
                         /\ Shows(node, "nic_errors") => Shows(node, "nic_errors")'
                         /\ Shows(node, "nic_pause") => Shows(node, "nic_pause")'
  OBVIOUS
<1>2. DropShows => DropShows'
  BY <1>1 DEF DropShows
<1>3. PauseShows => PauseShows'
  BY <1>1 DEF PauseShows
<1> QED
  BY <1>2, <1>3

LEMMA NodeStep ==
  ASSUME TypeInv, DisturbInv, ProbesStay, CountersRise, FlagsStay, NewIsShown
  PROVE  DisturbInv'
<1>1. step' = step /\ step \in 1 .. 11
  BY DEF ProbesStay, TypeInv
<1>2. BeforeIsLower'
  BY ShownStays DEF BeforeIsLower
<1>3. (DropShows => DropShows') /\ (PauseShows => PauseShows')
  BY ShownStays, QuietShows
<1>4. ThrottlingShows => ThrottlingShows'
  <2>1. SUFFICES ASSUME NEW node \in Node, ShowsThrottling(node) PROVE ShowsThrottling(node)'
    BY DEF ThrottlingShows
  <2>2. flag'[node]
    BY <2>1 DEF ShowsThrottling, FlagsStay
  <2>3. StateAfter(node)' <=> StateAfter(node)
    BY <1>1 DEF StateAfter
  <2> QED
    BY <2>1, <2>2, <2>3 DEF ShowsThrottling, ProbesStay
<1>5. CASE disturbed' = disturbed
  <2>1. step' < 5 => disturbed = {}
    BY <1>1 DEF DisturbInv
  <2> QED
    BY <1>2, <1>3, <1>4, <1>5, <2>1, QuietStep
<1>6. CASE step = 5 /\ disturbed' = disturbed \union {"qdisc drop"}
  <2>1. ~(step' < 5)
    <3>1. step = 5
      BY <1>6
    <3> QED
      BY <1>1, <3>1
  <2> QED
    BY <1>2, <1>3, <1>4, <1>6, <2>1, AddedStep
<1>7. CASE step = 5 /\ disturbed' = disturbed \union {"drop"}
           /\ (Rose("udp_errors") \/ Rose("nic_errors"))
  <2>1. DropShows'
    BY <1>7, ShownStays DEF DropShows, Rose
  <2>2. ~(step' < 5)
    BY <1>1, <1>7
  <2> QED
    BY <1>2, <1>3, <1>4, <1>7, <2>1, <2>2, AddedStep
<1>8. CASE step = 5 /\ disturbed' = disturbed \union {"pause"} /\ Rose("nic_pause")
  <2>1. PauseShows'
    BY <1>8, ShownStays DEF PauseShows, Rose
  <2>2. ~(step' < 5)
    BY <1>1, <1>8
  <2> QED
    BY <1>2, <1>3, <1>4, <1>8, <2>1, <2>2, AddedStep
<1>9. CASE step = 5 /\ disturbed' = disturbed \union {"throttling"} /\ SomeFlag'
  <2>1. PICK node \in Node : flag'[node]
    BY <1>9 DEF SomeFlag
  <2>2. ~StateAfter(node)'
    BY <1>1, <1>9 DEF StateAfter
  <2>3. ShowsThrottling(node)'
    BY <2>1, <2>2 DEF ShowsThrottling
  <2>4. ThrottlingShows'
    BY <2>3 DEF ThrottlingShows
  <2>5. ~(step' < 5)
    BY <1>1, <1>9
  <2> QED
    BY <1>2, <1>3, <1>4, <1>9, <2>4, <2>5, AddedStep
<1> QED
  BY <1>5, <1>6, <1>7, <1>8, <1>9 DEF NewIsShown

LEMMA DisturbStep == TypeInv /\ DisturbInv /\ [Next]_vars => DisturbInv'
<1> SUFFICES ASSUME TypeInv, DisturbInv, [Next]_vars PROVE DisturbInv'
  OBVIOUS
<1>1. /\ step \in 1 .. 11 /\ kernel \in [Node -> [Counter -> Nat]]
      /\ disturbed \subseteq {"drop", "qdisc drop", "pause", "throttling"}
  BY DEF TypeInv, DisturbInv
<1>2. \A node \in Node, c \in Counter : kernel[node][c] <= kernel[node][c]
  BY CounterTypes
<1>3. CASE UNCHANGED <<step, counters, states, kernel, flag, disturbed>>
  <2>1. CountersRise
    BY <1>1, <1>2, <1>3 DEF CountersRise
  <2>2. ProbesStay /\ FlagsStay /\ NewIsShown
    BY <1>3 DEF ProbesStay, FlagsStay, NewIsShown
  <2> QED
    BY <2>1, <2>2, NodeStep
<1>4. ASSUME NEW n \in Sequence, Sending, Delivered(n), UNCHANGED <<step, counters, states, flag>>
      PROVE  DisturbInv'
  <2>1. CASE UNCHANGED <<kernel, disturbed>>
    BY <1>3, <1>4, <2>1
  <2>2. CASE /\ kernel'["receiver"]["udp_errors"] = kernel["receiver"]["udp_errors"] + 1
             /\ disturbed' = disturbed \union {"drop"}
    <3>1. step = 5
      BY <1>1, <1>4, ScriptSteps
    <3>2. kernel["receiver"]["udp_errors"] < kernel'["receiver"]["udp_errors"] /\ "receiver" \in Node
      BY <2>2, CounterTypes
    <3>3. /\ kernel' \in [Node -> [Counter -> Nat]]
          /\ \A node \in Node, c \in Counter : kernel[node][c] <= kernel'[node][c]
      BY <1>4, DeliveredFacts
    <3>4. CountersRise /\ NewIsShown
      BY <2>2, <3>1, <3>2, <3>3 DEF CountersRise, NewIsShown, Rose
    <3>5. ProbesStay /\ FlagsStay
      BY <1>4 DEF ProbesStay, FlagsStay
    <3> QED
      BY <3>4, <3>5, NodeStep
  <2> QED
    BY <1>4, <2>1, <2>2, DeliveredFacts
<1>5. CASE SendDelivered
  <2>1. next \in Sequence
    BY <1>5, TrackerAssumption DEF SendDelivered, Submit, TypeInv, Sequence
  <2> QED
    BY <1>4, <1>5, <2>1 DEF SendDelivered, Submit, probeVars
<1>6. CASE SendFails \/ SendDelayed
  BY <1>3, <1>6 DEF SendFails, SendDelayed, nodeVars, probeVars
<1>7. ASSUME NEW counted \in {{}, {<<"sender", "qdisc_drops">>}, {<<"receiver", "nic_errors">>}},
             SendLost(counted)
      PROVE  DisturbInv'
  <2>1. step = 5 /\ UNCHANGED <<step, counters, states, flag>>
    BY <1>1, <1>7, ScriptSteps DEF SendLost, Submit, probeVars
  <2>2. /\ kernel' \in [Node -> [Counter -> Nat]]
        /\ \A m \in Node, k \in Counter : kernel[m][k] <= kernel'[m][k]
        /\ \/ disturbed' = disturbed \/ disturbed' = disturbed \union {"qdisc drop"}
           \/ /\ disturbed' = disturbed \union {"drop"}
              /\ kernel'["receiver"]["nic_errors"] = kernel["receiver"]["nic_errors"] + 1
    BY <1>7, LostFacts
  <2>3. "receiver" \in Node /\ kernel["receiver"]["nic_errors"] \in Nat
    BY CounterTypes
  <2>4. CountersRise
    BY <2>2 DEF CountersRise
  <2>5. NewIsShown
    <3>1. kernel'["receiver"]["nic_errors"] = kernel["receiver"]["nic_errors"] + 1
            => Rose("nic_errors")
      BY <2>3 DEF Rose
    <3> QED
      BY <2>1, <2>2, <3>1 DEF NewIsShown
  <2>6. ProbesStay /\ FlagsStay
    BY <2>1 DEF ProbesStay, FlagsStay
  <2> QED
    BY <2>4, <2>5, <2>6, NodeStep
<1>8. ASSUME NEW n \in Sequence, Repeat(n) PROVE DisturbInv'
  BY <1>3, <1>8 DEF Repeat, nodeVars, probeVars
<1>9. ASSUME NEW n \in Sequence, DeliverLate(n) PROVE DisturbInv'
  BY <1>4, <1>9 DEF DeliverLate, probeVars
<1>10. ASSUME NEW overflows \in BOOLEAN, Read(overflows) PROVE DisturbInv'
  BY <1>3, <1>10 DEF Read, nodeVars, probeVars
<1>11. ASSUME NEW node \in Node, NEW c \in Counter, NodeCounts(node, c) PROVE DisturbInv'
  <2>1. /\ UNCHANGED <<step, counters, states, flag>>
        /\ disturbed' = disturbed \/ (step = 5 /\ disturbed' = disturbed \union {Disturbance(c)})
    BY <1>1, <1>11, ScriptSteps DEF NodeCounts, Disturbs, packetVars, probeVars
  <2>2. /\ kernel' \in [Node -> [Counter -> Nat]]
        /\ \A m \in Node, k \in Counter : kernel[m][k] <= kernel'[m][k]
        /\ kernel[node][c] < kernel'[node][c]
        /\ c = "udp_socket_drops" => kernel[node]["udp_errors"] < kernel'[node]["udp_errors"]
    BY <1>11, CountsFacts, CounterTypes
  <2>3. \/ c = "nic_pause" /\ Disturbance(c) = "pause"
        \/ c = "qdisc_drops" /\ Disturbance(c) = "qdisc drop"
        \/ c \in {"udp_errors", "udp_socket_drops", "nic_errors"} /\ Disturbance(c) = "drop"
    BY DEF Disturbance, Counter
  <2>4. NewIsShown
    <3>1. Rose(c) /\ (c = "udp_socket_drops" => Rose("udp_errors"))
      BY <2>2 DEF Rose
    <3>2. c \in {"udp_errors", "udp_socket_drops", "nic_errors"} =>
            Rose("udp_errors") \/ Rose("nic_errors")
      BY <3>1
    <3> QED
      BY <2>1, <2>3, <3>1, <3>2 DEF NewIsShown
  <2>5. CountersRise
    BY <2>2 DEF CountersRise
  <2>6. ProbesStay /\ FlagsStay
    BY <2>1 DEF ProbesStay, FlagsStay
  <2> QED
    BY <2>4, <2>5, <2>6, NodeStep
<1>12. ASSUME NEW node \in Node, SocketCloses(node) PROVE DisturbInv'
  <2>1. UNCHANGED <<step, counters, states, flag, disturbed>>
    BY <1>12 DEF SocketCloses, packetVars, probeVars
  <2>2. kernel' = [kernel EXCEPT ![node] = [kernel[node] EXCEPT !["udp_socket_drops"] = @ - 1]]
    BY <1>1, <1>12 DEF SocketCloses
  <2>3. \A m \in Node, k \in Counter \ {"udp_socket_drops"} : kernel'[m][k] = kernel[m][k]
    BY <1>1, <2>2
  <2>4. BeforeIsLower'
    BY <2>1, <2>3 DEF DisturbInv, BeforeIsLower
  <2>5. ASSUME NEW m \in Node, NEW c \in {"udp_errors", "nic_errors", "nic_pause"}, Shows(m, c)
        PROVE  Shows(m, c)'
    <3>1. kernel'[m][c] = kernel[m][c]
      BY <2>3, CounterTypes
    <3>2. ShotAfter(m)' <=> ShotAfter(m)
      BY <2>1 DEF ShotAfter
    <3> QED
      BY <2>1, <2>5, <3>1, <3>2 DEF Shows
  <2>6. ThrottlingShows => ThrottlingShows'
    BY <2>1 DEF ThrottlingShows, ShowsThrottling, StateAfter
  <2> QED
    BY <2>1, <2>4, <2>5, <2>6, QuietShows, QuietStep DEF DisturbInv
<1>13. ASSUME NEW node \in Node, Throttle(node) PROVE DisturbInv'
  <2>1. /\ UNCHANGED <<step, counters, states, kernel>>
        /\ disturbed' = disturbed \/ (step = 5 /\ disturbed' = disturbed \union {"throttling"})
    BY <1>1, <1>13, ScriptSteps DEF Throttle, Disturbs, packetVars, probeVars
  <2>2. flag'[node] /\ \A m \in Node : flag[m] => flag'[m]
    BY <1>13 DEF Throttle, TypeInv
  <2>3. CountersRise
    BY <1>1, <1>2, <2>1 DEF CountersRise
  <2>4. ProbesStay /\ FlagsStay /\ NewIsShown
    <3>1. SomeFlag'
      BY <2>2 DEF SomeFlag
    <3>2. ProbesStay /\ FlagsStay
      BY <2>1, <2>2 DEF ProbesStay, FlagsStay
    <3> QED
      BY <2>1, <3>1, <3>2 DEF NewIsShown
  <2> QED
    BY <2>3, <2>4, NodeStep
<1>14. ASSUME NEW outcome \in {"read", "error"} \union Counter, snapshot_counters(outcome)
       PROVE  DisturbInv'
  <2> DEFINE node == Script[step].node
             when == Script[step].when
  <2>1. /\ step' = step + 1 /\ UNCHANGED <<kernel, flag, states, disturbed>>
        /\ node \in Node /\ when \in When
        /\ \/ step \in {3, 4} /\ when = "before"
           \/ step = 6 /\ node = "receiver" /\ when = "after"
           \/ step = 7 /\ node = "sender" /\ when = "after"
    BY <1>1, <1>14, ScriptSteps DEF snapshot_counters, nodeVars, Node, When
  <2>2. counters' = [counters EXCEPT ![node] =
                       [counters[node] EXCEPT ![when] = NodeSnapshot(node, outcome)]]
    BY <1>14, <2>1 DEF snapshot_counters, TypeInv
  <2>3. \A c \in Counter : /\ NodeSnapshot(node, outcome)[c] \in {Unavailable, 0, kernel[node][c]}
                           /\ c \notin ZeroWhenEmpty =>
                                NodeSnapshot(node, outcome)[c] \in {Unavailable, kernel[node][c]}
    BY DEF NodeSnapshot
  <2> HIDE DEF node, when
  <2>a. step \in 1 .. 11 /\ step' = step + 1
    BY <1>1, <2>1
  <2>4. CASE step \in {3, 4} /\ when = "before"
    <3>1. disturbed' = {}
      <4>1. step < 5
        BY <2>4
      <4> QED
        BY <2>1, <4>1 DEF DisturbInv
    <3>2. ASSUME NEW m \in Node, NEW c \in Counter \ {"udp_socket_drops"}
          PROVE  counters'[m]["before"][c] <= kernel'[m][c]
      <4>1. CASE m = node
        <5>1. counters'[m]["before"][c] = NodeSnapshot(node, outcome)[c]
          BY <2>1, <2>2, <2>4, <4>1 DEF TypeInv
        <5> QED
          BY <2>1, <2>3, <4>1, <5>1, CounterTypes
      <4>2. CASE m # node
        <5>1. counters'[m] = counters[m]
          BY <2>1, <2>2, <4>2 DEF TypeInv
        <5> QED
          BY <2>1, <5>1 DEF DisturbInv, BeforeIsLower
      <4> QED
        BY <4>1, <4>2
    <3> QED
      BY <3>1, <3>2 DEF DisturbInv, BeforeIsLower
  <2>5. CASE when = "after" /\ ((step = 6 /\ node = "receiver") \/ (step = 7 /\ node = "sender"))
    <3>1. /\ \A m \in Node : counters'[m]["before"] = counters[m]["before"]
          /\ \A m \in Node : m # node => counters'[m]["after"] = counters[m]["after"]
          /\ counters'[node]["after"] = NodeSnapshot(node, outcome)
      BY <2>1, <2>2, <2>5 DEF TypeInv, When
    <3>2. ASSUME NEW m \in Node, NEW c \in {"udp_errors", "nic_errors", "nic_pause"}, Shows(m, c)
          PROVE  Shows(m, c)'
      <4>1. CASE m = node
        <5>1. ~ShotAfter(m) /\ ShotAfter(m)' /\ kernel[m][c] # Unavailable
          <6>1. ShotAfter(m)' /\ ~ShotAfter(m)
            BY <2>a, <2>5, <4>1, Passing DEF ShotAfter
          <6> QED
            BY <6>1, CounterTypes
        <5>2. kernel[m][c] > counters[m]["before"][c]
          BY <3>2, <5>1 DEF Shows
        <5>3. counters'[m]["after"][c] \in {Unavailable, kernel[m][c]}
          BY <2>3, <3>1, <4>1, CounterTypes DEF ZeroWhenEmpty
        <5> QED
          BY <3>1, <5>1, <5>2, <5>3 DEF Shows
      <4>2. CASE m # node
        <5>1. ShotAfter(m)' <=> ShotAfter(m)
          BY <2>a, <2>5, <4>2, Passing
        <5> QED
          BY <2>1, <3>1, <3>2, <4>2, <5>1 DEF Shows
      <4> QED
        BY <4>1, <4>2
    <3>3. ThrottlingShows => ThrottlingShows'
      <4>1. \A m \in Node : ~StateAfter(m)'
        BY <2>a, <2>5, Passing
      <4> QED
        BY <2>1, <4>1 DEF ThrottlingShows, ShowsThrottling
    <3>4. BeforeIsLower'
      BY <2>1, <3>1 DEF DisturbInv, BeforeIsLower
    <3>5. ~(step' < 5)
      BY <2>1, <2>5
    <3> QED
      BY <2>1, <3>2, <3>3, <3>4, <3>5, QuietShows, QuietStep
  <2>6. \/ step \in {3, 4} /\ when = "before"
        \/ when = "after" /\ ((step = 6 /\ node = "receiver") \/ (step = 7 /\ node = "sender"))
    BY <2>1, Zenon
  <2> QED
    BY <2>4, <2>5, <2>6
<1>15. ASSUME NEW probe \in {"answers", "unavailable", "error"},
              NEW link \in {"gigabit", "slower", "error"}, run_state(probe, link)
       PROVE  DisturbInv'
  <2> DEFINE node == Script[step].node
             when == Script[step].when
             result == IF probe # "answers" THEN probe ELSE IF flag[node] THEN "set" ELSE "clear"
  <2>1. /\ step' = step + 1 /\ UNCHANGED <<kernel, flag, counters, disturbed>>
        /\ node \in Node /\ when \in When
        /\ \/ step \in {1, 2} /\ when = "before"
           \/ step = 8 /\ node = "receiver" /\ when = "after"
           \/ step = 9 /\ node = "sender" /\ when = "after"
    BY <1>1, <1>15, ScriptSteps DEF run_state, nodeVars, Node, When
  <2>2. states' = [states EXCEPT ![node] =
                     [states[node] EXCEPT ![when] = [throttled |-> result, link |-> link]]]
    BY <1>15, <2>1 DEF run_state, TypeInv
  <2>3. flag[node] => result # "clear"
    OBVIOUS
  <2> HIDE DEF node, when, result
  <2>a. step \in 1 .. 11 /\ step' = step + 1
    BY <1>1, <2>1
  <2>b. \/ step \in {1, 2}
        \/ when = "after" /\ ((step = 8 /\ node = "receiver") \/ (step = 9 /\ node = "sender"))
    BY <2>1, Zenon
  <2>4. ASSUME NEW m \in Node, NEW c \in Counter PROVE Shows(m, c)' <=> Shows(m, c)
    <3>1. ShotAfter(m)' <=> ShotAfter(m)
      <4>1. step # 6 /\ step # 7
        BY <2>b
      <4> QED
        BY <2>a, <4>1, Passing
    <3> QED
      BY <2>1, <3>1 DEF Shows
  <2>5. step \notin {1, 2} => \A m \in Node : ShowsThrottling(m) => ShowsThrottling(m)'
    <3>1. SUFFICES ASSUME step \notin {1, 2}, NEW m \in Node, ShowsThrottling(m)
                   PROVE  ShowsThrottling(m)'
      OBVIOUS
    <3>2. when = "after" /\ ((step = 8 /\ node = "receiver") \/ (step = 9 /\ node = "sender"))
      BY <2>b, <3>1
    <3>3. CASE m = node
      <4>1. states'[m]["after"].throttled = result
        BY <2>1, <2>2, <3>2, <3>3 DEF TypeInv
      <4> QED
        BY <2>1, <2>3, <3>1, <3>3, <4>1 DEF ShowsThrottling
    <3>4. CASE m # node
      <4>1. states'[m] = states[m]
        BY <2>1, <2>2, <3>4 DEF TypeInv
      <4>2. StateAfter(m)' <=> StateAfter(m)
        BY <2>a, <3>2, <3>4, Passing
      <4> QED
        BY <2>1, <3>1, <4>1, <4>2 DEF ShowsThrottling
    <3> QED
      BY <3>3, <3>4
  <2>6. \A m \in Node, c \in {"udp_errors", "nic_errors", "nic_pause"} :
          Shows(m, c) => Shows(m, c)'
    BY <2>4, CounterTypes
  <2>7. BeforeIsLower'
    BY <2>1 DEF DisturbInv, BeforeIsLower
  <2>8. CASE step \in {1, 2}
    <3>1. disturbed' = {}
      <4>1. step < 5
        BY <2>8
      <4> QED
        BY <2>1, <4>1 DEF DisturbInv
    <3> QED
      BY <2>7, <3>1 DEF DisturbInv
  <2>9. CASE step \notin {1, 2}
    <3>1. ~(step' < 5)
      BY <2>1, <2>9
    <3>2. ThrottlingShows => ThrottlingShows'
      BY <2>5, <2>9 DEF ThrottlingShows
    <3> QED
      BY <2>1, <2>6, <2>7, <3>1, <3>2, QuietShows, QuietStep
  <2> QED
    BY <2>8, <2>9
<1>16. ASSUME step \in {5, 10}, step' = step + 1, UNCHANGED <<nodeVars, probeVars, disturbed>>
       PROVE  DisturbInv'
  <2>1. UNCHANGED <<kernel, flag, counters, states, disturbed>>
    BY <1>16 DEF nodeVars, probeVars
  <2>2. \A m \in Node : (ShotAfter(m)' <=> ShotAfter(m)) /\ (StateAfter(m)' <=> StateAfter(m))
    BY <1>16 DEF ShotAfter, StateAfter
  <2>3. \A m \in Node, c \in {"udp_errors", "nic_errors", "nic_pause"} :
          Shows(m, c) => Shows(m, c)'
    BY <2>1, <2>2 DEF Shows
  <2>4. ThrottlingShows => ThrottlingShows'
    BY <2>1, <2>2 DEF ThrottlingShows, ShowsThrottling
  <2>5. BeforeIsLower'
    BY <2>1 DEF DisturbInv, BeforeIsLower
  <2>6. ~(step' < 5)
    BY <1>16
  <2> QED
    BY <2>1, <2>3, <2>4, <2>5, <2>6, QuietShows, QuietStep
<1>17. ASSUME NEW ok \in BOOLEAN, SenderExits(ok) PROVE DisturbInv'
  BY <1>1, <1>16, <1>17, ScriptSteps DEF SenderExits, historyVars
<1>18. CASE StopReceiver
  BY <1>1, <1>16, <1>18, ScriptSteps DEF StopReceiver, historyVars
<1>19. CASE UNCHANGED vars
  BY <1>3, <1>19 DEF vars, nodeVars, probeVars, historyVars
<1> QED
  BY <1>5, <1>6, <1>7, <1>8, <1>9, <1>10, <1>11, <1>12, <1>13, <1>14, <1>15, <1>17, <1>18, <1>19
  DEF Next, Network, Nodes, Controller, Finished

-----------------------------------------------------------------------------
(* The theorems. *)

(* The invariant holds of every run: types, both trackers against what     *)
(* they have observed, the whereabouts of every number, and the traces     *)
(* that disturbances leave in the probes.                                  *)
THEOREM Invariance == Spec => []Inv
<1>1. Inv /\ [Next]_vars => Inv'
  BY TypeStep, TrackStep, FlightStep, DisturbStep DEF Inv
<1> QED
  BY InitInv, <1>1, PTL DEF Spec

(* The variables of the run keep their types. *)
THEOREM TypeCorrect == Spec => []TypeInv
<1>1. Inv => TypeInv
  BY DEF Inv
<1> QED
  BY Invariance, <1>1, PTL

(* observe() of the receive and of the processing path: every arrival is   *)
(* counted once, unique() is overstated by at most out_of_window(), and    *)
(* without out_of_window() arrivals all counts are exact.                  *)
THEOREM TrackersAreExactHolds == Spec => []TrackersAreExact
<1>1. Inv => TrackersAreExact
  BY InvIsExact DEF Inv, TrackInv, TrackersAreExact
<1> QED
  BY Invariance, <1>1, PTL

(* gaps() of both paths: never more than the loss inside the received      *)
(* range, nor less by more than out_of_window().                           *)
THEOREM LossIsVisibleHolds == Spec => []LossIsVisible
<1>1. Inv => LossIsVisible
  BY InvShowsLoss DEF Inv, TrackInv, LossIsVisible
<1> QED
  BY Invariance, <1>1, PTL

(* observe() counts an arrival as out of the window only when it is more   *)
(* than (block_count - 1) * block_size behind the highest number, the      *)
(* lookback that the header promises.                                      *)
THEOREM LookbackHolds == Spec => LookbackIsGuaranteed
<1> DEFINE Far == rx'.out_of_window # rx.out_of_window =>
                    rx.high_watermark - arrived'[Len(arrived')] > Lookback
<1>1. ASSUME Inv, [Next]_vars PROVE Far
  <2>1. CASE UNCHANGED receiverVars
    BY <2>1 DEF receiverVars
  <2>2. ASSUME NEW overflows \in BOOLEAN, Read(overflows) PROVE Far
    <3> DEFINE n == Head(socket)
    <3>1. n \in Sequence /\ arrived' = Append(arrived, n) /\ rx' = observe(rx, n)
      BY <1>1, <2>2, ReadFacts DEF Inv
    <3>2. TrackerInv(rx, arrived) /\ arrived \in Seq(Sequence)
      BY <1>1 DEF Inv, TrackInv, TrackerInv
    <3>3. arrived'[Len(arrived')] = n
      BY <3>1, <3>2
    <3> HIDE DEF n
    <3>4. rx'.out_of_window # rx.out_of_window => Retired(rx, n)
      BY <3>1, <3>2, ObserveFields
    <3> QED
      BY <3>1, <3>2, <3>3, <3>4, RetiredIsFar
  <2> QED
    BY <1>1, <2>1, <2>2, ReadOrNot
<1>2. Inv /\ [Next]_vars => [Far]_vars
  BY <1>1
<1> QED
  BY Invariance, <1>2, PTL DEF Spec, LookbackIsGuaranteed

(* At the end of a run whose socket was drained, a number was either lost  *)
(* or received, and the trackers bracket what was received and processed.  *)
LEMMA FinalCounts ==
  ASSUME Inv, Done, BacklogIsDrained
  PROVE  LET L == Cardinality(lost)
             A == Cardinality(Seen(arrived))
             P == Cardinality(Seen(processed))
         IN  /\ L \in Nat /\ A \in Nat /\ P \in Nat
             /\ MaxSequence \in Nat
             /\ L + A = MaxSequence + 1
             /\ Cardinality(Seen(arrived) \ Seen(processed)) = A - P
             /\ Cardinality(Sequence \ Seen(processed)) = MaxSequence + 1 - P
             /\ A <= rx.unique /\ rx.unique <= A + rx.out_of_window
             /\ P <= pr.unique /\ pr.unique <= P + pr.out_of_window
<1> DEFINE S == Seen(arrived)
           T == Seen(processed)
<1>1. step \in 1 .. 11 /\ socket \in Seq(Sequence) /\ lost \subseteq Sequence
  BY DEF Inv, TypeInv
<1>2. step = 11
  BY <1>1, ScriptSteps
<1>3. held = {} /\ next = MaxSequence + 1 /\ Len(socket) = 0
  BY <1>2 DEF Inv, FlightInv, BacklogIsDrained
<1>4. Seen(socket) = {}
  BY <1>1, <1>3 DEF Seen
<1>5. MaxSequence \in Nat /\ IsFiniteSet(Sequence) /\ Cardinality(Sequence) = MaxSequence + 1
  BY TrackerAssumption, FS_Interval DEF Sequence
<1>6. IsFiniteSet(S) /\ IsFiniteSet(T) /\ S \subseteq Sequence /\ T \subseteq Sequence
  BY SeenAppend DEF Inv, TrackInv, TrackerInv, Seen
<1>7. T \subseteq S
  BY DEF Inv, FlightInv
<1>8. lost \union S = Sequence /\ lost \intersect S = {}
  <2>1. \A n \in Sequence : n < MaxSequence + 1
    BY TrackerAssumption DEF Sequence
  <2>2. \A n \in Sequence : n \in lost \union S
    BY <1>3, <1>4, <2>1 DEF Inv, FlightInv
  <2>3. \A n \in lost : n \notin S
    BY DEF Inv, FlightInv
  <2> QED
    BY <1>1, <1>6, <2>2, <2>3
<1>9. /\ rx.unique \in Nat /\ rx.out_of_window \in Nat
      /\ pr.unique \in Nat /\ pr.out_of_window \in Nat
      /\ IsBracketed(rx, arrived) /\ IsBracketed(pr, processed)
  BY DEF Inv, TrackInv, TrackerInv, Tracker, CountInv
<1>10. IsFiniteSet(lost)
  BY <1>1, <1>5, FS_Subset
<1> HIDE DEF S, T
<1>11. Cardinality(lost) \in Nat /\ Cardinality(S) \in Nat /\ Cardinality(T) \in Nat
  BY <1>6, <1>10, FS_CardinalityType
<1>12. Cardinality(lost) + Cardinality(S) = MaxSequence + 1
  <2>1. Cardinality(lost \union S) =
          Cardinality(lost) + Cardinality(S) - Cardinality(lost \intersect S)
    BY <1>6, <1>10, FS_Union
  <2>2. Cardinality(lost \intersect S) = 0
    BY <1>8, FS_EmptySet
  <2>3. Cardinality(lost \union S) = MaxSequence + 1
    BY <1>5, <1>8, Zenon
  <2> QED
    BY <1>11, <2>1, <2>2, <2>3
<1>13. S \intersect T = T /\ Sequence \intersect T = T
  BY <1>6, <1>7
<1>14. /\ Cardinality(S \ T) = Cardinality(S) - Cardinality(T)
       /\ Cardinality(Sequence \ T) = MaxSequence + 1 - Cardinality(T)
  <2>1. Cardinality(S \ T) = Cardinality(S) - Cardinality(S \intersect T)
    BY <1>6, FS_Difference
  <2>2. Cardinality(Sequence \ T) = Cardinality(Sequence) - Cardinality(Sequence \intersect T)
    BY <1>5, FS_Difference
  <2>3. Cardinality(S \ T) = Cardinality(S) - Cardinality(T)
    BY <1>13, <2>1, Zenon
  <2>4. Cardinality(Sequence \ T) = Cardinality(Sequence) - Cardinality(T)
    BY <1>13, <2>2, Zenon
  <2>5. Cardinality(Sequence) = MaxSequence + 1
    BY <1>5, Zenon
  <2>6. Cardinality(Sequence \ T) = MaxSequence + 1 - Cardinality(T)
    BY <1>11, <2>4, <2>5, TrackerAssumption
  <2> QED
    BY <2>3, <2>6, Zenon
<1>15. /\ Cardinality(S) <= rx.unique /\ rx.unique <= Cardinality(S) + rx.out_of_window
       /\ Cardinality(T) <= pr.unique /\ pr.unique <= Cardinality(T) + pr.out_of_window
  BY <1>9 DEF IsBracketed, S, T
<1> QED
  BY <1>5, <1>11, <1>12, <1>14, <1>15 DEF S, T

(* validity_reasons(): what a valid run reports as ingress loss and as     *)
(* application loss are real losses, understated by at most the            *)
(* out_of_window() arrivals.                                               *)
THEOREM ValidLossIsRealHolds == Spec => []ValidLossIsReal
<1>1. Inv => ValidLossIsReal
  <2> SUFFICES ASSUME Inv, Done, Valid PROVE ValidLossIsReal
    BY DEF ValidLossIsReal
  <2>1. BacklogIsDrained
    BY DEF Valid
  <2>2. /\ failed_sends \in Nat /\ rx.unique \in Nat /\ rx.out_of_window \in Nat
        /\ pr.unique \in Nat /\ pr.out_of_window \in Nat
    BY DEF Inv, TypeInv, TrackInv, TrackerInv, Tracker
  <2> QED
    BY <2>1, <2>2, FinalCounts
    DEF ValidLossIsReal, ingress_loss, application_loss, successful_sends
<1> QED
  BY Invariance, <1>1, PTL

(* qualification_reasons(): in a qualified run no more numbers were lost   *)
(* than packets out of the window were counted, and those were reordered.  *)
THEOREM QualifiedIsLosslessHolds == Spec => []QualifiedIsLossless
<1>1. Inv => QualifiedIsLossless
  <2> SUFFICES ASSUME Inv, Done, Qualified PROVE QualifiedIsLossless
    BY DEF QualifiedIsLossless
  <2>1. /\ BacklogIsDrained
        /\ Len(processed) + spsc_overflow = Len(arrived) /\ spsc_overflow = 0
        /\ failed_sends = 0 /\ rx.duplicates = 0
        /\ rx.unique = successful_sends /\ pr.unique = successful_sends
    BY DEF Qualified, Valid
  <2>2. MaxSequence \in Nat /\ rx.unique = MaxSequence + 1 /\ pr.unique = MaxSequence + 1
    BY <2>1, TrackerAssumption DEF successful_sends
  <2>3. /\ arrived \in Seq(Sequence) /\ processed \in Seq(Sequence)
        /\ rx.out_of_window \in Nat /\ pr.out_of_window \in Nat
        /\ rx.out_of_window <= rx.reordered
        /\ rx.unique + rx.duplicates = Len(arrived)
    BY DEF Inv, TrackInv, TrackerInv, Tracker, CountInv, IsBracketed
  <2>4. Len(processed) = MaxSequence + 1
    BY <2>1, <2>2, <2>3
  <2> QED
    BY <2>1, <2>2, <2>3, <2>4, FinalCounts DEF QualifiedIsLossless
<1> QED
  BY Invariance, <1>1, PTL

(* qualification_reasons(): nothing but a qdisc drop disturbed a node      *)
(* while the sender of a qualified run ran.                                *)
THEOREM QualifiedIsUndisturbedHolds == Spec => []QualifiedIsUndisturbed
<1>1. Inv => QualifiedIsUndisturbed
  <2> SUFFICES ASSUME Inv, Done, Qualified PROVE disturbed \subseteq {"qdisc drop"}
    BY DEF QualifiedIsUndisturbed
  <2>1. TypeInv /\ step = 11
    BY ScriptSteps DEF Inv, TypeInv
  <2>2. ASSUME NEW node \in Node, NEW c \in {"udp_errors", "nic_errors", "nic_pause"}
        PROVE  ~Shows(node, c)
    <3>1. c \in Counter /\ Available(node, c) /\ Delta(node, c) = 0
      BY <2>1, CounterTypes DEF Qualified
    <3>2. counters[node]["after"][c] # Unavailable
      BY <2>1, <3>1, CounterTypes DEF Available
    <3>3. counters[node]["after"][c] = counters[node]["before"][c]
      BY <2>1, <3>1, CounterTypes DEF Delta
    <3>4. counters[node]["before"][c] \in Int
      BY <2>1, <3>1, CounterTypes
    <3>5. ShotAfter(node)
      BY <2>1 DEF ShotAfter
    <3> QED
      BY <3>2, <3>3, <3>4, <3>5 DEF Shows
  <2>3. ~DropShows /\ ~PauseShows
    BY <2>2 DEF DropShows, PauseShows
  <2>4. ~ThrottlingShows
    <3>1. ASSUME NEW node \in Node PROVE ~ShowsThrottling(node)
      <4>1. StateAfter(node)
        BY <2>1 DEF StateAfter
      <4>2. states[node]["after"].throttled = "clear"
        BY DEF Qualified, throttling_is_clear, When
      <4> QED
        BY <4>1, <4>2 DEF ShowsThrottling
    <3> QED
      BY <3>1 DEF ThrottlingShows
  <2>5. "drop" \notin disturbed /\ "pause" \notin disturbed /\ "throttling" \notin disturbed
    BY <2>3, <2>4 DEF Inv, DisturbInv
  <2>6. disturbed \subseteq {"drop", "qdisc drop", "pause", "throttling"}
    BY DEF Inv, DisturbInv
  <2> QED
    BY <2>5, <2>6
<1> QED
  BY Invariance, <1>1, PTL

=============================================================================
