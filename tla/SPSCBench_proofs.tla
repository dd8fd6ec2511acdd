--------------------------- MODULE SPSCBench_proofs ---------------------------
(***************************************************************************)
(* SPSCBench for every power-of-two Capacity and every number of elements: *)
(* the slots are free of data races, the hand-off is complete and in       *)
(* order, and the queue implements BoundedFIFO.                            *)
(***************************************************************************)
EXTENDS SPSCBench, SPSCQueue_proofs, SequenceTheorems

(* What each thread has done so far, read off its program counter.         *)
ControlInv ==
  /\ commits = index
  /\ ppc \in {"write", "commit"} => Allocated /\ index < Elements
  /\ cpc \in {"read", "pop"} => ReadIsOrdered
  /\ producer_done <=> ppc \in {"join", "returned"}
  /\ producer_done => index = Elements
  /\ cpc = "recheck" => producer_done /\ headSeen = commits
  /\ cpc = "exit" => producer_done /\ pops = commits
  /\ ppc = "returned" => cpc = "exit"

(* Where each element is: in its slot, held by the consumer, or consumed.  *)
DataInv ==
  /\ \A i \in Nat : pops <= i /\ i < commits => buffer[Mask(i)] = i
  /\ ppc = "commit" => buffer[head] = index
  /\ cpc = "pop" => held = pops
  /\ Len(consumed) = pops
  /\ \A i \in 1 .. Len(consumed) : consumed[i] = i - 1

Inv == TypeOK /\ QueueInv /\ ControlInv /\ DataInv

USE DEF queueVars, threadVars, vars

LEMMA InitInv == Init => Inv
<1> SUFFICES ASSUME Init PROVE Inv
  OBVIOUS
<1>1. QueueInv
  BY QueueInitInv DEF Init
<1>2. consumed \in Seq(Item) /\ Len(consumed) = 0 /\ pops = 0 /\ commits = 0
  BY DEF Init, QueueInit
<1>3. TypeOK
  <2>1. QueueTypeOK
    BY <1>1 DEF QueueInv
  <2>2. index \in 0 .. Elements
    BY ElementsAssumption DEF Init
  <2>3. producer_done \in BOOLEAN /\ held \in Item \union {NoItem}
    BY DEF Init
  <2> QED
    BY <1>2, <2>1, <2>2, <2>3 DEF Init, TypeOK
<1>4. ControlInv
  BY <1>2 DEF Init, ControlInv
<1>5. DataInv
  BY <1>2 DEF Init, DataInv
<1> QED
  BY <1>1, <1>3, <1>4, <1>5 DEF Inv

(* The slot at the front of the queue holds the next element. *)
LEMMA FrontItemIsNext ==
  ASSUME Inv, ReadIsOrdered
  PROVE  FrontItem = pops /\ FrontItem \in Item
<1>1. pops \in Nat /\ pops < commits /\ tail = Mask(pops)
  BY DEF Inv, QueueInv, QueueTypeOK, ReadIsOrdered
<1>2. buffer[Mask(pops)] = pops
  BY <1>1 DEF Inv, DataInv
<1>3. pops \in Item
  BY <1>1, ElementsAssumption DEF Inv, ControlInv, TypeOK
<1> QED
  BY <1>1, <1>2, <1>3 DEF FrontItem

LEMMA ProducerInv == ASSUME Inv, Producer PROVE Inv'
<1> USE DEF Inv
<1>1. ASSUME NEW n \in tailSeen .. pops, ProducerAlloc(n) PROVE Inv'
  <2>1. CASE TryAlloc(n) /\ ppc' = "write"
    <3>1. QueueInv' /\ Allocated'
      BY <2>1, TryAllocInv
    <3>2. UNCHANGED <<head, tail, buffer, commits, pops, headSeen>>
      BY <2>1 DEF TryAlloc
    <3> QED
      BY <1>1, <2>1, <3>1, <3>2
         DEF ProducerAlloc, TypeOK, ControlInv, DataInv, QueueInv, ReadIsOrdered
  <2>2. CASE TryAllocFull(n) /\ ppc' = "push"
    <3>1. QueueInv'
      BY <2>2, TryAllocFullInv
    <3>2. UNCHANGED <<head, tail, buffer, commits, pops, headSeen>>
      BY <2>2 DEF TryAllocFull
    <3> QED
      BY <1>1, <2>2, <3>1, <3>2
         DEF ProducerAlloc, TypeOK, ControlInv, DataInv, QueueInv, ReadIsOrdered
  <2> QED
    BY <1>1, <2>1, <2>2 DEF ProducerAlloc
<1>2. CASE ProducerWrite
  <2>1. index \in Item /\ WriteSlot(index) /\ Allocated
    BY <1>2, ElementsAssumption DEF ProducerWrite, ControlInv, TypeOK
  <2>2. QueueInv' /\ buffer'[head] = index
    BY <2>1, WriteSlotInv
  <2>3. UNCHANGED <<head, tail, commits, pops, tailSeen, headSeen>>
    BY <2>1 DEF WriteSlot
  <2>4. \A i \in Nat : pops <= i /\ i < commits => buffer'[Mask(i)] = i
    BY <2>1, WriteSlotKeepsItems DEF DataInv
  <2> QED
    BY <1>2, <2>1, <2>2, <2>3, <2>4
       DEF ProducerWrite, TypeOK, ControlInv, DataInv, QueueInv, ReadIsOrdered, Allocated
<1>3. CASE ProducerCommit
  <2>1. Commit /\ Allocated /\ index < Elements /\ ppc = "commit"
    BY <1>3 DEF ProducerCommit, ControlInv
  <2>2. QueueInv'
    BY <2>1, CommitInv
  <2>3. /\ commits' = commits + 1 /\ index' = index + 1
        /\ UNCHANGED <<tail, buffer, pops, tailSeen, headSeen>>
    BY <1>3, <2>1 DEF ProducerCommit, Commit
  <2>4. \A i \in Nat : pops <= i /\ i < commits + 1 => buffer[Mask(i)] = i
    <3>1. head = Mask(commits) /\ commits \in Nat /\ commits = index
      BY DEF QueueInv, QueueTypeOK, ControlInv
    <3>2. buffer[Mask(commits)] = commits
      BY <2>1, <3>1 DEF DataInv
    <3> QED
      BY <3>1, <3>2 DEF DataInv
  <2>5. TypeOK'
    BY <1>3, <2>1, <2>2, ElementsAssumption DEF ProducerCommit, TypeOK, QueueInv
  <2>6. ControlInv'
    BY <1>3, <2>1, <2>3 DEF ProducerCommit, ControlInv, ReadIsOrdered, TypeOK
  <2>7. DataInv'
    BY <1>3, <2>3, <2>4 DEF ProducerCommit, DataInv
  <2> QED
    BY <2>2, <2>5, <2>6, <2>7
<1>4. CASE ProducerDone
  BY <1>4 DEF ProducerDone, TypeOK, ControlInv, DataInv, QueueInv, QueueTypeOK,
              ReadIsOrdered, Allocated
<1>5. CASE ProducerJoin
  BY <1>5 DEF ProducerJoin, TypeOK, ControlInv, DataInv, QueueInv, QueueTypeOK,
              ReadIsOrdered, Allocated
<1> QED
  BY <1>1, <1>2, <1>3, <1>4, <1>5 DEF Producer

LEMMA ConsumerInv == ASSUME Inv, Consumer PROVE Inv'
<1> USE DEF Inv
<1>1. ASSUME NEW n \in headSeen .. commits, ConsumerFront(n) PROVE Inv'
  <2>1. CASE Front(n) /\ cpc' = "read"
    <3>1. QueueInv' /\ ReadIsOrdered'
      BY <2>1, FrontInv
    <3>2. UNCHANGED <<head, tail, buffer, commits, pops, tailSeen>>
      BY <2>1 DEF Front
    <3> QED
      BY <1>1, <2>1, <3>1, <3>2
         DEF ConsumerFront, TypeOK, ControlInv, DataInv, QueueInv, Allocated
  <2>2. CASE FrontEmpty(n) /\ cpc' = "check"
    <3>1. QueueInv'
      BY <2>2, FrontEmptyInv
    <3>2. UNCHANGED <<head, tail, buffer, commits, pops, tailSeen>>
      BY <2>2 DEF FrontEmpty
    <3> QED
      BY <1>1, <2>2, <3>1, <3>2
         DEF ConsumerFront, TypeOK, ControlInv, DataInv, QueueInv, Allocated
  <2> QED
    BY <1>1, <2>1, <2>2 DEF ConsumerFront
<1>2. ASSUME NEW n \in headSeen .. commits, ConsumerRecheck(n) PROVE Inv'
  <2>1. CASE FrontEmpty(n) /\ cpc' = "exit"
    <3>1. QueueInv' /\ headSeen <= pops
      BY <2>1, FrontEmptyInv
    <3>2. UNCHANGED <<head, tail, buffer, commits, pops, tailSeen>>
      BY <2>1 DEF FrontEmpty
    <3>3. headSeen = commits /\ producer_done
      BY <1>2 DEF ConsumerRecheck, ControlInv
    <3>4. pops = commits
      BY <3>1, <3>3 DEF QueueInv, QueueTypeOK
    <3> QED
      BY <1>2, <2>1, <3>1, <3>2, <3>3, <3>4
         DEF ConsumerRecheck, TypeOK, ControlInv, DataInv, QueueInv, Allocated
  <2>2. CASE Front(n) /\ cpc' = "front"
    <3>1. QueueInv'
      BY <2>2, FrontInv
    <3>2. UNCHANGED <<head, tail, buffer, commits, pops, tailSeen>>
      BY <2>2 DEF Front
    <3> QED
      BY <1>2, <2>2, <3>1, <3>2
         DEF ConsumerRecheck, TypeOK, ControlInv, DataInv, QueueInv, Allocated
  <2> QED
    BY <1>2, <2>1, <2>2 DEF ConsumerRecheck
<1>3. CASE ConsumerRead
  <2>1. FrontItem = pops /\ FrontItem \in Item /\ ReadIsOrdered
    BY <1>3, FrontItemIsNext DEF ConsumerRead, ControlInv
  <2> QED
    BY <1>3, <2>1 DEF ConsumerRead, TypeOK, ControlInv, DataInv, QueueInv,
                      QueueTypeOK, ReadIsOrdered, Allocated
<1>4. CASE ConsumerPop
  <2>1. Pop /\ ReadIsOrdered /\ held = pops /\ cpc = "pop"
    BY <1>4 DEF ConsumerPop, ControlInv, DataInv
  <2>2. QueueInv'
    BY <2>1, PopInv
  <2>3. pops' = pops + 1 /\ UNCHANGED <<head, buffer, commits, tailSeen, headSeen>>
    BY <2>1 DEF Pop
  <2>4. pops \in Nat /\ pops \in Item
    BY <2>1, FrontItemIsNext DEF QueueInv, QueueTypeOK
  <2>5. /\ consumed \in Seq(Item)
        /\ consumed' = Append(consumed, pops)
        /\ Len(consumed) = pops
    BY <1>4, <2>1 DEF ConsumerPop, TypeOK, DataInv
  <2>6. /\ consumed' \in Seq(Item)
        /\ Len(consumed') = pops + 1
        /\ \A i \in 1 .. Len(consumed') : consumed'[i] = i - 1
    BY <2>4, <2>5 DEF DataInv
  <2>7. TypeOK'
    BY <1>4, <2>2, <2>6 DEF ConsumerPop, TypeOK, QueueInv
  <2>8. ControlInv'
    BY <1>4, <2>1, <2>3 DEF ConsumerPop, ControlInv, Allocated
  <2>9. DataInv'
    BY <1>4, <2>3, <2>4, <2>6 DEF ConsumerPop, DataInv, QueueInv, QueueTypeOK
  <2> QED
    BY <2>2, <2>7, <2>8, <2>9
<1>5. CASE ConsumerSeesDone
  <2>1. QueueInv' /\ headSeen' = commits'
    BY <1>5, SyncInv DEF ConsumerSeesDone
  <2>2. UNCHANGED <<head, tail, buffer, commits, pops, tailSeen>>
    BY <1>5 DEF ConsumerSeesDone, ConsumerSyncsWithProducer
  <2> QED
    BY <1>5, <2>1, <2>2
       DEF ConsumerSeesDone, TypeOK, ControlInv, DataInv, QueueInv, Allocated
<1>6. CASE ConsumerSeesNotDone
  BY <1>6 DEF ConsumerSeesNotDone, TypeOK, ControlInv, DataInv, QueueInv, QueueTypeOK,
              ReadIsOrdered, Allocated
<1> QED
  BY <1>1, <1>2, <1>3, <1>4, <1>5, <1>6 DEF Consumer

LEMMA StutterInv == ASSUME Inv, UNCHANGED vars PROVE Inv'
  BY DEF Inv, TypeOK, ControlInv, DataInv, QueueInv, QueueTypeOK, ReadIsOrdered, Allocated

(* Inv is an inductive invariant of the benchmark. *)
THEOREM Invariance == Spec => []Inv
<1>1. Init => Inv
  BY InitInv
<1>2. Inv /\ [Next]_vars => Inv'
  <2> SUFFICES ASSUME Inv, [Next]_vars PROVE Inv'
    OBVIOUS
  <2> QED
    BY ProducerInv, ConsumerInv, StutterInv DEF Next, Terminated
<1> QED
  BY <1>1, <1>2, PTL DEF Spec

(* Every variable of the queue and of the two threads keeps its type: the  *)
(* indices stay within the ring whatever the interleaving.                 *)
THEOREM TypeCorrect == Spec => []TypeOK
<1>1. Inv => TypeOK
  BY DEF Inv
<1> QED
  BY <1>1, Invariance, PTL

(* push() and front() never race on a slot, for every ring size and every  *)
(* number of elements.                                                     *)
THEOREM RaceFreedom == Spec => []NoDataRace
<1>1. Inv => NoDataRace
  BY CapacityAssumption
     DEF Inv, ControlInv, QueueInv, QueueTypeOK, NoDataRace, WriteIsOrdered, Allocated
<1> QED
  BY <1>1, Invariance, PTL

(* When run_once() returns, all elements were consumed in order. *)
THEOREM Lossless == Spec => []LosslessHandoff
<1>1. Inv => LosslessHandoff
  <2> SUFFICES ASSUME Inv, ppc = "returned"
               PROVE  consumed = [i \in 1 .. Elements |-> i - 1]
    BY DEF LosslessHandoff
  <2>1. pops = Elements /\ Elements \in Nat
    BY ElementsAssumption DEF Inv, ControlInv
  <2>2. consumed \in Seq(Item) /\ Len(consumed) = Elements
        /\ \A i \in 1 .. Len(consumed) : consumed[i] = i - 1
    BY <2>1 DEF Inv, TypeOK, DataInv
  <2> QED
    BY <2>2
<1> QED
  BY <1>1, Invariance, PTL

-----------------------------------------------------------------------------
(* The refinement of BoundedFIFO.                                          *)

(* What the ring contains is a run of consecutive elements. *)
ContentsAreARun ==
  /\ Contents = [i \in 1 .. commits - pops |-> pops + i - 1]
  /\ Contents \in Seq(Item)
  /\ Len(Contents) = commits - pops
  /\ commits \in Nat /\ pops \in Nat /\ pops <= commits
  /\ commits - pops <= usable_capacity

LEMMA InvGivesRun == Inv => ContentsAreARun
<1> SUFFICES ASSUME Inv PROVE ContentsAreARun
  OBVIOUS
<1>1. pops \in Nat /\ commits \in Nat /\ pops <= commits /\ commits <= Elements
  BY ElementsAssumption DEF Inv, QueueInv, QueueTypeOK, ControlInv, TypeOK
<1>2. commits - pops <= usable_capacity
  BY <1>1, CapacityAssumption DEF Inv, QueueInv, QueueTypeOK, usable_capacity
<1>3. \A i \in 1 .. commits - pops : buffer[Mask(pops + i - 1)] = pops + i - 1
  <2> TAKE i \in 1 .. commits - pops
  <2>1. pops + i - 1 \in Nat /\ pops <= pops + i - 1 /\ pops + i - 1 < commits
    BY <1>1
  <2> QED
    BY <2>1 DEF Inv, DataInv
<1>4. Contents = [i \in 1 .. commits - pops |-> pops + i - 1]
  BY <1>3 DEF Contents
<1>5. \A i \in 1 .. commits - pops : pops + i - 1 \in Item
  BY <1>1, ElementsAssumption
<1>6. Contents \in Seq(Item) /\ Len(Contents) = commits - pops
  BY <1>1, <1>4, <1>5
<1> QED
  BY <1>1, <1>2, <1>4, <1>6 DEF ContentsAreARun

(* A step that leaves both counts alone leaves the content alone. *)
LEMMA CountsDetermineContents ==
  ASSUME ContentsAreARun, ContentsAreARun', UNCHANGED <<commits, pops>>
  PROVE  Contents' = Contents
  BY DEF ContentsAreARun

(* commit() appends the element that was written. *)
LEMMA CommitPuts ==
  ASSUME Inv, ContentsAreARun, ContentsAreARun', ProducerCommit
  PROVE  FIFO!Next
<1>1. commits \in Item
  BY ElementsAssumption
     DEF Inv, QueueInv, QueueTypeOK, ControlInv, TypeOK, ProducerCommit
<1>2. commits' = commits + 1 /\ pops' = pops /\ consumed' = consumed
  BY DEF ProducerCommit, Commit
<1>3. Len(Contents) < usable_capacity
  BY <1>2, CapacityAssumption DEF ContentsAreARun, usable_capacity
<1>4. Contents' = Append(Contents, commits)
  <2>1. Append(Contents, commits) = [i \in 1 .. commits - pops + 1 |-> pops + i - 1]
    BY <1>1 DEF ContentsAreARun
  <2> QED
    BY <1>2, <2>1 DEF ContentsAreARun
<1> QED
  BY <1>1, <1>2, <1>3, <1>4 DEF FIFO!Next, FIFO!Put

(* Head and Tail, element by element. *)
LEMMA HeadIsFirst ==
  ASSUME NEW S, NEW s \in Seq(S), s # <<>>
  PROVE  Head(s) = s[1]
  OBVIOUS

LEMMA TailIsRest ==
  ASSUME NEW S, NEW s \in Seq(S), s # <<>>
  PROVE  Tail(s) = [i \in 1 .. Len(s) - 1 |-> s[i + 1]]
<1>1. /\ Tail(s) \in Seq(S)
      /\ Len(Tail(s)) = Len(s) - 1
      /\ \A i \in 1 .. Len(Tail(s)) : Tail(s)[i] = s[i + 1]
  BY HeadTailProperties
<1>2. Tail(s) \in [1 .. Len(Tail(s)) -> S]
  BY <1>1, LenProperties
<1> QED
  BY <1>1, <1>2

(* pop() removes the first element, which is the one the consumer holds. *)
LEMMA PopGets ==
  ASSUME Inv, ContentsAreARun, ContentsAreARun', ConsumerPop
  PROVE  FIFO!Next
<1>1. pops < commits /\ held = pops
  BY DEF Inv, QueueInv, QueueTypeOK, ControlInv, DataInv, ReadIsOrdered, ConsumerPop
<1>2. commits' = commits /\ pops' = pops + 1 /\ consumed' = Append(consumed, pops)
  BY <1>1 DEF ConsumerPop, Pop
<1>3. Contents # <<>> /\ Head(Contents) = pops
  <2>1. Len(Contents) # 0 /\ 1 \in 1 .. commits - pops
    BY <1>1 DEF ContentsAreARun
  <2>2. Contents[1] = pops
    BY <2>1 DEF ContentsAreARun
  <2>3. Contents # <<>>
    BY <2>1
  <2>4. Head(Contents) = Contents[1]
    BY <2>3, HeadIsFirst DEF ContentsAreARun
  <2> QED
    BY <2>2, <2>3, <2>4
<1>4. Contents' = Tail(Contents)
  <2>1. Tail(Contents) = [i \in 1 .. commits - pops - 1 |-> pops + i]
    <3>1. Tail(Contents) = [i \in 1 .. commits - pops - 1 |-> Contents[i + 1]]
      BY <1>3, TailIsRest DEF ContentsAreARun
    <3>2. \A i \in 1 .. commits - pops - 1 : Contents[i + 1] = pops + i
      BY <1>1 DEF ContentsAreARun
    <3> QED
      BY <3>1, <3>2
  <2> QED
    BY <1>2, <2>1, SMTT(20) DEF ContentsAreARun
<1> QED
  BY <1>2, <1>3, <1>4 DEF FIFO!Next, FIFO!Get

LEMMA StepRefines ==
  ASSUME Inv, ContentsAreARun, ContentsAreARun', [Next]_vars
  PROVE  [FIFO!Next]_(FIFO!vars)
<1>1. CASE ProducerCommit
  BY <1>1, CommitPuts
<1>2. CASE ConsumerPop
  BY <1>2, PopGets
<1>3. ASSUME Producer, ~ProducerCommit
      PROVE  UNCHANGED <<commits, pops, consumed>>
  BY <1>3 DEF Producer, ProducerAlloc, ProducerWrite, ProducerDone, ProducerJoin,
              TryAlloc, TryAllocFull, WriteSlot
<1>4. ASSUME Consumer, ~ConsumerPop
      PROVE  UNCHANGED <<commits, pops, consumed>>
  BY <1>4 DEF Consumer, ConsumerFront, ConsumerRecheck, ConsumerRead, ConsumerSeesDone,
              ConsumerSeesNotDone, Front, FrontEmpty, ConsumerSyncsWithProducer
<1>5. ASSUME Terminated \/ UNCHANGED vars
      PROVE  UNCHANGED <<commits, pops, consumed>>
  BY <1>5 DEF Terminated
<1>6. ASSUME UNCHANGED <<commits, pops, consumed>>
      PROVE  UNCHANGED FIFO!vars
  BY <1>6, CountsDetermineContents DEF FIFO!vars
<1> QED
  BY <1>1, <1>2, <1>3, <1>4, <1>5, <1>6 DEF Next

(* For every ring size and number of elements the queue of                 *)
(* spsc_queue.hpp, driven by run_once(), is a bounded FIFO.                *)
THEOREM Refinement == Spec => ImplementsFIFO
<1>1. Init => FIFO!Init
  <2> SUFFICES ASSUME Init PROVE FIFO!Init
    OBVIOUS
  <2>1. Contents = <<>> /\ consumed = <<>>
    BY DEF Init, QueueInit, Contents
  <2> QED
    BY <2>1 DEF FIFO!Init
<1>2. Inv /\ ContentsAreARun /\ ContentsAreARun' /\ [Next]_vars
        => [FIFO!Next]_(FIFO!vars)
  BY StepRefines
<1> QED
  BY <1>1, <1>2, Invariance, InvGivesRun, PTL DEF Spec, ImplementsFIFO, FIFO!Spec

=============================================================================
