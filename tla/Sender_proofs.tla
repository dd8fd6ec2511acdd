---------------------------- MODULE Sender_proofs ----------------------------
(***************************************************************************)
(* The types of Sender, what the gaps of its pacing trace show, and that   *)
(* its books balance: the sequence numbers it sent, its trace, its counts  *)
(* and the packets of its schedule; for every rate, duration, batch size,  *)
(* batch window and number of workers.                                     *)
(***************************************************************************)
EXTENDS Sender, WellFoundedInduction, FiniteSetTheorems, TLAPS

-----------------------------------------------------------------------------
(* The arithmetic of the schedule. *)

LEMMA LeastElement ==
  ASSUME NEW T \in SUBSET Nat, T # {}
  PROVE  \E x \in T : \A y \in T : x <= y
<1>1. PICK x \in T : \A y \in T : ~(<<y, x>> \in OpToRel(<, Nat))
  BY NatLessThanWellFounded, WFMin, T \subseteq Nat
<1>2. \A y \in T : ~(y < x)
  BY <1>1 DEF OpToRel
<1> QED
  BY <1>2

LEMMA OffsetType ==
  ASSUME NEW i \in Nat
  PROVE  Offset(i, Rate) \in Nat
<1>1. Rate \in Nat \ {0} /\ i * Second \in Nat
  BY SenderAssumption, PacingAssumption
<1> QED
  BY <1>1 DEF Offset

LEMMA DeadlineType ==
  ASSUME NEW i \in Nat
  PROVE  deadline_ns(start, i, Rate) \in Nat
<1>1. Offset(i, Rate) \in Nat /\ start \in Nat /\ MaxTime \in Nat
  BY OffsetType, SenderAssumption, PacingAssumption DEF start
<1> HIDE DEF start
<1> QED
  BY <1>1 DEF deadline_ns

(* A packet at most a window later in the schedule is due at most a window *)
(* later, also where the deadline saturates.                               *)
LEMMA DeadlineStep ==
  ASSUME NEW i \in Nat, NEW j \in Nat, Offset(j, Rate) - Offset(i, Rate) <= Window
  PROVE  deadline_ns(start, j, Rate) <= deadline_ns(start, i, Rate) + Window
<1>1. /\ Offset(i, Rate) \in Nat /\ Offset(j, Rate) \in Nat
      /\ start \in Nat /\ MaxTime \in Nat /\ Window \in Nat
  BY OffsetType, SenderAssumption, PacingAssumption DEF start
<1> HIDE DEF start
<1> QED
  BY <1>1 DEF deadline_ns

(* The loop of adaptive_batch_count() stops, and what it counts are packets *)
(* that may go into one batch.                                              *)
LEMMA AdaptiveCount ==
  ASSUME NEW i \in Nat, NEW limit \in Int, NEW stride \in Nat \ {0}, i < limit
  PROVE  LET count == adaptive_batch_count(i, limit, stride, Rate, BatchMax, Window)
         IN  /\ count \in 1 .. BatchMax
             /\ \A c \in 1 .. count - 1 : MayExtend(i, c, limit, stride, Rate, Window)
<1> DEFINE May(c) == MayExtend(i, c, limit, stride, Rate, Window)
           Stops == {c \in 1 .. BatchMax : c = BatchMax \/ ~May(c)}
           IsCount(c) == /\ \A b \in 1 .. c - 1 : May(b)
                         /\ c = BatchMax \/ ~May(c)
<1>1. BatchMax \in Nat \ {0}
  BY SenderAssumption
<1> HIDE DEF May
<1>2. Stops \in SUBSET Nat /\ Stops # {}
  BY <1>1
<1>3. PICK c \in Stops : \A d \in Stops : c <= d
  BY <1>2, LeastElement
<1>4. c \in 1 .. BatchMax /\ IsCount(c)
  BY <1>1, <1>3
<1>5. adaptive_batch_count(i, limit, stride, Rate, BatchMax, Window) =
        CHOOSE count \in 1 .. BatchMax : IsCount(count)
  BY <1>1 DEF adaptive_batch_count, May
<1> QED
  BY <1>4, <1>5 DEF May

-----------------------------------------------------------------------------
(* The invariant. *)

Batch == [count : Nat, scheduled : Nat, first_sequence : Nat, offset : Nat]

TypeInv ==
  /\ mode \in {"steady", "burst", "flood"}
  /\ now \in Nat
  /\ stop_requested \in BOOLEAN
  /\ next_sequence \in Nat
  /\ mainpc \in {"spawned", "barrier", "written", "unwritten", "exit"}
  /\ said_interrupted \in BOOLEAN
  /\ exit_code \in {NotExited, 0, 1}
  /\ wpc \in [Worker -> {"setup", "barrier", "loop", "pace", "send", "done"}]
  /\ connected \in [Worker -> BOOLEAN]
  /\ packet_index \in [Worker -> Nat]
  /\ batch \in [Worker -> Batch]
  /\ stats \in [Worker -> [attempted : Nat, successful : Nat, failed : Nat]]
  /\ eintr \in [Worker -> Nat]
  /\ trace \in [Worker -> SUBSET [first : Nat, count : Nat]]
  /\ newest \in [actual : Nat, scheduled : Nat]
  /\ sent \subseteq Nat /\ claimed \subseteq Nat /\ late \subseteq Worker

(* A batch in hand is never empty, nor sent completely.                    *)
BatchInv ==
  \A w \in Worker : wpc[w] \in {"pace", "send"} => batch[w].offset < batch[w].count

(* In steady mode a batch reaches no further than a batch window beyond    *)
(* its deadline, and a worker that sends has waited for that deadline,     *)
(* unless SIGINT came.                                                     *)
SteadyBatch(w) ==
  /\ batch[w].scheduled = deadline_ns(start, packet_index[w], Rate)
  /\ \A k \in 0 .. batch[w].count - 1 :
       Offset(packet_index[w] + k * threads, Rate) - Offset(packet_index[w], Rate) <= Window
  /\ wpc[w] = "send" /\ ~stop_requested => batch[w].scheduled <= now

SteadyInv == mode = "steady" =>
  \A w \in Worker : wpc[w] \in {"pace", "send"} => SteadyBatch(w)

(* So the record that sorts last was not early by more than a window.      *)
NewestInv ==
  /\ newest.actual <= now
  /\ mode = "steady" /\ ~stop_requested => newest.scheduled <= newest.actual + Window

Inv == TypeInv /\ BatchInv /\ SteadyInv /\ NewestInv

-----------------------------------------------------------------------------
LEMMA Threaded ==
  ASSUME mode \in {"steady", "burst", "flood"}
  PROVE  threads \in Nat \ {0} /\ (mode # "burst" => threads = Threads)
BY SenderAssumption DEF threads

(* A batch that is started has at least one packet.                        *)
LEMMA CountType ==
  ASSUME TypeInv, NEW w \in Worker, KeepSending(w), BatchCount(w) # 0
  PROVE  /\ BatchCount(w) \in Nat \ {0}
         /\ Scheduled(w) \in Nat
         /\ mode = "steady" =>
              \A k \in 1 .. BatchCount(w) - 1 :
                Offset(packet_index[w] + k * threads, Rate) - Offset(packet_index[w], Rate) <= Window
<1> DEFINE i == packet_index[w]
<1>1. i \in Nat /\ mode \in {"steady", "burst", "flood"} /\ threads \in Nat \ {0}
  BY Threaded DEF TypeInv
<1>2. packet_limit \in Int
  <2>1. Duration * Rate \in Int /\ Second \in Nat \ {0}
    BY SenderAssumption, PacingAssumption
  <2> QED
    BY <2>1 DEF packet_limit, scheduled_packet_count
<1>3. mode # "flood" => i < packet_limit
  BY DEF KeepSending
<1>4. BatchMax \in Nat \ {0} /\ BurstSize \in Nat \ {0}
  BY SenderAssumption
<1> HIDE DEF i
<1>5. CASE mode = "flood"
  BY <1>4, <1>5 DEF BatchCount, Scheduled
<1>6. CASE mode = "burst"
  <2> DEFINE p == BurstSize - (i % BurstSize)
             q == packet_limit - i
             S == {BatchMax, p, q}
  <2>1. p \in Nat \ {0} /\ q \in Nat \ {0} /\ i - (i % BurstSize) \in Nat
    BY <1>1, <1>2, <1>3, <1>4, <1>6
  <2>2. BatchCount(w) = CHOOSE x \in S : \A y \in S : x <= y
    BY <1>6 DEF BatchCount, i
  <2> HIDE DEF p, q
  <2>3. \E x \in S : \A y \in S : x <= y
    BY <1>4, <2>1
  <2>4. BatchCount(w) \in S
    BY <2>2, <2>3
  <2>5. Scheduled(w) = deadline_ns(start, i - (i % BurstSize), Rate)
    BY <1>6 DEF Scheduled, i
  <2> QED
    BY <1>4, <1>6, <2>1, <2>4, <2>5, DeadlineType
<1>7. CASE mode = "steady"
  <2>1. BatchCount(w) = adaptive_batch_count(i, packet_limit, threads, Rate, BatchMax, Window)
        /\ Scheduled(w) = deadline_ns(start, i, Rate)
    BY <1>7 DEF BatchCount, Scheduled, i
  <2>2. /\ BatchCount(w) \in 1 .. BatchMax
        /\ \A c \in 1 .. BatchCount(w) - 1 :
             MayExtend(i, c, packet_limit, threads, Rate, Window)
    BY <1>1, <1>2, <1>3, <1>7, <2>1, AdaptiveCount
  <2>3. Scheduled(w) \in Nat
    BY <1>1, <2>1, DeadlineType
  <2>4. BatchCount(w) \in Nat \ {0}
    BY <1>4, <2>2
  <2> QED
    BY <2>2, <2>3, <2>4 DEF MayExtend, i
<1> QED
  BY <1>1, <1>5, <1>6, <1>7

LEMMA InitInv == Init => Inv
<1> SUFFICES ASSUME Init PROVE Inv
  OBVIOUS
<1>1. NoBatch \in Batch /\ NoRecord \in [actual : Nat, scheduled : Nat]
  BY DEF NoBatch, Batch, NoRecord
<1>2. Worker \subseteq Nat
  BY DEF Worker
<1>3. TypeInv
  BY <1>1, <1>2 DEF Init, TypeInv
<1>4. BatchInv /\ SteadyInv
  BY DEF Init, BatchInv, SteadyInv
<1>5. NewestInv
  <2>1. newest.actual = 0 /\ newest.scheduled = 0 /\ now = 0
    BY DEF Init, NoRecord
  <2> QED
    BY <2>1, SenderAssumption DEF NewestInv
<1> QED
  BY <1>3, <1>4, <1>5 DEF Inv

(* What a worker's batch needs of the rest of the state.                   *)
LEMMA Unaffected ==
  ASSUME TypeInv, mode' = mode,
         now' \in Nat, now <= now', stop_requested => stop_requested',
         NEW w \in Worker, batch'[w] = batch[w], packet_index'[w] = packet_index[w],
         wpc'[w] = wpc[w], SteadyBatch(w)
  PROVE  SteadyBatch(w)'
<1>1. threads' = threads
  BY DEF threads
<1>2. batch[w].scheduled \in Nat /\ now \in Nat
  BY DEF TypeInv, Batch
<1>3. /\ batch'[w].scheduled = deadline_ns(start, packet_index'[w], Rate)
      /\ \A k \in 0 .. batch'[w].count - 1 :
           Offset(packet_index'[w] + k * threads', Rate) - Offset(packet_index'[w], Rate) <= Window
  BY <1>1 DEF SteadyBatch
<1>4. wpc'[w] = "send" /\ ~stop_requested' => batch'[w].scheduled <= now'
  BY <1>2 DEF SteadyBatch
<1>5. start' = start
  BY DEF start
<1> QED
  BY <1>3, <1>4, <1>5 DEF SteadyBatch

(* A step of one worker (or of none) leaves what the others do alone.      *)
Others(w) ==
  \A v \in Worker : v # w =>
    wpc'[v] = wpc[v] /\ batch'[v] = batch[v] /\ packet_index'[v] = packet_index[v]

LEMMA OneWorker ==
  ASSUME Inv, mode' = mode, now' = now, stop_requested' = stop_requested,
         NEW w \in Worker, Others(w),
         wpc'[w] \in {"pace", "send"} =>
           /\ batch'[w].offset < batch'[w].count
           /\ mode = "steady" => SteadyBatch(w)'
  PROVE  BatchInv' /\ SteadyInv'
<1>1. Worker' = Worker
  BY DEF Worker, threads
<1>2. ASSUME NEW v \in Worker, v # w, wpc'[v] \in {"pace", "send"}
      PROVE  /\ batch'[v].offset < batch'[v].count
             /\ mode = "steady" => SteadyBatch(v)'
  <2>1. wpc'[v] = wpc[v] /\ batch'[v] = batch[v] /\ packet_index'[v] = packet_index[v]
    BY <1>2 DEF Others
  <2>2. now' \in Nat /\ now <= now'
    BY DEF Inv, TypeInv
  <2>3. batch'[v].offset < batch'[v].count
    BY <1>2, <2>1 DEF Inv, BatchInv
  <2>4. mode = "steady" => SteadyBatch(v)
    BY <1>2, <2>1 DEF Inv, SteadyInv
  <2> QED
    BY <2>1, <2>2, <2>3, <2>4, Unaffected DEF Inv
<1>3. \A v \in Worker : wpc'[v] \in {"pace", "send"} =>
        /\ batch'[v].offset < batch'[v].count
        /\ mode = "steady" => SteadyBatch(v)'
  BY <1>2
<1> QED
  BY <1>1, <1>3 DEF BatchInv, SteadyInv

(* Steps that leave the workers and the trace alone.                       *)
LEMMA NoWorker ==
  ASSUME Inv, UNCHANGED <<mode, wpc, batch, packet_index, newest>>,
         now' \in Nat, now <= now', stop_requested => stop_requested'
  PROVE  BatchInv' /\ SteadyInv' /\ NewestInv'
<1>1. Worker' = Worker
  BY DEF Worker, threads
<1>2. BatchInv'
  BY <1>1 DEF Inv, BatchInv
<1>3. SteadyInv'
  <2>1. SUFFICES ASSUME mode = "steady", NEW w \in Worker, wpc[w] \in {"pace", "send"}
                 PROVE  SteadyBatch(w)'
    BY <1>1 DEF SteadyInv
  <2>2. SteadyBatch(w)
    BY <2>1 DEF Inv, SteadyInv
  <2> QED
    BY <2>2, Unaffected DEF Inv
<1>4. NewestInv'
  <2>1. newest.actual \in Nat /\ now \in Nat
    BY DEF Inv, TypeInv
  <2> QED
    BY <2>1 DEF Inv, NewestInv
<1> QED
  BY <1>2, <1>3, <1>4

(* What a worker that sends writes in the trace. *)
LEMMA SendFacts ==
  ASSUME Inv, NEW w \in Worker, wpc[w] = "send"
  PROVE  /\ OffsetDeadline(w) \in Nat
         /\ mode = "steady" /\ ~stop_requested => OffsetDeadline(w) <= now + Window
         /\ NextIndex(w) \in Nat
         /\ Failed(w) \in Nat
<1> DEFINE i == packet_index[w]
           b == batch[w]
           j == i + b.offset * threads
<1>1. /\ i \in Nat /\ b.count \in Nat /\ b.offset \in Nat /\ b.scheduled \in Nat /\ now \in Nat
      /\ threads \in Nat \ {0} /\ b.offset < b.count
  BY Threaded DEF Inv, TypeInv, BatchInv, Batch
<1>2. OffsetDeadline(w) = IF mode = "flood" THEN now ELSE deadline_ns(start, j, Rate)
  BY DEF OffsetDeadline
<1>3. NextIndex(w) = i + b.count * threads /\ Failed(w) = b.count - b.offset
  BY DEF NextIndex, Failed
<1>4. ASSUME mode = "steady" PROVE SteadyBatch(w)
  BY <1>4 DEF Inv, SteadyInv
<1> HIDE DEF i, b
<1>5. j \in Nat /\ NextIndex(w) \in Nat /\ Failed(w) \in Nat
  BY <1>1, <1>3
<1>6. ASSUME mode = "steady", ~stop_requested PROVE OffsetDeadline(w) <= now + Window
  <2>1. /\ b.scheduled = deadline_ns(start, i, Rate) /\ b.scheduled <= now
        /\ Offset(j, Rate) - Offset(i, Rate) <= Window
    BY <1>1, <1>4, <1>6 DEF SteadyBatch, i, b
  <2>2. deadline_ns(start, j, Rate) <= deadline_ns(start, i, Rate) + Window
    BY <1>1, <1>5, <2>1, DeadlineStep
  <2>3. deadline_ns(start, j, Rate) \in Nat /\ Window \in Nat
    BY <1>5, DeadlineType, SenderAssumption
  <2>4. OffsetDeadline(w) = deadline_ns(start, j, Rate)
    BY <1>2, <1>6
  <2> HIDE DEF j
  <2> QED
    BY <1>1, <2>1, <2>2, <2>3, <2>4
<1> HIDE DEF j
<1>7. OffsetDeadline(w) \in Nat
  BY <1>1, <1>2, <1>5, DeadlineType
<1> QED
  BY <1>5, <1>6, <1>7

(* The type invariant of a step of one worker. *)
LEMMA WorkerTypes ==
  ASSUME Inv, NEW w \in Worker, WorkerStep(w)
  PROVE  TypeInv'
<1>1. TypeInv /\ BatchInv /\ Worker' = Worker /\ Worker \subseteq Nat
      /\ threads \in Nat \ {0}
  <2>1. mode' = mode
    BY DEF WorkerStep, WorkerSetup, WorkerPassesBarrier, WorkerStartsBatch, WorkerFinishes,
           WorkerTakesSequences, WorkerSends, WorkerIsInterrupted, WorkerFails
  <2> QED
    BY <2>1, Threaded DEF Inv, TypeInv, Worker, threads
<1>2. ASSUME NEW ok \in BOOLEAN, WorkerSetup(w, ok) PROVE TypeInv'
  BY <1>1, <1>2 DEF TypeInv, WorkerSetup, mainVars, historyVars
<1>3. CASE WorkerPassesBarrier(w)
  BY <1>1, <1>3 DEF TypeInv, WorkerPassesBarrier, mainVars, historyVars
<1>4. CASE WorkerStartsBatch(w)
  <2>1. BatchCount(w) \in Nat /\ Scheduled(w) \in Nat
    BY <1>1, <1>4, CountType DEF WorkerStartsBatch
  <2>2. [NoBatch EXCEPT !.count = BatchCount(w), !.scheduled = Scheduled(w)] \in Batch
    BY <2>1 DEF NoBatch, Batch
  <2>3. batch' \in [Worker -> Batch]
    BY <1>1, <1>4, <2>2 DEF WorkerStartsBatch, TypeInv
  <2> QED
    BY <1>1, <1>4, <2>3 DEF TypeInv, WorkerStartsBatch, mainVars, historyVars
<1>5. CASE WorkerFinishes(w)
  <2>1. stats' \in [Worker -> [attempted : Nat, successful : Nat, failed : Nat]]
    <3> DEFINE Stats == [attempted : Nat, successful : Nat, failed : Nat]
               failure == [stats[w] EXCEPT !.attempted = 1, !.failed = 1]
    <3>1. stats \in [Worker -> Stats]
      BY <1>1 DEF TypeInv
    <3>2. failure \in Stats
      BY <3>1
    <3>3. stats' = stats \/ stats' = [stats EXCEPT ![w] = failure]
      BY <1>5, <3>1 DEF WorkerFinishes
    <3> HIDE DEF Stats, failure
    <3>4. stats' \in [Worker -> Stats]
      BY <3>1, <3>2, <3>3
    <3> QED
      BY <1>1, <3>4 DEF Stats
  <2>2. wpc' \in [Worker -> {"setup", "barrier", "loop", "pace", "send", "done"}]
        /\ late' \subseteq Worker
    BY <1>1, <1>5 DEF TypeInv, WorkerFinishes
  <2> QED
    BY <1>1, <1>5, <2>1, <2>2 DEF TypeInv, WorkerFinishes, mainVars
<1>6. CASE WorkerTakesSequences(w)
  <2>1. batch[w].count \in Nat /\ next_sequence \in Nat /\ packet_index[w] \in Nat
    BY <1>1 DEF TypeInv, Batch
  <2>2. batch' \in [Worker -> Batch]
    BY <1>1, <1>6, <2>1, SMTT(20) DEF WorkerTakesSequences, TypeInv, Batch
  <2>3. stats' \in [Worker -> [attempted : Nat, successful : Nat, failed : Nat]]
    BY <1>1, <1>6, <2>1 DEF WorkerTakesSequences, TypeInv
  <2>4. claimed' \subseteq Nat
    <3>1. \A k \in 0 .. batch[w].count - 1 : packet_index[w] + k * threads \in Nat
      BY <1>1, <2>1
    <3>2. claimed \subseteq Nat
      BY <1>1 DEF TypeInv
    <3>3. claimed' = claimed \union
            {packet_index[w] + k * threads : k \in 0 .. batch[w].count - 1}
      BY <1>6 DEF WorkerTakesSequences
    <3> QED
      BY <3>1, <3>2, <3>3
  <2>5. next_sequence' \in Nat
    BY <1>6, <2>1 DEF WorkerTakesSequences, SequencesTaken
  <2> QED
    BY <1>1, <1>6, <2>2, <2>3, <2>4, <2>5 DEF TypeInv, WorkerTakesSequences, mainVars
<1>7. ASSUME NEW n \in 1 .. BatchMax, WorkerSends(w, n) PROVE TypeInv'
  <2>1. /\ batch[w].count \in Nat /\ batch[w].offset \in Nat /\ batch[w].first_sequence \in Nat
        /\ now \in Nat /\ n \in Nat
    BY <1>1, SenderAssumption DEF TypeInv, Batch
  <2>2. OffsetDeadline(w) \in Nat /\ NextIndex(w) \in Nat
    BY <1>7, SendFacts DEF WorkerSends
  <2>3. batch' \in [Worker -> Batch]
    BY <1>1, <1>7, <2>1 DEF WorkerSends, TypeInv, Batch
  <2>4. stats' \in [Worker -> [attempted : Nat, successful : Nat, failed : Nat]]
    BY <1>1, <1>7, <2>1 DEF WorkerSends, TypeInv
  <2>5. newest' \in [actual : Nat, scheduled : Nat]
    BY <1>1, <1>7, <2>1, <2>2 DEF WorkerSends, TypeInv, TraceTimes
  <2>6. trace' \in [Worker -> SUBSET [first : Nat, count : Nat]]
    <3>1. TraceRecord(w, n) \in [first : Nat, count : Nat]
      BY <2>1 DEF TraceRecord
    <3> QED
      BY <1>1, <1>7, <3>1 DEF WorkerSends, TypeInv
  <2>7. sent' \subseteq Nat
    <3> DEFINE first == batch[w].first_sequence + batch[w].offset
    <3>1. first \in Nat /\ sent \subseteq Nat
      BY <1>1, <2>1 DEF TypeInv
    <3>2. sent' = sent \union (first .. first + n - 1)
      BY <1>7 DEF WorkerSends
    <3> HIDE DEF first
    <3> QED
      BY <2>1, <3>1, <3>2
  <2>8. /\ packet_index' \in [Worker -> Nat]
        /\ wpc' \in [Worker -> {"setup", "barrier", "loop", "pace", "send", "done"}]
    <3>1. BatchEnds(w) \/ UNCHANGED <<packet_index, wpc>>
      BY <1>7 DEF WorkerSends
    <3>2. CASE BatchEnds(w)
      BY <1>1, <2>2, <3>2 DEF BatchEnds, TypeInv
    <3>3. CASE UNCHANGED <<packet_index, wpc>>
      BY <1>1, <3>3 DEF TypeInv
    <3> QED
      BY <3>1, <3>2, <3>3
  <2>9. UNCHANGED <<mode, now, stop_requested, next_sequence, mainVars, connected, eintr,
                    claimed, late>>
    BY <1>7 DEF WorkerSends
  <2> QED
    BY <1>1, <2>3, <2>4, <2>5, <2>6, <2>7, <2>8, <2>9 DEF TypeInv, mainVars
<1>8. CASE WorkerIsInterrupted(w)
  <2>1. NextIndex(w) \in Nat
    BY <1>8, SendFacts DEF WorkerIsInterrupted
  <2>2. /\ packet_index' \in [Worker -> Nat]
        /\ wpc' \in [Worker -> {"setup", "barrier", "loop", "pace", "send", "done"}]
        /\ eintr' \in [Worker -> Nat]
    BY <1>1, <1>8, <2>1 DEF WorkerIsInterrupted, TypeInv, BatchEnds
  <2> QED
    BY <1>1, <1>8, <2>2 DEF TypeInv, WorkerIsInterrupted, mainVars, historyVars
<1>9. CASE WorkerFails(w)
  <2>1. NextIndex(w) \in Nat /\ Failed(w) \in Nat
    BY <1>9, SendFacts DEF WorkerFails
  <2>2. /\ packet_index' \in [Worker -> Nat]
        /\ wpc' \in [Worker -> {"setup", "barrier", "loop", "pace", "send", "done"}]
        /\ stats' \in [Worker -> [attempted : Nat, successful : Nat, failed : Nat]]
    BY <1>1, <1>9, <2>1 DEF WorkerFails, TypeInv, BatchEnds
  <2> QED
    BY <1>1, <1>9, <2>2 DEF TypeInv, WorkerFails, mainVars, historyVars
<1> QED
  BY <1>2, <1>3, <1>4, <1>5, <1>6, <1>7, <1>8, <1>9 DEF WorkerStep

LEMMA WorkerStepInv ==
  ASSUME Inv, NEW w \in Worker, WorkerStep(w)
  PROVE  Inv'
<1>1. /\ UNCHANGED <<mode, now, stop_requested>> /\ Others(w)
      /\ TypeInv /\ TypeInv'
  <2>1. UNCHANGED <<mode, now, stop_requested>>
    BY DEF WorkerStep, WorkerSetup, WorkerPassesBarrier, WorkerStartsBatch, WorkerFinishes,
           WorkerTakesSequences, WorkerSends, WorkerIsInterrupted, WorkerFails
  <2>2. Others(w)
    BY DEF WorkerStep, WorkerSetup, WorkerPassesBarrier, WorkerStartsBatch, WorkerFinishes,
           WorkerTakesSequences, WorkerSends, WorkerIsInterrupted, WorkerFails, BatchEnds,
           Others, Inv, TypeInv
  <2> QED
    BY <2>1, <2>2, WorkerTypes DEF Inv
<1>2. threads' = threads /\ Worker' = Worker /\ threads \in Nat \ {0} /\ start' = start
  BY <1>1, Threaded DEF threads, Worker, TypeInv, start
<1>3. newest' = newest => NewestInv'
  BY <1>1 DEF Inv, NewestInv
<1>4. ASSUME wpc'[w] \notin {"pace", "send"}, newest' = newest PROVE Inv'
  BY <1>1, <1>3, <1>4, OneWorker DEF Inv
<1>5. ASSUME NEW ok \in BOOLEAN, WorkerSetup(w, ok) PROVE Inv'
  BY <1>1, <1>4, <1>5 DEF WorkerSetup, TypeInv, historyVars
<1>6. CASE WorkerPassesBarrier(w)
  BY <1>1, <1>4, <1>6 DEF WorkerPassesBarrier, TypeInv, historyVars
<1>7. CASE WorkerFinishes(w)
  BY <1>1, <1>4, <1>7 DEF WorkerFinishes, TypeInv
<1>8. CASE WorkerStartsBatch(w)
  <2>1. /\ BatchCount(w) \in Nat \ {0}
        /\ mode = "steady" =>
              \A k \in 1 .. BatchCount(w) - 1 :
                Offset(packet_index[w] + k * threads, Rate) - Offset(packet_index[w], Rate) <= Window
    BY <1>1, <1>8, CountType DEF WorkerStartsBatch
  <2>2. /\ batch'[w].count = BatchCount(w) /\ batch'[w].offset = 0
        /\ batch'[w].scheduled = Scheduled(w)
        /\ wpc'[w] = "pace" /\ packet_index' = packet_index /\ newest' = newest
    BY <1>1, <1>8 DEF WorkerStartsBatch, NoBatch, TypeInv, historyVars
  <2>3. ASSUME mode = "steady" PROVE SteadyBatch(w)'
    <3>1. packet_index[w] \in Nat /\ Offset(packet_index[w], Rate) \in Nat /\ Window \in Nat
      BY <1>1, OffsetType, SenderAssumption DEF TypeInv
    <3>2. packet_index[w] + 0 * threads = packet_index[w]
      BY <1>2, <3>1
    <3>3. \A k \in 0 .. BatchCount(w) - 1 :
            Offset(packet_index[w] + k * threads, Rate) - Offset(packet_index[w], Rate) <= Window
      <4>1. SUFFICES ASSUME NEW k \in 0 .. BatchCount(w) - 1
                     PROVE  Offset(packet_index[w] + k * threads, Rate)
                              - Offset(packet_index[w], Rate) <= Window
        OBVIOUS
      <4>2. CASE k = 0
        BY <3>1, <3>2, <4>2
      <4>3. CASE k # 0
        BY <2>1, <2>3, <4>1, <4>3
      <4> QED
        BY <4>2, <4>3
    <3>4. Scheduled(w) = deadline_ns(start, packet_index[w], Rate)
      BY <2>3 DEF Scheduled
    <3> QED
      BY <1>2, <2>2, <3>3, <3>4 DEF SteadyBatch
  <2>4. batch'[w].offset < batch'[w].count
    BY <2>1, <2>2
  <2> QED
    BY <1>1, <1>3, <2>2, <2>3, <2>4, OneWorker DEF Inv
<1>9. CASE WorkerTakesSequences(w)
  <2>1. /\ batch'[w].count = batch[w].count /\ batch'[w].offset = batch[w].offset
        /\ batch'[w].scheduled = batch[w].scheduled
        /\ wpc[w] = "pace" /\ wpc'[w] = "send"
        /\ packet_index' = packet_index /\ newest' = newest
    BY <1>1, <1>9 DEF WorkerTakesSequences, TypeInv, Batch
  <2>2. batch'[w].offset < batch'[w].count
    BY <2>1 DEF Inv, BatchInv
  <2>3. ASSUME mode = "steady" PROVE SteadyBatch(w)'
    <3>1. SteadyBatch(w)
      BY <2>1, <2>3 DEF Inv, SteadyInv
    <3>2. ~stop_requested => batch[w].scheduled <= now
      <4>1. now \in Nat /\ batch[w].scheduled \in Nat
        BY <1>1 DEF TypeInv, Batch
      <4> QED
        BY <1>9, <2>3, <4>1 DEF WorkerTakesSequences, Paced
    <3> QED
      BY <1>1, <1>2, <2>1, <3>1, <3>2 DEF SteadyBatch
  <2> QED
    BY <1>1, <1>3, <2>1, <2>2, <2>3, OneWorker DEF Inv
<1>10. ASSUME NEW n \in 1 .. BatchMax, WorkerSends(w, n) PROVE Inv'
  <2>1. wpc[w] = "send" /\ n \in 1 .. batch[w].count - batch[w].offset
    BY <1>10 DEF WorkerSends
  <2>2. NewestInv'
    <3>1. /\ OffsetDeadline(w) \in Nat /\ now \in Nat /\ Window \in Nat
          /\ mode = "steady" /\ ~stop_requested => OffsetDeadline(w) <= now + Window
      BY <1>1, <2>1, SendFacts, SenderAssumption DEF TypeInv
    <3>2. newest' = newest \/ newest' = TraceTimes(w)
      BY <1>10 DEF WorkerSends
    <3>3. TraceTimes(w).actual = now /\ TraceTimes(w).scheduled = OffsetDeadline(w)
      BY DEF TraceTimes
    <3>4. CASE newest' = TraceTimes(w)
      BY <1>1, <3>1, <3>3, <3>4 DEF NewestInv
    <3> QED
      BY <1>3, <3>2, <3>4
  <2>3. wpc'[w] \in {"pace", "send"} =>
          /\ batch'[w].offset < batch'[w].count
          /\ mode = "steady" => SteadyBatch(w)'
    <3>1. SUFFICES ASSUME wpc'[w] \in {"pace", "send"}
                   PROVE  /\ batch'[w].offset < batch'[w].count
                          /\ mode = "steady" => SteadyBatch(w)'
      OBVIOUS
    <3>2. /\ batch'[w].count = batch[w].count /\ batch'[w].offset = batch[w].offset + n
          /\ batch'[w].scheduled = batch[w].scheduled
          /\ batch[w].count \in Nat /\ batch[w].offset \in Nat
      BY <1>1, <1>10 DEF WorkerSends, TypeInv, Batch
    <3>3. batch[w].offset + n # batch[w].count /\ wpc' = wpc /\ packet_index' = packet_index
      BY <1>1, <1>10, <3>1 DEF WorkerSends, BatchEnds, TypeInv
    <3>4. batch'[w].offset < batch'[w].count
      BY <2>1, <3>2, <3>3
    <3>5. ASSUME mode = "steady" PROVE SteadyBatch(w)'
      <4>1. SteadyBatch(w)
        BY <2>1, <3>5 DEF Inv, SteadyInv
      <4> QED
        BY <1>1, <1>2, <3>2, <3>3, <4>1 DEF SteadyBatch
    <3> QED
      BY <3>4, <3>5
  <2> QED
    BY <1>1, <2>2, <2>3, OneWorker DEF Inv
<1>11. CASE WorkerIsInterrupted(w)
  <2>1. wpc[w] = "send" /\ newest' = newest /\ batch' = batch
    BY <1>11 DEF WorkerIsInterrupted, historyVars
  <2>2. CASE stop_requested
    BY <1>1, <1>4, <1>11, <2>1, <2>2 DEF WorkerIsInterrupted, BatchEnds, TypeInv
  <2>3. CASE ~stop_requested
    <3>1. wpc' = wpc /\ packet_index' = packet_index
      BY <1>11, <2>3 DEF WorkerIsInterrupted
    <3>2. now' \in Nat /\ now <= now'
      BY <1>1 DEF TypeInv
    <3> QED
      BY <1>1, <2>1, <3>1, <3>2, NoWorker DEF Inv
  <2> QED
    BY <2>2, <2>3
<1>12. CASE WorkerFails(w)
  BY <1>1, <1>4, <1>12 DEF WorkerFails, BatchEnds, TypeInv, historyVars
<1> QED
  BY <1>5, <1>6, <1>7, <1>8, <1>9, <1>10, <1>11, <1>12 DEF WorkerStep

LEMMA Step == Inv /\ [Next]_vars => Inv'
<1> SUFFICES ASSUME Inv, [Next]_vars PROVE Inv'
  OBVIOUS
<1>0. /\ TypeInv /\ BatchInv /\ SteadyInv /\ NewestInv
      /\ threads \in Nat \ {0}
  BY Threaded DEF Inv, TypeInv
<1>a. UNCHANGED mode => Worker' = Worker
  BY DEF Worker, threads
<1>1. CASE UNCHANGED vars
  <2>1. TypeInv'
    BY <1>0, <1>1, <1>a DEF TypeInv, vars, mainVars, workerVars, historyVars
  <2> QED
    BY <1>0, <1>1, <2>1, NoWorker DEF Inv, TypeInv, vars, mainVars, workerVars, historyVars
<1>2. CASE Tick
  <2>1. TypeInv'
    BY <1>0, <1>2, <1>a DEF TypeInv, Tick, mainVars, workerVars, historyVars
  <2>2. now <= now' /\ now' \in Nat
    BY <1>0, <1>2 DEF TypeInv, Tick
  <2> QED
    BY <1>2, <2>1, <2>2, NoWorker DEF Inv, Tick, workerVars, historyVars
<1>3. CASE Sigint
  <2>1. TypeInv'
    BY <1>0, <1>3, <1>a DEF TypeInv, Sigint, mainVars, workerVars, historyVars
  <2>2. now <= now' /\ now' \in Nat
    BY <1>0, <1>3 DEF TypeInv, Sigint
  <2> QED
    BY <1>3, <2>1, <2>2, NoWorker DEF Inv, Sigint, workerVars, historyVars
<1>4. CASE Main
  <2>1. TypeInv'
    BY <1>0, <1>4, <1>a DEF TypeInv, Main, MainArrives, MainWrites, MainReturns, workerVars,
                            historyVars
  <2>2. UNCHANGED <<mode, now, stop_requested, wpc, batch, packet_index, newest>>
    BY <1>4 DEF Main, MainArrives, MainWrites, MainReturns, workerVars, historyVars
  <2>3. now <= now' /\ now' \in Nat
    BY <1>0, <2>2 DEF TypeInv
  <2> QED
    BY <2>1, <2>2, <2>3, NoWorker DEF Inv
<1>5. ASSUME NEW w \in Worker, WorkerStep(w) PROVE Inv'
  BY <1>5, WorkerStepInv
<1> QED
  BY <1>1, <1>2, <1>3, <1>4, <1>5 DEF Next, Exited

-----------------------------------------------------------------------------
(* The theorems. *)

(* Of the workers: a batch in hand is neither empty nor sent completely,   *)
(* its packets are due within a batch window, and none is sent before the  *)
(* first of them is due.                                                   *)
THEOREM Invariance == Spec => []Inv
  BY InitInv, Step, PTL DEF Spec

(* All variables of the sender keep their types. *)
THEOREM TypeCorrect == Spec => []TypeInv
<1>1. Inv => TypeInv
  BY DEF Inv
<1> QED
  BY Invariance, <1>1, PTL

(* analyze_pacing_trace() of a steady run: a gap beyond the schedule is at *)
(* most one batch window longer than the lateness of the send that ends    *)
(* it, so a disqualifying gap of two windows is never due to batching.     *)
THEOREM GapsAreLatenessHolds == Spec => GapsAreLateness
<1> DEFINE Gap == \A w \in Worker :
             mode = "steady" /\ ~stop_requested /\ newest # NoRecord /\ trace'[w] # trace[w] =>
               LET lateness == now - OffsetDeadline(w)
               IN  UnexplainedGap(newest, TraceTimes(w))
                     <= Window + (IF lateness > 0 THEN lateness ELSE 0)
<1>1. ASSUME Inv, [Next]_vars PROVE Gap
  <2>1. SUFFICES ASSUME NEW w \in Worker, mode = "steady", ~stop_requested, trace'[w] # trace[w]
                 PROVE  LET lateness == now - OffsetDeadline(w)
                        IN  UnexplainedGap(newest, TraceTimes(w))
                              <= Window + (IF lateness > 0 THEN lateness ELSE 0)
    OBVIOUS
  <2>2. trace \in [Worker -> SUBSET [first : Nat, count : Nat]]
    BY <1>1 DEF Inv, TypeInv
  <2>3. PICK v \in Worker : \E n \in 1 .. BatchMax : WorkerSends(v, n)
    BY <1>1, <2>1 DEF Next, Tick, Sigint, Main, MainArrives, MainWrites, MainReturns, Exited,
       WorkerStep, WorkerSetup, WorkerPassesBarrier, WorkerStartsBatch, WorkerFinishes,
       WorkerTakesSequences, WorkerIsInterrupted, WorkerFails, vars, workerVars
  <2>4. v = w /\ wpc[w] = "send"
    BY <2>1, <2>2, <2>3 DEF WorkerSends
  <2>5. OffsetDeadline(w) \in Nat
    BY <1>1, <2>4, SendFacts
  <2>6. /\ now \in Nat /\ newest.actual \in Nat /\ newest.scheduled \in Nat /\ Window \in Nat
        /\ newest.actual <= now /\ newest.scheduled <= newest.actual + Window
    BY <1>1, <2>1, SenderAssumption DEF Inv, TypeInv, NewestInv
  <2>7. TraceTimes(w).actual = now /\ TraceTimes(w).scheduled = OffsetDeadline(w)
    BY DEF TraceTimes
  <2> QED
    BY <2>5, <2>6, <2>7 DEF UnexplainedGap
<1>2. Inv /\ [Next]_vars => [Gap]_vars
  BY <1>1
<1> QED
  BY Invariance, <1>2, PTL DEF Spec, GapsAreLateness

-----------------------------------------------------------------------------
(* Sums over a finite set. The library defines them by a choice of a       *)
(* function that obeys an equation; that there is one, and only one, is    *)
(* shown by looking at a smallest set for which it would fail.             *)

Pick(s) == CHOOSE x \in s : TRUE

Turn(f, g, s) == IF s = {} THEN 0 ELSE f[Pick(s)] + g[s \ {Pick(s)}]

IsSum(g, f, S) == g = [s \in SUBSET S |-> Turn(f, g, s)]

LEMMA SumIsChosen ==
  ASSUME NEW f, NEW S
  PROVE  SumFunctionOnSet(f, S) = (CHOOSE g : IsSum(g, f, S))[S]
BY DEF SumFunctionOnSet, FoldFunctionOnSet, MapThenFoldSet, IsSum, Turn, Pick

LEMMA SmallerWithout ==
  ASSUME NEW S, IsFiniteSet(S), NEW s \in SUBSET S, s # {}
  PROVE  /\ Pick(s) \in s
         /\ s \ {Pick(s)} \in SUBSET S
         /\ IsFiniteSet(s) /\ Cardinality(s) \in Nat
         /\ Cardinality(s \ {Pick(s)}) \in Nat
         /\ Cardinality(s \ {Pick(s)}) < Cardinality(s)
<1>1. IsFiniteSet(s)
  BY FS_Subset
<1>2. Pick(s) \in s
  BY DEF Pick
<1>3. Cardinality(s) \in Nat /\ Cardinality(s \ {Pick(s)}) = Cardinality(s) - 1
      /\ Cardinality(s \ {Pick(s)}) \in Nat
  BY <1>1, <1>2, FS_RemoveElement, FS_CardinalityType
<1> QED
  BY <1>1, <1>2, <1>3

(* Two functions that obey the equation agree, also on different sets.     *)
LEMMA SumIsUnique ==
  ASSUME NEW f, NEW S, IsFiniteSet(S), NEW T \in SUBSET S,
         NEW g, IsSum(g, f, S), NEW h, IsSum(h, f, T), NEW s \in SUBSET T
  PROVE  g[s] = h[s]
<1> DEFINE Bad == {n \in Nat : \E u \in SUBSET T : Cardinality(u) = n /\ g[u] # h[u]}
<1>1. SUFFICES ASSUME g[s] # h[s] PROVE FALSE
  OBVIOUS
<1>2. IsFiniteSet(T) /\ IsFiniteSet(s) /\ Cardinality(s) \in Nat
  BY FS_Subset, FS_CardinalityType
<1>3. Bad \in SUBSET Nat /\ Bad # {}
  BY <1>1, <1>2
<1>4. PICK n \in Bad : \A m \in Bad : n <= m
  BY <1>3, LeastElement
<1>5. PICK u \in SUBSET T : Cardinality(u) = n /\ g[u] # h[u]
  BY <1>4
<1>6. g[u] = Turn(f, g, u) /\ h[u] = Turn(f, h, u)
  BY DEF IsSum
<1>7. CASE u = {}
  BY <1>5, <1>6, <1>7 DEF Turn
<1>8. CASE u # {}
  <2> DEFINE v == u \ {Pick(u)}
  <2>1. v \in SUBSET T /\ Cardinality(v) \in Nat /\ Cardinality(v) < Cardinality(u)
    BY <1>2, <1>8, SmallerWithout
  <2>2. Cardinality(v) \notin Bad
    <3>1. n \in Nat /\ n = Cardinality(u)
      BY <1>4, <1>5
    <3>2. ~(n <= Cardinality(v))
      BY <2>1, <3>1
    <3> HIDE DEF Bad
    <3> QED
      BY <1>4, <3>2
  <2>3. g[v] = h[v]
    BY <2>1, <2>2
  <2> QED
    BY <1>5, <1>6, <1>8, <2>3 DEF Turn
<1> QED
  BY <1>7, <1>8

(* Such a function exists: one that obeys the equation for the sets of at  *)
(* most n elements gives one for the sets of at most n + 1.                *)
LEMMA SumExists ==
  ASSUME NEW f, NEW S, IsFiniteSet(S)
  PROVE  \E g : IsSum(g, f, S)
<1> DEFINE Obeys(g, n) == \A s \in SUBSET S : Cardinality(s) <= n => g[s] = Turn(f, g, s)
           next(g) == [s \in SUBSET S |-> Turn(f, g, s)]
           Bad == {n \in Nat : ~ \E g : Obeys(g, n)}
<1>1. \A s \in SUBSET S : IsFiniteSet(s) /\ Cardinality(s) \in Nat /\ Cardinality(s) <= Cardinality(S)
  BY FS_Subset, FS_CardinalityType
<1>2. ASSUME NEW n \in Nat, NEW g, \A m \in Nat : m < n => Obeys(g, m)
      PROVE  Obeys(next(g), n)
  <2>1. SUFFICES ASSUME NEW s \in SUBSET S, Cardinality(s) <= n
                 PROVE  Turn(f, g, s) = Turn(f, next(g), s)
    OBVIOUS
  <2>2. CASE s = {}
    BY <2>2 DEF Turn
  <2>3. CASE s # {}
    <3> DEFINE v == s \ {Pick(s)}
    <3>1. v \in SUBSET S /\ Cardinality(v) \in Nat /\ Cardinality(v) < n
      BY <1>1, <2>1, <2>3, SmallerWithout
    <3>2. Obeys(g, Cardinality(v)) /\ Cardinality(v) <= Cardinality(v)
      BY <1>2, <3>1
    <3>3. g[v] = Turn(f, g, v)
      BY ONLY <3>1, <3>2
    <3>4. next(g)[v] = Turn(f, g, v)
      BY <3>1
    <3> QED
      BY <2>3, <3>3, <3>4 DEF Turn
  <2> QED
    BY <2>2, <2>3
<1>3. \A n \in Nat : \E g : Obeys(g, n)
  <2>1. SUFFICES ASSUME Bad # {} PROVE FALSE
    BY Zenon
  <2>2. PICK n \in Bad : \A m \in Bad : n <= m
    BY <2>1, LeastElement
  <2>3. \E g : \A m \in Nat : m < n => Obeys(g, m)
    <3>1. CASE n = 0
      BY <3>1
    <3>2. CASE n # 0
      <4>1. n - 1 \in Nat /\ ~(n <= n - 1)
        BY <2>2, <3>2
      <4>2. n - 1 \notin Bad
        BY <2>2, <4>1
      <4>3. PICK g : Obeys(g, n - 1)
        BY <4>1, <4>2
      <4>4. ASSUME NEW m \in Nat, m < n PROVE Obeys(g, m)
        <5>1. m <= n - 1
          BY <2>2, <4>4
        <5>2. \A s \in SUBSET S : Cardinality(s) <= m => Cardinality(s) <= n - 1
          BY <1>1, <4>1, <5>1
        <5> QED
          BY <4>3, <5>2
      <4> QED
        BY <4>4
    <3> QED
      BY <3>1, <3>2
  <2>4. PICK g : \A m \in Nat : m < n => Obeys(g, m)
    BY <2>3
  <2>5. Obeys(next(g), n)
    BY <1>2, <2>2, <2>4
  <2>6. ~ \E x : Obeys(x, n)
    BY <2>2
  <2> HIDE DEF next, Obeys
  <2> QED
    BY <2>5, <2>6
<1>4. PICK g : Obeys(g, Cardinality(S))
  BY <1>1, <1>3
<1>5. \A s \in SUBSET S : g[s] = Turn(f, g, s)
  BY <1>1, <1>4
<1>6. \A s \in SUBSET S : next(g)[s] = Turn(f, next(g), s)
  <2>1. SUFFICES ASSUME NEW s \in SUBSET S PROVE Turn(f, g, s) = Turn(f, next(g), s)
    OBVIOUS
  <2>2. \A v \in SUBSET S : next(g)[v] = g[v]
    BY <1>5
  <2> QED
    BY <2>2 DEF Turn, Pick
<1>7. IsSum(next(g), f, S)
  BY <1>6 DEF IsSum
<1> QED
  BY <1>7

(* So the sum is that of any function that obeys the equation. *)
LEMMA SumIs ==
  ASSUME NEW f, NEW S, IsFiniteSet(S), NEW g, IsSum(g, f, S), NEW T \in SUBSET S
  PROVE  SumFunctionOnSet(f, T) = g[T]
<1>1. IsFiniteSet(T)
  BY FS_Subset
<1>2. PICK h : h = CHOOSE x : IsSum(x, f, T)
  OBVIOUS
<1>3. IsSum(h, f, T)
  BY <1>1, <1>2, SumExists
<1>4. g[T] = h[T]
  <2>1. T \in SUBSET T
    OBVIOUS
  <2> QED
    BY <1>3, <2>1, SumIsUnique
<1>5. SumFunctionOnSet(f, T) = h[T]
  BY <1>2, SumIsChosen
<1> QED
  BY <1>4, <1>5

(* The equation of the sum. *)
LEMMA SumEquation ==
  ASSUME NEW f, NEW S, IsFiniteSet(S)
  PROVE  SumFunctionOnSet(f, S) =
           IF S = {} THEN 0 ELSE f[Pick(S)] + SumFunctionOnSet(f, S \ {Pick(S)})
<1>1. PICK g : IsSum(g, f, S)
  BY SumExists
<1>2. g[S] = Turn(f, g, S)
  BY <1>1 DEF IsSum
<1>3. \A T \in SUBSET S : SumFunctionOnSet(f, T) = g[T]
  BY <1>1, SumIs
<1>4. S \in SUBSET S /\ S \ {Pick(S)} \in SUBSET S
  OBVIOUS
<1> QED
  BY <1>2, <1>3, <1>4 DEF Turn

(* A sum of natural numbers is one.                                        *)
LEMMA SumType ==
  ASSUME NEW S, IsFiniteSet(S), NEW f, \A x \in S : f[x] \in Nat
  PROVE  SumFunctionOnSet(f, S) \in Nat
<1> DEFINE Bad == {n \in Nat : \E s \in SUBSET S :
                      Cardinality(s) = n /\ SumFunctionOnSet(f, s) \notin Nat}
<1>1. SUFFICES ASSUME Bad # {} PROVE FALSE
  <2>1. S \in SUBSET S /\ Cardinality(S) \in Nat
    BY FS_CardinalityType
  <2> QED
    BY <2>1
<1>2. PICK n \in Bad : \A m \in Bad : n <= m
  BY <1>1, LeastElement
<1>3. PICK s \in SUBSET S : Cardinality(s) = n /\ SumFunctionOnSet(f, s) \notin Nat
  BY <1>2
<1>4. IsFiniteSet(s)
  BY FS_Subset
<1>5. s # {}
  <2>1. SUFFICES ASSUME s = {} PROVE FALSE
    OBVIOUS
  <2>2. SumFunctionOnSet(f, s) = 0
    BY <1>4, <2>1, SumEquation
  <2> QED
    BY <1>3, <2>2
<1> DEFINE t == s \ {Pick(s)}
<1>6. Pick(s) \in s /\ t \in SUBSET S /\ Cardinality(t) \in Nat /\ Cardinality(t) < n /\ n \in Nat
  BY <1>2, <1>3, <1>5, SmallerWithout
<1>7. SumFunctionOnSet(f, s) = f[Pick(s)] + SumFunctionOnSet(f, t)
  BY <1>4, <1>5, SumEquation
<1>8. ~(n <= Cardinality(t))
  BY <1>6
<1>9. Cardinality(t) \notin Bad
  <2> HIDE DEF Bad
  <2> QED
    BY <1>2, <1>8
<1> HIDE DEF t
<1>10. SumFunctionOnSet(f, t) \in Nat
  BY <1>6, <1>9
<1> QED
  BY <1>3, <1>6, <1>7, <1>10

(* Any element may be taken out first. *)
LEMMA SumWithout ==
  ASSUME NEW S, IsFiniteSet(S), NEW f, \A x \in S : f[x] \in Nat, NEW e \in S
  PROVE  SumFunctionOnSet(f, S) = f[e] + SumFunctionOnSet(f, S \ {e})
<1> DEFINE Sum(s) == SumFunctionOnSet(f, s)
           Bad == {n \in Nat : \E s \in SUBSET S : \E x \in s :
                      Cardinality(s) = n /\ Sum(s) # f[x] + Sum(s \ {x})}
<1>1. SUFFICES ASSUME Bad # {} PROVE FALSE
  <2>1. S \in SUBSET S /\ Cardinality(S) \in Nat
    BY FS_CardinalityType
  <2> QED
    BY <2>1
<1>2. PICK n \in Bad : \A m \in Bad : n <= m
  BY <1>1, LeastElement
<1>3. PICK s \in SUBSET S : \E x \in s : Cardinality(s) = n /\ Sum(s) # f[x] + Sum(s \ {x})
  BY <1>2
<1>4. PICK x \in s : Cardinality(s) = n /\ Sum(s) # f[x] + Sum(s \ {x})
  BY <1>3
<1> DEFINE p == Pick(s)
           t == s \ {p}
<1>5. IsFiniteSet(s) /\ s # {}
  BY <1>4, FS_Subset
<1>6. p \in s /\ t \in SUBSET S /\ Cardinality(t) \in Nat /\ Cardinality(t) < n /\ n \in Nat
  BY <1>2, <1>4, <1>5, SmallerWithout
<1>7. Sum(s) = f[p] + Sum(t)
  BY <1>5, SumEquation
<1>8. ~(n <= Cardinality(t))
  BY <1>6
<1>9. Cardinality(t) \notin Bad
  <2> HIDE DEF Bad
  <2> QED
    BY <1>2, <1>8
<1>10. \A s1 \in SUBSET S : Sum(s1) \in Nat
  BY FS_Subset, SumType
<1> HIDE DEF p
<1>11. x # p
  BY <1>4, <1>7
<1>12. x \in t
  BY <1>11
<1>13. Sum(t) = f[x] + Sum(t \ {x})
  BY <1>6, <1>9, <1>12
<1>14. Sum(s \ {x}) = f[p] + Sum(t \ {x})
  <2> DEFINE u == s \ {x}
  <2>1. p \in u /\ t \ {x} = u \ {p} /\ u \in SUBSET S
    BY <1>6, <1>11
  <2>2. Cardinality(u) \in Nat /\ ~(n <= Cardinality(u))
    <3>1. IsFiniteSet(u) /\ Cardinality(u) = Cardinality(s) - 1
      BY <1>5, FS_RemoveElement
    <3>2. Cardinality(u) \in Nat
      BY <3>1, FS_CardinalityType
    <3> HIDE DEF u
    <3> QED
      BY <1>4, <1>6, <3>1, <3>2
  <2>3. Cardinality(u) \notin Bad
    <3> HIDE DEF Bad, u
    <3> QED
      BY <1>2, <2>2
  <2> HIDE DEF u
  <2>4. Sum(u) = f[p] + Sum(u \ {p})
    BY <2>1, <2>2, <2>3
  <2> QED
    BY <2>1, <2>4 DEF u
<1>15. f[p] \in Nat /\ f[x] \in Nat /\ Sum(t \ {x}) \in Nat /\ Sum(t) \in Nat /\ Sum(s \ {x}) \in Nat
  BY <1>4, <1>6, <1>10
<1> HIDE DEF t, Sum
<1> QED
  BY <1>4, <1>7, <1>13, <1>14, <1>15

(* Two functions with the same values on a set have the same sum.          *)
LEMMA SumSame ==
  ASSUME NEW S, IsFiniteSet(S), NEW f, NEW g, \A x \in S : f[x] = g[x]
  PROVE  SumFunctionOnSet(f, S) = SumFunctionOnSet(g, S)
<1>1. PICK h : IsSum(h, f, S)
  BY SumExists
<1>2. \A s \in SUBSET S : Turn(f, h, s) = Turn(g, h, s)
  BY DEF Turn, Pick
<1>3. IsSum(h, g, S)
  BY <1>1, <1>2 DEF IsSum
<1>4. S \in SUBSET S
  OBVIOUS
<1>5. SumFunctionOnSet(f, S) = h[S] /\ SumFunctionOnSet(g, S) = h[S]
  BY <1>1, <1>3, <1>4, SumIs
<1> QED
  BY <1>5

(* One value changes. *)
LEMMA SumChanges ==
  ASSUME NEW S, IsFiniteSet(S), NEW f, NEW g, NEW e \in S,
         \A x \in S : f[x] \in Nat /\ g[x] \in Nat,
         \A x \in S : x # e => g[x] = f[x]
  PROVE  SumFunctionOnSet(g, S) = SumFunctionOnSet(f, S) + (g[e] - f[e])
<1> DEFINE T == S \ {e}
<1>1. IsFiniteSet(T)
  BY FS_RemoveElement
<1>2. SumFunctionOnSet(f, T) = SumFunctionOnSet(g, T)
  BY <1>1, SumSame
<1>3. SumFunctionOnSet(f, T) \in Nat
  BY <1>1, SumType
<1>4. /\ SumFunctionOnSet(f, S) = f[e] + SumFunctionOnSet(f, T)
      /\ SumFunctionOnSet(g, S) = g[e] + SumFunctionOnSet(g, T)
  BY SumWithout
<1> HIDE DEF T
<1> QED
  BY <1>2, <1>3, <1>4

(* The sum of a pointwise sum.                                             *)
LEMMA SumAdds ==
  ASSUME NEW S, IsFiniteSet(S), NEW f, NEW g, NEW h,
         \A x \in S : f[x] \in Nat /\ g[x] \in Nat /\ h[x] = f[x] + g[x]
  PROVE  SumFunctionOnSet(h, S) = SumFunctionOnSet(f, S) + SumFunctionOnSet(g, S)
<1>1. PICK u : IsSum(u, f, S)
  BY SumExists
<1>2. PICK v : IsSum(v, g, S)
  BY SumExists
<1> DEFINE w == [s \in SUBSET S |-> u[s] + v[s]]
<1>3. \A s \in SUBSET S : u[s] \in Nat /\ v[s] \in Nat
  <2>1. SUFFICES ASSUME NEW s \in SUBSET S PROVE u[s] \in Nat /\ v[s] \in Nat
    OBVIOUS
  <2>2. IsFiniteSet(s)
    BY FS_Subset
  <2>3. SumFunctionOnSet(f, s) = u[s] /\ SumFunctionOnSet(g, s) = v[s]
    BY <1>1, <1>2, SumIs
  <2>4. SumFunctionOnSet(f, s) \in Nat /\ SumFunctionOnSet(g, s) \in Nat
    BY <2>2, SumType
  <2> QED
    BY <2>3, <2>4
<1>4. ASSUME NEW s \in SUBSET S PROVE w[s] = Turn(h, w, s)
  <2>1. u[s] = Turn(f, u, s) /\ v[s] = Turn(g, v, s)
    BY <1>1, <1>2 DEF IsSum
  <2>2. CASE s = {}
    BY <2>1, <2>2 DEF Turn
  <2>3. CASE s # {}
    <3> DEFINE t == s \ {Pick(s)}
    <3>1. Pick(s) \in S /\ t \in SUBSET S
      BY <2>3, SmallerWithout
    <3>2. u[s] = f[Pick(s)] + u[t] /\ v[s] = g[Pick(s)] + v[t]
      BY <2>1, <2>3 DEF Turn
    <3>3. Turn(h, w, s) = h[Pick(s)] + w[t]
      BY <2>3 DEF Turn
    <3> HIDE DEF t
    <3>4. /\ u[t] \in Nat /\ v[t] \in Nat /\ w[t] = u[t] + v[t]
          /\ f[Pick(s)] \in Nat /\ g[Pick(s)] \in Nat
          /\ h[Pick(s)] = f[Pick(s)] + g[Pick(s)]
      BY <1>3, <3>1
    <3> QED
      BY <3>2, <3>3, <3>4
  <2> QED
    BY <2>2, <2>3
<1>5. IsSum(w, h, S)
  BY <1>4 DEF IsSum
<1>6. /\ SumFunctionOnSet(f, S) = u[S]
      /\ SumFunctionOnSet(g, S) = v[S]
      /\ SumFunctionOnSet(h, S) = w[S]
  <2>1. S \in SUBSET S
    OBVIOUS
  <2> HIDE DEF w
  <2> QED
    BY <1>1, <1>2, <1>5, <2>1, SumIs
<1> QED
  BY <1>6

-----------------------------------------------------------------------------
(* Who sends what. *)

(* The number of its batch that a worker sends next, and the end of the    *)
(* batch.                                                                  *)
BatchNext(w) == batch[w].first_sequence + batch[w].offset
BatchEnd(w) == batch[w].first_sequence + batch[w].count

(* What was sent was taken, and what a worker has still to send is neither *)
(* sent nor in the hands of another worker.                                *)
RangeInv ==
  /\ \A s \in sent : s < next_sequence
  /\ \A w \in Worker : wpc[w] = "send" =>
       /\ BatchEnd(w) <= next_sequence
       /\ \A s \in sent : s < BatchNext(w) \/ BatchEnd(w) <= s
       /\ \A v \in Worker : v # w /\ wpc[v] = "send" =>
            BatchEnd(v) <= batch[w].first_sequence \/ BatchEnd(w) <= batch[v].first_sequence

SentInv == IsFiniteSet(sent) /\ Cardinality(sent) = Total("successful")

RecordSum(w) == SumFunctionOnSet([r \in trace[w] |-> r.count], trace[w])

Covers(r, s) == r.first <= s /\ s < r.first + r.count

TraceInv ==
  /\ \A w \in Worker : IsFiniteSet(trace[w]) /\ RecordSum(w) = stats[w].successful
  /\ \A w \in Worker : \A r \in trace[w] :
       r.count > 0 /\ \A s \in Nat : Covers(r, s) => s \in sent
  /\ \A s \in sent : \E w \in Worker : \E r \in trace[w] : Covers(r, s)

-----------------------------------------------------------------------------
LEMMA WorkersFinite == TypeInv => IsFiniteSet(Worker) /\ Worker \subseteq Nat
<1> SUFFICES ASSUME TypeInv PROVE IsFiniteSet(Worker) /\ Worker \subseteq Nat
  OBVIOUS
<1>1. threads - 1 \in Int
  BY Threaded DEF TypeInv
<1> QED
  BY <1>1, FS_Interval DEF Worker

LEMMA TotalIs ==
  ASSUME NEW c
  PROVE  Total(c) = SumFunctionOnSet([w \in Worker |-> stats[w][c]], Worker)
BY DEF Total, SumFunction

(* What WorkerTakesSequences() and WorkerSends() do.                       *)
LEMMA TakesFacts ==
  ASSUME Inv, NEW w \in Worker, WorkerTakesSequences(w)
  PROVE  /\ wpc[w] = "pace" /\ wpc'[w] = "send" /\ Worker' = Worker /\ Others(w)
         /\ batch'[w].count = batch[w].count /\ batch'[w].offset = batch[w].offset
         /\ batch'[w].first_sequence = next_sequence
         /\ next_sequence' = next_sequence + batch[w].count
         /\ UNCHANGED <<mode, sent, trace, packet_index, connected>>
         /\ batch[w].count \in Nat \ {0} /\ batch[w].offset \in Nat
         /\ \A v \in Worker : stats'[v].successful = stats[v].successful
<1>1. TypeInv /\ Worker' = Worker
  BY DEF Inv, WorkerTakesSequences, Worker, threads
<1>2. batch[w].offset < batch[w].count /\ batch[w].offset \in Nat /\ batch[w].count \in Nat
  BY <1>1 DEF Inv, BatchInv, WorkerTakesSequences, TypeInv, Batch
<1>3. \A v \in Worker : stats'[v].successful = stats[v].successful
  BY <1>1 DEF WorkerTakesSequences, TypeInv
<1>4. /\ wpc[w] = "pace" /\ wpc'[w] = "send" /\ Others(w)
      /\ next_sequence' = next_sequence + batch[w].count
      /\ UNCHANGED <<mode, sent, trace, packet_index, connected>>
  BY <1>1 DEF WorkerTakesSequences, SequencesTaken, TypeInv, Others
<1>5. /\ batch'[w].count = batch[w].count /\ batch'[w].offset = batch[w].offset
      /\ batch'[w].first_sequence = next_sequence
  BY <1>1 DEF WorkerTakesSequences, TypeInv, Batch
<1> QED
  BY <1>1, <1>2, <1>3, <1>4, <1>5

LEMMA SendsFacts ==
  ASSUME Inv, NEW w \in Worker, NEW n, WorkerSends(w, n)
  PROVE  /\ wpc[w] = "send" /\ wpc'[w] \in {"send", "loop"} /\ Worker' = Worker /\ Others(w)
         /\ n \in Nat \ {0} /\ batch[w].offset + n <= batch[w].count
         /\ batch'[w].count = batch[w].count /\ batch'[w].offset = batch[w].offset + n
         /\ batch'[w].first_sequence = batch[w].first_sequence
         /\ batch[w] \in Batch
         /\ sent' = sent \union (BatchNext(w) .. BatchNext(w) + n - 1)
         /\ trace' = [trace EXCEPT ![w] = @ \union {[first |-> BatchNext(w), count |-> n]}]
         /\ stats' = [stats EXCEPT ![w].successful = @ + n]
         /\ UNCHANGED <<mode, next_sequence, connected, claimed>>
<1>1. TypeInv /\ Worker' = Worker /\ batch[w] \in Batch
  BY DEF Inv, WorkerSends, Worker, threads, TypeInv
<1>2. /\ batch[w].offset \in Nat /\ batch[w].count \in Nat
      /\ n \in 1 .. batch[w].count - batch[w].offset
  BY <1>1 DEF Batch, WorkerSends
<1>3. /\ wpc[w] = "send" /\ wpc'[w] \in {"send", "loop"} /\ Others(w)
  BY <1>1 DEF WorkerSends, TypeInv, Others, BatchEnds
<1>4. /\ batch'[w].count = batch[w].count /\ batch'[w].offset = batch[w].offset + n
      /\ batch'[w].first_sequence = batch[w].first_sequence
  BY <1>1 DEF WorkerSends, TypeInv, Batch
<1>5. /\ sent' = sent \union (BatchNext(w) .. BatchNext(w) + n - 1)
      /\ trace' = [trace EXCEPT ![w] = @ \union {[first |-> BatchNext(w), count |-> n]}]
      /\ stats' = [stats EXCEPT ![w].successful = @ + n]
      /\ UNCHANGED <<mode, next_sequence, connected, claimed>>
  BY DEF WorkerSends, BatchNext, TraceRecord
<1>6. n \in Nat \ {0} /\ batch[w].offset + n <= batch[w].count
  BY <1>2
<1> QED
  BY <1>1, <1>3, <1>4, <1>5, <1>6

(* No other step sends or takes anything.                                  *)
Calm ==
  /\ Worker' = Worker
  /\ UNCHANGED <<mode, next_sequence, sent, trace>>
  /\ \A v \in Worker :
       /\ stats'[v].successful = stats[v].successful
       /\ wpc'[v] = "send" => wpc[v] = "send" /\ batch'[v] = batch[v]

LEMMA StepKinds ==
  ASSUME Inv, [Next]_vars
  PROVE  \/ Calm
         \/ \E w \in Worker : WorkerTakesSequences(w)
         \/ \E w \in Worker : \E n \in 1 .. BatchMax : WorkerSends(w, n)
<1>0. TypeInv
  BY DEF Inv
<1>1. CASE UNCHANGED vars \/ Tick \/ Sigint \/ Main \/ Exited
  BY <1>1 DEF Calm, Tick, Sigint, Main, MainArrives, MainWrites, MainReturns, Exited,
              vars, workerVars, historyVars, Worker, threads
<1>2. ASSUME NEW w \in Worker, WorkerStep(w), ~WorkerTakesSequences(w),
             ~ \E n \in 1 .. BatchMax : WorkerSends(w, n)
      PROVE  Calm
  <2>0. Worker' = Worker
    BY <1>2 DEF WorkerStep, WorkerSetup, WorkerPassesBarrier, WorkerStartsBatch,
                WorkerFinishes, WorkerIsInterrupted, WorkerFails, Worker, threads
  <2>1. ASSUME NEW ok \in BOOLEAN, WorkerSetup(w, ok) PROVE Calm
    BY <1>0, <2>0, <2>1 DEF WorkerSetup, Calm, historyVars, TypeInv
  <2>2. CASE WorkerPassesBarrier(w)
    BY <1>0, <2>0, <2>2 DEF WorkerPassesBarrier, Calm, historyVars, TypeInv
  <2>3. CASE WorkerStartsBatch(w)
    BY <1>0, <2>0, <2>3 DEF WorkerStartsBatch, Calm, historyVars, TypeInv
  <2>4. CASE WorkerFinishes(w)
    <3>1. \A v \in Worker : stats'[v].successful = stats[v].successful
      BY <1>0, <2>4 DEF WorkerFinishes, TypeInv
    <3> QED
      BY <1>0, <2>0, <2>4, <3>1 DEF WorkerFinishes, Calm, TypeInv
  <2>5. CASE WorkerIsInterrupted(w)
    BY <1>0, <2>0, <2>5 DEF WorkerIsInterrupted, BatchEnds, Calm, historyVars, TypeInv
  <2>6. CASE WorkerFails(w)
    <3>1. \A v \in Worker : stats'[v].successful = stats[v].successful
      BY <1>0, <2>6 DEF WorkerFails, TypeInv
    <3> QED
      BY <1>0, <2>0, <2>6, <3>1 DEF WorkerFails, BatchEnds, Calm, historyVars, TypeInv
  <2> QED
    BY <1>2, <2>1, <2>2, <2>3, <2>4, <2>5, <2>6 DEF WorkerStep
<1> QED
  BY <1>1, <1>2 DEF Next

(* The bounds of a batch in hand are numbers.                              *)
LEMMA BoundTypes ==
  ASSUME TypeInv, NEW w \in Worker
  PROVE  /\ BatchNext(w) \in Nat /\ BatchEnd(w) \in Nat
         /\ batch[w].first_sequence \in Nat /\ next_sequence \in Nat /\ sent \subseteq Nat
         /\ batch[w].first_sequence <= BatchNext(w)
BY DEF TypeInv, Batch, BatchNext, BatchEnd

LEMMA RangeInit == Init => RangeInv
BY DEF Init, RangeInv

LEMMA RangeStep ==
  ASSUME Inv, Inv', RangeInv, [Next]_vars
  PROVE  RangeInv'
<1> USE DEF RangeInv
<1>0. TypeInv /\ TypeInv'
  BY DEF Inv
<1>1. CASE Calm
  <2>1. \A v \in Worker : wpc'[v] = "send" =>
          /\ wpc[v] = "send" /\ batch'[v] = batch[v]
          /\ BatchNext(v)' = BatchNext(v) /\ BatchEnd(v)' = BatchEnd(v)
    BY <1>1 DEF Calm, BatchNext, BatchEnd
  <2> QED
    BY <1>1, <2>1 DEF Calm
<1>2. ASSUME NEW w \in Worker, WorkerTakesSequences(w) PROVE RangeInv'
  <2>1. /\ wpc'[w] = "send" /\ Worker' = Worker /\ sent' = sent /\ Others(w)
        /\ batch'[w].count = batch[w].count /\ batch[w].count \in Nat \ {0}
        /\ batch'[w].first_sequence = next_sequence
        /\ next_sequence' = next_sequence + batch[w].count
    BY <1>2, TakesFacts
  <2>2. BatchEnd(w)' = next_sequence' /\ BatchNext(w)' >= next_sequence
    <3>1. /\ BatchEnd(w)' = batch'[w].first_sequence + batch'[w].count
          /\ BatchNext(w)' = batch'[w].first_sequence + batch'[w].offset
      BY DEF BatchEnd, BatchNext
    <3>2. batch'[w].offset \in Nat /\ next_sequence \in Nat
      BY <1>0, <2>1 DEF TypeInv, Batch
    <3> QED
      BY <2>1, <3>1, <3>2
  <2>3. ASSUME NEW v \in Worker, v # w
        PROVE  /\ wpc'[v] = wpc[v] /\ batch'[v] = batch[v]
               /\ BatchEnd(v)' = BatchEnd(v) /\ BatchNext(v)' = BatchNext(v)
    BY <2>1, <2>3 DEF Others, BatchEnd, BatchNext
  <2>4. next_sequence \in Nat /\ next_sequence <= next_sequence' /\ next_sequence' \in Nat
    BY <1>0, <2>1 DEF TypeInv
  <2>5. \A s \in sent' : s < next_sequence'
    BY <1>0, <2>1, <2>4 DEF TypeInv
  <2>6. ASSUME NEW u \in Worker, wpc'[u] = "send"
        PROVE  /\ BatchEnd(u)' <= next_sequence'
               /\ \A s \in sent' : s < BatchNext(u)' \/ BatchEnd(u)' <= s
    <3>1. CASE u = w
      <4>1. BatchNext(w)' \in Nat
        <5>1. w \in Worker'
          BY <2>1
        <5>2. batch'[w] \in Batch
          BY <1>0, <5>1 DEF TypeInv
        <5> QED
          BY <5>2 DEF BatchNext, Batch
      <4>2. \A s \in sent : s < next_sequence /\ s \in Nat
        BY <1>0 DEF TypeInv
      <4> QED
        BY <2>1, <2>2, <2>4, <3>1, <4>1, <4>2
    <3>2. CASE u # w
      <4>1. /\ BatchEnd(u) <= next_sequence /\ BatchEnd(u) \in Nat
            /\ \A s \in sent : s < BatchNext(u) \/ BatchEnd(u) <= s
        BY <1>0, <2>3, <2>6, <3>2, BoundTypes
      <4> QED
        BY <2>1, <2>3, <2>4, <3>2, <4>1
    <3> QED
      BY <3>1, <3>2
  <2>7. ASSUME NEW u \in Worker, wpc'[u] = "send", NEW v \in Worker, v # u, wpc'[v] = "send"
        PROVE  BatchEnd(v)' <= batch'[u].first_sequence \/ BatchEnd(u)' <= batch'[v].first_sequence
    <3>1. CASE u = w
      BY <2>1, <2>3, <2>7, <3>1
    <3>2. CASE v = w
      BY <2>1, <2>3, <2>7, <3>2
    <3>3. CASE u # w /\ v # w
      BY <2>3, <2>7, <3>3
    <3> QED
      BY <3>1, <3>2, <3>3
  <2> QED
    BY <2>1, <2>5, <2>6, <2>7
<1>3. ASSUME NEW w \in Worker, NEW n \in 1 .. BatchMax, WorkerSends(w, n) PROVE RangeInv'
  <2>1. /\ wpc[w] = "send" /\ Worker' = Worker /\ Others(w) /\ next_sequence' = next_sequence
        /\ n \in Nat \ {0} /\ batch[w].offset + n <= batch[w].count
        /\ batch'[w].count = batch[w].count /\ batch'[w].offset = batch[w].offset + n
        /\ batch'[w].first_sequence = batch[w].first_sequence
        /\ batch[w] \in Batch
        /\ sent' = sent \union (BatchNext(w) .. BatchNext(w) + n - 1)
    BY <1>3, SendsFacts
  <2>2. /\ BatchEnd(w)' = BatchEnd(w) /\ BatchNext(w)' = BatchNext(w) + n
        /\ BatchNext(w) + n <= BatchEnd(w)
        /\ BatchNext(w) \in Nat /\ BatchEnd(w) \in Nat /\ batch[w].first_sequence \in Nat
        /\ batch[w].first_sequence <= BatchNext(w)
    <3>1. /\ BatchEnd(w)' = batch'[w].first_sequence + batch'[w].count
          /\ BatchNext(w)' = batch'[w].first_sequence + batch'[w].offset
      BY DEF BatchEnd, BatchNext
    <3> QED
      BY <2>1, <3>1 DEF BatchEnd, BatchNext, Batch
  <2>3. ASSUME NEW v \in Worker, v # w
        PROVE  /\ wpc'[v] = wpc[v] /\ batch'[v] = batch[v]
               /\ BatchEnd(v)' = BatchEnd(v) /\ BatchNext(v)' = BatchNext(v)
    BY <2>1, <2>3 DEF Others, BatchEnd, BatchNext
  <2>4. next_sequence \in Nat /\ sent \subseteq Nat /\ BatchEnd(w) <= next_sequence
    BY <1>0, <2>1 DEF TypeInv
  <2>5. \A s \in sent' : s \in sent \/ (s \in Nat /\ BatchNext(w) <= s /\ s < BatchNext(w) + n)
    BY <2>1, <2>2
  <2>6. \A s \in sent' : s < next_sequence'
    BY <2>1, <2>2, <2>4, <2>5
  <2>7. ASSUME NEW u \in Worker, wpc'[u] = "send"
        PROVE  /\ wpc[u] = "send" /\ BatchEnd(u)' = BatchEnd(u)
               /\ batch'[u].first_sequence = batch[u].first_sequence
    BY <2>1, <2>2, <2>3, <2>7
  <2>8. ASSUME NEW u \in Worker, wpc'[u] = "send", NEW s \in sent'
        PROVE  s < BatchNext(u)' \/ BatchEnd(u)' <= s
    <3>0. wpc[u] = "send" /\ BatchEnd(u)' = BatchEnd(u)
      BY <2>7, <2>8
    <3>1. CASE s \in sent
      <4>1. s < BatchNext(u) \/ BatchEnd(u) <= s
        BY <3>0, <3>1
      <4> QED
        BY <2>1, <2>2, <2>3, <2>4, <3>0, <3>1, <4>1
    <3>2. CASE s \in Nat /\ BatchNext(w) <= s /\ s < BatchNext(w) + n
      <4>1. CASE u = w
        BY <2>2, <3>2, <4>1
      <4>2. CASE u # w
        <5>1. BatchEnd(w) <= batch[u].first_sequence \/ BatchEnd(u) <= batch[w].first_sequence
          BY <2>1, <3>0, <4>2
        <5>2. /\ batch[u].first_sequence \in Nat /\ BatchEnd(u) \in Nat /\ BatchNext(u) \in Nat
              /\ batch[u].first_sequence <= BatchNext(u)
          BY <1>0, BoundTypes
        <5> QED
          BY <2>2, <2>3, <3>2, <4>2, <5>1, <5>2
      <4> QED
        BY <4>1, <4>2
    <3> QED
      BY <2>5, <2>8, <3>1, <3>2
  <2> QED
    BY <2>1, <2>6, <2>7, <2>8
<1> QED
  BY <1>1, <1>2, <1>3, StepKinds

-----------------------------------------------------------------------------
(* What is sent is new. *)
LEMMA SendsNew ==
  ASSUME Inv, RangeInv, NEW w \in Worker, NEW n, WorkerSends(w, n)
  PROVE  /\ sent \cap (BatchNext(w) .. BatchNext(w) + n - 1) = {}
         /\ BatchNext(w) \in Nat
<1>1. /\ wpc[w] = "send" /\ n \in Nat \ {0} /\ batch[w].offset + n <= batch[w].count
      /\ batch[w] \in Batch
  BY SendsFacts
<1>2. BatchNext(w) \in Nat /\ BatchEnd(w) \in Nat /\ BatchNext(w) + n <= BatchEnd(w)
  BY <1>1 DEF BatchNext, BatchEnd, Batch
<1>3. sent \subseteq Nat /\ \A s \in sent : s < BatchNext(w) \/ BatchEnd(w) <= s
  BY <1>1 DEF RangeInv, Inv, TypeInv
<1> QED
  BY <1>1, <1>2, <1>3

(* A function that is zero on a set sums up to twice its sum.              *)
LEMMA SumZero ==
  ASSUME NEW S, IsFiniteSet(S), NEW f, \A x \in S : f[x] = 0
  PROVE  SumFunctionOnSet(f, S) = 0
<1>1. \A x \in S : f[x] \in Nat /\ f[x] = f[x] + f[x]
  OBVIOUS
<1> DEFINE sum == SumFunctionOnSet(f, S)
<1>2. sum = sum + sum
  BY <1>1, SumAdds
<1>3. sum \in Nat
  BY <1>1, SumType
<1>4. sum = 0
  <2> HIDE DEF sum
  <2> QED
    BY <1>2, <1>3
<1> QED
  BY <1>4

LEMMA SentInit == Init => SentInv
<1> SUFFICES ASSUME Init PROVE SentInv
  OBVIOUS
<1>1. sent = {}
  BY DEF Init
<1>2. IsFiniteSet(sent) /\ Cardinality(sent) = 0
  BY <1>1, FS_EmptySet
<1>3. IsFiniteSet(Worker)
  BY InitInv, WorkersFinite DEF Inv
<1>4. \A w \in Worker : stats[w]["successful"] = 0
  BY DEF Init
<1>5. Total("successful") = 0
  BY <1>3, <1>4, TotalIs, SumZero
<1> QED
  BY <1>2, <1>5 DEF SentInv


(* Of a counter nobody counts in a step, and of one that one worker does.  *)
LEMMA TotalSame ==
  ASSUME TypeInv, Worker' = Worker, NEW c, \A v \in Worker : stats'[v][c] = stats[v][c]
  PROVE  Total(c)' = Total(c)
<1> DEFINE f == [v \in Worker |-> stats[v][c]]
           g == [v \in Worker |-> stats'[v][c]]
<1>1. Total(c) = SumFunctionOnSet(f, Worker)
  BY TotalIs
<1>2. Total(c)' = SumFunctionOnSet(g, Worker)
  BY DEF Total, SumFunction
<1>3. f = g
  OBVIOUS
<1> QED
  BY <1>1, <1>2, <1>3

LEMMA TotalGrows ==
  ASSUME TypeInv, TypeInv', Worker' = Worker, NEW w \in Worker,
         NEW c \in {"attempted", "successful", "failed"},
         \A v \in Worker : v # w => stats'[v][c] = stats[v][c]
  PROVE  Total(c)' = Total(c) + (stats'[w][c] - stats[w][c])
<1> DEFINE f == [v \in Worker |-> stats[v][c]]
           g == [v \in Worker |-> stats'[v][c]]
<1>1. Total(c) = SumFunctionOnSet(f, Worker)
  BY TotalIs
<1>2. Total(c)' = SumFunctionOnSet(g, Worker)
  BY DEF Total, SumFunction
<1>3. IsFiniteSet(Worker)
  BY WorkersFinite
<1>4. \A v \in Worker : f[v] \in Nat /\ g[v] \in Nat
  BY DEF TypeInv
<1>5. \A v \in Worker : v # w => g[v] = f[v]
  OBVIOUS
<1>6. f[w] = stats[w][c] /\ g[w] = stats'[w][c]
  OBVIOUS
<1> HIDE DEF f, g
<1>7. SumFunctionOnSet(g, Worker) = SumFunctionOnSet(f, Worker) + (g[w] - f[w])
  BY <1>3, <1>4, <1>5, SumChanges
<1> QED
  BY <1>1, <1>2, <1>6, <1>7

LEMMA SentStep ==
  ASSUME Inv, Inv', RangeInv, SentInv, [Next]_vars
  PROVE  SentInv'
<1>0. TypeInv /\ TypeInv'
  BY DEF Inv
<1>1. CASE Calm
  <2>1. Total("successful")' = Total("successful")
    BY <1>0, <1>1, TotalSame DEF Calm
  <2> QED
    BY <1>1, <2>1 DEF Calm, SentInv
<1>2. ASSUME NEW w \in Worker, WorkerTakesSequences(w) PROVE SentInv'
  <2>1. Worker' = Worker /\ sent' = sent /\ \A v \in Worker : stats'[v].successful = stats[v].successful
    BY <1>2, TakesFacts
  <2>2. Total("successful")' = Total("successful")
    BY <1>0, <2>1, TotalSame
  <2> QED
    BY <2>1, <2>2 DEF SentInv
<1>3. ASSUME NEW w \in Worker, NEW n \in 1 .. BatchMax, WorkerSends(w, n) PROVE SentInv'
  <2> DEFINE new == BatchNext(w) .. BatchNext(w) + n - 1
  <2>1. /\ Worker' = Worker /\ n \in Nat \ {0} /\ sent' = sent \union new
        /\ stats' = [stats EXCEPT ![w].successful = @ + n]
    BY <1>3, SendsFacts
  <2>2. sent \cap new = {} /\ BatchNext(w) \in Nat
    BY <1>3, SendsNew
  <2>3. IsFiniteSet(new) /\ Cardinality(new) = n
    <3>1. BatchNext(w) \in Int /\ BatchNext(w) + n - 1 \in Int /\ ~(BatchNext(w) > BatchNext(w) + n - 1)
      BY <2>1, <2>2
    <3>2. IsFiniteSet(new) /\ Cardinality(new) = (BatchNext(w) + n - 1) - BatchNext(w) + 1
      BY <3>1, FS_Interval
    <3> HIDE DEF new
    <3> QED
      BY <2>1, <2>2, <3>2
  <2> HIDE DEF new
  <2>4. IsFiniteSet(sent') /\ Cardinality(sent') = Cardinality(sent) + n
    <3>1. IsFiniteSet(sent) /\ Cardinality(sent) \in Nat
      BY FS_CardinalityType DEF SentInv
    <3>2. /\ IsFiniteSet(sent \union new)
          /\ Cardinality(sent \union new) = Cardinality(sent) + Cardinality(new) - Cardinality(sent \cap new)
      BY <2>3, <3>1, FS_Union
    <3>3. Cardinality(sent \cap new) = 0
      BY <2>2, FS_EmptySet
    <3> QED
      BY <2>1, <2>3, <3>1, <3>2, <3>3
  <2>5. Total("successful")' = Total("successful") + n
    <3>1. /\ \A v \in Worker : v # w => stats'[v]["successful"] = stats[v]["successful"]
          /\ stats'[w]["successful"] = stats[w]["successful"] + n
          /\ stats[w]["successful"] \in Nat
      BY <1>0, <2>1 DEF TypeInv
    <3>2. Total("successful")' = Total("successful") + (stats'[w]["successful"] - stats[w]["successful"])
      BY <1>0, <2>1, <3>1, TotalGrows
    <3> QED
      BY <2>1, <3>1, <3>2
  <2> QED
    BY <2>4, <2>5 DEF SentInv
<1> QED
  BY <1>1, <1>2, <1>3, StepKinds

-----------------------------------------------------------------------------
LEMMA TraceInit == Init => TraceInv
<1> SUFFICES ASSUME Init PROVE TraceInv
  OBVIOUS
<1>1. \A w \in Worker : trace[w] = {} /\ stats[w].successful = 0
  BY DEF Init
<1>2. ASSUME NEW w \in Worker PROVE IsFiniteSet(trace[w]) /\ RecordSum(w) = 0
  <2>1. trace[w] = {} /\ IsFiniteSet({})
    BY <1>1, FS_EmptySet
  <2>2. SumFunctionOnSet([r \in trace[w] |-> r.count], trace[w]) = 0
    BY <2>1, SumZero
  <2> QED
    BY <2>1, <2>2 DEF RecordSum
<1>3. sent = {}
  BY DEF Init
<1> QED
  BY <1>1, <1>2, <1>3 DEF TraceInv

LEMMA TraceStep ==
  ASSUME Inv, Inv', RangeInv, TraceInv, [Next]_vars
  PROVE  TraceInv'
<1>0. TypeInv /\ TypeInv'
  BY DEF Inv
<1>1. ASSUME Worker' = Worker, trace' = trace, sent' = sent,
             \A v \in Worker : stats'[v].successful = stats[v].successful
      PROVE  TraceInv'
  <2>1. \A v \in Worker : RecordSum(v)' = RecordSum(v)
    BY <1>1 DEF RecordSum
  <2>2. \A r, s : Covers(r, s)' = Covers(r, s)
    BY DEF Covers
  <2> QED
    BY <1>1, <2>1, <2>2 DEF TraceInv, Covers
<1>2. CASE Calm
  BY <1>1, <1>2 DEF Calm
<1>3. ASSUME NEW w \in Worker, WorkerTakesSequences(w) PROVE TraceInv'
  <2>1. /\ Worker' = Worker /\ trace' = trace /\ sent' = sent
        /\ \A v \in Worker : stats'[v].successful = stats[v].successful
    BY <1>3, TakesFacts
  <2> QED
    BY <1>1, <2>1
<1>4. ASSUME NEW w \in Worker, NEW n \in 1 .. BatchMax, WorkerSends(w, n) PROVE TraceInv'
  <2> DEFINE rec == [first |-> BatchNext(w), count |-> n]
             new == BatchNext(w) .. BatchNext(w) + n - 1
  <2>1. /\ Worker' = Worker /\ n \in Nat \ {0} /\ sent' = sent \union new
        /\ trace' = [trace EXCEPT ![w] = @ \union {rec}]
        /\ stats' = [stats EXCEPT ![w].successful = @ + n]
    BY <1>4, SendsFacts
  <2>2. sent \cap new = {} /\ BatchNext(w) \in Nat
    BY <1>4, SendsNew
  <2>3. /\ \A v \in Worker : trace[v] \subseteq [first : Nat, count : Nat]
        /\ trace'[w] = trace[w] \union {rec}
        /\ \A v \in Worker : v # w => trace'[v] = trace[v]
        /\ \A v \in Worker : v # w => stats'[v].successful = stats[v].successful
        /\ stats'[w].successful = stats[w].successful + n /\ stats[w].successful \in Nat
    BY <1>0, <2>1 DEF TypeInv
  <2>4. BatchNext(w) \notin sent /\ BatchNext(w) \in new
    BY <2>1, <2>2
  <2>5. rec \notin trace[w]
    <3>1. Covers(rec, BatchNext(w))
      BY <2>1, <2>2 DEF Covers
    <3> HIDE DEF rec
    <3> QED
      BY <2>2, <2>4, <3>1 DEF TraceInv
  <2>6. ASSUME NEW v \in Worker
        PROVE  IsFiniteSet(trace'[v]) /\ RecordSum(v)' = stats'[v].successful
    <3>1. CASE v # w
      <4>1. RecordSum(v)' = RecordSum(v)
        BY <2>3, <3>1 DEF RecordSum
      <4> QED
        BY <2>3, <3>1, <4>1 DEF TraceInv
    <3>2. CASE v = w
      <4> DEFINE T == trace[w]
                 U == trace'[w]
                 f == [r \in T |-> r.count]
                 g == [r \in U |-> r.count]
      <4>1. U = T \union {rec} /\ rec \notin T /\ IsFiniteSet(T) /\ U \ {rec} = T
        BY <2>3, <2>5 DEF TraceInv
      <4>2. IsFiniteSet(U)
        BY <4>1, FS_AddElement
      <4>3. \A r \in U : g[r] \in Nat
        BY <2>1, <2>2, <2>3
      <4>4. \A r \in T : f[r] = g[r]
        BY <4>1
      <4>5. g[rec] = n
        BY <4>1
      <4>6. RecordSum(w) = SumFunctionOnSet(f, T) /\ RecordSum(w)' = SumFunctionOnSet(g, U)
        BY DEF RecordSum
      <4> HIDE DEF rec, T, U, f, g
      <4>7. SumFunctionOnSet(g, U) = g[rec] + SumFunctionOnSet(g, U \ {rec})
        BY <4>1, <4>2, <4>3, SumWithout
      <4>8. SumFunctionOnSet(g, T) = SumFunctionOnSet(f, T)
        BY <4>1, <4>4, SumSame
      <4>9. RecordSum(w) = stats[w].successful
        BY DEF TraceInv
      <4>10. RecordSum(w)' = n + stats[w].successful
        BY <4>1, <4>5, <4>6, <4>7, <4>8, <4>9
      <4>11. RecordSum(w)' = stats'[w].successful
        BY <2>1, <2>3, <4>10
      <4> QED
        BY <3>2, <4>2, <4>11 DEF U
    <3> QED
      BY <3>1, <3>2
  <2>7. ASSUME NEW v \in Worker, NEW r \in trace'[v]
        PROVE  r.count > 0 /\ \A s \in Nat : Covers(r, s) => s \in sent'
    <3>1. CASE r \in trace[v]
      BY <2>1, <3>1 DEF TraceInv
    <3>2. CASE r = rec
      BY <2>1, <2>2, <3>2 DEF Covers
    <3> QED
      BY <2>3, <2>7, <3>1, <3>2
  <2>8. ASSUME NEW s \in sent' PROVE \E v \in Worker : \E r \in trace'[v] : Covers(r, s)
    <3>1. CASE s \in sent
      <4>1. PICK v \in Worker : \E r \in trace[v] : Covers(r, s)
        BY <3>1 DEF TraceInv
      <4>2. trace[v] \subseteq trace'[v]
        BY <2>3
      <4> QED
        BY <4>1, <4>2
    <3>2. CASE s \in new
      <4>1. Covers(rec, s) /\ rec \in trace'[w]
        BY <2>1, <2>2, <2>3, <3>2 DEF Covers
      <4> QED
        BY <4>1
    <3> QED
      BY <2>1, <2>8, <3>1, <3>2
  <2> QED
    BY <2>1, <2>6, <2>7, <2>8 DEF TraceInv, Covers
<1> QED
  BY <1>2, <1>3, <1>4, StepKinds

-----------------------------------------------------------------------------
(* The accounts of the workers, and how the run ends. *)

(* The messages of its batch that a worker has still to send.              *)
Unsent(w) == IF wpc[w] = "send" THEN batch[w].count - batch[w].offset ELSE 0

(* Every attempt of a worker is a success, a failure or still to be sent;  *)
(* only SIGINT makes it give one up. A worker without a socket attempts    *)
(* nothing before it is done.                                              *)
AccountOf(w) ==
  /\ stats[w].successful + stats[w].failed + Unsent(w) <= stats[w].attempted
  /\ ~stop_requested =>
       stats[w].successful + stats[w].failed + Unsent(w) = stats[w].attempted
  /\ ~connected[w] => wpc[w] \in {"setup", "barrier", "loop", "done"}
  /\ wpc[w] = "setup" \/ (~connected[w] /\ wpc[w] # "done") => stats[w].attempted = 0
  /\ wpc[w] = "pace" => batch[w].offset = 0

AccountInv == \A w \in Worker : AccountOf(w)

(* How a worker left the loop, and what main() knows when it returns.      *)
Ended(w) == ~connected[w] \/ stop_requested \/ w \in late \/ packet_index[w] >= packet_limit

ExitInv ==
  /\ mainpc \in {"written", "unwritten", "exit"} => \A w \in Worker : wpc[w] = "done"
  /\ exit_code # NotExited => mainpc = "exit"
  /\ said_interrupted => stop_requested
  /\ exit_code = 0 => ~stop_requested
  /\ \A w \in Worker : wpc[w] = "done" => Ended(w)

-----------------------------------------------------------------------------
LEMMA AccountInit == Init => AccountInv
<1> SUFFICES ASSUME Init, NEW w \in Worker PROVE AccountOf(w)
  BY DEF AccountInv
<1>1. /\ wpc[w] = "setup" /\ stats[w].attempted = 0 /\ stats[w].successful = 0
      /\ stats[w].failed = 0
  BY DEF Init
<1>2. Unsent(w) = 0
  BY <1>1 DEF Unsent
<1> QED
  BY <1>1, <1>2 DEF AccountOf

LEMMA AccountKept ==
  ASSUME NEW w, wpc'[w] = wpc[w], batch'[w] = batch[w], stats'[w] = stats[w],
         connected'[w] = connected[w], stop_requested => stop_requested', AccountOf(w)
  PROVE  AccountOf(w)'
<1>1. Unsent(w)' = Unsent(w)
  BY DEF Unsent
<1> QED
  BY <1>1 DEF AccountOf

(* A worker's step is its own. *)
LEMMA OwnStep ==
  ASSUME Inv, NEW w \in Worker, WorkerStep(w)
  PROVE  /\ Worker' = Worker /\ UNCHANGED <<mode, now, stop_requested, mainVars>>
         /\ wpc[w] # "done"
         /\ \A v \in Worker : v # w =>
              /\ wpc'[v] = wpc[v] /\ batch'[v] = batch[v] /\ stats'[v] = stats[v]
              /\ connected'[v] = connected[v] /\ packet_index'[v] = packet_index[v]
         /\ late \subseteq late'
<1> USE DEF WorkerStep, WorkerSetup, WorkerPassesBarrier, WorkerStartsBatch, WorkerFinishes,
            WorkerTakesSequences, WorkerSends, WorkerIsInterrupted, WorkerFails, BatchEnds
<1>1. UNCHANGED <<mode, now, stop_requested, mainVars>> /\ wpc[w] # "done"
  OBVIOUS
<1>2. Worker' = Worker
  BY <1>1 DEF Worker, threads
<1>3. late \subseteq late'
  BY DEF historyVars
<1>4. \A v \in Worker : v # w =>
              /\ wpc'[v] = wpc[v] /\ batch'[v] = batch[v]
              /\ connected'[v] = connected[v] /\ packet_index'[v] = packet_index[v]
  BY DEF Inv, TypeInv
<1>5. \A v \in Worker : v # w => stats'[v] = stats[v]
  BY DEF Inv, TypeInv
<1> QED
  BY <1>1, <1>2, <1>3, <1>4, <1>5

LEMMA AccountStep ==
  ASSUME Inv, Inv', AccountInv, [Next]_vars
  PROVE  AccountInv'
<1>0. TypeInv /\ TypeInv'
  BY DEF Inv
<1>1. CASE UNCHANGED vars \/ Tick \/ Sigint \/ Main \/ Exited
  <2>1. /\ Worker' = Worker /\ UNCHANGED <<wpc, batch, stats, connected>>
        /\ stop_requested => stop_requested'
    BY <1>1 DEF Tick, Sigint, Main, MainArrives, MainWrites, MainReturns, Exited,
                vars, workerVars, Worker, threads
  <2> QED
    BY <2>1, AccountKept DEF AccountInv
<1>2. ASSUME NEW w \in Worker, WorkerStep(w) PROVE AccountInv'
  <2>1. /\ Worker' = Worker /\ stop_requested' = stop_requested
        /\ \A v \in Worker : v # w =>
              /\ wpc'[v] = wpc[v] /\ batch'[v] = batch[v] /\ stats'[v] = stats[v]
              /\ connected'[v] = connected[v]
    BY <1>2, OwnStep
  <2>2. \A v \in Worker : v # w => AccountOf(v)'
    BY <2>1, AccountKept DEF AccountInv
  <2>3. AccountOf(w)
    BY DEF AccountInv
  <2>4. /\ stats[w].attempted \in Nat /\ stats[w].successful \in Nat /\ stats[w].failed \in Nat
        /\ batch[w].count \in Nat /\ batch[w].offset \in Nat
    BY <1>0 DEF TypeInv, Batch
  <2>5. ASSUME stats' = stats, wpc[w] \in {"setup", "barrier", "loop"},
               wpc'[w] \in {"barrier", "loop", "pace"},
               connected'[w] = connected[w] \/ wpc[w] = "setup",
               wpc'[w] = "pace" => connected'[w] /\ batch'[w].offset = 0
        PROVE  AccountOf(w)'
    <3>1. Unsent(w)' = 0 /\ Unsent(w) = 0
      BY <2>5 DEF Unsent
    <3> QED
      BY <2>1, <2>3, <2>4, <2>5, <3>1 DEF AccountOf
  <2>6. ASSUME NEW ok \in BOOLEAN, WorkerSetup(w, ok) PROVE AccountOf(w)'
    BY <1>0, <2>5, <2>6 DEF WorkerSetup, TypeInv
  <2>7. ASSUME WorkerPassesBarrier(w) PROVE AccountOf(w)'
    BY <1>0, <2>5, <2>7 DEF WorkerPassesBarrier, TypeInv
  <2>8. ASSUME WorkerStartsBatch(w) PROVE AccountOf(w)'
    BY <1>0, <2>5, <2>8 DEF WorkerStartsBatch, KeepSending, NoBatch, TypeInv
  <2>9. ASSUME WorkerFinishes(w) PROVE AccountOf(w)'
    <3>1. /\ wpc[w] = "loop" /\ wpc'[w] = "done" /\ connected' = connected
          /\ ~connected[w] => /\ stats'[w].attempted = 1 /\ stats'[w].failed = 1
                              /\ stats'[w].successful = stats[w].successful
          /\ connected[w] => stats' = stats
      BY <1>0, <2>9 DEF WorkerFinishes, TypeInv
    <3>2. Unsent(w)' = 0 /\ Unsent(w) = 0
      BY <3>1 DEF Unsent
    <3>3. ~connected[w] => stats[w].successful = 0
      BY <2>3, <2>4, <3>1, <3>2 DEF AccountOf
    <3> QED
      BY <2>1, <2>3, <2>4, <3>1, <3>2, <3>3 DEF AccountOf
  <2>10. ASSUME WorkerTakesSequences(w) PROVE AccountOf(w)'
    <3>1. /\ wpc[w] = "pace" /\ wpc'[w] = "send" /\ connected' = connected
          /\ stats'[w].attempted = stats[w].attempted + batch[w].count
          /\ stats'[w].successful = stats[w].successful /\ stats'[w].failed = stats[w].failed
      BY <1>0, <2>10 DEF WorkerTakesSequences, TypeInv
    <3>2. batch'[w].count = batch[w].count /\ batch'[w].offset = batch[w].offset
      BY <1>2, <2>10, TakesFacts
    <3>3. Unsent(w)' = batch[w].count - batch[w].offset /\ Unsent(w) = 0
      BY <3>1, <3>2 DEF Unsent
    <3>4. connected[w]
      BY <2>3, <3>1 DEF AccountOf
    <3>5. batch[w].offset = 0
      BY <2>3, <3>1 DEF AccountOf
    <3> QED
      BY <2>1, <2>3, <2>4, <3>1, <3>3, <3>4, <3>5 DEF AccountOf
  <2>11. ASSUME NEW n \in 1 .. BatchMax, WorkerSends(w, n) PROVE AccountOf(w)'
    <3>1. /\ wpc[w] = "send" /\ wpc'[w] \in {"send", "loop"} /\ connected' = connected
          /\ n \in Nat \ {0} /\ batch[w].offset + n <= batch[w].count
          /\ batch'[w].count = batch[w].count /\ batch'[w].offset = batch[w].offset + n
          /\ stats' = [stats EXCEPT ![w].successful = @ + n]
      BY <2>11, SendsFacts
    <3>2. /\ stats'[w].attempted = stats[w].attempted /\ stats'[w].failed = stats[w].failed
          /\ stats'[w].successful = stats[w].successful + n
      BY <1>0, <3>1 DEF TypeInv
    <3>3. wpc'[w] = "loop" => batch[w].offset + n = batch[w].count
      BY <1>0, <2>11 DEF WorkerSends, TypeInv
    <3>4. Unsent(w)' = Unsent(w) - n /\ Unsent(w) = batch[w].count - batch[w].offset
      BY <2>4, <3>1, <3>3 DEF Unsent
    <3> QED
      BY <2>1, <2>3, <2>4, <3>1, <3>2, <3>4 DEF AccountOf
  <2>12. ASSUME WorkerIsInterrupted(w) PROVE AccountOf(w)'
    <3>1. /\ wpc[w] = "send" /\ connected' = connected /\ stats' = stats /\ batch' = batch
          /\ wpc'[w] = IF stop_requested THEN "loop" ELSE "send"
      BY <1>0, <2>12 DEF WorkerIsInterrupted, BatchEnds, TypeInv
    <3>2. Unsent(w)' = IF stop_requested THEN 0 ELSE Unsent(w)
      BY <3>1 DEF Unsent
    <3>3. Unsent(w) = batch[w].count - batch[w].offset /\ batch[w].offset < batch[w].count
      BY <3>1 DEF Unsent, Inv, BatchInv
    <3> QED
      BY <2>1, <2>3, <2>4, <3>1, <3>2, <3>3 DEF AccountOf
  <2>13. ASSUME WorkerFails(w) PROVE AccountOf(w)'
    <3>1. /\ wpc[w] = "send" /\ connected' = connected /\ wpc'[w] = "loop"
          /\ stats'[w].attempted = stats[w].attempted
          /\ stats'[w].successful = stats[w].successful
          /\ stats'[w].failed = stats[w].failed + Failed(w)
      BY <1>0, <2>13 DEF WorkerFails, BatchEnds, TypeInv
    <3>2. Unsent(w)' = 0 /\ Unsent(w) = Failed(w) /\ Failed(w) \in Nat
      BY <2>4, <3>1, SendFacts DEF Unsent, Failed
    <3> QED
      BY <2>1, <2>3, <2>4, <3>1, <3>2 DEF AccountOf
  <2> QED
    BY <1>2, <2>1, <2>2, <2>6, <2>7, <2>8, <2>9, <2>10, <2>11, <2>12, <2>13
       DEF AccountInv, WorkerStep
<1> QED
  BY <1>1, <1>2 DEF Next

LEMMA ExitInit == Init => ExitInv
BY DEF Init, ExitInv, NotExited

LEMMA LimitType == packet_limit \in Int
<1>1. Duration * Rate \in Int /\ Second \in Nat \ {0}
  BY SenderAssumption, PacingAssumption
<1> QED
  BY <1>1 DEF packet_limit, scheduled_packet_count

LEMMA ExitStep ==
  ASSUME Inv, Inv', ExitInv, [Next]_vars
  PROVE  ExitInv'
<1> USE DEF ExitInv
<1>0. TypeInv /\ TypeInv'
  BY DEF Inv
<1>1. CASE UNCHANGED vars \/ Tick \/ Sigint \/ Main \/ Exited
  <2>1. /\ Worker' = Worker /\ UNCHANGED <<wpc, connected, late, packet_index>>
        /\ stop_requested => stop_requested'
    BY <1>1 DEF Tick, Sigint, Main, MainArrives, MainWrites, MainReturns, Exited,
                vars, workerVars, historyVars, Worker, threads
  <2>2. \A w \in Worker' : wpc'[w] = "done" => Ended(w)'
    BY <2>1 DEF Ended
  <2>3. CASE UNCHANGED vars \/ Tick \/ Exited
    BY <2>1, <2>2, <2>3 DEF Tick, Exited, vars, mainVars
  <2>4. CASE Sigint
    BY <2>1, <2>2, <2>4 DEF Sigint, mainVars, NotExited
  <2>5. CASE MainArrives
    BY <2>1, <2>2, <2>5 DEF MainArrives, NotExited
  <2>6. ASSUME NEW trace_ok \in BOOLEAN, NEW stats_ok \in BOOLEAN, MainWrites(trace_ok, stats_ok)
        PROVE  ExitInv'
    BY <1>0, <2>1, <2>2, <2>6 DEF MainWrites, NotExited, TypeInv
  <2>7. CASE MainReturns
    BY <1>0, <2>1, <2>2, <2>7 DEF MainReturns, Succeeded, NotExited
  <2> QED
    BY <1>1, <2>3, <2>4, <2>5, <2>6, <2>7 DEF Main
<1>2. ASSUME NEW w \in Worker, WorkerStep(w) PROVE ExitInv'
  <2>1. /\ Worker' = Worker
        /\ UNCHANGED <<mode, now, stop_requested, mainVars>>
        /\ wpc[w] # "done"
        /\ \A v \in Worker : v # w =>
              /\ wpc'[v] = wpc[v] /\ connected'[v] = connected[v]
              /\ packet_index'[v] = packet_index[v]
        /\ late \subseteq late'
    BY <1>2, OwnStep
  <2>2. mainpc \notin {"written", "unwritten", "exit"}
    BY <2>1
  <2>3. \A v \in Worker : v # w => (wpc'[v] = "done" => Ended(v)')
    BY <2>1 DEF Ended
  <2>4. wpc'[w] = "done" => Ended(w)'
    <3>1. SUFFICES ASSUME wpc'[w] = "done" PROVE Ended(w)'
      OBVIOUS
    <3>2. WorkerFinishes(w)
      BY <1>0, <1>2, <3>1 DEF WorkerStep, WorkerSetup, WorkerPassesBarrier, WorkerStartsBatch,
         WorkerTakesSequences, WorkerSends, WorkerIsInterrupted, WorkerFails, BatchEnds, TypeInv
    <3>3. packet_index[w] \in Nat /\ packet_limit \in Int /\ now \in Nat /\ end \in Nat
      BY <1>0, LimitType, SenderAssumption DEF TypeInv, end, start
    <3>4. ~KeepSending(w) /\ UNCHANGED <<connected, packet_index, stop_requested>>
          /\ late' = IF connected[w] /\ now >= end /\ packet_index[w] < packet_limit
                       THEN late \union {w} ELSE late
      BY <3>2 DEF WorkerFinishes
    <3>5. packet_limit' = packet_limit
      BY DEF packet_limit
    <3> HIDE DEF packet_limit, end
    <3> QED
      BY <3>3, <3>4, <3>5 DEF Ended, KeepSending
  <2> QED
    BY <2>1, <2>2, <2>3, <2>4 DEF mainVars
<1> QED
  BY <1>1, <1>2 DEF Next

-----------------------------------------------------------------------------
(* The properties follow. *)

LEMMA SentOnce == Inv /\ RangeInv /\ SentInv => EachSequenceSentOnce
<1> SUFFICES ASSUME Inv, RangeInv, SentInv PROVE EachSequenceSentOnce
  OBVIOUS
<1>1. sent \subseteq Nat /\ next_sequence \in Nat
  BY DEF Inv, TypeInv
<1>2. sent \subseteq 0 .. next_sequence - 1
  BY <1>1 DEF RangeInv
<1> QED
  BY <1>2 DEF EachSequenceSentOnce, SentInv

LEMMA Reconciles == Inv /\ TraceInv => TraceReconciles
<1> SUFFICES ASSUME Inv, TraceInv PROVE TraceReconciles
  OBVIOUS
<1>1. /\ sent \subseteq Nat
      /\ \A w \in Worker : trace[w] \subseteq [first : Nat, count : Nat]
  BY DEF Inv, TypeInv
<1> DEFINE Of(r) == r.first .. r.first + r.count - 1
           Records == UNION {trace[w] : w \in Worker}
<1>2. \A w \in Worker : \A r \in trace[w] : \A s : s \in Of(r) <=> s \in Nat /\ Covers(r, s)
  BY <1>1 DEF Covers
<1> HIDE DEF Of
<1>3. UNION {Of(r) : r \in Records} = sent
  <2>1. ASSUME NEW r \in Records, NEW s \in Of(r) PROVE s \in sent
    BY <1>2, <2>1 DEF TraceInv
  <2>2. ASSUME NEW s \in sent PROVE \E r \in Records : s \in Of(r)
    <3>1. s \in Nat /\ \E w \in Worker : \E r \in trace[w] : Covers(r, s)
      BY <1>1 DEF TraceInv
    <3> QED
      BY <1>2, <3>1
  <2> HIDE DEF Records
  <2> QED
    BY <2>1, <2>2
<1>4. Total("successful") = SumFunction([w \in Worker |->
        SumFunctionOnSet([r \in trace[w] |-> r.count], trace[w])])
  <2> DEFINE f == [w \in Worker |-> stats[w]["successful"]]
             g == [w \in Worker |-> SumFunctionOnSet([r \in trace[w] |-> r.count], trace[w])]
  <2>1. \A w \in Worker : f[w] = g[w]
    BY DEF TraceInv, RecordSum
  <2>2. f = g
    BY <2>1
  <2>3. Total("successful") = SumFunction(f)
    BY DEF Total
  <2> QED
    BY <2>2, <2>3
<1> QED
  BY <1>3, <1>4 DEF TraceReconciles, Of, Records

LEMMA Accounted == Inv /\ AccountInv /\ ExitInv => InterruptedRunFails
<1> SUFFICES ASSUME Inv, AccountInv, ExitInv PROVE InterruptedRunFails
  OBVIOUS
<1> DEFINE s == [w \in Worker |-> stats[w]["successful"]]
           f == [w \in Worker |-> stats[w]["failed"]]
           a == [w \in Worker |-> stats[w]["attempted"]]
           h == [w \in Worker |-> s[w] + f[w]]
           d == [w \in Worker |-> a[w] - (s[w] + f[w])]
           Sum(x) == SumFunctionOnSet(x, Worker)
<1>1. IsFiniteSet(Worker)
  BY WorkersFinite DEF Inv
<1>2. ASSUME NEW w \in Worker
      PROVE  s[w] \in Nat /\ f[w] \in Nat /\ a[w] \in Nat /\ s[w] + f[w] + Unsent(w) <= a[w]
             /\ Unsent(w) \in Nat
  <2>1. /\ s[w] \in Nat /\ f[w] \in Nat /\ a[w] \in Nat
        /\ s[w] + f[w] + Unsent(w) <= a[w]
    BY DEF AccountInv, AccountOf, Inv, TypeInv
  <2>2. Unsent(w) \in Nat
    BY DEF Unsent, Inv, TypeInv, BatchInv, Batch
  <2> QED
    BY <2>1, <2>2
<1>3. /\ Total("successful") = Sum(s) /\ Total("failed") = Sum(f) /\ Total("attempted") = Sum(a)
  BY TotalIs
<1>4. \A w \in Worker : h[w] = s[w] + f[w] /\ d[w] = a[w] - h[w]
  OBVIOUS
<1> HIDE DEF s, f, a, h, d
<1>5. \A w \in Worker : h[w] \in Nat /\ d[w] \in Nat /\ a[w] = h[w] + d[w]
  BY <1>2, <1>4
<1>6. Sum(h) = Sum(s) + Sum(f) /\ Sum(a) = Sum(h) + Sum(d)
  <2>1. Sum(h) = Sum(s) + Sum(f)
    BY <1>1, <1>2, <1>4, SumAdds
  <2>2. Sum(a) = Sum(h) + Sum(d)
    BY <1>1, <1>5, SumAdds
  <2> QED
    BY <2>1, <2>2
<1>7. Sum(s) \in Nat /\ Sum(f) \in Nat /\ Sum(d) \in Nat
  BY <1>1, <1>2, <1>5, SumType
<1> HIDE DEF Sum
<1>8. Total("successful") + Total("failed") <= Total("attempted")
  BY <1>3, <1>6, <1>7
<1>9. ASSUME exit_code = 0
      PROVE  /\ ~said_interrupted
             /\ Total("attempted") = Total("successful") + Total("failed")
             /\ \A w \in Worker :
                  wpc[w] = "done" /\ (~connected[w] \/ w \in late \/ mode = "flood"
                                        \/ packet_index[w] >= packet_limit)
  <2>1. /\ ~said_interrupted /\ ~stop_requested
        /\ \A w \in Worker : wpc[w] = "done" /\ Ended(w)
    BY <1>9 DEF ExitInv, NotExited
  <2>2. \A w \in Worker : d[w] = 0
    <3>1. SUFFICES ASSUME NEW w \in Worker PROVE d[w] = 0
      OBVIOUS
    <3>2. stats[w].successful + stats[w].failed + Unsent(w) = stats[w].attempted
          /\ Unsent(w) = 0
      BY <2>1 DEF AccountInv, AccountOf, Unsent
    <3>3. s[w] + f[w] = a[w]
      BY <1>2, <3>2 DEF s, f, a
    <3> QED
      BY <1>2, <1>4, <3>3
  <2>3. Sum(d) = 0
    BY <1>1, <2>2, SumZero DEF Sum
  <2> QED
    BY <1>3, <1>6, <1>7, <2>1, <2>3 DEF Ended
<1> QED
  BY <1>8, <1>9 DEF InterruptedRunFails

-----------------------------------------------------------------------------
(* Arithmetic of the workers' strides. *)
LEMMA Multiples ==
  ASSUME NEW t \in Nat \ {0}, NEW a \in Nat, NEW b \in Nat
  PROVE  /\ a * t \in Nat
         /\ (a + b) * t = a * t + b * t
         /\ a < b => a * t + t <= b * t
<1>1. a * t \in Nat /\ (a + b) * t = a * t + b * t
  OBVIOUS
<1>2. ASSUME a < b PROVE a * t + t <= b * t
  <2>1. b - a - 1 \in Nat
    BY <1>2
  <2>2. (b - a - 1) * t \in Nat /\ b * t = a * t + t + (b - a - 1) * t
    BY <2>1
  <2> QED
    BY <1>1, <2>2
<1> QED
  BY <1>1, <1>2

LEMMA StrideOrder ==
  ASSUME NEW t \in Nat \ {0}, NEW w \in Nat, NEW a \in Nat, NEW b \in Nat
  PROVE  w + a * t < w + b * t <=> a < b
<1>1. a * t \in Nat /\ b * t \in Nat
  BY Multiples
<1>2. a < b => a * t + t <= b * t
  BY Multiples
<1>3. b < a => b * t + t <= a * t
  BY Multiples
<1> DEFINE A == a * t
           B == b * t
<1>4. a = b => A = B
  OBVIOUS
<1> HIDE DEF A, B
<1>5. w + A < w + B <=> a < b
  BY <1>1, <1>2, <1>3, <1>4 DEF A, B
<1> QED
  BY <1>5 DEF A, B

(* The workers' strided shares of the packet numbers do not overlap. *)
LEMMA StrideUnique ==
  ASSUME NEW t \in Nat \ {0}, NEW v \in 0 .. t - 1, NEW w \in 0 .. t - 1,
         NEW a \in Nat, NEW b \in Nat, v + a * t = w + b * t
  PROVE  v = w /\ a = b
<1>1. a * t \in Nat /\ b * t \in Nat
  BY Multiples
<1>2. a < b => a * t + t <= b * t
  BY Multiples
<1>3. b < a => b * t + t <= a * t
  BY Multiples
<1> DEFINE A == a * t
           B == b * t
<1>4. a = b => A = B
  OBVIOUS
<1>5. v + A = w + B
  OBVIOUS
<1> HIDE DEF A, B
<1> QED
  BY <1>1, <1>2, <1>3, <1>4, <1>5 DEF A, B

(* And every packet number is in one of them. *)
LEMMA StrideCovers ==
  ASSUME NEW t \in Nat \ {0}, NEW i \in Nat
  PROVE  /\ i % t \in 0 .. t - 1 /\ i \div t \in Nat
         /\ i = (i % t) + (i \div t) * t
OBVIOUS

(* The packets of a paced batch are in the schedule. *)
LEMMA CountBound ==
  ASSUME TypeInv, mode # "flood", NEW w \in Worker, KeepSending(w), BatchCount(w) # 0,
         NEW k \in Nat, k < BatchCount(w)
  PROVE  packet_index[w] + k * threads < packet_limit
<1> DEFINE i == packet_index[w]
<1>1. i \in Nat /\ mode \in {"steady", "burst"} /\ threads \in Nat \ {0}
  BY Threaded DEF TypeInv
<1>2. packet_limit \in Int /\ i < packet_limit
  BY LimitType DEF KeepSending
<1>3. BatchMax \in Nat \ {0} /\ BurstSize \in Nat \ {0}
  BY SenderAssumption
<1> HIDE DEF i
<1>4. CASE mode = "burst"
  <2> DEFINE p == BurstSize - (i % BurstSize)
             q == packet_limit - i
             S == {BatchMax, p, q}
  <2>1. p \in Nat \ {0} /\ q \in Nat \ {0}
    BY <1>1, <1>2, <1>3
  <2>2. BatchCount(w) = CHOOSE x \in S : \A y \in S : x <= y
    BY <1>4 DEF BatchCount, i
  <2> HIDE DEF p, q
  <2>3. \E x \in S : \A y \in S : x <= y
    BY <1>3, <2>1
  <2>4. BatchCount(w) \in S /\ BatchCount(w) <= q
    BY <2>2, <2>3
  <2>5. threads = 1
    BY <1>4 DEF threads
  <2>6. BatchCount(w) \in Nat
    BY <1>3, <2>1, <2>4
  <2>7. k < q /\ k * threads = k
    BY <2>1, <2>4, <2>5, <2>6
  <2> QED
    BY <1>1, <1>2, <2>7 DEF i, q
<1>5. CASE mode = "steady"
  <2>1. BatchCount(w) = adaptive_batch_count(i, packet_limit, threads, Rate, BatchMax, Window)
    BY <1>5 DEF BatchCount, i
  <2>2. /\ BatchCount(w) \in 1 .. BatchMax
        /\ \A c \in 1 .. BatchCount(w) - 1 :
             MayExtend(i, c, packet_limit, threads, Rate, Window)
    BY <1>1, <1>2, <2>1, AdaptiveCount
  <2>3. CASE k = 0
    <3>1. k * threads = 0
      BY <1>1, <2>3
    <3> QED
      BY <1>1, <1>2, <3>1 DEF i
  <2>4. CASE k # 0
    <3>1. MayExtend(i, k, packet_limit, threads, Rate, Window)
      BY <1>3, <2>2, <2>4
    <3> QED
      BY <3>1 DEF MayExtend, i
  <2> QED
    BY <2>3, <2>4
<1> QED
  BY <1>1, <1>4, <1>5

-----------------------------------------------------------------------------
(* What is claimed of the schedule. *)

(* The first packet number of the worker's share that it has not claimed.  *)
Reached(w) == IF wpc[w] = "send" THEN NextIndex(w) ELSE packet_index[w]

Slots(w) == {packet_index[w] + k * threads : k \in 0 .. batch[w].count - 1}

(* The packets of the schedule that a worker has tried to send.            *)
Started == [w \in Worker |-> IF connected[w] THEN stats[w].attempted ELSE 0]

(* A worker walks through its share, and has claimed what it has passed.   *)
ShareOf(w) ==
  /\ \E m \in Nat : packet_index[w] = w + m * threads
  /\ \A k \in Nat : w + k * threads \in claimed <=> w + k * threads < Reached(w)

InSchedule(w) == wpc[w] = "pace" => \A i \in Slots(w) : i < packet_limit

ClaimInv == mode # "flood" =>
  /\ \A w \in Worker : ShareOf(w) /\ InSchedule(w)
  /\ \A i \in claimed : i < packet_limit
  /\ IsFiniteSet(claimed) /\ Cardinality(claimed) = SumFunctionOnSet(Started, Worker)

-----------------------------------------------------------------------------
LEMMA ClaimInit == Init => ClaimInv
<1> SUFFICES ASSUME Init PROVE ClaimInv
  OBVIOUS
<1>1. TypeInv /\ threads \in Nat \ {0} /\ IsFiniteSet(Worker) /\ Worker \subseteq Nat
  BY InitInv, Threaded, WorkersFinite DEF Inv, TypeInv
<1>2. ASSUME NEW w \in Worker PROVE ShareOf(w) /\ InSchedule(w)
  <2>1. w \in Nat /\ packet_index[w] = w /\ wpc[w] = "setup" /\ claimed = {}
    BY <1>1 DEF Init
  <2>2. packet_index[w] = w + 0 * threads
    BY <1>1, <2>1
  <2>3. \A k \in Nat : ~(w + k * threads < w)
    <3>1. \A k \in Nat : k * threads \in Nat
      BY <1>1, Multiples
    <3> QED
      BY <2>1, <3>1
  <2>4. Reached(w) = w
    BY <2>1 DEF Reached
  <2> QED
    BY <2>1, <2>2, <2>3, <2>4 DEF ShareOf, InSchedule
<1>3. claimed = {} /\ IsFiniteSet(claimed) /\ Cardinality(claimed) = 0
  BY FS_EmptySet DEF Init
<1>4. SumFunctionOnSet(Started, Worker) = 0
  <2>1. \A w \in Worker : Started[w] = 0
    BY DEF Init, Started
  <2> QED
    BY <1>1, <2>1, SumZero
<1> QED
  BY <1>2, <1>3, <1>4 DEF ClaimInv

(* A step that claims nothing, and at most ends a batch or starts one.     *)
LEMMA ClaimKept ==
  ASSUME Inv, ClaimInv, mode # "flood", mode' = mode, claimed' = claimed,
         \A w \in Worker :
           /\ Reached(w)' = Reached(w)
           /\ packet_index'[w] = packet_index[w] \/ packet_index'[w] = NextIndex(w)
           /\ InSchedule(w)'
           /\ Started'[w] = Started[w]
  PROVE  ClaimInv'
<1>1. Worker' = Worker /\ threads' = threads /\ packet_limit' = packet_limit
  BY DEF Worker, threads, packet_limit
<1>2. /\ TypeInv /\ threads \in Nat \ {0} /\ IsFiniteSet(Worker) /\ Worker \subseteq Nat
  BY Threaded, WorkersFinite DEF Inv, TypeInv
<1>3. ASSUME NEW w \in Worker PROVE ShareOf(w)'
  <2>1. PICK m \in Nat : packet_index[w] = w + m * threads
    BY DEF ClaimInv, ShareOf
  <2>2. \E l \in Nat : packet_index'[w] = w + l * threads
    <3>1. CASE packet_index'[w] = packet_index[w]
      BY <2>1, <3>1
    <3>2. CASE packet_index'[w] = NextIndex(w)
      <4>1. batch[w].count \in Nat /\ w \in Nat
        BY <1>2 DEF TypeInv, Batch
      <4>2. /\ (m + batch[w].count) * threads = m * threads + batch[w].count * threads
            /\ m * threads \in Nat /\ batch[w].count * threads \in Nat
        BY <1>2, <4>1, Multiples
      <4>3. NextIndex(w) = w + (m + batch[w].count) * threads
        BY <2>1, <4>1, <4>2 DEF NextIndex
      <4> QED
        BY <3>2, <4>1, <4>3
    <3> QED
      BY <3>1, <3>2
  <2>3. \A k \in Nat : w + k * threads \in claimed <=> w + k * threads < Reached(w)
    BY DEF ClaimInv, ShareOf
  <2> QED
    BY <1>1, <2>2, <2>3 DEF ShareOf
<1>4. SumFunctionOnSet(Started, Worker)' = SumFunctionOnSet(Started, Worker)
  <2>1. SumFunctionOnSet(Started', Worker) = SumFunctionOnSet(Started, Worker)
    BY <1>2, SumSame
  <2> QED
    BY <1>1, <2>1
<1> QED
  BY <1>1, <1>3, <1>4 DEF ClaimInv

(* A batch claims as many packets as it has, and none of them was claimed. *)
LEMMA SlotsAreNew ==
  ASSUME Inv, ClaimInv, mode # "flood", NEW w \in Worker, wpc[w] = "pace"
  PROVE  /\ IsFiniteSet(Slots(w)) /\ Cardinality(Slots(w)) = batch[w].count
         /\ Slots(w) \cap claimed = {}
         /\ \A k \in Nat : w + k * threads \in Slots(w) <=>
              packet_index[w] <= w + k * threads /\ w + k * threads < NextIndex(w)
         /\ \A v \in Worker : \A k \in Nat : v # w => v + k * threads \notin Slots(w)
<1> DEFINE n == batch[w].count
           t == threads
<1>1. TypeInv /\ t \in Nat \ {0} /\ Worker = 0 .. t - 1 /\ w \in Nat
  BY Threaded DEF Inv, TypeInv, Worker
<1>2. n \in Nat \ {0} /\ n - 1 \in Nat
  <2>1. batch[w].offset < batch[w].count
    BY DEF Inv, BatchInv
  <2>2. batch[w].offset \in Nat /\ n \in Nat
    BY <1>1 DEF TypeInv, Batch
  <2> QED
    BY <2>1, <2>2
<1>3. PICK m \in Nat : packet_index[w] = w + m * t
  BY DEF ClaimInv, ShareOf
<1>4. Slots(w) = {packet_index[w] + j * t : j \in 0 .. n - 1}
  BY DEF Slots
<1>5. NextIndex(w) = packet_index[w] + n * t
  BY DEF NextIndex
<1> HIDE DEF n, t
<1>6. ASSUME NEW j \in Nat PROVE packet_index[w] + j * t = w + (m + j) * t /\ m + j \in Nat
  <2>1. (m + j) * t = m * t + j * t /\ m * t \in Nat /\ j * t \in Nat
    BY <1>1, Multiples
  <2> QED
    BY <1>1, <1>3, <2>1
<1>7. Slots(w) = {w + (m + j) * t : j \in 0 .. n - 1}
  BY <1>2, <1>4, <1>6
<1>8. NextIndex(w) = w + (m + n) * t
  BY <1>2, <1>5, <1>6
<1>9. IsFiniteSet(Slots(w)) /\ Cardinality(Slots(w)) = n
  <2> DEFINE S == 0 .. n - 1
             f == [j \in S |-> w + (m + j) * t]
  <2>1. IsFiniteSet(S) /\ Cardinality(S) = n
    <3>1. IsFiniteSet(S) /\ Cardinality(S) = (n - 1) - 0 + 1
      BY <1>2, FS_Interval
    <3> QED
      BY <1>2, <3>1
  <2>2. \A a, b \in S : f[a] = f[b] => a = b
    <3>1. SUFFICES ASSUME NEW a \in S, NEW b \in S, w + (m + a) * t = w + (m + b) * t
                   PROVE  a = b
      OBVIOUS
    <3>2. a \in Nat /\ b \in Nat /\ m + a \in Nat /\ m + b \in Nat
      BY <1>2
    <3>3. m + a = m + b
      BY <1>1, <3>1, <3>2, StrideUnique
    <3> QED
      BY <3>2, <3>3
  <2>3. f \in Surjection(S, Slots(w))
    BY <1>7 DEF Surjection
  <2>4. f \in Injection(S, Slots(w))
    <3>1. f \in [S -> Slots(w)]
      BY <1>7
    <3> HIDE DEF f
    <3> QED
      BY <2>2, <3>1 DEF Injection, IsInjective
  <2> HIDE DEF S, f
  <2>5. f \in Bijection(S, Slots(w))
    BY <2>3, <2>4 DEF Bijection
  <2>6. ExistsBijection(S, Slots(w))
    BY <2>5 DEF ExistsBijection
  <2> QED
    BY <2>1, <2>6, FS_Bijection
<1>10. ASSUME NEW k \in Nat
       PROVE  w + k * t \in Slots(w) <=>
                packet_index[w] <= w + k * t /\ w + k * t < NextIndex(w)
  <2>1. w + k * t < w + (m + n) * t <=> k < m + n
    BY <1>1, <1>2, StrideOrder
  <2>2. w + k * t < w + m * t <=> k < m
    BY <1>1, StrideOrder
  <2>3. w + k * t \in Slots(w) <=> m <= k /\ k < m + n
    <3>1. ASSUME m <= k, k < m + n PROVE w + k * t \in Slots(w)
      <4>1. k - m \in 0 .. n - 1 /\ k = m + (k - m)
        BY <1>2, <3>1
      <4> QED
        BY <1>7, <4>1
    <3>2. ASSUME w + k * t \in Slots(w) PROVE m <= k /\ k < m + n
      <4>1. PICK j \in 0 .. n - 1 : w + k * t = w + (m + j) * t
        BY <1>7, <3>2
      <4>2. m + j \in Nat /\ j \in Nat /\ j < n
        BY <1>2
      <4>3. k = m + j
        BY <1>1, <4>1, <4>2, StrideUnique
      <4> QED
        BY <4>2, <4>3, <1>2
    <3> QED
      BY <3>1, <3>2
  <2>4. w + k * t \in Nat /\ w + m * t \in Nat
    BY <1>1, Multiples
  <2> QED
    BY <1>3, <1>8, <2>1, <2>2, <2>3, <2>4
<1>11. ASSUME NEW v \in Worker, NEW k \in Nat, v # w PROVE v + k * t \notin Slots(w)
  <2>1. SUFFICES ASSUME NEW j \in 0 .. n - 1, v + k * t = w + (m + j) * t PROVE FALSE
    BY <1>7
  <2>2. m + j \in Nat
    BY <1>2
  <2> QED
    BY <1>1, <1>11, <2>1, <2>2, StrideUnique
<1>12. Slots(w) \cap claimed = {}
  <2>1. SUFFICES ASSUME NEW j \in 0 .. n - 1, w + (m + j) * t \in claimed PROVE FALSE
    BY <1>7
  <2>2. j \in Nat /\ m + j \in Nat
    BY <1>2
  <2>3. w + (m + j) * t < packet_index[w]
    <3>1. Reached(w) = packet_index[w]
      BY DEF Reached
    <3> QED
      BY <2>1, <2>2, <3>1 DEF ClaimInv, ShareOf, t
  <2>4. m + j < m
    BY <1>1, <1>3, <2>2, <2>3, StrideOrder
  <2> QED
    BY <2>2, <2>4
<1> QED
  BY <1>9, <1>10, <1>11, <1>12 DEF n, t

LEMMA ClaimStep ==
  ASSUME Inv, Inv', AccountInv, ClaimInv, [Next]_vars
  PROVE  ClaimInv'
<1>0. TypeInv /\ TypeInv'
  BY DEF Inv
<1>a. SUFFICES ASSUME mode # "flood", mode' = mode PROVE ClaimInv'
  <2>1. mode' = mode
    BY DEF Next, Tick, Sigint, Main, MainArrives, MainWrites, MainReturns, Exited,
       WorkerStep, WorkerSetup, WorkerPassesBarrier, WorkerStartsBatch, WorkerFinishes,
       WorkerTakesSequences, WorkerSends, WorkerIsInterrupted, WorkerFails, vars
  <2> QED
    BY <2>1 DEF ClaimInv
<1>b. Worker' = Worker /\ threads' = threads /\ packet_limit' = packet_limit
  BY <1>a DEF Worker, threads, packet_limit
<1>c. ASSUME NEW v \in Worker, wpc'[v] = wpc[v], packet_index'[v] = packet_index[v],
             batch'[v] = batch[v], connected'[v] = connected[v], stats'[v] = stats[v]
      PROVE  /\ Reached(v)' = Reached(v) /\ InSchedule(v)' /\ Started'[v] = Started[v]
             /\ NextIndex(v)' = NextIndex(v) /\ Slots(v)' = Slots(v)
  <2>1. NextIndex(v)' = NextIndex(v)
    BY <1>b, <1>c DEF NextIndex
  <2>2. Slots(v)' = Slots(v)
    BY <1>b, <1>c DEF Slots
  <2>3. InSchedule(v)
    BY <1>a DEF ClaimInv
  <2>4. Started'[v] = Started[v]
    BY <1>b, <1>c DEF Started
  <2> QED
    BY <1>b, <1>c, <2>1, <2>2, <2>3, <2>4 DEF Reached, InSchedule
<1>1. CASE UNCHANGED vars \/ Tick \/ Sigint \/ Main \/ Exited
  <2>1. UNCHANGED <<wpc, batch, stats, connected, packet_index, claimed>>
    BY <1>1 DEF Tick, Sigint, Main, MainArrives, MainWrites, MainReturns, Exited,
                vars, workerVars, historyVars
  <2> QED
    BY <1>a, <1>c, <2>1, ClaimKept
<1>2. ASSUME NEW w \in Worker, WorkerStep(w) PROVE ClaimInv'
  <2>1. \A v \in Worker : v # w =>
          /\ wpc'[v] = wpc[v] /\ batch'[v] = batch[v] /\ stats'[v] = stats[v]
          /\ connected'[v] = connected[v] /\ packet_index'[v] = packet_index[v]
    BY <1>2, OwnStep
  <2>2. ASSUME claimed' = claimed, Reached(w)' = Reached(w), InSchedule(w)',
               packet_index'[w] = packet_index[w] \/ packet_index'[w] = NextIndex(w),
               Started'[w] = Started[w]
        PROVE  ClaimInv'
    BY <1>a, <1>c, <2>1, <2>2, ClaimKept
  <2>3. ASSUME wpc'[w] # "pace" PROVE InSchedule(w)'
    BY <2>3 DEF InSchedule
  <2>4. ASSUME wpc[w] # "send", wpc'[w] # "send", packet_index'[w] = packet_index[w]
        PROVE  Reached(w)' = Reached(w)
    BY <2>4 DEF Reached
  <2>5. ASSUME stats'[w].attempted = stats[w].attempted, connected'[w] = connected[w]
        PROVE  Started'[w] = Started[w]
    BY <1>b, <2>5 DEF Started
  <2>6. AccountOf(w)
    BY DEF AccountInv
  <2>7. ASSUME NEW ok \in BOOLEAN, WorkerSetup(w, ok) PROVE ClaimInv'
    <3>1. /\ wpc[w] = "setup" /\ wpc'[w] = "barrier" /\ stats' = stats /\ claimed' = claimed
          /\ packet_index' = packet_index
      BY <1>0, <2>7 DEF WorkerSetup, TypeInv, historyVars
    <3>2. Started[w] = 0 /\ Started'[w] = 0
      BY <1>b, <2>6, <3>1 DEF Started, AccountOf
    <3> QED
      BY <2>2, <2>3, <2>4, <3>1, <3>2
  <2>8. CASE WorkerPassesBarrier(w)
    BY <1>0, <2>2, <2>3, <2>4, <2>5, <2>8 DEF WorkerPassesBarrier, TypeInv, historyVars
  <2>9. CASE WorkerFinishes(w)
    <3>1. /\ wpc[w] = "loop" /\ wpc'[w] = "done" /\ claimed' = claimed
          /\ packet_index' = packet_index /\ connected' = connected
          /\ connected[w] => stats' = stats
      BY <1>0, <2>9 DEF WorkerFinishes, TypeInv
    <3>2. Started'[w] = Started[w]
      BY <1>b, <3>1 DEF Started
    <3> QED
      BY <2>2, <2>3, <2>4, <3>1, <3>2
  <2>10. CASE WorkerStartsBatch(w)
    <3>1. /\ wpc[w] = "loop" /\ wpc'[w] = "pace" /\ claimed' = claimed
          /\ packet_index' = packet_index /\ connected' = connected /\ stats' = stats
          /\ batch'[w].count = BatchCount(w) /\ KeepSending(w) /\ BatchCount(w) # 0
      BY <1>0, <2>10 DEF WorkerStartsBatch, TypeInv, historyVars, NoBatch
    <3>2. InSchedule(w)'
      <4>1. BatchCount(w) \in Nat
        BY <1>0, <3>1, CountType
      <4>2. SUFFICES ASSUME NEW k \in 0 .. BatchCount(w) - 1
                     PROVE  packet_index[w] + k * threads < packet_limit
        BY <1>b, <3>1 DEF InSchedule, Slots
      <4>3. k \in Nat /\ k < BatchCount(w)
        BY <4>1
      <4> QED
        BY <1>0, <1>a, <3>1, <4>3, CountBound
    <3> QED
      BY <2>2, <2>4, <2>5, <3>1, <3>2
  <2>11. CASE WorkerTakesSequences(w)
    <3>1. /\ wpc[w] = "pace" /\ wpc'[w] = "send" /\ packet_index' = packet_index
          /\ connected' = connected /\ batch'[w].count = batch[w].count
      BY <2>11, TakesFacts
    <3>2. claimed' = claimed \union Slots(w)
      BY <2>11 DEF WorkerTakesSequences, Slots
    <3>3. /\ stats'[w].attempted = stats[w].attempted + batch[w].count
          /\ stats[w].attempted \in Nat /\ batch[w].count \in Nat
      BY <1>0, <2>11 DEF WorkerTakesSequences, TypeInv, Batch
    <3>4. Reached(w) = packet_index[w] /\ Reached(w)' = NextIndex(w)
      BY <1>b, <3>1 DEF Reached, NextIndex
    <3>5. /\ packet_index[w] \in Nat /\ NextIndex(w) \in Nat /\ packet_index[w] <= NextIndex(w)
          /\ threads \in Nat \ {0} /\ w \in Nat
      <4>1. packet_index[w] \in Nat /\ threads \in Nat \ {0} /\ w \in Nat
        BY <1>0, Threaded DEF TypeInv, Worker
      <4>2. batch[w].count * threads \in Nat
        BY <3>3, <4>1, Multiples
      <4> QED
        BY <4>1, <4>2 DEF NextIndex
    <3>6. ASSUME NEW v \in Worker PROVE ShareOf(v)'
      <4>1. ShareOf(v)
        BY <1>a DEF ClaimInv
      <4>2. \A k \in Nat : v + k * threads \in claimed' <=> v + k * threads < Reached(v)'
        <5>1. CASE v # w
          <6>1. Reached(v)' = Reached(v)
            BY <1>c, <2>1, <5>1
          <6>2. \A k \in Nat : v + k * threads \notin Slots(w)
            BY <1>a, <3>1, <5>1, SlotsAreNew
          <6> QED
            BY <3>2, <4>1, <6>1, <6>2 DEF ShareOf
        <5>2. CASE v = w
          <6>1. SUFFICES ASSUME NEW k \in Nat
                         PROVE  w + k * threads \in claimed' <=> w + k * threads < NextIndex(w)
            BY <3>4, <5>2
          <6>2. w + k * threads \in Slots(w) <=>
                  packet_index[w] <= w + k * threads /\ w + k * threads < NextIndex(w)
            BY <1>a, <3>1, SlotsAreNew
          <6>3. w + k * threads \in claimed <=> w + k * threads < packet_index[w]
            BY <3>4, <4>1, <5>2 DEF ShareOf
          <6>4. w + k * threads \in Nat
            BY <3>5, Multiples
          <6> QED
            BY <3>2, <3>5, <6>2, <6>3, <6>4
        <5> QED
          BY <5>1, <5>2
      <4> QED
        BY <1>b, <3>1, <4>1, <4>2 DEF ShareOf
    <3>7. ASSUME NEW v \in Worker PROVE InSchedule(v)'
      BY <1>c, <2>1, <2>3, <3>1, <3>7
    <3>8. \A i \in claimed' : i < packet_limit
      BY <1>a, <3>1, <3>2 DEF ClaimInv, InSchedule
    <3>9. IsFiniteSet(claimed') /\ Cardinality(claimed') = Cardinality(claimed) + batch[w].count
      <4>1. /\ IsFiniteSet(Slots(w)) /\ Cardinality(Slots(w)) = batch[w].count
            /\ Slots(w) \cap claimed = {}
        BY <1>a, <3>1, SlotsAreNew
      <4>2. IsFiniteSet(claimed) /\ Cardinality(claimed) \in Nat
        BY <1>a, FS_CardinalityType DEF ClaimInv
      <4>3. /\ IsFiniteSet(claimed \union Slots(w))
            /\ Cardinality(claimed \union Slots(w))
                 = Cardinality(claimed) + Cardinality(Slots(w)) - Cardinality(claimed \cap Slots(w))
        BY <4>1, <4>2, FS_Union
      <4>4. Cardinality(claimed \cap Slots(w)) = 0
        BY <4>1, FS_EmptySet
      <4> QED
        BY <3>2, <3>3, <4>1, <4>2, <4>3, <4>4
    <3>10. SumFunctionOnSet(Started', Worker) = SumFunctionOnSet(Started, Worker) + batch[w].count
      <4>1. \A v \in Worker : v # w => Started'[v] = Started[v]
        BY <1>c, <2>1
      <4>2. connected[w] /\ w \in Worker'
        BY <1>b, <2>6, <3>1 DEF AccountOf
      <4>3. Started[w] = stats[w].attempted /\ Started'[w] = stats'[w].attempted
        BY <3>1, <4>2 DEF Started
      <4>4. \A v \in Worker : Started[v] \in Nat /\ Started'[v] \in Nat
        BY <1>0, <1>b DEF TypeInv, Started
      <4>5. IsFiniteSet(Worker)
        BY <1>0, WorkersFinite
      <4> DEFINE old == Started
                 new == Started'
                 Sum(f) == SumFunctionOnSet(f, Worker)
      <4>6. /\ \A v \in Worker : old[v] \in Nat /\ new[v] \in Nat
            /\ \A v \in Worker : v # w => new[v] = old[v]
            /\ new[w] = old[w] + batch[w].count
        BY <3>3, <4>1, <4>3, <4>4
      <4> HIDE DEF old, new
      <4>7. Sum(old) \in Nat
        BY <4>5, <4>6, SumType
      <4>8. Sum(new) = Sum(old) + (new[w] - old[w])
        <5>1. \A v \in Worker : old[v] \in Nat /\ new[v] \in Nat
          BY <4>6
        <5>2. \A v \in Worker : v # w => new[v] = old[v]
          BY <4>6
        <5>3. w \in Worker
          OBVIOUS
        <5> QED
          BY ONLY <4>5, <5>1, <5>2, <5>3, SumChanges
      <4> HIDE DEF Sum
      <4>9. Sum(new) = Sum(old) + batch[w].count
        BY <3>3, <4>6, <4>7, <4>8
      <4> QED
        BY <4>9 DEF Sum, new, old
    <3>11. SumFunctionOnSet(Started, Worker)' = SumFunctionOnSet(Started', Worker)
      BY <1>b
    <3> QED
      BY <1>a, <1>b, <3>6, <3>7, <3>8, <3>9, <3>10, <3>11 DEF ClaimInv
  <2>12. ASSUME NEW n \in 1 .. BatchMax, WorkerSends(w, n) PROVE ClaimInv'
    <3>1. /\ wpc[w] = "send" /\ connected' = connected /\ claimed' = claimed
          /\ stats' = [stats EXCEPT ![w].successful = @ + n]
          /\ batch'[w].count = batch[w].count
      BY <2>12, SendsFacts
    <3>2. stats'[w].attempted = stats[w].attempted
      BY <1>0, <3>1 DEF TypeInv
    <3>3. \/ wpc'[w] = "loop" /\ packet_index'[w] = NextIndex(w)
          \/ wpc'[w] = "send" /\ packet_index'[w] = packet_index[w]
      BY <1>0, <3>1, <2>12 DEF WorkerSends, BatchEnds, TypeInv
    <3>4. Reached(w)' = Reached(w)
      BY <1>b, <3>1, <3>3 DEF Reached, NextIndex
    <3> QED
      BY <2>2, <2>3, <2>5, <3>1, <3>2, <3>3, <3>4
  <2>13. CASE WorkerIsInterrupted(w)
    <3>1. /\ wpc[w] = "send" /\ connected' = connected /\ claimed' = claimed
          /\ stats' = stats /\ batch' = batch
      BY <2>13 DEF WorkerIsInterrupted, historyVars
    <3>3. \/ wpc'[w] = "loop" /\ packet_index'[w] = NextIndex(w)
          \/ wpc'[w] = "send" /\ packet_index'[w] = packet_index[w]
      BY <1>0, <3>1, <2>13 DEF WorkerIsInterrupted, BatchEnds, TypeInv
    <3>4. Reached(w)' = Reached(w)
      BY <1>b, <3>1, <3>3 DEF Reached, NextIndex
    <3> QED
      BY <2>2, <2>3, <2>5, <3>1, <3>3, <3>4
  <2>14. CASE WorkerFails(w)
    <3>1. /\ wpc[w] = "send" /\ connected' = connected /\ claimed' = claimed
          /\ batch' = batch /\ stats'[w].attempted = stats[w].attempted
      BY <1>0, <2>14 DEF WorkerFails, historyVars, TypeInv
    <3>3. wpc'[w] = "loop" /\ packet_index'[w] = NextIndex(w)
      BY <1>0, <3>1, <2>14 DEF WorkerFails, BatchEnds, TypeInv
    <3>4. Reached(w)' = Reached(w)
      BY <1>b, <3>1, <3>3 DEF Reached, NextIndex
    <3> QED
      BY <2>2, <2>3, <2>5, <3>1, <3>3, <3>4
  <2> QED
    BY <1>2, <2>7, <2>8, <2>9, <2>10, <2>11, <2>12, <2>13, <2>14 DEF WorkerStep
<1> QED
  BY <1>1, <1>2 DEF Next

LEMMA Covered == Inv /\ ExitInv /\ ClaimInv => ScheduleIsCovered
<1> SUFFICES ASSUME Inv, ExitInv, ClaimInv, mode # "flood", \A w \in Worker : connected[w]
             PROVE  /\ Cardinality(claimed) = Total("attempted")
                    /\ exit_code = 0 /\ late = {} => claimed = 0 .. packet_limit - 1
  BY DEF ScheduleIsCovered
<1>1. Cardinality(claimed) = Total("attempted")
  <2>1. Started = [w \in Worker |-> stats[w]["attempted"]]
    BY DEF Started
  <2>2. Total("attempted") = SumFunctionOnSet(Started, Worker)
    BY <2>1, TotalIs
  <2> QED
    BY <2>2 DEF ClaimInv
<1>2. ASSUME exit_code = 0, late = {} PROVE claimed = 0 .. packet_limit - 1
  <2>1. threads \in Nat \ {0} /\ packet_limit \in Int /\ claimed \subseteq Nat
    BY Threaded, LimitType DEF Inv, TypeInv
  <2>2. claimed \subseteq 0 .. packet_limit - 1
    <3>1. \A i \in claimed : i < packet_limit
      BY DEF ClaimInv
    <3> HIDE DEF packet_limit
    <3> QED
      BY <2>1, <3>1
  <2>3. ASSUME NEW i \in 0 .. packet_limit - 1 PROVE i \in claimed
    <3> DEFINE w == i % threads
               k == i \div threads
    <3>1. i \in Nat /\ i < packet_limit
      BY <2>1
    <3>2. w \in 0 .. threads - 1 /\ k \in Nat /\ i = w + k * threads
      BY <2>1, <3>1, StrideCovers
    <3>3. w \in Worker
      BY <3>2 DEF Worker
    <3> HIDE DEF w, k
    <3>4. wpc[w] = "done" /\ packet_limit <= packet_index[w] /\ packet_index[w] \in Nat
      <4>1. wpc[w] = "done" /\ Ended(w) /\ ~stop_requested /\ connected[w]
        BY <1>2, <3>3 DEF ExitInv, NotExited
      <4>2. packet_index[w] \in Nat
        BY <3>3 DEF Inv, TypeInv
      <4>3. packet_index[w] >= packet_limit
        BY <1>2, <4>1 DEF Ended
      <4> QED
        BY <2>1, <4>1, <4>2, <4>3
    <3>5. Reached(w) = packet_index[w]
      BY <3>4 DEF Reached
    <3>6. w + k * threads < Reached(w)
      BY <2>1, <3>1, <3>2, <3>4, <3>5
    <3> QED
      BY <3>2, <3>3, <3>6 DEF ClaimInv, ShareOf
  <2> QED
    BY <2>2, <2>3
<1> QED
  BY <1>1, <1>2

-----------------------------------------------------------------------------
(* The theorems. *)

(* Of the books: a number is sent by the worker that took it and only      *)
(* once, every attempt is accounted for, and the packets of the schedule   *)
(* are claimed along the workers' strides.                                 *)
LedgerInv ==
  RangeInv /\ SentInv /\ TraceInv /\ AccountInv /\ ExitInv /\ ClaimInv

THEOREM LedgerInvariance == Spec => []LedgerInv
<1>1. Init => LedgerInv
  BY RangeInit, SentInit, TraceInit, AccountInit, ExitInit, ClaimInit DEF LedgerInv
<1>2. Inv /\ Inv' /\ LedgerInv /\ [Next]_vars => LedgerInv'
  BY RangeStep, SentStep, TraceStep, AccountStep, ExitStep, ClaimStep DEF LedgerInv
<1> QED
  BY Invariance, <1>1, <1>2, PTL DEF Spec

(* No sequence number is sent twice, by whatever worker, and none that was *)
(* not taken from the shared counter.                                      *)
THEOREM EachSequenceSentOnceHolds == Spec => []EachSequenceSentOnce
<1>1. Inv /\ LedgerInv => EachSequenceSentOnce
  BY SentOnce DEF LedgerInv
<1> QED
  BY Invariance, LedgerInvariance, <1>1, PTL

(* The trace records name the numbers that were sent and add up to         *)
(* successful_sends.                                                       *)
THEOREM TraceReconcilesHolds == Spec => []TraceReconciles
<1>1. Inv /\ LedgerInv => TraceReconciles
  BY Reconciles DEF LedgerInv
<1> QED
  BY Invariance, LedgerInvariance, <1>1, PTL

(* A successful paced run in which no worker was late covers the schedule: *)
(* adaptive batches along the strides overlap nowhere and leave no hole.   *)
THEOREM ScheduleIsCoveredHolds == Spec => []ScheduleIsCovered
<1>1. Inv /\ LedgerInv => ScheduleIsCovered
  BY Covered DEF LedgerInv
<1> QED
  BY Invariance, LedgerInvariance, <1>1, PTL

(* Exit code 0 means that nothing was given up: every attempt is a success *)
(* or a failure.                                                           *)
THEOREM InterruptedRunFailsHolds == Spec => []InterruptedRunFails
<1>1. Inv /\ LedgerInv => InterruptedRunFails
  BY Accounted DEF LedgerInv
<1> QED
  BY Invariance, LedgerInvariance, <1>1, PTL

=============================================================================
