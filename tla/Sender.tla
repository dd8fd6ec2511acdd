-------------------------------- MODULE Sender --------------------------------
(***************************************************************************)
(* src/sender/sender.cpp: main() starts `threads' workers, meets them at a *)
(* barrier, joins them, and writes the statistics and the pacing trace.    *)
(* Each worker paces its share of the schedule (packet numbers worker,     *)
(* worker + threads, ...), takes a range of sequence numbers for each      *)
(* batch from a shared counter and sends the batch with sendmmsg, which    *)
(* may send a part of it, fail, or be interrupted.                         *)
(*                                                                         *)
(* Time passes at any moment (Tick), so a worker may be late by any        *)
(* amount, up to the bound Horizon.                                        *)
(*                                                                         *)
(* Left out: payload bytes, time stamps, affinity, lateness statistics and *)
(* histograms, and the counts of calls and of partial returns.             *)
(***************************************************************************)
EXTENDS Pacing, FiniteSets, Functions

CONSTANTS
  Threads,    \* config.threads in the modes that allow more than one
  Rate,       \* config.rate_pps
  Duration,   \* config.duration_seconds, in ticks
  BatchMax,   \* config.send_batch_max
  Window,     \* config.batch_window_us, in ticks
  BurstSize,  \* config.burst_size, in burst mode
  Lead,       \* from the spawning of the workers to the start (100 ms), in ticks
  Horizon,    \* bound of the model: later times are not told apart
  MaxEintr,   \* bound of the model: interrupted calls per worker
  MaxFlood    \* bound of the model: no batch is started in flood mode beyond this

ASSUME SenderAssumption ==
  /\ Threads \in Nat \ {0}
  /\ Rate \in Nat \ {0}
  /\ Duration \in Nat \ {0}
  /\ BatchMax \in Nat \ {0}
  /\ Window \in Nat
  /\ BurstSize \in Nat \ {0}
  /\ Lead \in Nat
  /\ Horizon \in Nat /\ Horizon >= Lead + Duration
  /\ MaxEintr \in Nat
  /\ MaxFlood \in Nat

VARIABLES
  mode,             \* config.mode
  now,              \* the monotonic clock
  stop_requested,   \* set by signal_handler
  next_sequence,    \* the shared counter
  mainpc,           \* program counter of main()
  said_interrupted, \* "interrupted" in the statistics file
  exit_code,        \* what main() returned, or NotExited
  wpc,              \* program counter of each worker
  connected,        \* connected_socket() succeeded
  packet_index,     \* the next packet number of the worker's schedule
  batch,            \* the batch in hand: count, scheduled, first_sequence, offset
  stats,            \* attempted_sends, successful_sends, failed_sends
  eintr,            \* calls interrupted so far
  trace,            \* the worker's trace records
  \* history
  newest,           \* the times of the record that sorts last in the trace
  sent,             \* the sequence numbers the kernel accepted
  claimed,          \* the packet numbers for which a batch was started
  late              \* workers that left the loop because time was up

mainVars == <<mainpc, said_interrupted, exit_code>>
workerVars == <<wpc, connected, packet_index, batch, stats, eintr, trace>>
historyVars == <<newest, sent, claimed, late>>
vars == <<mode, now, stop_requested, next_sequence, mainVars, workerVars, historyVars>>

NotExited == -1

(* main() rejects more than one thread in burst mode. *)
threads == IF mode = "burst" THEN 1 ELSE Threads
Worker == 0 .. threads - 1

start == Lead
end == start + Duration
packet_limit == scheduled_packet_count(Duration, Rate)

NoRecord == [actual |-> 0, scheduled |-> 0]
NoBatch == [count |-> 0, scheduled |-> 0, first_sequence |-> 0, offset |-> 0]

Init ==
  /\ mode \in {"steady", "burst", "flood"}
  /\ now = 0
  /\ stop_requested = FALSE
  /\ next_sequence = 0
  /\ mainpc = "spawned"
  /\ said_interrupted = FALSE
  /\ exit_code = NotExited
  /\ wpc = [w \in Worker |-> "setup"]
  /\ connected = [w \in Worker |-> FALSE]
  /\ packet_index = [w \in Worker |-> w]
  /\ batch = [w \in Worker |-> NoBatch]
  /\ stats = [w \in Worker |-> [attempted |-> 0, successful |-> 0, failed |-> 0]]
  /\ eintr = [w \in Worker |-> 0]
  /\ trace = [w \in Worker |-> {}]
  /\ newest = NoRecord
  /\ sent = {}
  /\ claimed = {}
  /\ late = {}

-----------------------------------------------------------------------------
(* Faulty variants of the definitions that follow.                         *)

(* The counter is advanced by one per batch. *)
SequencesTakenPerBatch(w) == 1

(* The next batch starts right after the last packet of this one, on slots *)
(* that belong to the other workers.                                       *)
NextIndexUnstrided(w) == packet_index[w] + batch[w].count

(* Pacing against the end of the batch window instead of its start. *)
PacedEarly(w) ==
  mode = "flood" \/ now + Window >= batch[w].scheduled \/ stop_requested

(* The exit code ignores an interrupted run. *)
SucceededIfWritten(trace_ok, stats_ok) == trace_ok /\ stats_ok

(* A trace record carries the size of the whole batch. *)
TraceWholeBatch(w, n) ==
  [first |-> batch[w].first_sequence + batch[w].offset, count |-> batch[w].count]

(* The barrier counts one participant too many. *)
BarrierNeverFull ==
  Cardinality({w \in Worker : wpc[w] # "setup"}) + 1 >= threads + 2

-----------------------------------------------------------------------------
(* The environment.                                                        *)

Tick ==
  /\ mainpc # "exit"
  /\ now' = IF now < Horizon THEN now + 1 ELSE now
  /\ UNCHANGED <<mode, stop_requested, next_sequence, mainVars, workerVars, historyVars>>

(* SIGINT; the step stands for the moment the flag becomes visible. *)
Sigint ==
  /\ mainpc # "exit"
  /\ ~stop_requested
  /\ stop_requested' = TRUE
  /\ UNCHANGED <<mode, now, next_sequence, mainVars, workerVars, historyVars>>

-----------------------------------------------------------------------------
(* A worker: run_worker().                                                 *)

WorkerSetup(w, ok) ==
  /\ wpc[w] = "setup"
  /\ connected' = [connected EXCEPT ![w] = ok]
  /\ wpc' = [wpc EXCEPT ![w] = "barrier"]
  /\ UNCHANGED <<mode, now, stop_requested, next_sequence, mainVars, packet_index,
                 batch, stats, eintr, trace, historyVars>>

(* start_barrier: threads + 1 participants. *)
BarrierOpen == mainpc # "spawned" /\ \A w \in Worker : wpc[w] # "setup"

WorkerPassesBarrier(w) ==
  /\ wpc[w] = "barrier"
  /\ BarrierOpen
  /\ wpc' = [wpc EXCEPT ![w] = "loop"]
  /\ UNCHANGED <<mode, now, stop_requested, next_sequence, mainVars, connected,
                 packet_index, batch, stats, eintr, trace, historyVars>>

(* The condition of the send loop. *)
KeepSending(w) ==
  /\ connected[w]
  /\ ~stop_requested
  /\ now < end
  /\ mode = "flood" \/ packet_index[w] < packet_limit

(* How many packets the next batch has. *)
BatchCount(w) ==
  LET i == packet_index[w]
      least(S) == CHOOSE x \in S : \A y \in S : x <= y
  IN  CASE mode = "flood" -> BatchMax
        [] mode = "burst" -> least({BatchMax, BurstSize - (i % BurstSize), packet_limit - i})
        [] mode = "steady" ->
             adaptive_batch_count(i, packet_limit, threads, Rate, BatchMax, Window)

(* When the next batch is due: a burst is due as a whole. *)
Scheduled(w) ==
  LET i == packet_index[w]
  IN  CASE mode = "flood" -> 0
        [] mode = "burst" -> deadline_ns(start, i - (i % BurstSize), Rate)
        [] mode = "steady" -> deadline_ns(start, i, Rate)

WorkerStartsBatch(w) ==
  /\ wpc[w] = "loop"
  /\ KeepSending(w)
  /\ BatchCount(w) # 0
  /\ mode = "flood" => next_sequence < MaxFlood
  /\ batch' = [batch EXCEPT ![w] = [NoBatch EXCEPT !.count = BatchCount(w),
                                                   !.scheduled = Scheduled(w)]]
  /\ wpc' = [wpc EXCEPT ![w] = "pace"]
  /\ UNCHANGED <<mode, now, stop_requested, next_sequence, mainVars, connected,
                 packet_index, stats, eintr, trace, historyVars>>

(* The loop ends; a worker without a socket reports one failed attempt. *)
WorkerFinishes(w) ==
  /\ wpc[w] = "loop"
  /\ ~KeepSending(w)
  /\ wpc' = [wpc EXCEPT ![w] = "done"]
  /\ stats' = IF connected[w] THEN stats
              ELSE [stats EXCEPT ![w].attempted = 1, ![w].failed = 1]
  /\ late' = IF connected[w] /\ now >= end /\ packet_index[w] < packet_limit
               THEN late \union {w} ELSE late
  /\ UNCHANGED <<mode, now, stop_requested, next_sequence, mainVars, connected,
                 packet_index, batch, eintr, trace, newest, sent, claimed>>

(* pace_until() returns: the batch is due, or SIGINT came. *)
Paced(w) == mode = "flood" \/ now >= batch[w].scheduled \/ stop_requested

(* The range that allocate_sequence_range() takes is this long. *)
SequencesTaken(w) == batch[w].count

(* allocate_sequence_range() (one atomic fetch_add), then the headers are  *)
(* filled in and the batch counted as attempted.                           *)
WorkerTakesSequences(w) ==
  /\ wpc[w] = "pace"
  /\ Paced(w)
  /\ next_sequence' = next_sequence + SequencesTaken(w)
  /\ batch' = [batch EXCEPT ![w].first_sequence = next_sequence]
  /\ stats' = [stats EXCEPT ![w].attempted = @ + batch[w].count]
  /\ wpc' = [wpc EXCEPT ![w] = "send"]
  /\ claimed' = claimed \union {packet_index[w] + k * threads : k \in 0 .. batch[w].count - 1}
  /\ UNCHANGED <<mode, now, stop_requested, mainVars, connected, packet_index,
                 eintr, trace, newest, sent, late>>

(* The packet number of the worker's next batch. *)
NextIndex(w) == packet_index[w] + batch[w].count * threads

(* The end of one turn of the send loop. *)
BatchEnds(w) ==
  /\ packet_index' = [packet_index EXCEPT ![w] = NextIndex(w)]
  /\ wpc' = [wpc EXCEPT ![w] = "loop"]

(* When the first packet that is left of the batch is due: what is left    *)
(* after a part was sent has a later deadline than the batch.              *)
OffsetDeadline(w) ==
  IF mode = "flood" THEN now
  ELSE deadline_ns(start, packet_index[w] + batch[w].offset * threads, Rate)

(* The times in the trace record; the call itself takes no time.           *)
TraceTimes(w) == [actual |-> now, scheduled |-> OffsetDeadline(w)]

(* analyze_pacing_trace() of main.py sorts the records by both times.      *)
Precedes(left, right) ==
  \/ left.actual < right.actual
  \/ left.actual = right.actual /\ left.scheduled < right.scheduled

(* The part of the time between two records that their schedule does not   *)
(* account for.                                                            *)
UnexplainedGap(left, right) ==
  LET positive(x) == IF x > 0 THEN x ELSE 0
  IN  positive((right.actual - left.actual) - positive(right.scheduled - left.scheduled))

(* The other fields of the trace record of a call that sent n messages. *)
TraceRecord(w, n) ==
  [first |-> batch[w].first_sequence + batch[w].offset, count |-> n]

(* sendmmsg sends n messages: all that are left, or a part. *)
WorkerSends(w, n) ==
  LET b == batch[w]
      first == b.first_sequence + b.offset
  IN  /\ wpc[w] = "send"
      /\ n \in 1 .. b.count - b.offset
      /\ stats' = [stats EXCEPT ![w].successful = @ + n]
      /\ sent' = sent \union (first .. first + n - 1)
      /\ trace' = [trace EXCEPT ![w] = @ \union {TraceRecord(w, n)}]
      /\ newest' = IF Precedes(newest, TraceTimes(w)) THEN TraceTimes(w) ELSE newest
      /\ batch' = [batch EXCEPT ![w].offset = @ + n]
      /\ IF b.offset + n = b.count
           THEN BatchEnds(w)
           ELSE UNCHANGED <<packet_index, wpc>>
      /\ UNCHANGED <<mode, now, stop_requested, next_sequence, mainVars, connected,
                     eintr, claimed, late>>

(* EINTR: try again, unless SIGINT came; then the rest of the batch is     *)
(* abandoned and counted neither as successful nor as failed.              *)
WorkerIsInterrupted(w) ==
  /\ wpc[w] = "send"
  /\ eintr[w] < MaxEintr
  /\ eintr' = [eintr EXCEPT ![w] = @ + 1]
  /\ IF stop_requested
       THEN BatchEnds(w)
       ELSE UNCHANGED <<packet_index, wpc>>
  /\ UNCHANGED <<mode, now, stop_requested, next_sequence, mainVars, connected,
                 batch, stats, trace, historyVars>>

(* How many messages a failed call gives up. *)
Failed(w) == batch[w].count - batch[w].offset

(* Any other error, or a call that sent nothing. *)
WorkerFails(w) ==
  /\ wpc[w] = "send"
  /\ stats' = [stats EXCEPT ![w].failed = @ + Failed(w)]
  /\ BatchEnds(w)
  /\ UNCHANGED <<mode, now, stop_requested, next_sequence, mainVars, connected,
                 batch, eintr, trace, historyVars>>

-----------------------------------------------------------------------------
(* main().                                                                 *)

MainArrives ==
  /\ mainpc = "spawned"
  /\ mainpc' = "barrier"
  /\ UNCHANGED <<mode, now, stop_requested, next_sequence, said_interrupted,
                 exit_code, workerVars, historyVars>>

(* All threads joined, the counters added up, the trace and the statistics *)
(* written or not; write_stats() reads stop_requested for the file.        *)
MainWrites(trace_ok, stats_ok) ==
  /\ mainpc = "barrier"
  /\ BarrierOpen
  /\ \A w \in Worker : wpc[w] = "done"
  /\ said_interrupted' = stop_requested
  /\ mainpc' = IF trace_ok /\ stats_ok THEN "written" ELSE "unwritten"
  /\ UNCHANGED <<mode, now, stop_requested, next_sequence, exit_code, workerVars,
                 historyVars>>

(* The expression of the return statement, which reads stop_requested      *)
(* again.                                                                  *)
Succeeded(trace_ok, stats_ok) == trace_ok /\ stats_ok /\ ~stop_requested

MainReturns ==
  /\ mainpc \in {"written", "unwritten"}
  /\ exit_code' = IF Succeeded(mainpc = "written", mainpc = "written") THEN 0 ELSE 1
  /\ mainpc' = "exit"
  /\ UNCHANGED <<mode, now, stop_requested, next_sequence, said_interrupted,
                 workerVars, historyVars>>

-----------------------------------------------------------------------------
WorkerStep(w) ==
  \/ \E ok \in BOOLEAN : WorkerSetup(w, ok)
  \/ WorkerPassesBarrier(w)
  \/ WorkerStartsBatch(w)
  \/ WorkerFinishes(w)
  \/ WorkerTakesSequences(w)
  \/ \E n \in 1 .. BatchMax : WorkerSends(w, n)
  \/ WorkerIsInterrupted(w)
  \/ WorkerFails(w)

Main ==
  \/ MainArrives
  \/ \E trace_ok, stats_ok \in BOOLEAN : MainWrites(trace_ok, stats_ok)
  \/ MainReturns

Exited == mainpc = "exit" /\ UNCHANGED vars

Next == Tick \/ Sigint \/ Main \/ Exited \/ \E w \in Worker : WorkerStep(w)

Spec == Init /\ [][Next]_vars

(* The clock runs, the threads are scheduled and sendmmsg returns. *)
Fairness ==
  /\ WF_vars(Tick)
  /\ WF_vars(Main)
  /\ \A w \in 0 .. Threads - 1 : WF_vars(w \in Worker /\ WorkerStep(w))

FairSpec == Spec /\ Fairness

-----------------------------------------------------------------------------
Total(counter) == SumFunction([w \in Worker |-> stats[w][counter]])

(* No sequence number is sent twice, by any worker, whatever part of a     *)
(* batch a call sends; and none is sent that was not taken from the shared *)
(* counter. The receiver's count of duplicates and gaps rests on it.       *)
EachSequenceSentOnce ==
  /\ Cardinality(sent) = Total("successful")
  /\ sent \subseteq 0 .. next_sequence - 1

(* The trace records cover exactly the sequence numbers that were sent,    *)
(* and their packet counts add up to successful_sends.                     *)
TraceReconciles ==
  /\ UNION {r.first .. r.first + r.count - 1 : r \in UNION {trace[w] : w \in Worker}}
       = sent
  /\ SumFunction([w \in Worker |->
       SumFunctionOnSet([r \in trace[w] |-> r.count], trace[w])]) = Total("successful")

(* A successful paced run in which no worker was late or without a socket  *)
(* has started every packet of the schedule exactly once: the workers'     *)
(* strided shares do not overlap and leave no hole.                        *)
ScheduleIsCovered ==
  /\ mode # "flood" /\ (\A w \in Worker : connected[w]) =>
       Cardinality(claimed) = Total("attempted")
  /\ exit_code = 0 /\ mode # "flood" /\ late = {} /\ (\A w \in Worker : connected[w]) =>
       claimed = 0 .. packet_limit - 1

(* In steady mode what the pacing analysis calls an unexplained gap is at  *)
(* most one batch window longer than the lateness of the send that ends    *)
(* it, whichever workers sent the two batches and in whatever parts. So a  *)
(* gap over two windows, which disqualifies, always means a send that was  *)
(* late by more than one, and never only the batching.                     *)
GapsAreLateness ==
  [][\A w \in Worker :
       mode = "steady" /\ ~stop_requested /\ newest # NoRecord /\ trace'[w] # trace[w] =>
         LET lateness == now - OffsetDeadline(w)
         IN  UnexplainedGap(newest, TraceTimes(w))
               <= Window + (IF lateness > 0 THEN lateness ELSE 0)]_vars

(* "a harness cannot mistake an interrupted run for a completed one": exit *)
(* code 0 means that the statistics do not say interrupted, that no batch  *)
(* was cut short and that every attempt is a success or a failure, which   *)
(* main.py requires; an interrupted run may have attempts that are neither.*)
InterruptedRunFails ==
  /\ Total("successful") + Total("failed") <= Total("attempted")
  /\ exit_code = 0 =>
       /\ ~said_interrupted
       /\ Total("attempted") = Total("successful") + Total("failed")
       /\ \A w \in Worker :
            wpc[w] = "done" /\ (~connected[w] \/ w \in late \/ mode = "flood"
                                  \/ packet_index[w] >= packet_limit)

(* The sender exits: no worker waits for ever at the barrier, in pacing or *)
(* in a retry, and main() joins them all.                                  *)
Terminates == <>(mainpc = "exit")

=============================================================================
