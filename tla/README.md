# Net Latency Lab: TLA+ specifications

The repository measures UDP receivers: a paced sender (`src/sender`), three
receivers with the same wire format and the same statistics (`src/receiver`),
the lock-free queue and the sequence tracker they use (`src/common`), a queue
benchmark (`src/bench`), a Python harness that runs campaigns over SSH
(`main.py`), analysis scripts (`analysis/`) and shell scripts that tune the
machines (`scripts/`). A published number rests on counters that several
threads and processes keep, and on a verdict computed from them; the
specifications here are about those counters.

## Inventory

| Component | State | Operations | What is hard | What makes it correct |
|---|---|---|---|---|
| SPSC queue (`common/spsc_queue.hpp`) | `head_`, `tail_`, `buffer_` | `try_alloc`, `commit`, `push`, `front`, `pop`, `size` | two threads, old index values, wrap-around | no race on a slot; bounded FIFO |
| SPSC benchmark (`bench/spsc_bench.cpp`) | element index, `producer_done` | push with retry, poll, join | exit test of the consumer | returns, nothing lost |
| Threaded receiver (`receiver/receiver_threaded.cpp`) | `Stats`, `ProcessingStats`, `producer_done`, `stop_requested` | receive loop, worker loop, drain, report | shutdown order, overflow, limit, timeouts | drained, balanced report, exits |
| Baseline, batched receivers | `Stats`, `ProcessingStats`, `stop_requested` | receive, process, report | limit in batches, SIGINT | same contract as the threaded one |
| Sequence tracker (`common/sequence_tracker.hpp`) | ring of bitmaps, counters | `observe`, `gaps` | loss, duplication, reordering, retired blocks | agrees with a full record |
| Sender (`sender/sender.cpp`, `sender_common.hpp`) | shared sequence counter, per-worker schedule and counters | pace, take a range, `sendmmsg`, barrier, join, exit code | partial sends, EINTR with SIGINT, late workers | every number once, schedule covered, attempts accounted for |
| Binary log (`common/csv_writer.hpp`, `analysis/latency_utils.py`) | buffer, file | `log`, `flush`, load | short writes, unfinished header | what is loaded is what was logged |
| Process control (`main.py`) | pid, status files, process handles | start, wait, signal, escalate | process exits while it is being stopped; wrapper and workload; stale files | never two receivers, no process left |
| Campaign (`main.py`) | run order, manifest, qualification | run, retry, reconnect, freeze | connection lost at any step | every run is recorded once, retries start clean |
| Verdicts (`main.py`) | probes of both nodes, counters of a run | validity and qualification reasons | disturbances between probes, probes that fail, duplicates that hide losses | a qualified run is lossless and undisturbed |
| Summaries and claims (`analysis/generate_summary.py`, `profile_tools.py`, `generate_claim_evidence.py`, `publish_results.py`) | summary tables, profile session, published files | summarize, select, prepare, validate, gate, publish | incomplete sessions, counters perf could not provide, a call that fails half-way | a claim that passes is true of the runs; files belong together |
| Profile phase (`scripts/run_profile_phase.sh`, `profile_tools.py`) | profile session | prepare, run, validate, summarize | runs missing or invalid | the profile is complete |
| Environment scripts (`scripts/`) | saved settings | setup, restore | interrupted setup, setup twice | restore brings back the original |

Interactions: the sender's sequence numbers reach the receivers through a
network that may lose, duplicate and reorder; the receive thread hands packets
to the worker through the queue and `producer_done`; SIGINT from the harness
ends a receiver, whose exit code and statistics the harness turns into a
verdict; the sampled packets reach the analysis through the binary log; the
analysis turns verdicts and statistics into the choice of what is profiled, and
both into published claims.

## Modules

* `BoundedFIFO` is the abstract queue: `Put` and `Get` on a bounded sequence.
* `SPSCQueue` is the state of the queue and its operations, one operator per
  access to shared memory. A load of the other thread's index may return an old
  value: `tailSeen` and `headSeen` count the stores that happen before the
  loading thread, and a load may return any later one. Acquire and release are
  modelled by advancing them. Data races are therefore statements about
  `tailSeen` and `headSeen` (`WriteIsOrdered`, `ReadIsOrdered`), not about the
  interleaving alone.
* `SPSCBench` is `run_once()`: the producer's push is three steps (allocate,
  write, commit), the consumer's turn is front, read, pop and the exit test.
  `MCSPSCBench` gives it items.
* `ReceiverContract` is what the harness may rely on in any receiver: packets
  are processed in order, dropped only on arrival and counted, and none is left
  when the statistics are written.
* `ThreadedReceiver` is `main()` of the threaded receiver with both threads;
  `rxpc` and `wpc` are their program counters, `stats` the counters of
  `struct Stats`, and `accepted` a history of what was pushed.
  `MCThreadedReceiver` gives it items.
* `BinaryLog` is the logger with its buffer and the loader of the analysis, over
  words of the file; a write may be short and a kill leaves a prefix. The header
  waits in stdio's buffer for the first flush.
  `SyncReceiver` is the baseline and the batched receiver (`variant` says which
  one was started) with their log.
* `SequenceTracker` is `observe()` and `gaps()` as operators on a tracker, and the
  reference they are compared with: `sequence_statistics()` of
  `analysis/latency_utils.py` on all arrivals.
* `RunVerdict` is the measured part of `execute_run()`: the probes of both nodes
  around the timed interval, the packets on their way through network, socket
  buffer, tracker and queue, and the two verdicts. What happened (`lost`,
  `disturbed`, `arrived`) is history, told apart from what the probes report.
  Both tracker instances are `SequenceTracker`'s, one on arrival, one after
  processing, which a queue overflow skips.
* `Pacing` is the arithmetic of the schedule and `Sender` the sender process:
  workers, barrier, shared sequence counter, partial and failed sends, the trace
  and the gap analysis the verdict makes of it.
* `NodeProcesses` is what runs on the two benchmark nodes: per attempt a
  program and the monitor (`nohup sh -c ...`) that `RemoteNode.start_process()`
  leaves behind, and the pid, status and statistics files, which all attempts of
  a run share. `RunAttempts` extends it with the controller: `execute_run()` with
  its `finally`, and the retry of `execute_with_progress()`. `pc` is the
  controller's position, `job` the purpose of a wait, `link` the state of the
  two SSH connections. A poll of `wait_process()` is two steps (the status file,
  then the pids), because the shell command it runs is not atomic.
* `ShutdownProcess` is `shutdown_process()` for direct and profiled commands. Its
  names differ from those of `RunAttempts`, so that one module can extend both.
* `Campaign` is `run_campaign()` over whole runs: shuffled qualification, the
  freeze, the comparison, and the manifest on disk. `MCCampaign` gives it run
  tuples.
* `Claims` is the way from measured runs to a published claim: summary, choice of
  representatives, profile session, the gate, and `publish()` file by file.
  `MCClaims` gives it a campaign of two workloads with a sampled and an unsampled
  configuration and two setups. Its names differ from those of `Campaign` where one
  module extends both.
* `SPSCQueue_proofs`, `SPSCBench_proofs`, `ThreadedReceiver_proofs`,
  `SyncReceiver_proofs`, `ProcessControl_proofs` (`ShutdownProcess` and `RunAttempts`),
  `RunVerdict_proofs` (which begins with the lemmas about the tracker),
  `Sender_proofs` and `Campaign_proofs` (`Campaign` and `Claims`) hold the theorems.

Where a module has a section of *faulty variants*, each is a definition with
one plausible bug, kept to show that the property named in `PROJECT.json` would
notice it. No specification uses them.

A datagram is only what the code tells apart (short, wrong magic, wrong
version, valid; truncated or not). A valid packet carries its number among the
valid ones in place of its sequence number: loss, duplication and reordering
are the subject of `SequenceTracker`.

## Runs

| Run | Bounds | What it shows |
|---|---|---|
| `spsc_bench` | 4 slots, 9 elements | Both indices wrap twice, so every slot is reused with old indices around. No race, a bounded FIFO, complete hand-off, and `run_once()` returns. |
| `threaded` | 2 slots, batches of 2, limit 5 of 6 datagrams | With one usable slot the queue is full, empty and wrapped all the time, and the limit is no multiple of the batch. SIGINT or a socket error at any step: order, drain, report, depth, exit, and `ReceiverContract`. |
| `receiver_trace` | batches of 2, limit 7 of 8 datagrams, every second packet sampled, a log buffer of two records, one short write, a kill | The two synchronous receivers: contract, exit after SIGINT; and what is loaded is what was logged, or an error, unless the header was lost. |
| `verdict` | 2 slots of 2 numbers, 8 packets, a socket buffer of 2, two disturbances | Trackers agree with a full record inside the window and are bracketed outside it; the losses of a valid run are real; a qualified run is lossless and was not disturbed. |
| `sender` | 2 workers (1 in burst mode), 4 packets, batches of 2, bursts of 3, one EINTR per worker | All modes, partial and failed sends, late workers and SIGINT at any step: each number once, the schedule covered, and what the gap analysis calls a gap is lateness. |
| `run_attempts` | 2 attempts, 1 transport fault, 1 failing program | A run with its retry; a connection drops or a program fails at any step. What the first attempt reports is sound, diagnostics stay on the node until there is metadata, a failing run stops what it started, and the run always ends. |
| `attempts_one_drop`, `attempts_verdict` | the same | Two comments of `main.py` about failing runs that the code does not meet (see below). |
| `shutdown` | none | Every order in which workload and wrapper end, hang or fail while signals escalate. |
| `campaign` | 3 qualification runs at 2 rates, 4 comparison runs at 3 rates | All shuffles and verdicts, failing runs, the controller killed at any step. |
| `claims` | 12 configurations with 3 repetitions at two amounts of work, with and without sampling, two deviations, two calls of `publish()` of which the second counts as a deviation | What a claim that passes says is true of the runs, the comparison is fair, and published files belong together. |
| `claims_saturated` | the 6 configurations without work, three deviations, one call | A blocker of the gate that does not mean what it says (see below). |

The bounds `MaxDatagrams`, `MaxShort`, `Horizon`, `MaxEintr`, `MaxFlood`,
`MaxFaults`, `MaxTroubles` and `MaxPublishes` limit only the environment.
`MAX_RUN_ATTEMPTS` is the constant of `main.py`, with its value. One fault and
one failing program reach every exception path of `execute_run()`, since each
attempt leaves by the first one. In the sender the clock has ticks of a third of
a second and rate 2 per second, so that deadlines do not fall on a grid and
rounding matters.

In `verdict`, eight numbers take each slot of the ring by two blocks in turn, so
that a number can return to a block that was retired; two disturbances are the
fewest of which one can hide the other (a loss and a duplicate, an overflow and a
failing probe). `ReorderScale` 4 stands for 10000, so that one reordered
packet in eight is allowed. In `claims` each workload has a rate its receiver
sustains and one it does not, one receiver has two batch sizes, and two workloads
only a sustainable rate; the pipelined receiver is sampled and the others are not,
so that every claim about it pairs the two; three repetitions instead of five leave a median that is not an
extreme. A run loses a tolerable part (0.1%) only if it has 1000 packets, so that the
workload at the lower rates is either clean or lossy. Two deviations may fall on one configuration or on its rival, or one on
the runs and one on the profile. Reachable in this run, among others: a threaded
claim with work, two claims at once, a claim whose profile was prepared for other
work, a batched claim with a tolerated overflow, new files beside an old manifest,
and a new manifest beside an old latency figure. In `receiver_trace` two entries, a
full buffer, are as long as three legacy records, as the 1820 entries of a real
buffer (65520 bytes) are as long as 2340: a first flush that fails and a second one
that does not leave a file that loads in the legacy format.

Expected violations:

* `attempts_one_drop`. The files of a run are named after the run, so the retry
  finds the pid file of the first attempt, returns that pid and concludes that
  the receiver exited during startup. One dropped connection ends the campaign.
* `attempts_verdict`. `remove_files()` in the `finally` is not guarded: losing
  the connection there turns a finished run, valid or not, into a retry that
  overwrites its metadata.
* `claims_saturated`. The gate blocks a claim unless each configuration has a
  lossy rate above (`generate_claim_evidence.py` calls it saturated); the code
  only asks whether some valid run of the workload was offered more. Three runs
  that the sender could not keep up with, losing nothing, satisfy it.

The first two need a failure that the harness tests do not produce; on a first attempt
over connections that hold, `FirstResultIsSound` and
`FirstAttemptStopsItsProcesses` hold. Three more consequences show up in the same
model and have no run of their own: after a lost connection the clean-up is lost
with it, so that the retry may start its receiver beside the first one; the retry
may take the status and statistics files of the first attempt for its own, since
names are unique per run and not per attempt; and a monitor that writes the
status and exits between the two halves of a poll is reported as having exited
without status, which is not retried.

Properties were first written as the documents say them, and some had to be
weakened to what the code does. What the weaker statement leaves open:

* The class comment of `sequence_tracker.hpp` promises `block_count * block_size`
  numbers of lookback. A slot is cleared as a whole when the first number of a
  later block arrives, so only `(block_count - 1) * block_size` is guaranteed
  (61440 of 65536), which is `LookbackIsGuaranteed`. This invalidates no count.
* Validity reads neither gaps, reordering nor `receive_out_of_window`, and does not
  compare losses with the kernel's and the NIC's counters, although
  `docs/experiment_plan.md` calls unreconciled accounting invalid. So
  `ValidLossIsReal` bounds a reported loss only up to `out_of_window`, and
  `QualifiedIsLossless` allows as many hidden losses as the reordering allowance.
* An empty section of socket drops or of `tc` is parsed as 0 drops. The socket's
  drops also show in `/proc/net/snmp`, whose parser asks for its counters, but
  nothing else shows those of the queueing discipline, which
  `QualifiedIsUndisturbed` therefore excepts. In validity, though not in
  qualification, a throttling bit that could not be read is as good as a clear one.
* The loader accepts a log that lost whole records, and the receiver's exit code
  is 0 after a short write; two short writes may cancel out to a whole number of
  records. The header is written by the first flush, and lost with it: if that
  flush gets not even the magic number to the disk, what later flushes write has no
  header, and the loader reads entries as legacy records when the length allows,
  although its comment promises a `ValueError` for malformed input
  (`latency_utils.py:61`). `LogIsNeverGarbled` therefore speaks of one damage that
  spared the magic number, and of a subsequence of what was logged. Where entries
  follow a part of the header, the loader takes their words for version and sizes;
  the model takes them for wrong ones, which they are unless a sequence number and
  a time happen to have the value of those fields.
* `CONFIGURATION_KEYS` of `profile_tools.py` tell six properties of a workload apart,
  and repetitions are grouped by all of them. The selection lets each batch, work
  and sampling compete at its highest rate, whatever mode, burst, payload and
  duration (`setup` in the model), and requires that the three representatives have
  the same `work_ns`, nothing else. So a claim may compare a sampled run with an
  unsampled one, which the comment there calls different workloads; it does so in
  `claims`. `ClaimIsSound` promises equal work only, and `ClaimIsFair` that no
  baseline at that work, of any sampling and setup, was much faster: the 2% of
  the selection, plus the 1% and 0.1% a sustained run may be short of its rate,
  since the selection ranks by rate first.
* The profile's work per packet is not compared with the claim's, medians skip
  counters that perf could not provide, and only core events are checked for
  multiplexing; `ClaimIsFair` compares batch sizes and asks for one run of each side.
* `publish()` checks repetitions per receiver, batch and rate, ignores the rest of
  the workload and cannot see a configuration without any run. A call that fails
  leaves newer files beside an older manifest; `PublishedTogether` says that
  nothing the manifest's call had to write is older than the manifest. What that
  call did not write may be older: the third figure and `latency_summary.csv` when
  it was given no latency session, and, not modelled, perf reports of another
  profile session, whose runs have other names. The manifest itself lists the
  files of the sessions, not those beside it. Invalid runs may be published but are never
  part of a claim.
* One unreadable trace or unbalanced report stops the summary of a whole session.

## Fairness

* `SPSCBench`: both threads run; a load that is repeated for ever returns a new
  value eventually (the C++ standard's progress guarantee for atomics), which is
  strong fairness on the loads that see the latest store.
* `ThreadedReceiver`, `SyncReceiver`: the threads run, and a receive call
  returns because `SO_RCVTIMEO` is set. Nothing is assumed of arrivals, errors or
  SIGINT: they are actions of `Environment`, without fairness.
* `Sender`: the clock runs, the threads are scheduled, `sendmmsg` returns.
  Interrupted calls are bounded.
* `RunAttempts`: the controller runs, a monitor writes the pid of what it has
  forked, and every wait reaches its deadline (strong fairness of
  `WaitTimesOut`, because polling disables and enables it: the deadline of
  `wait_process()` passes however often it polls). Nothing is assumed of the
  programs, which may run for ever, or of the network.

`RunVerdict`, `ShutdownProcess`, `Campaign` and `Claims` are checked for safety only;
their steps are finitely many by construction, and TLC's deadlock check shows that
they do not stop early.

## Proofs

Checked by TLAPS, for every value of the constants that the assumptions below
allow. Where the type invariant of a specification is proved (`TypeCorrect`), no
run checks it.

* `SPSCQueue_proofs`: arithmetic of the ring (`MaskSucc`, `MaskLap`,
  `MaskDistinct`: counts less than a lap apart never share a slot) and one lemma
  per operation on `QueueInv`. The key conjunct is
  `commits + 1 <= tailSeen + Capacity`: the ring is not overfull *even by what
  the producer has seen of the pops*. The plain bound `commits - pops < Capacity`
  is not inductive, because a successful `try_alloc()` compares with an old tail.
* `SPSCBench_proofs`: `Inv` adds what each program counter implies
  (`ControlInv`) and where each element is (`DataInv`). From `Spec => []Inv`
  follow `TypeCorrect`, `RaceFreedom` and `Lossless`. For `Refinement` the
  content of the ring is shown to be the run of elements from `pops` to
  `commits - 1`; commit appends to it, pop removes its head, and all other steps
  leave both counts, hence the content, alone.

* `ThreadedReceiver_proofs`: the same queue lemmas under the receiver's two
  threads. `Inv` is `QueueInv` with `ThreadInv` (what `rxpc` and `wpc` imply:
  what is allocated, held, seen of `producer_done`), `DataInv` (every accepted
  packet is in its slot, in the worker's hands or processed, in order) and
  `CountInv` (the classes of datagrams add up; valid packets are accepted,
  overflowed or in hand; processed ones were popped or are about to be). The
  drain is complete because `producer_done` is read with acquire *before* the
  last `front()`: `ThreadInv` says that from then on `headSeen = commits`. From
  `Invariance` follow `TypeCorrect`, `RaceFreedom`, `InOrder`, `Drained` and
  `Balanced`; `Depth` and `Limit` have small inductions of their own on top of
  it. They hold for every ring, batch size, packet limit and number of
  datagrams.
  `ContractHolds` is `ImplementsContract`. What the contract calls waiting
  is the end of `accepted` from the last processed packet on, followed by the
  packet in the receive thread's hands. So a push that succeeds is no step of the
  contract (`CommitIsQuiet`), one that fails drops the newest packet
  (`DropIsNewest`), and the packet under the worker's pointer is the oldest one
  waiting, which is `DataInv`. That nothing waits when the report is written is
  `Drained`.
* `SyncReceiver_proofs`: `Shape` says what a log looks like, word by word: the
  header, a run of words from the beginning of the entries, and all entries from
  some later one on. `Intact` has no gap, `Damaged` at most one, and `Headless` lacks
  the header or its end. What has such a shape is the file followed by what stdio and
  the vector still hold (`Content`). The point is where a gap ends: a write ends with
  a whole entry, so that a short one loses words up to the end of an entry
  (`EndIsLost`, `FlushKeeps`), or, when it is the first, the end of the header with
  all that followed it (`HeaderIsLost`). What is appended later does not bring the
  header back (`StaysHeadless`), and such a file does not load if it has the magic
  number (`HeadlessFails`). Without the magic number it may load as a file of the older
  format, which is why `LogIsNeverGarbled` asks for it. If a file with one gap has a
  payload of whole records, the words before the gap are whole records, too
  (`DamagedLoads`), which gives `LogIsNeverGarbledHolds`; without damage it loads as it
  was logged (`HeaderIsFound`, `IntactLoads`, `LogIsCompleteHolds`). A kill leaves a
  beginning of the content, or, if it hits the first write, a part of the header
  (`KillLeaves`, `RemainsPart`), which loads only if it is empty (`HeaderLoads`).
  `ContractHolds` needs only `PacketInv`: one packet waits between being counted and
  being processed.
* `ProcessControl_proofs`, first half: `SignalInv` (a workload that is still there has
  had every signal so far), `KillInv` (after SIGKILL nothing is left that could still
  end, so that what is found stuck stays so), `StatusInv` and `WrapperInv`. From
  them `ShutdownTypeCorrect`, `Stopped` and `Escalated`.
* `ProcessControl_proofs`, second half: `RunAttempts` for any number of attempts,
  faults and failing programs. `NodeInv` says that the files on the nodes tell the
  truth: a pid file names an attempt that was made, a status file the exit of a
  process whose monitor is gone. `LaunchInv` and `JobInv` say what the controller's
  position and the purpose of its wait imply about what it has started and what it has
  collected, `EligibleInv` which exceptions may be retried, `FirstInv` what a first
  attempt has in hand when it reports, `StopInv` what is left of its processes behind
  each step of the `finally`. What makes `StopInv` inductive is that no step but a
  launch gives a process life (`Wanes`), so that what a stop has seen gone stays gone.
  From `Inv` follow `TypeCorrect`, `FirstResultIsSoundHolds`,
  `DiagnosticsAreKeptHolds` and `FirstAttemptStopsItsProcessesHolds`.
* `RunVerdict_proofs`, first half: `TrackerInv` relates a tracker to the set and the number
  of arrivals it has seen, for every block size and ring: what a resident block
  marks is what has arrived in it (`RingInv`), the extremes are those of the
  arrivals (`ExtremesInv`), and `unique` is at most `out_of_window` too high
  (`CountInv`). The step that could break it is a number whose block was retired:
  two blocks share a slot only if they are a whole ring apart, so such a number is
  more than `Lookback` behind. `TrackerInv` has no variables in it, only a tracker
  value, and one lemma (`ObserveInv`) carries it over `observe()`; the two
  trackers of a run each use it.
* `RunVerdict_proofs`, second half: `Inv` is `TypeInv`, `TrackInv` (`TrackerInv` for both
  trackers), `FlightInv` (each number that was submitted is lost, held by the
  network, in the socket buffer or received, and a lost one is nowhere else; what was
  not read is what the receiver reports as pending) and `DisturbInv` (what
  disturbed a node since its first probe shows in the difference to the second one,
  unless a probe failed, which shows too; the drops of `tc` and of `/proc/net/udp` have
  no part in it, because these sections read 0 when they are empty). From it `TrackersAreExactHolds`,
  `LossIsVisibleHolds`, `LookbackHolds`, `ValidLossIsRealHolds`,
  `QualifiedIsLosslessHolds` and `QualifiedIsUndisturbedHolds`: the verdicts mean
  what the campaign takes them for whatever the number of packets and disturbances
  and their order.
* `Sender_proofs`: an adaptive batch never reaches further than one window along the
  schedule (`CountType`; that the largest such batch exists uses that sets of
  naturals have a least element), and a worker that sends in steady mode has waited
  for the first deadline of its batch (`SteadyInv`). So the record of the trace that
  sorts last was early by at most a window (`NewestInv`), which gives
  `GapsAreLatenessHolds`. Both parts of `NewestInv` are about the shared trace, and a
  step of one worker must leave the waiting of the others alone (`OneWorker`).

  The rest is bookkeeping over all workers. `RangeInv`: the ranges that
  workers hold or have sent are below the shared counter and disjoint. `SentInv` and
  `TraceInv`: `sent` is what the traces cover, and each record is a range of its own.
  `AccountInv`: what a worker has attempted is what it has sent, failed or still has
  in hand. `ExitInv` says which workers a successful exit stands for, and
  `ClaimInv` that a worker has started exactly the slots of its share below its
  position; that the shares of all workers partition the schedule is arithmetic of
  the stride (`StrideUnique`, `StrideCovers`). From these, which are
  `LedgerInv`, follow `EachSequenceSentOnceHolds`, `TraceReconcilesHolds`,
  `ScheduleIsCoveredHolds` and `InterruptedRunFailsHolds`. The totals are the folds of
  the community modules. Their one equation (a sum is one element's value and the sum
  of the others, `SumEquation`) is proved from the definition, and what needs an
  induction over the size of a set is argued by a set of least size that violates
  it, which the prover can do because the naturals are well founded.
* `Campaign_proofs`, first half: `ListInv` (no run is twice in a list, and what was last saved is
  the manifest), `FileInv` (the metadata files are those of the runs in the manifest
  and of the run that was made and not yet recorded), `QualifyInv` and `CompareInv`
  (only runs before the current one are recorded, and in the comparison the list at
  hand is the frozen one) and `FrozenInv` (a comparison run that was made is on the
  frozen list, and its rate qualified). A kill in
  the middle of a write sets `torn`, and nothing is claimed of that file. From `Inv`
  follow `TypeCorrect`, `DiskIsConsistentHolds`, `FrozenBeforeComparisonHolds` and
  `OnlyQualifiedRatesHolds`, for every plan of runs.
* `Campaign_proofs`, second half: what a claim that passes says, for every set of
  configurations, number of repetitions, outcome of the runs and profile. Most of it
  is about the operators the gate is built from, without any step. A median is within
  the bounds of its numbers (`MedianBounds`: among the values with no more than half of
  the numbers above them, the least has no more than half below it). The repetitions of
  a configuration are as many as are required (`RunsOfConfig`), and the rows of its
  group correspond to its runs one to one (`GroupSize`), so that a group of the required
  size leaves none out (`CompleteGroup`). This is why a claim made from rows is true of
  runs, also of those that have no row. What the summary calls sustainable was that only
  if the report adds up and the trace could be read (`SustainableIsSustained`), which
  `process_directory()` has made sure of. A baseline that sustained its rate was eligible,
  so that one of at least its rate took part in the selection: of the rivals of a
  setup and a workload the one of the highest rate wins, which exists because
  finitely many rates have a bound (`FiniteBound`, `RatesBounded`, `ContestWon`). The
  chosen one's median is within 2% of the best, and a median is near the rate of its
  group (`PaceBounds`), which together gives the 3.1% of `PassingIsFastest`. If every value known of one side were at least
  every value known of the other, so would be their medians (`FewerSomewhere`).
  `ClaimInv` then only says that the rows are those of the runs from the summary on
  (`RowInv`), that nothing is claimed before `publish()` (`ClaimedLate`), when runs,
  selection and samples are final, and that the files the present call has written are
  its own (`WrittenInv`). From it `ClaimTypeCorrect`, `ClaimIsSoundHolds`,
  `ClaimIsFairHolds` and `PublishedTogetherHolds`.

Assumptions: `CapacityAssumption` (`static_assert` of the queue),
`ReceiverAssumption` (batch size, limit and bound are numbers the arguments can
have), `TrackerAssumption` (a ring has blocks and a block has numbers),
`VerdictAssumption` (the socket buffer has room for a packet, the scale of the
reordering allowance is positive), `PacingAssumption` and `SenderAssumption` (rate,
duration, batch and worker counts are positive, as the arguments are checked to be),
`BinaryLogAssumption` (the sizes of the two log formats: the magic number is part of
the header and no longer than a legacy record, an entry fits into the buffer),
`SyncAssumption` (batch size, limits and bounds are numbers), `CampaignAssumption`
(a plan is finite, and qualification and comparison have different runs),
`AttemptsAssumption` and `FaultsAssumption` (at least one attempt; the bounds are
numbers), `ClaimsAssumption` (the tuples differ, their rates are positive, and the
repetitions are an odd number), and `NoItemAssumption` and `ElementsAssumption`,
which only name the items.

Every invariant that a passing run checks is also proved. Only model-checked: the
liveness properties (`Terminates` of the benchmark and of the sender,
`ShutdownCompletes`, `StopTerminates`, `RunEnds`), which stay with TLC for good, since
the prover handles neither fairness nor ENABLED. The runs that expect a violation have
nothing to prove.

## Plan

1. `EnvTuning` (setup and restore of a node around a crash), the launch of a
   profiled workload, and `LocalNode`.
2. Proofs: that a run of `RunAttempts` implements the one step `Campaign` makes of it,
   as far as its transport faults allow.

## Not modelled

`LocalNode`, the launch of a profiled workload and the reuse of a pid by another
process; how a probe is taken, of which only the outcome (a value, or a failure
that the verdict reads) is in `RunVerdict`. The environment scripts read and write
settings of the machine they run on (sysfs, ethtool, chrony, systemd), and what a
setting is before and after depends on that machine. Time stamps, clock-drift removal,
latency statistics, the aggregate over repetitions and plots are numeric output;
affinity, scheduler and socket options are calls whose outcome no decision of
the programs reads; argument parsing is the choice of the constants. Weaker
memory behaviours than a load returning an older value of its own variable
(store reordering across release) are excluded by the orders the code uses.
Sequence numbers above 2^32, which the header would truncate, are out of reach
of any configured run.
