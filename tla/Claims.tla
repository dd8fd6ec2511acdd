------------------------------- MODULE Claims -------------------------------
(***************************************************************************)
(* From measured runs to a published claim: summarize_run() and            *)
(* process_directory() of analysis/generate_summary.py, the choice of      *)
(* representatives and the profile session of analysis/profile_tools.py,   *)
(* the gate of analysis/generate_claim_evidence.py and the export of       *)
(* analysis/publish_results.py.                                            *)
(*                                                                         *)
(* A run is one of a few outcomes, and what deviates from a clean          *)
(* measurement or profile is one of at most MaxTroubles. The runs belong   *)
(* to one comparative campaign on the physical topology. The shuffled      *)
(* order of the runs is left out, since the summaries group them; the      *)
(* repetitions of a configuration are listed by outcome. Figures and       *)
(* reports have no part in a claim and are only files here; the reports    *)
(* have the names of the runs of the one profile session there is.         *)
(***************************************************************************)
EXTENDS Integers, Sequences, FiniteSetsExt, SequencesExt

CONSTANTS
  Configs,               \* the tuples of the campaign; setup numbers what mode, burst_size,
                         \* payload_size and duration_seconds are, in the order of groupby()
  Overload,              \* the places of those no receiver keeps up with
  REQUIRED_REPETITIONS,  \* repetitions of a comparative tuple (5)
  MaxTroubles,           \* bound of the model: deviations from a clean session
  MaxPublishes           \* bound of the model: calls of publish()

Receivers == {"baseline", "batched", "threaded"}
Candidates == {"batched", "threaded"}

Tuples == [receiver : Receivers, batch_size : Nat, work_ns : Nat, sample_every : Nat,
           setup : Nat, rate : Nat \ {0}]

ASSUME ClaimsAssumption ==
  /\ Configs \in Seq(Tuples)
  /\ IsInjective(Configs)
  /\ Overload \subseteq 1 .. Len(Configs)
  /\ REQUIRED_REPETITIONS \in Nat /\ REQUIRED_REPETITIONS % 2 = 1
  /\ MaxTroubles \in Nat /\ MaxPublishes \in Nat

(* What can become of a run. *)
Outcomes == <<"failed", "trace_damaged", "unbalanced", "invalid", "sender_limited",
              "lossy", "overflow_tolerated", "ingress_tolerated", "clean">>

(* The counters of the profiles a claim rests on, in each of the three     *)
(* perf stat runs; None is a counter perf could not provide.               *)
Counters == {"recvfrom", "recvmmsg", "cycles"}
StatRuns == 1 .. 3
None == -1

(* Any work_ns, or the one given with --work-ns. *)
AnyWork == -1
Work == {AnyWork} \union {Configs[i].work_ns : i \in 1 .. Len(Configs)}

VARIABLES
  phase,     \* "measure", "summarize", "prepare", "profile", "idle", "publish" or "stopped"
  outcomes,  \* the outcomes of the runs so far
  per_run,   \* the rows of per_run_summary.csv
  selected,  \* the representatives the profile session was prepared for
  profile,   \* what became of the profile session
  samples,   \* per receiver, counter and perf stat run, the value per packet
  claim_work,\* --claim-work-ns of the present call of publish()
  latency_calls, \* the calls of publish() given a --latency-session
  written,   \* how many of Outputs the present call has written
  attempt,   \* calls of publish() so far
  writer,    \* which call wrote each output last; 0 is none
  claims,    \* the rows of claim_evidence.csv that pass
  troubles

claimVars == <<phase, outcomes, per_run, selected, profile, samples, claim_work, latency_calls,
               written, attempt, writer, claims, troubles>>

(* What a clean profile shows: the baseline receives one packet per call,  *)
(* the others in batches; a second thread polls and costs cycles.          *)
CleanSamples ==
  LET value(r, k) == CASE k = "recvfrom" -> IF r = "baseline" THEN 100 ELSE 0
                       [] k = "recvmmsg" -> IF r = "baseline" THEN 0 ELSE 30
                       [] k = "cycles" -> IF r = "batched" THEN 90 ELSE 100
  IN  [r \in Receivers |-> [k \in Counters |-> [n \in StatRuns |-> value(r, k)]]]

Costs(n) ==
  /\ troubles + n <= MaxTroubles
  /\ troubles' = troubles + n

-----------------------------------------------------------------------------
(* Faulty variants of the definitions that follow.                         *)

(* Representatives may come from several workloads. *)
OneWorkloadUnchecked(selection) == DOMAIN selection = Receivers

(* A counter that perf could not provide counts as zero. *)
UnavailableIsZero(r) ==
  [n \in StatRuns |-> FoldSet(LAMBDA k, sum : IF samples[r][k][n] = None THEN sum
                                              ELSE sum + samples[r][k][n],
                              0, {"recvfrom", "recvmmsg"})]

(* The checksums are written before the claims. *)
OutputsManifestFirst ==
  <<"benchmark_summary", "checksum_manifest", "claim_evidence", "latency", "exports">>

-----------------------------------------------------------------------------
(* Measurement. Repetitions of a configuration follow each other, those    *)
(* that deviate first.                                                     *)
ConfigOf(i) == Configs[(i - 1) \div REQUIRED_REPETITIONS + 1]
Repetition(i) == (i - 1) % REQUIRED_REPETITIONS
RunCount == Len(Configs) * REQUIRED_REPETITIONS

(* What is expected of a run, which is no deviation. *)
Nominal(i) ==
  IF (i - 1) \div REQUIRED_REPETITIONS + 1 \in Overload THEN "lossy" ELSE "clean"

(* A loss of at most 0.1% takes 1000 packets.                              *)
Possible(i, o) ==
  Outcomes[o] \in {"ingress_tolerated", "overflow_tolerated"} => ConfigOf(i).rate >= 1000

MeasureRun(o) ==
  LET i == Len(outcomes) + 1
  IN  /\ phase = "measure"
      /\ i <= RunCount
      /\ Possible(i, o)
      /\ Repetition(i) # 0 /\ outcomes[i - 1] # o =>
           /\ Outcomes[outcomes[i - 1]] # Nominal(i)
           /\ Outcomes[o] = Nominal(i) \/ outcomes[i - 1] < o
      /\ Costs(IF Outcomes[o] = Nominal(i) THEN 0 ELSE 1)
      /\ outcomes' = Append(outcomes, o)
      /\ phase' = IF i = RunCount THEN "summarize" ELSE phase
      /\ UNCHANGED <<per_run, selected, profile, samples, claim_work, latency_calls,
                     written, attempt, writer, claims>>

Outcome(i) == Outcomes[outcomes[i]]

(* summarize_run(): the row of a run, and whether it offered at least 99%  *)
(* of the requested rate and lost at most 0.1%. A failed run has none.     *)
summarize_run(i) ==
  LET rate == ConfigOf(i).rate
      sent == IF Outcome(i) = "sender_limited" THEN (98 * rate) \div 100 ELSE rate
      loss == CASE Outcome(i) \in {"ingress_tolerated", "overflow_tolerated"} -> rate \div 1000
                [] Outcome(i) = "lossy" -> rate \div 10 + 1
                [] OTHER -> 0
      overflow == CASE Outcome(i) = "overflow_tolerated" -> loss
                    [] Outcome(i) = "unbalanced" -> 1
                    [] OTHER -> 0
      received == IF Outcome(i) = "overflow_tolerated" THEN sent ELSE sent - loss
      valid == Outcome(i) # "invalid"
  IN  [run_id |-> i, config |-> ConfigOf(i), run_valid |-> valid,
       received |-> received, processed |-> sent - loss, spsc_overflow |-> overflow,
       ingress_loss |-> sent - received, application_loss |-> loss,
       sustainable_run |-> valid /\ 100 * sent >= 99 * rate /\ 1000 * loss <= sent]

RunIds == {i \in 1 .. Len(outcomes) : Outcome(i) # "failed"}

(* The report of the receiver accounts for every packet it received.       *)
validate_metadata(row) == row.processed + row.spsc_overflow = row.received

(* process_directory(): one run whose report does not add up or whose      *)
(* trace cannot be read, and there is no summary of any run.               *)
process_directory ==
  /\ phase = "summarize"
  /\ IF \A i \in RunIds : validate_metadata(summarize_run(i)) /\ Outcome(i) # "trace_damaged"
       THEN phase' = "prepare" /\ per_run' = {summarize_run(i) : i \in RunIds}
       ELSE phase' = "stopped" /\ UNCHANGED per_run
  /\ UNCHANGED <<outcomes, selected, profile, samples, claim_work, latency_calls,
                 written, attempt, writer, claims, troubles>>

-----------------------------------------------------------------------------
(* Selection. *)

(* The median of the numbers in the range of f, times two.                 *)
TwiceMedian(f) ==
  LET Below(v) == Cardinality({i \in DOMAIN f : f[i] < v})
      Above(v) == Cardinality({i \in DOMAIN f : f[i] > v})
      middle == {v \in Range(f) : /\ 2 * Below(v) <= Cardinality(DOMAIN f)
                                  /\ 2 * Above(v) <= Cardinality(DOMAIN f)}
  IN  Min(middle) + Max(middle)

claim_population == {row \in per_run : row.run_valid}

AllRepetitions(repetitions) == Cardinality(repetitions) = REQUIRED_REPETITIONS

Workload(c) == <<c.receiver, c.batch_size, c.work_ns, c.sample_every, c.setup>>

(* Some run of the same workload was offered a higher rate.                *)
saturated(c, data) ==
  \E row \in data : Workload(row.config) = Workload(c) /\ row.config.rate > c.rate

sustainable_groups ==
  LET data == claim_population
      Group(c) == {row \in data : row.config = c}
      passing == {c \in {row.config : row \in data} :
                    AllRepetitions(Group(c)) /\ \A row \in Group(c) : row.sustainable_run}
      Processed(c) == {row.processed : row \in Group(c)}
  IN  {[config |-> c,
        processed_twice_median |-> TwiceMedian([row \in Group(c) |-> row.processed]),
        processed_min |-> Min(Processed(c)), processed_max |-> Max(Processed(c)),
        saturated |-> saturated(c, data),
        run_ids |-> {row.run_id : row \in Group(c)}] : c \in passing}

(* Each batch competes at its highest sustainable rate, per work_ns and    *)
(* sample_every: the other keys of a workload compete with each other, and *)
(* the first row with that rate counts.                                    *)
Contest(c) == <<c.batch_size, c.work_ns, c.sample_every>>

Highest(passing) ==
  {g \in passing : \A h \in passing :
     Contest(h.config) = Contest(g.config) =>
       \/ h.config.rate < g.config.rate
       \/ h.config.rate = g.config.rate /\ h.config.setup >= g.config.setup}

(* The smallest batch within 2% of the best median. Rows that tie on batch *)
(* and rate are in no particular order.                                    *)
Representatives(passing, receiver) ==
  LET candidates == Highest({g \in passing : g.config.receiver = receiver})
      best == Max({g.processed_twice_median : g \in candidates})
      within_two_percent == {g \in candidates : 100 * g.processed_twice_median >= 98 * best}
  IN  {g \in within_two_percent : \A h \in within_two_percent :
         \/ g.config.batch_size < h.config.batch_size
         \/ g.config.batch_size = h.config.batch_size /\ g.config.rate >= h.config.rate}

(* "Selected representatives span multiple workloads" is not raised: of    *)
(* the workload only work_ns is compared, so that a sampled run may be     *)
(* paired with an unsampled one, or with one of another setup.             *)
OneWorkload(selection) == Cardinality({selection[r].config.work_ns : r \in Receivers}) = 1

(* The selections that can be returned; none when it raises. *)
select_representatives(work) ==
  LET passing == {g \in sustainable_groups : work \in {AnyWork, g.config.work_ns}}
      Of(r) == Representatives(passing, r)
  IN  IF \A r \in Receivers : \E g \in passing : g.config.receiver = r
        THEN {s \in {[baseline |-> b, batched |-> c, threaded |-> t] :
                       b \in Of("baseline"), c \in Of("batched"), t \in Of("threaded")} :
                OneWorkload(s)}
        ELSE {}

-----------------------------------------------------------------------------
(* The profile session. *)

prepare_profile_config(work) ==
  /\ phase = "prepare"
  /\ LET selections == select_representatives(work)
     IN  IF selections = {}
           THEN phase' = "stopped" /\ UNCHANGED selected
           ELSE phase' = "profile" /\ selected' \in selections
  /\ UNCHANGED <<outcomes, per_run, profile, samples, claim_work, latency_calls,
                 written, attempt, writer, claims, troubles>>

(* Three perf stat runs and one record run per receiver, as prepared. A    *)
(* counter of one receiver may read otherwise in the first runs.           *)
ProfileCompletes(receiver, counter, deviating, value) ==
  /\ phase = "profile"
  /\ profile' = "complete"
  /\ samples' = [samples EXCEPT ![receiver][counter] =
                   [n \in StatRuns |-> IF n <= deviating THEN value ELSE @[n]]]
  /\ Costs(IF samples' = samples THEN 0 ELSE 1)
  /\ phase' = "idle"
  /\ UNCHANGED <<outcomes, per_run, selected, claim_work, latency_calls, written,
                 attempt, writer, claims>>

(* A run is missing, empty or invalid, or a core event was multiplexed.    *)
ProfileDeviates(result) ==
  /\ phase = "profile"
  /\ profile' = result
  /\ Costs(1)
  /\ phase' = "idle"
  /\ UNCHANGED <<outcomes, per_run, selected, samples, claim_work, latency_calls,
                 written, attempt, writer, claims>>

(* Exactly nine stat and three record runs, each valid and with its files. *)
validate_profile_session == profile \notin {"run_missing", "run_invalid"}

(* There is a profile summary: it is refused when the counts of a core     *)
(* event were scaled up from less than 90% of the time.                    *)
summarize_profiles == profile # "multiplexed"

(* A sum with an unavailable counter is unavailable. *)
receive_syscalls(r) ==
  [n \in StatRuns |->
     IF None \in {samples[r]["recvfrom"][n], samples[r]["recvmmsg"][n]} THEN None
     ELSE samples[r]["recvfrom"][n] + samples[r]["recvmmsg"][n]]

cycles(r) == samples[r]["cycles"]

(* groupby("receiver").median(): what is unavailable is skipped.           *)
KnownRuns(values) == {n \in StatRuns : values[n] # None}
profile_median(values) == TwiceMedian([n \in KnownRuns(values) |-> values[n]])
_finite(values) == KnownRuns(values) # {}

-----------------------------------------------------------------------------
(* The gate. *)

_throughput_blockers(base, cand) ==
  \/ ~base.saturated
  \/ ~cand.saturated
  \/ 100 * cand.processed_twice_median < 105 * base.processed_twice_median
  \/ cand.processed_min <= base.processed_max

(* A queue or a socket buffer that overflowed in any repetition.           *)
_overlap_blockers(cand) ==
  \E row \in per_run :
    row.run_id \in cand.run_ids /\ (row.ingress_loss # 0 \/ row.spsc_overflow # 0)

(* Profiled at another batch, or no fewer receive system calls, or no      *)
(* fewer cycles for the batched receiver. The work per packet of the       *)
(* profile is not compared with that of the measurement.                   *)
_mechanism_blockers(base, cand) ==
  LET receiver == cand.config.receiver
      Known(values(_)) == _finite(values("baseline")) /\ _finite(values(receiver))
      Median(values) == profile_median(values)
  IN  \/ selected["baseline"].config.batch_size # base.config.batch_size
      \/ selected[receiver].config.batch_size # cand.config.batch_size
      \/ ~Known(receive_syscalls)
      \/ 100 * Median(receive_syscalls(receiver)) > 95 * Median(receive_syscalls("baseline"))
      \/ IF receiver = "threaded"
           THEN _overlap_blockers(cand)
           ELSE \/ ~Known(cycles)
                \/ Median(cycles(receiver)) >= Median(cycles("baseline"))

(* The rows of claim_evidence.csv that pass for these representatives.     *)
Passing(selection) ==
  {[baseline |-> selection["baseline"].config, candidate |-> selection[r].config] : r \in
     {s \in Candidates :
        /\ ~_throughput_blockers(selection["baseline"], selection[s])
        /\ ~_mechanism_blockers(selection["baseline"], selection[s])}}

-----------------------------------------------------------------------------
(* publish(). *)

(* Every comparative tuple with any run has its five, valid or not. Of the *)
(* workload nothing else is part of the tuple here.                        *)
EveryTupleComplete ==
  LET tuple(row) == <<row.config.receiver, row.config.batch_size, row.config.rate>>
  IN  \A t \in {tuple(row) : row \in per_run} : AllRepetitions({row \in per_run : tuple(row) = t})

Publishable == EveryTupleComplete /\ validate_profile_session /\ summarize_profiles

(* What publish() writes, in order. Files that always follow each other    *)
(* are one: the first two figures belong to "claim_evidence", the third    *)
(* and latency_summary.csv are "latency", the perf reports and             *)
(* environment.json "exports".                                             *)
Outputs == <<"benchmark_summary", "claim_evidence", "latency", "exports", "checksum_manifest">>

(* Without a latency session the third figure and its summary are skipped. *)
WrittenBy(output, call) == output = "latency" => call \in latency_calls

(* To publish again is a deviation, too.                                   *)
PublishStarts ==
  /\ phase = "idle"
  /\ attempt < MaxPublishes
  /\ Costs(IF attempt = 0 THEN 0 ELSE 1)
  /\ Publishable
  /\ attempt' = attempt + 1
  /\ claim_work' \in Work
  /\ \E latency \in BOOLEAN :
       latency_calls' = IF latency THEN latency_calls \union {attempt'} ELSE latency_calls
  /\ phase' = "publish"
  /\ UNCHANGED <<outcomes, per_run, selected, profile, samples, written, writer, claims>>

PublishRefuses ==
  /\ phase = "idle"
  /\ ~Publishable
  /\ phase' = "stopped"
  /\ UNCHANGED <<outcomes, per_run, selected, profile, samples, claim_work,
                 latency_calls, written, attempt, writer, claims, troubles>>

(* The variables of the call are gone. *)
Returns == phase' = "idle" /\ written' = 0 /\ claim_work' = AnyWork

Write(output) ==
  /\ phase = "publish"
  /\ Outputs[written + 1] = output
  /\ writer' = IF WrittenBy(output, attempt) THEN [writer EXCEPT ![output] = attempt] ELSE writer
  /\ IF written + 1 = Len(Outputs)
       THEN Returns
       ELSE written' = written + 1 /\ UNCHANGED <<phase, claim_work>>
  /\ UNCHANGED <<outcomes, per_run, selected, profile, samples, latency_calls, attempt,
                 troubles>>

PublishWrites ==
  \E output \in Range(Outputs) \ {"claim_evidence"} : Write(output) /\ UNCHANGED claims

generate ==
  /\ Write("claim_evidence")
  /\ \E selection \in select_representatives(claim_work) : claims' = Passing(selection)

(* An exception leaves behind what this call and earlier ones wrote.       *)
PublishAborts ==
  /\ phase = "publish"
  /\ Returns
  /\ UNCHANGED <<outcomes, per_run, selected, profile, samples, latency_calls, attempt,
                 writer, claims>>

(* select_representatives() raises. *)
GenerateRaises ==
  /\ PublishAborts
  /\ Outputs[written + 1] = "claim_evidence"
  /\ select_representatives(claim_work) = {}
  /\ UNCHANGED troubles

PublishFails == PublishAborts /\ Costs(1)

-----------------------------------------------------------------------------
ClaimInit ==
  /\ phase = "measure"
  /\ outcomes = <<>>
  /\ per_run = {}
  /\ selected = <<>>
  /\ profile = "none"
  /\ samples = CleanSamples
  /\ claim_work = AnyWork
  /\ latency_calls = {}
  /\ written = 0
  /\ attempt = 0
  /\ writer = [output \in Range(Outputs) |-> 0]
  /\ claims = {}
  /\ troubles = 0

Profile ==
  \/ \E receiver \in Receivers, counter \in Counters, deviating \in {0, 2, 3}, value \in {None, 97} :
       ProfileCompletes(receiver, counter, deviating, value)
  \/ \E result \in {"run_missing", "run_invalid", "multiplexed"} : ProfileDeviates(result)

Publish == \/ PublishStarts
           \/ PublishRefuses
           \/ PublishWrites
           \/ generate
           \/ GenerateRaises
           \/ PublishFails

Finished ==
  /\ phase = "stopped" \/ (phase = "idle" /\ attempt > 0)
  /\ UNCHANGED claimVars

ClaimNext ==
  \/ \E o \in 1 .. Len(Outcomes) : MeasureRun(o)
  \/ process_directory
  \/ \E work \in Work : prepare_profile_config(work)
  \/ Profile
  \/ Publish
  \/ Finished

ClaimSpec == ClaimInit /\ [][ClaimNext]_claimVars

-----------------------------------------------------------------------------
(* The repetitions of a configuration as they were measured, whatever the  *)
(* summaries made of them.                                                 *)
MeasuredOf(c) == {i \in 1 .. RunCount : ConfigOf(i) = c}

Sustained(i) == Outcome(i) \in {"clean", "ingress_tolerated", "overflow_tolerated"}

MeasuredPps(i) == summarize_run(i).processed

MeasuredMedian(runs) == TwiceMedian([i \in runs |-> MeasuredPps(i)])

(* What the sentence of a claim says of the runs (generate(), lines 133 to *)
(* 143): every repetition of both configurations was valid, offered at     *)
(* least 99% of its rate and lost at most 0.1%; the two did the same work  *)
(* per packet; every repetition of the candidate was faster than every one *)
(* of the baseline; and a pipelined candidate lost nothing on its way in   *)
(* and never overflowed.                                                   *)
ClaimIsSound ==
  \A claim \in claims :
    LET base == MeasuredOf(claim.baseline)
        cand == MeasuredOf(claim.candidate)
    IN  /\ \A i \in base \union cand : Sustained(i)
        /\ claim.baseline.work_ns = claim.candidate.work_ns
        /\ \A fast \in {MeasuredPps(i) : i \in cand}, slow \in {MeasuredPps(i) : i \in base} :
             fast > slow
        /\ claim.candidate.receiver = "threaded" => \A i \in cand : Outcome(i) = "clean"

(* The comparison is fair, whatever selection the profile was prepared     *)
(* with and the claim is made with: no configuration of the baseline that  *)
(* sustained its rate with the same work per packet, at whatever batch     *)
(* size, sampling and setup, was faster than the one compared with by more *)
(* than 3.1%, which are the 2% of the selection, the 1% a sustained run    *)
(* may be short of its rate and the 0.1% it may lose; and fewer receive    *)
(* calls were counted, at the batch sizes of the claim, by counters perf   *)
(* provided for both sides. The two sides may still differ in sampling and *)
(* setup: the selection compares only their work per packet.               *)
ClaimIsFair ==
  \A claim \in claims :
    LET receiver == claim.candidate.receiver
        median == MeasuredMedian(MeasuredOf(claim.baseline))
    IN  /\ \A c \in Range(Configs) :
             c.receiver = "baseline" /\ c.work_ns = claim.candidate.work_ns =>
               LET runs == MeasuredOf(c)
               IN  (\A i \in runs : Sustained(i)) =>
                     969 * MeasuredMedian(runs) <= 1000 * median
        /\ selected["baseline"].config.batch_size = claim.baseline.batch_size
        /\ selected[receiver].config.batch_size = claim.candidate.batch_size
        /\ \E m, n \in StatRuns :
             /\ \A k \in {"recvfrom", "recvmmsg"} :
                  samples["baseline"][k][m] # None /\ samples[receiver][k][n] # None
             /\ samples[receiver]["recvfrom"][n] + samples[receiver]["recvmmsg"][n] <
                samples["baseline"]["recvfrom"][m] + samples["baseline"]["recvmmsg"][m]

(* The checksum manifest is the last file of a publication: when it is     *)
(* there, what its call of publish() had to write is not older than it,    *)
(* whichever call failed and wherever. The third figure and                *)
(* latency_summary.csv are part of that only when the call was given a     *)
(* latency session: after a call without one they may be what an earlier   *)
(* call left behind.                                                       *)
PublishedTogether ==
  LET call == writer["checksum_manifest"]
  IN  \A output \in Range(Outputs) : WrittenBy(output, call) => call <= writer[output]

(* What the blocker of the gate says when it is not raised: both           *)
(* configurations of a claim lost packets at a higher offered rate.        *)
SaturatedIsReceiverLimited ==
  \A claim \in claims : \A side \in {claim.baseline, claim.candidate} :
    \E i \in 1 .. RunCount :
      /\ Workload(ConfigOf(i)) = Workload(side)
      /\ ConfigOf(i).rate > side.rate
      /\ summarize_run(i).application_loss > 0

=============================================================================
