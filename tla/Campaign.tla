------------------------------- MODULE Campaign -------------------------------
(***************************************************************************)
(* run_campaign() of main.py: the qualification runs in shuffled order,    *)
(* then the rates of which every run qualified are frozen together with    *)
(* the comparison runs they leave, then those runs. The manifest is        *)
(* rewritten on disk after each run and at the freeze; the controller may  *)
(* be killed at any step, also while it rewrites the manifest, or an       *)
(* exception may end the campaign.                                         *)
(*                                                                         *)
(* A run is one execute_with_progress() (RunAttempts): it writes the run's *)
(* metadata file and returns, or raises. The run's verdict is whether it   *)
(* passed qualification; a valid or invalid comparison run is recorded     *)
(* alike.                                                                  *)
(***************************************************************************)
EXTENDS Integers, FiniteSets, Sequences

CONSTANTS
  Qualification,  \* the qualification run tuples
  Comparative,    \* the other run tuples
  rate,           \* rate[item]
  gated           \* the comparative tuples whose benchmark uses_qualified_rates

ASSUME CampaignAssumption ==
  /\ IsFiniteSet(Qualification)
  /\ IsFiniteSet(Comparative)
  /\ Qualification \intersect Comparative = {}
  /\ gated \subseteq Comparative

Item == Qualification \union Comparative

VARIABLES
  pc,                  \* phase of run_campaign()
  qualification,       \* the shuffled qualification order
  comparative,         \* the shuffled comparison order; filtered by the freeze
  next,                \* position in the list of the phase
  passed,              \* qualification_metadata: the verdicts, per finished run
  manifest,            \* the manifest in memory
  disk,                \* the manifest in the session directory
  torn,                \* it was cut off while it was written
  files                \* the runs whose metadata file is in the session directory

vars == <<pc, qualification, comparative, next, passed, manifest, disk, torn, files>>

(* The orders random.shuffle() can produce. *)
Orders(S) == {order \in [1 .. Cardinality(S) -> S] :
                \A i, j \in DOMAIN order : order[i] = order[j] => i = j}

Ran(order) == {order[i] : i \in DOMAIN order}

Init ==
  /\ qualification \in Orders(Qualification)
  /\ comparative \in Orders(Comparative)
  /\ pc = "build"
  /\ next = 1
  /\ passed = <<>>
  /\ manifest = [isFrozen |-> FALSE, eligible |-> {}, frozen |-> <<>>, runs |-> <<>>]
  /\ disk = manifest
  /\ torn = FALSE
  /\ files = {}

-----------------------------------------------------------------------------
(* Faulty variants of the definitions that follow.                         *)

(* One run that passed makes its rate eligible. *)
QualifiesOnce(r) ==
  \E i \in DOMAIN passed : rate[qualification[i]] = r /\ passed[i]

(* The file of the run is taken into the manifest before it exists. *)
RunItemRecordedFirst(phase, order, recording) ==
  /\ pc = phase
  /\ next <= Len(order)
  /\ disk' = [disk EXCEPT !.runs = Append(@, order[next])]
  /\ pc' = recording
  /\ UNCHANGED <<qualification, comparative, next, passed, manifest, torn, files>>

(* The freeze is written with the first comparison run. *)
SaveAfterRunsOnly == IF manifest'.runs = manifest.runs THEN disk ELSE manifest'

-----------------------------------------------------------------------------
(* manifest_path.write_text(), of the manifest as it now is. *)
Save == manifest'

Build(ok) ==
  /\ pc = "build"
  /\ pc' = IF ~ok THEN "failed" ELSE "qualify"
  /\ UNCHANGED <<qualification, comparative, next, passed, manifest, disk, torn, files>>

(* execute_with_progress(): the run writes its metadata file ... *)
RunItem(phase, order, recording) ==
  /\ pc = phase
  /\ next <= Len(order)
  /\ files' = files \union {order[next]}
  /\ pc' = recording
  /\ UNCHANGED <<qualification, comparative, next, passed, manifest, disk, torn>>

(* ... or raises, before or after it has written it. *)
RunRaises ==
  /\ \/ pc = "qualify" /\ next <= Len(qualification)
     \/ pc = "compare" /\ next <= Len(comparative)
     \/ pc \in {"qualified", "compared"}
  /\ pc' = "failed"
  /\ UNCHANGED <<qualification, comparative, next, passed, manifest, disk, torn, files>>

(* The result is appended to the manifest, which is saved. *)
Record(order) ==
  /\ manifest' = [manifest EXCEPT !.runs = Append(@, order[next])]
  /\ disk' = Save
  /\ next' = next + 1

RecordQualification(verdict) ==
  /\ pc = "qualified"
  /\ passed' = Append(passed, verdict)
  /\ Record(qualification)
  /\ pc' = "qualify"
  /\ UNCHANGED <<qualification, comparative, torn, files>>

RecordComparison ==
  /\ pc = "compared"
  /\ Record(comparative)
  /\ pc' = "compare"
  /\ UNCHANGED <<qualification, comparative, passed, torn, files>>

(* qualification_rates(): at least one run at the rate, and all passed. *)
Qualifies(r) ==
  /\ \E i \in DOMAIN passed : rate[qualification[i]] = r
  /\ \A i \in DOMAIN passed : rate[qualification[i]] = r => passed[i]

(* Without qualification runs nothing is filtered. *)
Kept(item) ==
  \/ Qualification = {}
  \/ item \notin gated
  \/ Qualifies(rate[item])

(* The list of the kept items, in the order they had: there is one.        *)
Filtered(order) ==
  {kept \in Orders({item \in Ran(order) : Kept(item)}) :
     \A i, j \in DOMAIN kept : i < j =>
       \E k, l \in DOMAIN order : k < l /\ order[k] = kept[i] /\ order[l] = kept[j]}

(* The rates are fixed and the comparison filtered; the second list starts. *)
Freeze ==
  /\ pc = "qualify"
  /\ next > Len(qualification)
  /\ comparative' \in Filtered(comparative)
  /\ manifest' = [manifest EXCEPT
                    !.isFrozen = TRUE,
                    !.eligible = {r \in {rate[i] : i \in Item} : Qualifies(r)},
                    !.frozen = comparative']
  /\ disk' = Save
  /\ next' = 1
  /\ pc' = "compare"
  /\ UNCHANGED <<qualification, passed, torn, files>>

Complete ==
  /\ pc = "compare"
  /\ next > Len(comparative)
  /\ pc' = "complete"
  /\ UNCHANGED <<qualification, comparative, next, passed, manifest, disk, torn, files>>

(* The controller is killed; what it had written stays. *)
Killed ==
  /\ pc \notin {"failed", "complete", "killed"}
  /\ pc' = "killed"
  /\ UNCHANGED <<qualification, comparative, next, passed, manifest, disk, torn, files>>

(* The same while write_text() has truncated the manifest and not yet      *)
(* written it.                                                             *)
KilledInSave ==
  /\ \/ pc \in {"qualified", "compared"}
     \/ pc = "qualify" /\ next > Len(qualification)
  /\ pc' = "killed"
  /\ torn' = TRUE
  /\ UNCHANGED <<qualification, comparative, next, passed, manifest, disk, files>>

Ended == pc \in {"failed", "complete", "killed"} /\ UNCHANGED vars

-----------------------------------------------------------------------------
Next ==
  \/ \E ok \in BOOLEAN : Build(ok)
  \/ RunItem("qualify", qualification, "qualified")
  \/ RunItem("compare", comparative, "compared")
  \/ RunRaises
  \/ \E verdict \in BOOLEAN : RecordQualification(verdict)
  \/ RecordComparison
  \/ Freeze
  \/ Complete
  \/ Killed
  \/ KilledInSave
  \/ Ended

Spec == Init /\ [][Next]_vars

-----------------------------------------------------------------------------
(* What is in the session directory is consistent even if the controller   *)
(* dies, unless it dies in the middle of a write: every run in the         *)
(* manifest has its metadata file, and at most the last metadata file is   *)
(* missing from the manifest. No run is made twice.                        *)
DiskIsConsistent == ~torn =>
  /\ Ran(disk.runs) \subseteq files
  /\ Cardinality(files) <= Len(disk.runs) + 1
  /\ Cardinality(Ran(disk.runs)) = Len(disk.runs)

(* The comparison is frozen, on disk, before the first comparison run, and *)
(* only frozen runs are made.                                              *)
FrozenBeforeComparison ==
  files \intersect Comparative # {} /\ ~torn =>
    disk.isFrozen /\ files \intersect Comparative \subseteq Ran(disk.frozen)

(* A comparison run that relies on qualified rates is made only at a rate  *)
(* that was tested and failed no qualification run.                        *)
OnlyQualifiedRates ==
  Qualification # {} =>
    \A item \in files \intersect gated :
      /\ \E i \in DOMAIN passed : rate[qualification[i]] = rate[item]
      /\ ~ \E i \in DOMAIN passed : rate[qualification[i]] = rate[item] /\ ~passed[i]

=============================================================================
