---------------------------- MODULE Campaign_proofs ----------------------------
(***************************************************************************)
(* What the session directory of a campaign shows, for any qualification   *)
(* and comparison runs, any rates and any shuffle, wherever the controller *)
(* is killed; and what is true of a claim that is made of the runs, for    *)
(* any configurations, outcomes, profiles and failing calls.               *)
(***************************************************************************)
EXTENDS Campaign, Claims, FiniteSetTheorems, NaturalsInduction, WellFoundedInduction, TLAPS

-----------------------------------------------------------------------------
(* Lists without repetition. *)

Injective(s) == \A i, j \in DOMAIN s : s[i] = s[j] => i = j

(* The items of a list that come before a position. *)
Before(order, n) == {order[i] : i \in {j \in DOMAIN order : j < n}}

LEMMA OrderIsList ==
  ASSUME NEW S, IsFiniteSet(S), NEW order \in Orders(S)
  PROVE  order \in Seq(S) /\ Injective(order) /\ Ran(order) \subseteq S
<1>1. Cardinality(S) \in Nat
  BY FS_CardinalityType
<1>2. order \in [1 .. Cardinality(S) -> S] /\ Injective(order)
  BY DEF Orders, Injective
<1>3. order \in Seq(S)
  BY <1>1, <1>2
<1> QED
  BY <1>2, <1>3 DEF Ran

LEMMA ListFacts ==
  ASSUME NEW S, NEW s \in Seq(S)
  PROVE  /\ DOMAIN s = 1 .. Len(s) /\ Len(s) \in Nat /\ Ran(s) \subseteq S
         /\ \A i \in 1 .. Len(s) : s[i] \in Ran(s) /\ s[i] \in S
BY DEF Ran

(* A new item is appended. *)
LEMMA AppendIsNew ==
  ASSUME NEW S, NEW s \in Seq(S), NEW x \in S, Injective(s), x \notin Ran(s)
  PROVE  /\ Append(s, x) \in Seq(S) /\ Injective(Append(s, x))
         /\ Ran(Append(s, x)) = Ran(s) \union {x}
         /\ Len(Append(s, x)) = Len(s) + 1
<1> DEFINE t == Append(s, x)
<1>1. /\ t \in Seq(S) /\ Len(t) = Len(s) + 1 /\ Len(s) \in Nat
      /\ \A i \in 1 .. Len(s) : t[i] = s[i]
      /\ t[Len(s) + 1] = x
  OBVIOUS
<1>2. DOMAIN t = 1 .. Len(s) + 1 /\ DOMAIN s = 1 .. Len(s)
  BY <1>1
<1> HIDE DEF t
<1>3. \A i \in DOMAIN t : i \in DOMAIN s \/ i = Len(s) + 1
  BY <1>1, <1>2
<1>4. \A i \in DOMAIN s : i \in DOMAIN t /\ t[i] = s[i] /\ s[i] # x
  BY <1>1, <1>2 DEF Ran
<1>5. Len(s) + 1 \in DOMAIN t
  BY <1>1, <1>2
<1>6. Injective(t)
  BY <1>1, <1>3, <1>4 DEF Injective
<1>7. Ran(t) = Ran(s) \union {x}
  BY <1>1, <1>3, <1>4, <1>5 DEF Ran
<1> QED
  BY <1>1, <1>6, <1>7 DEF t

(* Such a list is as long as it has items.                                 *)
LEMMA ListLength ==
  ASSUME NEW S, NEW s \in Seq(S), Injective(s)
  PROVE  IsFiniteSet(Ran(s)) /\ Cardinality(Ran(s)) = Len(s)
<1> DEFINE D == 1 .. Len(s)
<1>1. DOMAIN s = D /\ Len(s) \in Nat
  OBVIOUS
<1>2. IsFiniteSet(D) /\ Cardinality(D) = Len(s)
  BY <1>1, FS_Interval
<1>3. s \in [D -> Ran(s)]
  BY <1>1 DEF Ran
<1>4. s \in Surjection(D, Ran(s))
  BY <1>1, <1>3 DEF Surjection, Ran
<1>5. s \in Injection(D, Ran(s))
  BY <1>1, <1>3 DEF Injection, IsInjective, Injective
<1> HIDE DEF D
<1> QED
  BY <1>2, <1>4, <1>5, FS_Surjection

(* The item at a position is not one of those before it.                   *)
LEMMA NotBefore ==
  ASSUME NEW S, NEW s \in Seq(S), Injective(s), NEW n \in 1 .. Len(s)
  PROVE  /\ s[n] \notin Before(s, n) /\ s[n] \in S /\ s[n] \in Ran(s)
         /\ Before(s, n + 1) = Before(s, n) \union {s[n]}
<1>1. DOMAIN s = 1 .. Len(s) /\ Len(s) \in Nat /\ n \in DOMAIN s /\ n \in Nat
  OBVIOUS
<1>2. \A i \in DOMAIN s : i < n + 1 <=> i < n \/ i = n
  BY <1>1
<1>3. ~(n < n)
  BY <1>1
<1> QED
  BY <1>1, <1>2, <1>3 DEF Before, Injective, Ran

-----------------------------------------------------------------------------
(* The invariant. *)

Manifest == [isFrozen : BOOLEAN, eligible : SUBSET {rate[i] : i \in Item},
             frozen : Seq(Comparative), runs : Seq(Item)]

TypeInv ==
  /\ pc \in {"build", "qualify", "qualified", "compare", "compared",
             "failed", "complete", "killed"}
  /\ qualification \in Orders(Qualification)
  /\ comparative \in Seq(Comparative)
  /\ next \in Nat \ {0}
  /\ passed \in Seq(BOOLEAN)
  /\ manifest \in Manifest
  /\ torn \in BOOLEAN
  /\ files \subseteq Item

(* No item is in a list twice, and what was saved is the manifest.         *)
ListInv ==
  /\ disk = manifest
  /\ Injective(comparative)
  /\ Injective(manifest.runs)

(* The run that was made and is not yet recorded. *)
Pending ==
  CASE pc = "qualified" -> {qualification[next]}
    [] pc = "compared" -> {comparative[next]}
    [] OTHER -> {}

FileInv ==
  /\ Ran(manifest.runs) \subseteq files
  /\ \E item : files \subseteq Ran(manifest.runs) \union {item}
  /\ pc \notin {"failed", "killed"} => files = Ran(manifest.runs) \union Pending

QualifyInv == pc \in {"build", "qualify", "qualified"} =>
  /\ Ran(manifest.runs) \subseteq Before(qualification, next)
  /\ pc = "qualified" => next <= Len(qualification)

CompareInv == pc \in {"compare", "compared"} =>
  /\ manifest.isFrozen
  /\ manifest.frozen = comparative
  /\ \A item \in Ran(comparative) : Kept(item)
  /\ Ran(manifest.runs) \subseteq Qualification \union Before(comparative, next)
  /\ pc = "compared" => next <= Len(comparative)

(* A comparison run that was made is a frozen one, and its rate qualified. *)
FrozenInv == files \intersect Comparative # {} =>
  /\ pc \notin {"build", "qualify", "qualified"}
  /\ manifest.isFrozen
  /\ files \intersect Comparative \subseteq Ran(manifest.frozen)
  /\ \A item \in files \intersect Comparative : Kept(item)

Inv == TypeInv /\ ListInv /\ FileInv /\ QualifyInv /\ CompareInv /\ FrozenInv

-----------------------------------------------------------------------------
LEMMA InitInv == Init => Inv
<1> SUFFICES ASSUME Init PROVE Inv
  OBVIOUS
<1>1. comparative \in Seq(Comparative) /\ Injective(comparative)
  BY OrderIsList, CampaignAssumption DEF Init
<1>2. manifest = [isFrozen |-> FALSE, eligible |-> {}, frozen |-> <<>>, runs |-> <<>>]
      /\ files = {} /\ pc = "build"
  BY DEF Init
<1>3. <<>> \in Seq(Comparative) /\ <<>> \in Seq(Item) /\ <<>> \in Seq(BOOLEAN)
  OBVIOUS
<1>4. manifest.runs = <<>> /\ Ran(<<>>) = {} /\ Injective(<<>>)
  BY <1>2 DEF Ran, Injective
<1>5. TypeInv
  <2>1. manifest \in Manifest
    BY <1>2, <1>3 DEF Manifest
  <2>2. /\ pc = "build" /\ next = 1 /\ passed = <<>> /\ torn = FALSE /\ files = {}
        /\ qualification \in Orders(Qualification)
    BY DEF Init
  <2>3. passed \in Seq(BOOLEAN)
    BY <1>3, <2>2, Zenon
  <2>4. next \in Nat \ {0}
    BY <2>2
  <2>5. torn \in BOOLEAN
    BY <2>2, Zenon
  <2> QED
    BY <1>1, <2>1, <2>2, <2>3, <2>4, <2>5 DEF TypeInv
<1>6. ListInv
  BY <1>1, <1>4 DEF Init, ListInv
<1> QED
  BY <1>2, <1>4, <1>5, <1>6 DEF Inv, FileInv, QualifyInv, CompareInv, FrozenInv, Pending

(* The campaign moves on, ends or is killed, and no file is written.       *)
LEMMA MovesInv ==
  ASSUME Inv, UNCHANGED <<qualification, comparative, next, passed, manifest, disk, files>>,
         torn' \in BOOLEAN,
         \/ pc' = pc
         \/ pc' \in {"failed", "killed"}
         \/ pc = "build" /\ pc' = "qualify"
         \/ pc = "compare" /\ pc' = "complete"
  PROVE  Inv'
<1>1. TypeInv'
  BY DEF Inv, TypeInv
<1>2. ListInv'
  BY DEF Inv, ListInv
<1>3. FileInv'
  BY DEF Inv, FileInv, Pending
<1>4. QualifyInv'
  BY DEF Inv, QualifyInv
<1>5. CompareInv' /\ FrozenInv'
  <2>1. \A item : Kept(item)' = Kept(item)
    BY DEF Kept, Qualifies
  <2> QED
    BY <2>1 DEF Inv, CompareInv, FrozenInv
<1> QED
  BY <1>1, <1>2, <1>3, <1>4, <1>5 DEF Inv

LEMMA QualificationRuns ==
  ASSUME Inv, RunItem("qualify", qualification, "qualified")
  PROVE  Inv'
<1> DEFINE item == qualification[next]
<1>1. /\ pc = "qualify" /\ pc' = "qualified" /\ next <= Len(qualification)
      /\ files' = files \union {item}
      /\ UNCHANGED <<qualification, comparative, next, passed, manifest, disk, torn>>
  BY DEF RunItem
<1>2. TypeInv /\ qualification \in Seq(Qualification) /\ Injective(qualification)
      /\ next \in 1 .. Len(qualification)
  BY <1>1, OrderIsList, CampaignAssumption DEF Inv, TypeInv
<1>3. item \in Qualification /\ item \notin Before(qualification, next)
  BY <1>2, NotBefore
<1>4. item \in Item /\ item \notin Comparative
  BY <1>3, CampaignAssumption DEF Item
<1>5. TypeInv'
  BY <1>1, <1>2, <1>4 DEF TypeInv
<1>6. ListInv'
  BY <1>1 DEF Inv, ListInv
<1>7. files = Ran(manifest.runs)
  BY <1>1 DEF Inv, FileInv, Pending
<1>8. FileInv'
  BY <1>1, <1>7 DEF FileInv, Pending
<1>9. QualifyInv' /\ CompareInv'
  BY <1>1 DEF Inv, QualifyInv, CompareInv
<1>10. FrozenInv'
  BY <1>1, <1>4 DEF Inv, FrozenInv
<1> QED
  BY <1>5, <1>6, <1>8, <1>9, <1>10 DEF Inv

LEMMA ComparisonRuns ==
  ASSUME Inv, RunItem("compare", comparative, "compared")
  PROVE  Inv'
<1> DEFINE item == comparative[next]
<1>1. /\ pc = "compare" /\ pc' = "compared" /\ next <= Len(comparative)
      /\ files' = files \union {item}
      /\ UNCHANGED <<qualification, comparative, next, passed, manifest, disk, torn>>
  BY DEF RunItem
<1>2. TypeInv /\ comparative \in Seq(Comparative) /\ Injective(comparative)
      /\ next \in 1 .. Len(comparative)
  BY <1>1 DEF Inv, TypeInv, ListInv
<1>3. item \in Comparative /\ item \in Ran(comparative)
  BY <1>2, NotBefore
<1>4. item \in Item
  BY <1>3 DEF Item
<1>5. TypeInv'
  BY <1>1, <1>2, <1>4 DEF TypeInv
<1>6. ListInv'
  BY <1>1 DEF Inv, ListInv
<1>7. files = Ran(manifest.runs)
  BY <1>1 DEF Inv, FileInv, Pending
<1>8. FileInv'
  BY <1>1, <1>7 DEF FileInv, Pending
<1>9. \A i : Kept(i)' = Kept(i)
  BY <1>1 DEF Kept, Qualifies
<1>10. QualifyInv' /\ CompareInv'
  BY <1>1, <1>9 DEF Inv, QualifyInv, CompareInv
<1>11. FrozenInv'
  BY <1>1, <1>3, <1>9 DEF Inv, FrozenInv, CompareInv
<1> QED
  BY <1>5, <1>6, <1>8, <1>10, <1>11 DEF Inv

(* The pending run is recorded. *)
LEMMA RecordFacts ==
  ASSUME Inv, NEW order, NEW S \in SUBSET Item, order \in Seq(S), Injective(order),
         next \in 1 .. Len(order), order[next] \notin Ran(manifest.runs), Record(order),
         files = Ran(manifest.runs) \union {order[next]}
  PROVE  /\ manifest'.runs \in Seq(Item) /\ Injective(manifest'.runs)
         /\ manifest'.isFrozen = manifest.isFrozen /\ manifest'.frozen = manifest.frozen
         /\ manifest' \in Manifest
         /\ Ran(manifest'.runs) = Ran(manifest.runs) \union {order[next]}
         /\ disk' = manifest' /\ next' = next + 1
         /\ Before(order, next') = Before(order, next) \union {order[next]}
<1>1. TypeInv /\ Injective(manifest.runs)
  BY DEF Inv, ListInv
<1>2. manifest.runs \in Seq(Item)
  BY <1>1 DEF TypeInv, Manifest
<1>3. order[next] \in Item
  BY NotBefore
<1>4. /\ manifest' = [manifest EXCEPT !.runs = Append(manifest.runs, order[next])]
      /\ disk' = manifest' /\ next' = next + 1
  BY DEF Record, Save
<1>5. /\ Append(manifest.runs, order[next]) \in Seq(Item)
      /\ Injective(Append(manifest.runs, order[next]))
      /\ Ran(Append(manifest.runs, order[next])) = Ran(manifest.runs) \union {order[next]}
  BY <1>1, <1>2, <1>3, AppendIsNew
<1>6. /\ manifest'.runs = Append(manifest.runs, order[next])
      /\ manifest'.isFrozen = manifest.isFrozen /\ manifest'.frozen = manifest.frozen
      /\ manifest'.eligible = manifest.eligible
      /\ manifest' \in Manifest
  BY <1>1, <1>4, <1>5 DEF TypeInv, Manifest
<1>7. Before(order, next + 1) = Before(order, next) \union {order[next]}
  BY NotBefore
<1> QED
  BY <1>4, <1>5, <1>6, <1>7

LEMMA RecordsQualification ==
  ASSUME Inv, NEW verdict \in BOOLEAN, RecordQualification(verdict)
  PROVE  Inv'
<1> DEFINE item == qualification[next]
<1>1. /\ pc = "qualified" /\ pc' = "qualify" /\ Record(qualification)
      /\ passed' = Append(passed, verdict)
      /\ UNCHANGED <<qualification, comparative, torn, files>>
  BY DEF RecordQualification
<1>2. /\ TypeInv /\ qualification \in Seq(Qualification) /\ Injective(qualification)
      /\ next \in 1 .. Len(qualification) /\ Qualification \in SUBSET Item
  BY <1>1, OrderIsList, CampaignAssumption DEF Inv, TypeInv, QualifyInv, Item
<1>3. item \notin Before(qualification, next) /\ item \in Qualification
  BY <1>2, NotBefore
<1>4. item \notin Ran(manifest.runs)
  BY <1>1, <1>3 DEF Inv, QualifyInv
<1>5. files = Ran(manifest.runs) \union {item}
  BY <1>1 DEF Inv, FileInv, Pending
<1>6. /\ manifest'.runs \in Seq(Item) /\ Injective(manifest'.runs)
      /\ manifest'.isFrozen = manifest.isFrozen /\ manifest'.frozen = manifest.frozen
      /\ manifest' \in Manifest
      /\ Ran(manifest'.runs) = Ran(manifest.runs) \union {item}
      /\ disk' = manifest' /\ next' = next + 1
      /\ Before(qualification, next') = Before(qualification, next) \union {item}
  BY <1>1, <1>2, <1>4, <1>5, RecordFacts
<1>7. TypeInv'
  BY <1>1, <1>2, <1>6 DEF TypeInv
<1>8. ListInv'
  BY <1>1, <1>6 DEF Inv, ListInv
<1>9. FileInv'
  BY <1>1, <1>5, <1>6 DEF FileInv, Pending
<1>10. QualifyInv' /\ CompareInv'
  BY <1>1, <1>6 DEF Inv, QualifyInv, CompareInv
<1>11. FrozenInv'
  BY <1>1 DEF Inv, FrozenInv
<1> QED
  BY <1>7, <1>8, <1>9, <1>10, <1>11 DEF Inv

LEMMA RecordsComparison == ASSUME Inv, RecordComparison PROVE Inv'
<1> DEFINE item == comparative[next]
<1>1. /\ pc = "compared" /\ pc' = "compare" /\ Record(comparative)
      /\ UNCHANGED <<qualification, comparative, passed, torn, files>>
  BY DEF RecordComparison
<1>2. /\ TypeInv /\ comparative \in Seq(Comparative) /\ Injective(comparative)
      /\ next \in 1 .. Len(comparative) /\ Comparative \in SUBSET Item
  BY <1>1 DEF Inv, TypeInv, ListInv, CompareInv, Item
<1>3. item \notin Before(comparative, next) /\ item \in Comparative
  BY <1>2, NotBefore
<1>4. item \notin Ran(manifest.runs)
  BY <1>1, <1>3, CampaignAssumption DEF Inv, CompareInv
<1>5. files = Ran(manifest.runs) \union {item}
  BY <1>1 DEF Inv, FileInv, Pending
<1>6. /\ manifest'.runs \in Seq(Item) /\ Injective(manifest'.runs)
      /\ manifest'.isFrozen = manifest.isFrozen /\ manifest'.frozen = manifest.frozen
      /\ manifest' \in Manifest
      /\ Ran(manifest'.runs) = Ran(manifest.runs) \union {item}
      /\ disk' = manifest' /\ next' = next + 1
      /\ Before(comparative, next') = Before(comparative, next) \union {item}
  BY <1>1, <1>2, <1>4, <1>5, RecordFacts
<1>7. TypeInv'
  BY <1>1, <1>2, <1>6 DEF TypeInv
<1>8. ListInv'
  BY <1>1, <1>6 DEF Inv, ListInv
<1>9. FileInv'
  BY <1>1, <1>5, <1>6 DEF FileInv, Pending
<1>10. \A i : Kept(i)' = Kept(i)
  BY <1>1 DEF Kept, Qualifies
<1>11. QualifyInv' /\ CompareInv'
  BY <1>1, <1>6, <1>10 DEF Inv, QualifyInv, CompareInv
<1>12. FrozenInv'
  BY <1>1, <1>6, <1>10 DEF Inv, FrozenInv
<1> QED
  BY <1>7, <1>8, <1>9, <1>11, <1>12 DEF Inv

LEMMA FreezeInv == ASSUME Inv, Freeze PROVE Inv'
<1> DEFINE kept == {item \in Ran(comparative) : Kept(item)}
<1>1. /\ pc = "qualify" /\ pc' = "compare" /\ next' = 1
      /\ comparative' \in Filtered(comparative)
      /\ manifest' = [manifest EXCEPT
                        !.isFrozen = TRUE,
                        !.eligible = {r \in {rate[i] : i \in Item} : Qualifies(r)},
                        !.frozen = comparative']
      /\ disk' = manifest'
      /\ UNCHANGED <<qualification, passed, torn, files>>
  BY DEF Freeze, Save
<1>2. TypeInv /\ comparative \in Seq(Comparative) /\ Injective(comparative)
  BY DEF Inv, TypeInv, ListInv
<1>3. kept \subseteq Comparative /\ IsFiniteSet(kept)
  <2>1. kept \subseteq Comparative
    BY <1>2, ListFacts
  <2> QED
    BY <2>1, FS_Subset, CampaignAssumption
<1>4. comparative' \in Orders(kept)
  BY <1>1 DEF Filtered
<1>5. comparative' \in Seq(kept) /\ Injective(comparative') /\ Ran(comparative') \subseteq kept
  BY <1>3, <1>4, OrderIsList
<1> HIDE DEF kept
<1>6. comparative' \in Seq(Comparative)
  BY <1>3, <1>5
<1>7. /\ manifest'.isFrozen /\ manifest'.frozen = comparative' /\ manifest'.runs = manifest.runs
      /\ manifest' \in Manifest
  BY <1>1, <1>2, <1>6 DEF TypeInv, Manifest
<1>8. TypeInv'
  BY <1>1, <1>2, <1>6, <1>7 DEF TypeInv
<1>9. ListInv'
  BY <1>1, <1>5, <1>7 DEF Inv, ListInv
<1>10. FileInv'
  BY <1>1, <1>7 DEF Inv, FileInv, Pending
<1>11. CompareInv'
  <2>1. \A item \in Ran(comparative') : Kept(item)'
    BY <1>1, <1>5 DEF kept, Kept, Qualifies
  <2>2. Ran(manifest.runs) \subseteq Qualification
    <3>1. Ran(manifest.runs) \subseteq Ran(qualification)
      BY <1>1 DEF Inv, QualifyInv, Before, Ran
    <3>2. Ran(qualification) \subseteq Qualification
      BY <1>2, OrderIsList, CampaignAssumption DEF TypeInv
    <3> QED
      BY <3>1, <3>2
  <2> QED
    BY <1>1, <1>7, <2>1, <2>2 DEF CompareInv
<1>12. QualifyInv' /\ FrozenInv'
  BY <1>1 DEF Inv, QualifyInv, FrozenInv
<1> QED
  BY <1>8, <1>9, <1>10, <1>11, <1>12 DEF Inv

LEMMA Step == Inv /\ [Next]_vars => Inv'
<1> SUFFICES ASSUME Inv, [Next]_vars PROVE Inv'
  OBVIOUS
<1>1. CASE UNCHANGED vars \/ Ended
  BY <1>1, MovesInv DEF Ended, vars, Inv, TypeInv
<1>2. ASSUME NEW ok \in BOOLEAN, Build(ok) PROVE Inv'
  BY <1>2, MovesInv DEF Build, Inv, TypeInv
<1>3. CASE RunRaises \/ Complete \/ Killed
  BY <1>3, MovesInv DEF RunRaises, Complete, Killed, Inv, TypeInv
<1>4. CASE KilledInSave
  BY <1>4, MovesInv DEF KilledInSave
<1> QED
  BY <1>1, <1>2, <1>3, <1>4, QualificationRuns, ComparisonRuns, RecordsQualification,
     RecordsComparison, FreezeInv DEF Next

-----------------------------------------------------------------------------
(* The theorems. *)

(* Of a campaign: the manifest on disk is the one in memory, the runs that *)
(* were made are those in it and at most one more, and comparison runs are *)
(* frozen ones.                                                            *)
THEOREM Invariance == Spec => []Inv
  BY InitInv, Step, PTL DEF Spec

(* The variables of a campaign keep their types. *)
THEOREM TypeCorrect == Spec => []TypeInv
<1>1. Inv => TypeInv
  BY DEF Inv
<1> QED
  BY Invariance, <1>1, PTL

LEMMA InvIsConsistent == Inv => DiskIsConsistent
<1> SUFFICES ASSUME Inv PROVE DiskIsConsistent
  OBVIOUS
<1> DEFINE runs == manifest.runs
<1>1. disk.runs = runs /\ runs \in Seq(Item) /\ Injective(runs) /\ Len(runs) \in Nat
  BY DEF Inv, ListInv, TypeInv, Manifest
<1>2. IsFiniteSet(Ran(runs)) /\ Cardinality(Ran(runs)) = Len(runs)
  BY <1>1, ListLength
<1>3. Ran(runs) \subseteq files
  BY DEF Inv, FileInv
<1>4. PICK item : files \subseteq Ran(runs) \union {item}
  BY DEF Inv, FileInv
<1>5. Cardinality(files) <= Len(runs) + 1
  <2> DEFINE most == Ran(runs) \union {item}
  <2>1. IsFiniteSet(most) /\ (Cardinality(most) = Len(runs) \/ Cardinality(most) = Len(runs) + 1)
    <3>1. CASE item \in Ran(runs)
      <4>1. most = Ran(runs)
        BY <3>1
      <4> QED
        BY <1>2, <4>1
    <3>2. CASE item \notin Ran(runs)
      <4>1. IsFiniteSet(most) /\ Cardinality(most) = Cardinality(Ran(runs)) + 1
        BY <1>2, <3>2, FS_AddElement
      <4> QED
        BY <1>2, <4>1
    <3> QED
      BY <3>1, <3>2
  <2>2. Cardinality(files) <= Cardinality(most) /\ Cardinality(files) \in Nat
    BY <1>4, <2>1, FS_Subset, FS_CardinalityType
  <2> HIDE DEF most
  <2> QED
    BY <1>1, <2>1, <2>2
<1> QED
  BY <1>1, <1>2, <1>3, <1>5 DEF DiskIsConsistent

(* A controller that dies outside a write leaves a manifest whose runs     *)
(* have their files, none of them made twice, and at most one file more.   *)
THEOREM DiskIsConsistentHolds == Spec => []DiskIsConsistent
  BY Invariance, InvIsConsistent, PTL

(* No comparison run before the rates and the runs are frozen on disk, and *)
(* none that is not frozen.                                                *)
THEOREM FrozenBeforeComparisonHolds == Spec => []FrozenBeforeComparison
<1>1. Inv => FrozenBeforeComparison
  BY DEF Inv, ListInv, FrozenInv, FrozenBeforeComparison
<1> QED
  BY Invariance, <1>1, PTL

(* A run that relies on qualified rates is made only at a rate that was    *)
(* tested, and at which no qualification run failed.                       *)
THEOREM OnlyQualifiedRatesHolds == Spec => []OnlyQualifiedRates
<1>1. Inv => OnlyQualifiedRates
  <2> SUFFICES ASSUME Inv, Qualification # {}, NEW item \in files \intersect gated
               PROVE  /\ \E i \in DOMAIN passed : rate[qualification[i]] = rate[item]
                      /\ ~ \E i \in DOMAIN passed : rate[qualification[i]] = rate[item] /\ ~passed[i]
    BY DEF OnlyQualifiedRates
  <2>1. item \in files \intersect Comparative
    BY CampaignAssumption
  <2>2. Kept(item)
    BY <2>1 DEF Inv, FrozenInv
  <2> QED
    BY <2>2 DEF Kept, Qualifies
<1> QED
  BY Invariance, <1>1, PTL

-----------------------------------------------------------------------------
(* Extremes and medians of numbers. *)

(* A non-empty set of naturals has a least element.                        *)
LEMMA LeastNumber ==
  ASSUME NEW S \in SUBSET Nat, S # {}
  PROVE  Min(S) \in S /\ \A x \in S : Min(S) <= x
<1>1. PICK least \in S : \A x \in S : ~(<<x, least>> \in OpToRel(<, Nat))
  BY NatLessThanWellFounded, WFMin
<1>2. \A x \in S : ~(x < least)
  BY <1>1 DEF OpToRel
<1>3. \A x \in S : least <= x
  BY <1>2
<1> QED
  BY <1>3 DEF Min

(* A non-empty set of naturals below a bound has a greatest element, which *)
(* is the least of its bounds.                                             *)
LEMMA GreatestNumber ==
  ASSUME NEW S \in SUBSET Nat, S # {}, NEW bound \in Nat, \A x \in S : x <= bound
  PROVE  Max(S) \in S /\ \A x \in S : x <= Max(S)
<1> DEFINE Bounds == {b \in Nat : \A x \in S : x <= b}
           least == Min(Bounds)
<1>1. least \in Bounds /\ \A b \in Bounds : least <= b
  <2>1. Bounds \in SUBSET Nat /\ bound \in Bounds
    OBVIOUS
  <2> HIDE DEF Bounds
  <2> QED
    BY <2>1, LeastNumber
<1>2. least \in Nat /\ \A x \in S : x <= least
  BY <1>1
<1>3. \A b \in Nat : (\A x \in S : x <= b) => least <= b
  BY <1>1
<1> HIDE DEF least, Bounds
<1>4. least \in S
  <2> SUFFICES ASSUME least \notin S
               PROVE  FALSE
    OBVIOUS
  <2>1. \A x \in S : x \in Nat /\ x < least
    BY <1>2
  <2>2. least - 1 \in Nat
    <3>1. PICK x \in S : TRUE
      OBVIOUS
    <3> QED
      BY <1>2, <2>1, <3>1
  <2>3. \A x \in S : x <= least - 1
    BY <1>2, <2>1
  <2> QED
    BY <1>2, <1>3, <2>2, <2>3
<1> QED
  BY <1>2, <1>4 DEF Max

(* Finitely many numbers have a bound: one with as few of them above it as *)
(* possible has none above it.                                             *)
LEMMA FiniteBound ==
  ASSUME NEW S \in SUBSET Nat, IsFiniteSet(S)
  PROVE  \E bound \in Nat : \A x \in S : x <= bound
<1> DEFINE Over(v) == {x \in S : x > v}
           Sizes == {Cardinality(Over(v)) : v \in Nat}
<1>1. \A v \in Nat : IsFiniteSet(Over(v)) /\ Cardinality(Over(v)) \in Nat
  <2> TAKE v \in Nat
  <2>1. Over(v) \in SUBSET S
    OBVIOUS
  <2> HIDE DEF Over
  <2> QED
    BY <2>1, FS_Subset, FS_CardinalityType
<1>2. PICK v \in Nat : \A w \in Nat : Cardinality(Over(v)) <= Cardinality(Over(w))
  <2> HIDE DEF Over
  <2>1. Sizes \in SUBSET Nat
    BY <1>1
  <2>2. Cardinality(Over(0)) \in Sizes
    OBVIOUS
  <2> HIDE DEF Sizes
  <2>3. Min(Sizes) \in Sizes /\ \A x \in Sizes : Min(Sizes) <= x
    BY <2>1, <2>2, LeastNumber
  <2>4. PICK v \in Nat : Min(Sizes) = Cardinality(Over(v))
    BY <2>3 DEF Sizes
  <2> QED
    BY <2>3, <2>4 DEF Sizes
<1>3. ASSUME NEW w \in S, w > v
      PROVE  FALSE
  <2>1. w \in Nat /\ v \in Nat
    BY <1>2
  <2>2. Over(w) \in SUBSET Over(v) /\ w \in Over(v) /\ w \notin Over(w)
    <3>1. \A x \in S : x > w => x > v
      <4> TAKE x \in S
      <4>1. x \in Nat
        OBVIOUS
      <4> QED
        BY <1>3, <2>1, <4>1
    <3>2. ~(w > w)
      BY <2>1
    <3> QED
      BY <1>3, <3>1, <3>2
  <2> HIDE DEF Over
  <2>3. Cardinality(Over(w)) <= Cardinality(Over(v)) /\ Cardinality(Over(w)) # Cardinality(Over(v))
    BY <1>1, <2>2, FS_Subset
  <2> QED
    BY <1>1, <1>2, <2>1, <2>3
<1>4. v \in Nat /\ \A x \in S : x <= v
  <2>1. \A x \in S : x \in Nat /\ ~(x > v)
    BY <1>3
  <2> QED
    BY <1>2, <2>1
<1> QED
  BY <1>4

(* The places of f below and above a value, and the values that have no    *)
(* more than half of them on either side.                                  *)
Below(f, v) == {i \in DOMAIN f : f[i] < v}
Above(f, v) == {i \in DOMAIN f : f[i] > v}
NotLow(f) == {v \in Range(f) : 2 * Cardinality(Above(f, v)) <= Cardinality(DOMAIN f)}
Middle(f) == {v \in NotLow(f) : 2 * Cardinality(Below(f, v)) <= Cardinality(DOMAIN f)}

LEMMA MedianIsMiddle ==
  ASSUME NEW f
  PROVE  TwiceMedian(f) = Min(Middle(f)) + Max(Middle(f))
<1>1. Middle(f) =
        {v \in Range(f) : /\ 2 * Cardinality({i \in DOMAIN f : f[i] < v}) <= Cardinality(DOMAIN f)
                          /\ 2 * Cardinality({i \in DOMAIN f : f[i] > v}) <= Cardinality(DOMAIN f)}
  BY DEF Middle, NotLow, Below, Above
<1> QED
  BY <1>1 DEF TwiceMedian

(* The values at some places have a greatest one, above which are all      *)
(* places but those at which no value is greater than it.                  *)
LEMMA GreatestBelow ==
  ASSUME NEW f, NEW hi \in Nat, IsFiniteSet(DOMAIN f), NEW least \in Nat,
         \A i \in DOMAIN f : f[i] \in 0 .. hi, Below(f, least) # {}
  PROVE  \E v \in Range(f) :
           /\ v \in Nat /\ v < least
           /\ Cardinality(Above(f, v)) = Cardinality(DOMAIN f) - Cardinality(Below(f, least))
<1> DEFINE S == {f[i] : i \in Below(f, least)}
           top == Max(S)
<1>1. S \in SUBSET Nat /\ S # {} /\ \A v \in S : v <= hi
  <2>1. \A v \in S : v \in Nat /\ v <= hi
    BY DEF Below
  <2> QED
    BY <2>1
<1>2. top \in S /\ \A v \in S : v <= top
  <2> HIDE DEF S
  <2> QED
    BY <1>1, GreatestNumber
<1>3. top \in Range(f) /\ top \in Nat /\ top < least
  BY <1>2 DEF Below, Range
<1>4. \A i \in DOMAIN f : f[i] > top <=> ~(f[i] < least)
  <2> TAKE i \in DOMAIN f
  <2>1. f[i] \in Nat
    OBVIOUS
  <2>2. f[i] < least => f[i] <= top
    BY <1>2 DEF Below
  <2> HIDE DEF top
  <2> QED
    BY <1>3, <2>1, <2>2
<1>5. Above(f, top) = DOMAIN f \ Below(f, least)
  BY <1>4 DEF Above, Below
<1>6. Cardinality(Above(f, top)) = Cardinality(DOMAIN f) - Cardinality(Below(f, least))
  <2>1. DOMAIN f \intersect Below(f, least) = Below(f, least)
    BY DEF Below
  <2>2. Cardinality(DOMAIN f \ Below(f, least)) =
          Cardinality(DOMAIN f) - Cardinality(DOMAIN f \intersect Below(f, least))
    BY FS_Difference
  <2> QED
    BY <1>5, <2>1, <2>2
<1> QED
  BY <1>3, <1>6

(* There is such a value: of those with no more than half above them, the  *)
(* least one has no more than half below it. So a median is within the     *)
(* bounds of its numbers.                                                  *)
LEMMA MedianBounds ==
  ASSUME NEW f, IsFiniteSet(DOMAIN f), DOMAIN f # {}, NEW lo \in Nat, NEW hi \in Nat,
         \A i \in DOMAIN f : f[i] \in lo .. hi
  PROVE  TwiceMedian(f) \in 2 * lo .. 2 * hi
<1> DEFINE size == Cardinality(DOMAIN f)
           least == Min(NotLow(f))
<1>1. \A v \in Range(f) : v \in Nat /\ v \in lo .. hi
  BY DEF Range
<1>2. Range(f) \in SUBSET Nat /\ Range(f) # {} /\ \A v \in Range(f) : v <= hi
  BY <1>1 DEF Range
<1>3. size \in Nat
  BY FS_CardinalityType
<1>4. NotLow(f) # {}
  <2>1. Max(Range(f)) \in Range(f) /\ \A v \in Range(f) : v <= Max(Range(f))
    BY <1>2, GreatestNumber
  <2>2. \A i \in DOMAIN f : f[i] \in Range(f) /\ f[i] \in Nat
    BY <1>1 DEF Range
  <2>3. Max(Range(f)) \in Nat
    BY <1>2, <2>1
  <2>4. Above(f, Max(Range(f))) = {}
    <3> DEFINE top == Max(Range(f))
    <3> HIDE DEF top
    <3>1. top \in Nat /\ \A v \in Range(f) : v <= top
      BY <2>1, <2>3 DEF top
    <3>2. Above(f, top) = {}
      BY <2>2, <3>1 DEF Above
    <3> QED
      BY <3>2 DEF top
  <2>5. 2 * Cardinality(Above(f, Max(Range(f)))) <= size
    BY <1>3, <2>4, FS_EmptySet
  <2> QED
    BY <2>1, <2>5 DEF NotLow
<1>5. NotLow(f) \in SUBSET Nat
  BY <1>1 DEF NotLow
<1>6. least \in NotLow(f) /\ \A v \in NotLow(f) : least <= v
  BY <1>4, <1>5, LeastNumber
<1>7. least \in Nat
  BY <1>5, <1>6
<1> HIDE DEF least, size
<1>8. 2 * Cardinality(Below(f, least)) <= size
  <2> SUFFICES ASSUME ~(2 * Cardinality(Below(f, least)) <= size)
               PROVE  FALSE
    OBVIOUS
  <2>1. IsFiniteSet(Below(f, least))
    <3>1. Below(f, least) \in SUBSET DOMAIN f
      BY DEF Below
    <3> QED
      BY <3>1, FS_Subset
  <2>2. Cardinality(Below(f, least)) \in Nat
    BY <2>1, FS_CardinalityType
  <2>3. Below(f, least) # {}
    <3> SUFFICES ASSUME Below(f, least) = {}
                 PROVE  FALSE
      OBVIOUS
    <3>1. Cardinality(Below(f, least)) = 0
      BY FS_EmptySet
    <3> QED
      BY <1>3, <3>1
  <2>4. PICK v \in Range(f) :
          /\ v \in Nat /\ v < least
          /\ Cardinality(Above(f, v)) = size - Cardinality(Below(f, least))
    <3>1. \A i \in DOMAIN f : f[i] \in 0 .. hi
      OBVIOUS
    <3> QED
      BY <1>7, <2>3, <3>1, GreatestBelow DEF size
  <2>5. 2 * Cardinality(Above(f, v)) <= size
    BY <1>3, <2>2, <2>4
  <2>6. v \in NotLow(f)
    BY <2>5 DEF NotLow, size
  <2> QED
    BY <1>6, <1>7, <2>4, <2>6
<1>9. least \in Middle(f)
  BY <1>6, <1>8 DEF Middle, size
<1>10. /\ Middle(f) \in SUBSET Nat /\ Middle(f) # {}
       /\ \A v \in Middle(f) : v \in Nat /\ v >= lo /\ v <= hi
  BY <1>1, <1>9 DEF Middle, NotLow
<1>11. Min(Middle(f)) \in Middle(f)
  BY <1>10, LeastNumber
<1>12. Max(Middle(f)) \in Middle(f)
  BY <1>10, GreatestNumber
<1> QED
  <2> DEFINE a == Min(Middle(f))
             b == Max(Middle(f))
  <2>1. /\ a \in Nat /\ a >= lo /\ a <= hi
        /\ b \in Nat /\ b >= lo /\ b <= hi
    BY <1>10, <1>11, <1>12
  <2> HIDE DEF a, b
  <2>2. a + b \in 2 * lo .. 2 * hi
    BY <2>1
  <2> QED
    BY <2>2, MedianIsMiddle DEF a, b

-----------------------------------------------------------------------------
(* The runs of a campaign. *)

ClaimTypeInv ==
  /\ phase \in {"measure", "summarize", "prepare", "profile", "idle", "publish", "stopped"}
  /\ outcomes \in Seq(1 .. Len(Outcomes)) /\ Len(outcomes) <= RunCount
  /\ profile \in {"none", "complete", "run_missing", "run_invalid", "multiplexed"}
  /\ samples \in [Receivers -> [Counters -> [StatRuns -> Nat \union {None}]]]
  /\ claim_work \in Work
  /\ written \in 0 .. Len(Outputs) - 1
  /\ attempt \in 0 .. MaxPublishes
  /\ latency_calls \in SUBSET (1 .. attempt)
  /\ writer \in [Range(Outputs) -> 0 .. attempt]
  /\ troubles \in 0 .. MaxTroubles

(* All runs are made before anything is made of them, and none loses a     *)
(* tolerable part of fewer than 1000 packets.                              *)
RunInv ==
  /\ \A i \in 1 .. Len(outcomes) : Possible(i, outcomes[i])
  /\ phase # "measure" => Len(outcomes) = RunCount

LEMMA Positive == REQUIRED_REPETITIONS \in Nat \ {0} /\ Len(Configs) \in Nat
BY ClaimsAssumption

LEMMA ProductOrder ==
  ASSUME NEW m \in Nat, NEW n \in Nat, NEW k \in Nat, m <= n
  PROVE  m * k <= n * k
OBVIOUS

LEMMA ConfigType ==
  ASSUME NEW k \in 1 .. Len(Configs)
  PROVE  /\ Configs[k] \in Tuples
         /\ Configs[k] \in Range(Configs)
         /\ k \in DOMAIN Configs
<1>1. DOMAIN Configs = 1 .. Len(Configs)
  BY ClaimsAssumption
<1>2. Configs \in Seq(Tuples)
  BY ClaimsAssumption
<1>3. Configs[k] \in Tuples
  BY <1>2
<1> QED
  BY <1>1, <1>3 DEF Range

(* A run repeats the configuration at its place.                           *)
LEMMA PlaceOfRun ==
  ASSUME NEW i \in 1 .. RunCount
  PROVE  \E k \in 1 .. Len(Configs) :
           /\ ConfigOf(i) = Configs[k]
           /\ (k - 1) * REQUIRED_REPETITIONS < i
           /\ i <= k * REQUIRED_REPETITIONS
<1> DEFINE r == REQUIRED_REPETITIONS
           n == Len(Configs)
           q == (i - 1) \div r
<1>1. r \in Nat \ {0} /\ n \in Nat /\ i \in 1 .. n * r
  BY Positive DEF RunCount
<1>2. ConfigOf(i) = Configs[q + 1]
  BY DEF ConfigOf
<1> HIDE DEF r, n
<1>3. q \in Nat /\ (i - 1) = (r * q) + ((i - 1) % r) /\ (i - 1) % r \in 0 .. r - 1
  BY <1>1
<1> HIDE DEF q
<1>4. r * q < i /\ i <= r * q + r
  BY <1>1, <1>3
<1>5. q < n
  <2> SUFFICES ASSUME n <= q
               PROVE  FALSE
    BY <1>1, <1>3
  <2>1. n * r <= q * r
    BY <1>1, <1>3, ProductOrder
  <2>2. q * r = r * q
    BY <1>1, <1>3
  <2> QED
    BY <1>1, <1>3, <1>4, <2>1, <2>2
<1>6. q + 1 \in 1 .. n
  BY <1>1, <1>3, <1>5
<1> QED
  <2> DEFINE p == q + 1
  <2>1. (p - 1) * r < i /\ i <= p * r
    <3>1. p - 1 = q /\ q * r = r * q /\ (q + 1) * r = r * q + r
      BY <1>1, <1>3
    <3> QED
      BY <1>4, <3>1
  <2>2. p \in 1 .. n /\ ConfigOf(i) = Configs[p]
    BY <1>2, <1>6
  <2> HIDE DEF p
  <2> QED
    BY <2>1, <2>2 DEF r, n

(* Its runs are as many as are required, and follow each other.            *)
LEMMA RunsOfConfig ==
  ASSUME NEW k \in 1 .. Len(Configs)
  PROVE  /\ MeasuredOf(Configs[k]) =
              (k - 1) * REQUIRED_REPETITIONS + 1 .. k * REQUIRED_REPETITIONS
         /\ IsFiniteSet(MeasuredOf(Configs[k]))
         /\ Cardinality(MeasuredOf(Configs[k])) = REQUIRED_REPETITIONS
<1> DEFINE r == REQUIRED_REPETITIONS
           n == Len(Configs)
           runs == (k - 1) * r + 1 .. k * r
<1>1. r \in Nat \ {0} /\ n \in Nat /\ k \in 1 .. n
  BY Positive
<1>2. /\ (k - 1) * r \in Nat /\ k * r \in Nat /\ n * r \in Nat
      /\ k * r = (k - 1) * r + r /\ k * r <= n * r
  <2>1. k \in Nat /\ k - 1 \in Nat /\ k <= n
    BY <1>1
  <2> QED
    BY <1>1, <2>1, ProductOrder
<1>3. ASSUME NEW i \in MeasuredOf(Configs[k])
      PROVE  i \in runs
  <2>1. i \in 1 .. RunCount /\ ConfigOf(i) = Configs[k]
    BY DEF MeasuredOf
  <2>2. PICK p \in 1 .. Len(Configs) :
          /\ ConfigOf(i) = Configs[p]
          /\ (p - 1) * r < i
          /\ i <= p * r
    BY <2>1, PlaceOfRun
  <2>3. p = k
    BY <2>1, <2>2, ConfigType, ClaimsAssumption DEF IsInjective
  <2>4. i \in Nat
    BY <2>1, <1>2 DEF RunCount
  <2> QED
    BY <1>2, <2>2, <2>3, <2>4
<1>4. ASSUME NEW i \in runs
      PROVE  i \in MeasuredOf(Configs[k])
  <2>1. i \in Nat /\ (k - 1) * r < i /\ i <= k * r
    BY <1>2
  <2>2. i \in 1 .. RunCount
    BY <1>2, <2>1 DEF RunCount
  <2>3. PICK p \in 1 .. Len(Configs) :
          /\ ConfigOf(i) = Configs[p]
          /\ (p - 1) * r < i
          /\ i <= p * r
    BY <2>2, PlaceOfRun
  <2>4. p \in Nat /\ p - 1 \in Nat /\ k - 1 \in Nat /\ k \in Nat
    BY <1>1, <2>3
  <2>5. ~(p <= k - 1)
    <3> SUFFICES ASSUME p <= k - 1
                 PROVE  FALSE
      OBVIOUS
    <3>1. p * r <= (k - 1) * r /\ p * r \in Nat
      BY <1>1, <2>4, ProductOrder
    <3> QED
      BY <1>2, <2>1, <2>3, <3>1
  <2>6. ~(k <= p - 1)
    <3> SUFFICES ASSUME k <= p - 1
                 PROVE  FALSE
      OBVIOUS
    <3>1. k * r <= (p - 1) * r /\ (p - 1) * r \in Nat
      BY <1>1, <2>4, ProductOrder
    <3> QED
      BY <1>2, <2>1, <2>3, <3>1
  <2>7. p = k
    BY <2>4, <2>5, <2>6
  <2> QED
    BY <2>2, <2>3, <2>7 DEF MeasuredOf
<1>5. MeasuredOf(Configs[k]) = runs
  BY <1>3, <1>4
<1>6. IsFiniteSet(runs) /\ Cardinality(runs) = r
  <2> DEFINE a == (k - 1) * r + 1
             b == k * r
  <2>1. a \in Int /\ b \in Int /\ ~(a > b) /\ b - a + 1 = r
    BY <1>1, <1>2
  <2> HIDE DEF a, b
  <2>2. IsFiniteSet(a .. b) /\ Cardinality(a .. b) = r
    BY <2>1, FS_Interval
  <2> QED
    BY <2>2 DEF a, b
<1> QED
  BY <1>5, <1>6

LEMMA ConfigOfRun ==
  ASSUME NEW i \in 1 .. RunCount
  PROVE  /\ ConfigOf(i) \in Tuples
         /\ ConfigOf(i) \in Range(Configs)
         /\ ConfigOf(i).rate \in Nat \ {0}
BY PlaceOfRun, ConfigType DEF Tuples

(* Whatever is measured at all is measured as often as required.           *)
LEMMA RunsMeasured ==
  ASSUME NEW c \in Range(Configs)
  PROVE  /\ IsFiniteSet(MeasuredOf(c)) /\ Cardinality(MeasuredOf(c)) = REQUIRED_REPETITIONS
         /\ MeasuredOf(c) # {}
         /\ c \in Tuples /\ c.rate \in Nat \ {0} /\ c.setup \in Nat
<1>1. PICK k \in DOMAIN Configs : c = Configs[k]
  BY DEF Range
<1>2. k \in 1 .. Len(Configs)
  BY <1>1, ClaimsAssumption
<1>3. IsFiniteSet(MeasuredOf(c)) /\ Cardinality(MeasuredOf(c)) = REQUIRED_REPETITIONS
  BY <1>1, <1>2, RunsOfConfig
<1>4. MeasuredOf(c) # {}
  BY <1>3, FS_EmptySet, Positive
<1>5. c \in Tuples
  BY <1>1, <1>2, ConfigType
<1> QED
  BY <1>3, <1>4, <1>5 DEF Tuples

-----------------------------------------------------------------------------
(* The row of a run. *)

(* A run that offered 99% and lost at most 0.1%.                           *)
LEMMA SustainedRow ==
  ASSUME NEW i \in 1 .. RunCount, Sustained(i)
  PROVE  LET row == summarize_run(i)
             r == ConfigOf(i).rate
         IN  /\ row.run_valid /\ row.sustainable_run
             /\ row.processed \in Nat /\ row.processed <= r
             /\ 1000 * row.processed >= 999 * r
<1> DEFINE row == summarize_run(i)
           r == ConfigOf(i).rate
<1>1. r \in Nat \ {0}
  BY ConfigOfRun
<1>2. r \div 1000 \in Nat /\ 1000 * (r \div 1000) <= r
  BY <1>1
<1>3. row.run_valid
  BY DEF summarize_run, Sustained
<1>4. CASE Outcome(i) = "clean"
  <2>1. row.processed = r - 0
    BY <1>4 DEF summarize_run
  <2>2. 100 * r >= 99 * r /\ 1000 * 0 <= r
    BY <1>1
  <2>3. row.sustainable_run
    BY <1>4, <1>3, <2>2 DEF summarize_run
  <2> HIDE DEF row, r
  <2>4. row.processed \in Nat /\ row.processed <= r /\ 1000 * row.processed >= 999 * r
    BY <1>1, <2>1
  <2> QED
    BY <1>3, <2>3, <2>4 DEF row, r
<1>5. CASE Outcome(i) \in {"ingress_tolerated", "overflow_tolerated"}
  <2> DEFINE loss == r \div 1000
  <2>1. row.processed = r - loss
    BY <1>5 DEF summarize_run
  <2>2. loss \in Nat /\ 1000 * loss <= r
    BY <1>2
  <2>3. 100 * r >= 99 * r
    BY <1>1
  <2>4. row.sustainable_run
    BY <1>5, <1>3, <2>2, <2>3 DEF summarize_run
  <2> HIDE DEF row, r, loss
  <2>5. row.processed \in Nat /\ row.processed <= r /\ 1000 * row.processed >= 999 * r
    BY <1>1, <2>1, <2>2
  <2> QED
    BY <1>3, <2>4, <2>5 DEF row, r
<1> QED
  BY <1>4, <1>5 DEF Sustained

OutcomeNames ==
  {"failed", "trace_damaged", "unbalanced", "invalid", "sender_limited",
   "lossy", "overflow_tolerated", "ingress_tolerated", "clean"}

LEMMA OutcomeType ==
  ASSUME NEW i \in 1 .. Len(outcomes), outcomes \in Seq(1 .. Len(Outcomes))
  PROVE  Outcome(i) \in OutcomeNames
<1>1. Len(Outcomes) = 9
  BY DEF Outcomes
<1>2. outcomes[i] \in 1 .. 9
  BY <1>1
<1>3. \A o \in 1 .. 9 : Outcomes[o] \in OutcomeNames
  BY DEF Outcomes, OutcomeNames
<1> QED
  BY <1>2, <1>3 DEF Outcome

(* A sustainable run lost at most 0.1% of what was sent.                   *)
LEMMA AllowedLoss ==
  ASSUME NEW i, Outcome(i) # "sender_limited", summarize_run(i).sustainable_run
  PROVE  1000 * summarize_run(i).application_loss <= ConfigOf(i).rate
<1> DEFINE r == ConfigOf(i).rate
           loss == summarize_run(i).application_loss
<1>1. summarize_run(i).sustainable_run =>
        1000 * loss <= IF Outcome(i) = "sender_limited" THEN (98 * r) \div 100 ELSE r
  BY ZenonT(30) DEF summarize_run
<1> QED
  BY <1>1

(* Conversely, what the summary calls sustainable was that, if the report  *)
(* of the receiver adds up: the other outcomes show in the row.            *)
LEMMA SustainableIsSustained ==
  ASSUME NEW i \in 1 .. RunCount, Outcome(i) \in OutcomeNames,
         Outcome(i) \notin {"failed", "trace_damaged"},
         validate_metadata(summarize_run(i)),
         summarize_run(i).run_valid, summarize_run(i).sustainable_run
  PROVE  Sustained(i)
<1> DEFINE row == summarize_run(i)
           r == ConfigOf(i).rate
<1>1. r \in Nat \ {0}
  BY ConfigOfRun
<1>2. Outcome(i) # "invalid"
  BY DEF summarize_run
<1>3. Outcome(i) # "unbalanced"
  <2> SUFFICES ASSUME Outcome(i) = "unbalanced"
               PROVE  FALSE
    OBVIOUS
  <2>1. row.processed = r - 0 /\ row.spsc_overflow = 1 /\ row.received = r - 0
    BY DEF summarize_run
  <2> HIDE DEF r
  <2> QED
    BY <1>1, <2>1 DEF validate_metadata
<1>4. Outcome(i) # "sender_limited"
  <2> SUFFICES ASSUME Outcome(i) = "sender_limited"
               PROVE  FALSE
    OBVIOUS
  <2> DEFINE sent == (98 * r) \div 100
  <2>1. 100 * sent >= 99 * r
    BY DEF summarize_run
  <2>2. sent \in Nat /\ 100 * sent <= 98 * r
    <3> HIDE DEF r
    <3> QED
      BY <1>1
  <2> HIDE DEF sent, r
  <2> QED
    BY <1>1, <2>1, <2>2
<1>5. Outcome(i) # "lossy"
  <2> SUFFICES ASSUME Outcome(i) = "lossy"
               PROVE  FALSE
    OBVIOUS
  <2> DEFINE tenth == r \div 10
  <2>1. 1000 * (tenth + 1) <= r
    <3>1. row.application_loss = tenth + 1
      BY DEF summarize_run
    <3>2. 1000 * row.application_loss <= r
      BY AllowedLoss
    <3> QED
      BY <3>1, <3>2
  <2>2. tenth \in Nat /\ r < 10 * tenth + 10
    <3> HIDE DEF r
    <3> QED
      BY <1>1
  <2> HIDE DEF tenth, r
  <2> QED
    BY <1>1, <2>1, <2>2
<1> QED
  BY <1>2, <1>3, <1>4, <1>5 DEF Sustained, OutcomeNames

(* A tolerated loss is a loss, since there were 1000 packets.              *)
LEMMA NothingLostIsClean ==
  ASSUME NEW i \in 1 .. RunCount, Sustained(i), Possible(i, outcomes[i]),
         summarize_run(i).ingress_loss = 0, summarize_run(i).spsc_overflow = 0
  PROVE  Outcome(i) = "clean"
<1> DEFINE r == ConfigOf(i).rate
           loss == r \div 1000
<1>1. r \in Nat \ {0}
  BY ConfigOfRun
<1> SUFFICES ASSUME Outcome(i) \in {"ingress_tolerated", "overflow_tolerated"}
             PROVE  FALSE
  BY DEF Sustained
<1>2. r >= 1000
  BY DEF Possible, Outcome
<1>3. loss \in Nat /\ loss >= 1
  <2> HIDE DEF r
  <2> QED
    BY <1>1, <1>2
<1>4. CASE Outcome(i) = "ingress_tolerated"
  <2>1. summarize_run(i).received = r - loss
    BY <1>4 DEF summarize_run
  <2>2. summarize_run(i).ingress_loss = r - summarize_run(i).received
    BY <1>4 DEF summarize_run
  <2> HIDE DEF r, loss
  <2> QED
    BY <1>1, <1>3, <2>1, <2>2
<1>5. CASE Outcome(i) = "overflow_tolerated"
  <2>1. summarize_run(i).spsc_overflow = loss
    BY <1>5 DEF summarize_run
  <2> QED
    BY <1>3, <2>1
<1> QED
  BY <1>4, <1>5

-----------------------------------------------------------------------------
(* The rows of a configuration. *)

(* What the summary leaves when it does not stop: a row for every run that *)
(* has one, each of which adds up.                                         *)
Summarized ==
  /\ outcomes \in Seq(1 .. Len(Outcomes))
  /\ Len(outcomes) = RunCount
  /\ \A i \in 1 .. RunCount : Possible(i, outcomes[i])
  /\ per_run = {summarize_run(i) : i \in RunIds}
  /\ \A i \in RunIds : validate_metadata(summarize_run(i)) /\ Outcome(i) # "trace_damaged"

Group(c) == {row \in claim_population : row.config = c}

(* The runs of a configuration that have a row in its group. *)
GroupRuns(c) == {i \in RunIds : ConfigOf(i) = c /\ Outcome(i) # "invalid"}

LEMMA RowNames ==
  ASSUME NEW i
  PROVE  /\ summarize_run(i).run_id = i
         /\ summarize_run(i).config = ConfigOf(i)
         /\ summarize_run(i).run_valid <=> Outcome(i) # "invalid"
<1>1. summarize_run(i).run_id = i /\ summarize_run(i).config = ConfigOf(i)
  BY DEF summarize_run
<1>2. summarize_run(i).run_valid <=> Outcome(i) # "invalid"
  BY Zenon DEF summarize_run
<1> QED
  BY <1>1, <1>2

(* Rows and runs correspond one to one.                                    *)
LEMMA GroupSize ==
  ASSUME Summarized, NEW c
  PROVE  /\ Group(c) = {summarize_run(i) : i \in GroupRuns(c)}
         /\ GroupRuns(c) \subseteq MeasuredOf(c)
         /\ {row.run_id : row \in Group(c)} = GroupRuns(c)
         /\ IsFiniteSet(GroupRuns(c)) /\ IsFiniteSet(Group(c))
         /\ Cardinality(Group(c)) = Cardinality(GroupRuns(c))
<1>1. Group(c) = {summarize_run(i) : i \in GroupRuns(c)}
  <2>1. \A row \in per_run : \E i \in RunIds : row = summarize_run(i)
    BY DEF Summarized
  <2>2. \A i \in RunIds : summarize_run(i) \in per_run
    BY DEF Summarized
  <2>3. ASSUME NEW row \in Group(c)
        PROVE  \E i \in GroupRuns(c) : row = summarize_run(i)
    <3>1. row \in per_run /\ row.run_valid /\ row.config = c
      BY DEF Group, claim_population
    <3>2. PICK i \in RunIds : row = summarize_run(i)
      BY <2>1, <3>1
    <3>3. i \in GroupRuns(c)
      BY <3>1, <3>2, RowNames DEF GroupRuns
    <3> QED
      BY <3>2, <3>3
  <2>4. ASSUME NEW i \in GroupRuns(c)
        PROVE  summarize_run(i) \in Group(c)
    BY <2>2, RowNames DEF GroupRuns, Group, claim_population
  <2> QED
    BY <2>3, <2>4
<1>2. GroupRuns(c) \subseteq MeasuredOf(c)
  BY DEF GroupRuns, MeasuredOf, RunIds, Summarized
<1>3. {row.run_id : row \in Group(c)} = GroupRuns(c)
  BY <1>1, RowNames
<1>4. IsFiniteSet(GroupRuns(c))
  <2>1. GroupRuns(c) \in SUBSET (1 .. RunCount)
    BY <1>2 DEF MeasuredOf
  <2>2. RunCount \in Nat
    BY Positive DEF RunCount
  <2>3. IsFiniteSet(1 .. RunCount)
    BY <2>2, FS_Interval
  <2> QED
    BY <2>1, <2>3, FS_Subset
<1>5. Cardinality(Group(c)) = Cardinality(GroupRuns(c)) /\ IsFiniteSet(Group(c))
  <2> DEFINE f == [i \in GroupRuns(c) |-> summarize_run(i)]
  <2>1. \A i, j \in GroupRuns(c) : summarize_run(i) = summarize_run(j) => i = j
    BY RowNames
  <2>2. f \in Bijection(GroupRuns(c), Group(c))
    <3>1. f \in [GroupRuns(c) -> Group(c)]
      BY <1>1
    <3>2. \A i, j \in GroupRuns(c) : f[i] = f[j] => i = j
      BY <2>1
    <3>3. \A row \in Group(c) : \E i \in GroupRuns(c) : f[i] = row
      BY <1>1
    <3> HIDE DEF f
    <3> QED
      BY <3>1, <3>2, <3>3 DEF Bijection, Injection, Surjection, IsInjective
  <2> QED
    BY <1>4, <2>2, FS_Bijection DEF ExistsBijection
<1> QED
  BY <1>1, <1>2, <1>3, <1>4, <1>5

(* A complete group of sustainable rows: all runs of the configuration     *)
(* have a row in it, and sustained their rate.                             *)
LEMMA CompleteGroup ==
  ASSUME Summarized, NEW c, AllRepetitions(Group(c)),
         \A row \in Group(c) : row.sustainable_run
  PROVE  /\ c \in Range(Configs)
         /\ Group(c) = {summarize_run(i) : i \in MeasuredOf(c)}
         /\ {row.run_id : row \in Group(c)} = MeasuredOf(c)
         /\ \A i \in MeasuredOf(c) : i \in RunIds /\ i \in 1 .. RunCount /\ Sustained(i)
<1>1. Cardinality(GroupRuns(c)) = REQUIRED_REPETITIONS
  BY GroupSize DEF AllRepetitions
<1>2. c \in Range(Configs)
  <2>1. GroupRuns(c) # {}
    BY <1>1, FS_EmptySet, Positive
  <2>2. PICK i \in MeasuredOf(c) : TRUE
    BY <2>1, GroupSize
  <2> QED
    BY <2>2, ConfigOfRun DEF MeasuredOf
<1>3. GroupRuns(c) = MeasuredOf(c)
  <2>1. GroupRuns(c) \in SUBSET MeasuredOf(c)
    BY GroupSize
  <2>2. IsFiniteSet(MeasuredOf(c)) /\ Cardinality(MeasuredOf(c)) = REQUIRED_REPETITIONS
    BY <1>2, RunsMeasured
  <2> QED
    BY <1>1, <2>1, <2>2, FS_Subset
<1>4. ASSUME NEW i \in MeasuredOf(c)
      PROVE  i \in RunIds /\ i \in 1 .. RunCount /\ Sustained(i)
  <2>1. i \in GroupRuns(c) /\ i \in RunIds /\ i \in 1 .. RunCount
    BY <1>3 DEF GroupRuns, MeasuredOf
  <2>2. summarize_run(i) \in Group(c)
    BY <2>1, GroupSize
  <2>3. summarize_run(i).sustainable_run /\ summarize_run(i).run_valid
    BY <2>2 DEF Group, claim_population
  <2>4. validate_metadata(summarize_run(i)) /\ Outcome(i) \notin {"failed", "trace_damaged"}
    BY <2>1 DEF Summarized, RunIds
  <2>5. Outcome(i) \in OutcomeNames
    BY <2>1, OutcomeType DEF Summarized
  <2> QED
    BY <2>1, <2>3, <2>4, <2>5, SustainableIsSustained
<1> QED
  BY <1>2, <1>3, <1>4, GroupSize

(* And a configuration all of whose runs did has such a group.             *)
LEMMA SustainedGroup ==
  ASSUME Summarized, NEW c \in Range(Configs), \A i \in MeasuredOf(c) : Sustained(i)
  PROVE  /\ AllRepetitions(Group(c))
         /\ \A row \in Group(c) : row.sustainable_run
         /\ c \in {row.config : row \in claim_population}
<1>1. GroupRuns(c) = MeasuredOf(c)
  <2>1. ASSUME NEW i \in MeasuredOf(c)
        PROVE  i \in GroupRuns(c)
    <3>1. i \in 1 .. RunCount /\ ConfigOf(i) = c
      BY DEF MeasuredOf
    <3>2. Outcome(i) \notin {"failed", "invalid"}
      BY DEF Sustained
    <3> QED
      BY <3>1, <3>2 DEF GroupRuns, RunIds, Summarized
  <2> QED
    BY <2>1, GroupSize
<1>2. AllRepetitions(Group(c))
  BY <1>1, GroupSize, RunsMeasured DEF AllRepetitions
<1>3. \A row \in Group(c) : row.sustainable_run
  <2> SUFFICES ASSUME NEW i \in MeasuredOf(c)
               PROVE  summarize_run(i).sustainable_run
    BY <1>1, GroupSize
  <2>1. i \in 1 .. RunCount
    BY DEF MeasuredOf
  <2> QED
    BY <2>1, SustainedRow
<1>4. c \in {row.config : row \in claim_population}
  <2>1. PICK i \in GroupRuns(c) : TRUE
    BY <1>1, RunsMeasured
  <2>2. summarize_run(i) \in Group(c)
    BY <2>1, GroupSize
  <2> QED
    BY <2>2 DEF Group
<1> QED
  BY <1>2, <1>3, <1>4

-----------------------------------------------------------------------------
(* The choice of representatives. *)

PassingConfigs ==
  {c \in {row.config : row \in claim_population} :
     AllRepetitions(Group(c)) /\ \A row \in Group(c) : row.sustainable_run}

GroupRecord(c) ==
  [config |-> c,
   processed_twice_median |-> TwiceMedian([row \in Group(c) |-> row.processed]),
   processed_min |-> Min({row.processed : row \in Group(c)}),
   processed_max |-> Max({row.processed : row \in Group(c)}),
   saturated |-> saturated(c, claim_population),
   run_ids |-> {row.run_id : row \in Group(c)}]

LEMMA GroupsAre == sustainable_groups = {GroupRecord(c) : c \in PassingConfigs}
BY DEF sustainable_groups, PassingConfigs, GroupRecord, Group

(* A sustainable group covers all runs of its configuration.               *)
LEMMA SustainableGroup ==
  ASSUME Summarized, NEW g \in sustainable_groups
  PROVE  /\ g.config \in Range(Configs)
         /\ g.run_ids = MeasuredOf(g.config)
         /\ \A i \in MeasuredOf(g.config) : i \in RunIds /\ i \in 1 .. RunCount /\ Sustained(i)
         /\ \A i \in MeasuredOf(g.config) :
              /\ MeasuredPps(i) \in Nat
              /\ g.processed_min <= MeasuredPps(i)
              /\ MeasuredPps(i) <= g.processed_max
         /\ g.processed_min \in Nat /\ g.processed_max \in Nat
<1>1. PICK c \in PassingConfigs : g = GroupRecord(c)
  BY GroupsAre
<1>2. AllRepetitions(Group(c)) /\ \A row \in Group(c) : row.sustainable_run
  BY <1>1 DEF PassingConfigs
<1> DEFINE S == {row.processed : row \in Group(c)}
<1>3. /\ g.config = c /\ g.run_ids = {row.run_id : row \in Group(c)}
      /\ g.processed_min = Min(S) /\ g.processed_max = Max(S)
  BY <1>1 DEF GroupRecord
<1>4. /\ c \in Range(Configs)
      /\ Group(c) = {summarize_run(i) : i \in MeasuredOf(c)}
      /\ {row.run_id : row \in Group(c)} = MeasuredOf(c)
      /\ \A i \in MeasuredOf(c) : i \in RunIds /\ i \in 1 .. RunCount /\ Sustained(i)
  BY <1>2, CompleteGroup
<1>5. \A i \in MeasuredOf(c) : MeasuredPps(i) \in Nat /\ MeasuredPps(i) <= c.rate
  <2> TAKE i \in MeasuredOf(c)
  <2>1. i \in 1 .. RunCount /\ ConfigOf(i) = c /\ Sustained(i)
    BY <1>4 DEF MeasuredOf
  <2> QED
    BY <2>1, SustainedRow DEF MeasuredPps
<1>6. S = {MeasuredPps(i) : i \in MeasuredOf(c)}
  BY <1>4 DEF MeasuredPps
<1>7. MeasuredOf(c) # {} /\ c.rate \in Nat
  BY <1>4, RunsMeasured
<1>8. S \in SUBSET Nat /\ S # {} /\ \A x \in S : x <= c.rate
  <2> HIDE DEF S
  <2> QED
    BY <1>5, <1>6, <1>7
<1>9. /\ Min(S) \in S /\ \A x \in S : Min(S) <= x
      /\ Max(S) \in S /\ \A x \in S : x <= Max(S)
  <2> HIDE DEF S
  <2> QED
    BY <1>7, <1>8, LeastNumber, GreatestNumber
<1>10. \A i \in MeasuredOf(c) : MeasuredPps(i) \in S
  <2> HIDE DEF S
  <2> QED
    BY <1>6
<1> HIDE DEF S
<1> QED
  BY <1>3, <1>4, <1>5, <1>8, <1>9, <1>10

(* The receiver's sustainable groups at the given amount of work. *)
Eligible(work, receiver) ==
  {g \in {h \in sustainable_groups : work \in {AnyWork, h.config.work_ns}} :
     g.config.receiver = receiver}

(* The medians of some groups, times two. *)
Medians(groups) == {g.processed_twice_median : g \in groups}

(* A selection has a group of every receiver, all with the same work, and  *)
(* none falls more than 2% behind the best of its contests.                *)
LEMMA SelectionChosen ==
  ASSUME NEW work, NEW selection \in select_representatives(work)
  PROVE  /\ \A r \in Receivers :
              LET competing == Highest(Eligible(work, r))
              IN  /\ selection[r] \in competing
                  /\ 100 * selection[r].processed_twice_median >= 98 * Max(Medians(competing))
         /\ OneWorkload(selection)
<1> DEFINE passing == {g \in sustainable_groups : work \in {AnyWork, g.config.work_ns}}
           Of(r) == Representatives(passing, r)
<1>1. /\ OneWorkload(selection)
      /\ \E b \in Of("baseline"), c \in Of("batched"), t \in Of("threaded") :
           selection = [baseline |-> b, batched |-> c, threaded |-> t]
  <2> DEFINE all == {[baseline |-> b, batched |-> c, threaded |-> t] :
                       b \in Of("baseline"), c \in Of("batched"), t \in Of("threaded")}
  <2>1. select_representatives(work) =
          IF \A r \in Receivers : \E g \in passing : g.config.receiver = r
            THEN {s \in all : OneWorkload(s)} ELSE {}
    BY DEF select_representatives
  <2>2. selection \in {s \in all : OneWorkload(s)}
    <3> HIDE DEF all
    <3> QED
      BY <2>1
  <2> HIDE DEF Of
  <2> QED
    BY <2>2
<1>2. \A r \in Receivers : selection[r] \in Of(r)
  <2> HIDE DEF Of
  <2> QED
    BY <1>1 DEF Receivers
<1>3. ASSUME NEW r \in Receivers
      PROVE  \A g \in Of(r) :
               /\ g \in Highest(Eligible(work, r))
               /\ 100 * g.processed_twice_median >= 98 * Max(Medians(Highest(Eligible(work, r))))
  BY DEF Representatives, Eligible, Medians
<1> HIDE DEF Of
<1> QED
  BY <1>1, <1>2, <1>3

LEMMA ChosenGroup ==
  ASSUME NEW work, NEW selection \in select_representatives(work), NEW r \in Receivers
  PROVE  /\ selection[r] \in sustainable_groups
         /\ selection[r].config.receiver = r
<1>1. selection[r] \in Highest(Eligible(work, r))
  BY SelectionChosen
<1>2. selection[r] \in Eligible(work, r)
  BY <1>1 DEF Highest
<1> QED
  BY <1>2 DEF Eligible

LEMMA SameWork ==
  ASSUME NEW selection, OneWorkload(selection), NEW r \in Receivers, NEW t \in Receivers
  PROVE  selection[r].config.work_ns = selection[t].config.work_ns
<1> DEFINE S == {selection[q].config.work_ns : q \in Receivers}
<1>1. IsFiniteSet(S)
  <2> DEFINE work(q) == selection[q].config.work_ns
  <2>1. S = {work(q) : q \in Receivers}
    OBVIOUS
  <2> HIDE DEF work
  <2>2. S = {work("baseline")} \union ({work("batched")} \union {work("threaded")})
    BY <2>1 DEF Receivers
  <2> HIDE DEF S
  <2>3. \A x, y, z : IsFiniteSet({x} \union ({y} \union {z}))
    BY FS_Singleton, FS_Union
  <2> QED
    BY <2>2, <2>3
<1>2. Cardinality(S) = 1
  BY DEF OneWorkload
<1>3. PICK x : S = {x}
  <2> HIDE DEF S
  <2> QED
    BY <1>1, <1>2, FS_Singleton
<1> QED
  BY <1>3

-----------------------------------------------------------------------------
(* What the gate lets pass. *)

LEMMA PassingPair ==
  ASSUME NEW selection, NEW claim \in Passing(selection)
  PROVE  \E s \in Candidates :
           /\ claim.baseline = selection["baseline"].config
           /\ claim.candidate = selection[s].config
           /\ ~_throughput_blockers(selection["baseline"], selection[s])
           /\ ~_mechanism_blockers(selection["baseline"], selection[s])
BY DEF Passing

LEMMA PassingIsSound ==
  ASSUME Summarized, NEW work, NEW selection \in select_representatives(work),
         NEW claim \in Passing(selection)
  PROVE  /\ \A i \in MeasuredOf(claim.baseline) \union MeasuredOf(claim.candidate) : Sustained(i)
         /\ claim.baseline.work_ns = claim.candidate.work_ns
         /\ \A fast \in {MeasuredPps(i) : i \in MeasuredOf(claim.candidate)},
               slow \in {MeasuredPps(i) : i \in MeasuredOf(claim.baseline)} : fast > slow
         /\ claim.candidate.receiver = "threaded" =>
              \A i \in MeasuredOf(claim.candidate) : Outcome(i) = "clean"
<1> DEFINE base == selection["baseline"]
<1>1. PICK s \in Candidates :
        /\ claim.baseline = base.config
        /\ claim.candidate = selection[s].config
        /\ ~_throughput_blockers(base, selection[s])
        /\ ~_mechanism_blockers(base, selection[s])
  BY PassingPair
<1> DEFINE cand == selection[s]
<1>2. s \in Receivers /\ "baseline" \in Receivers
  BY DEF Candidates, Receivers
<1>3. base \in sustainable_groups /\ cand \in sustainable_groups
  BY <1>2, ChosenGroup
<1>4. base.config.work_ns = cand.config.work_ns
  BY <1>2, SelectionChosen, SameWork
<1>5. cand.processed_min > base.processed_max
  <2>1. ~(cand.processed_min <= base.processed_max)
    BY <1>1 DEF _throughput_blockers
  <2>2. cand.processed_min \in Nat /\ base.processed_max \in Nat
    BY <1>3, SustainableGroup
  <2> HIDE DEF cand, base
  <2> QED
    BY <2>1, <2>2
<1> HIDE DEF cand, base
<1>6. \A i \in MeasuredOf(cand.config) \union MeasuredOf(base.config) : Sustained(i)
  BY <1>3, SustainableGroup
<1>7. ASSUME NEW i \in MeasuredOf(cand.config), NEW j \in MeasuredOf(base.config)
      PROVE  MeasuredPps(i) > MeasuredPps(j)
  <2>1. /\ MeasuredPps(i) \in Nat /\ cand.processed_min <= MeasuredPps(i)
        /\ cand.processed_min \in Nat
    BY <1>3, SustainableGroup
  <2>2. /\ MeasuredPps(j) \in Nat /\ MeasuredPps(j) <= base.processed_max
        /\ base.processed_max \in Nat
    BY <1>3, SustainableGroup
  <2> QED
    BY <1>5, <2>1, <2>2
<1>8. ASSUME cand.config.receiver = "threaded", NEW i \in MeasuredOf(cand.config)
      PROVE  Outcome(i) = "clean"
  <2>1. ~_overlap_blockers(cand)
    BY <1>1, <1>8 DEF _mechanism_blockers, cand, base
  <2>2. /\ cand.run_ids = MeasuredOf(cand.config) /\ i \in RunIds /\ i \in 1 .. RunCount
        /\ Sustained(i)
    BY <1>3, SustainableGroup
  <2>3. summarize_run(i) \in per_run /\ summarize_run(i).run_id \in cand.run_ids
    BY <2>2, RowNames DEF Summarized
  <2>4. summarize_run(i).ingress_loss = 0 /\ summarize_run(i).spsc_overflow = 0
    BY <2>1, <2>3 DEF _overlap_blockers
  <2> QED
    BY <2>2, <2>4, NothingLostIsClean DEF Summarized
<1>9. \A fast \in {MeasuredPps(i) : i \in MeasuredOf(cand.config)},
         slow \in {MeasuredPps(i) : i \in MeasuredOf(base.config)} : fast > slow
  BY <1>7
<1> QED
  BY <1>1, <1>4, <1>6, <1>8, <1>9 DEF cand, base

-----------------------------------------------------------------------------
(* The pace of configurations that sustained their rate. *)

(* Runs that lost at most 0.1% of a rate have a median near the rate.      *)
LEMMA PaceBounds ==
  ASSUME NEW f, IsFiniteSet(DOMAIN f), DOMAIN f # {}, NEW r \in Nat,
         \A i \in DOMAIN f : f[i] \in Nat /\ f[i] <= r /\ 1000 * f[i] >= 999 * r
  PROVE  /\ TwiceMedian(f) \in Nat
         /\ TwiceMedian(f) <= 2 * r
         /\ 1000 * TwiceMedian(f) >= 1998 * r
<1> DEFINE q == r \div 1000
<1>1. q \in Nat /\ 1000 * q <= r /\ r < 1000 * q + 1000
  OBVIOUS
<1> HIDE DEF q
<1>2. r - q \in Nat
  BY <1>1
<1>3. \A i \in DOMAIN f : f[i] \in r - q .. r
  <2> TAKE i \in DOMAIN f
  <2>1. f[i] \in Nat /\ f[i] <= r /\ 1000 * f[i] >= 999 * r
    OBVIOUS
  <2> QED
    BY <1>1, <2>1
<1>4. TwiceMedian(f) \in 2 * (r - q) .. 2 * r
  BY <1>2, <1>3, MedianBounds
<1> QED
  BY <1>1, <1>2, <1>4

LEMMA SustainedMedian ==
  ASSUME NEW c \in Range(Configs), \A i \in MeasuredOf(c) : Sustained(i)
  PROVE  /\ MeasuredMedian(MeasuredOf(c)) \in Nat
         /\ MeasuredMedian(MeasuredOf(c)) <= 2 * c.rate
         /\ 1000 * MeasuredMedian(MeasuredOf(c)) >= 1998 * c.rate
<1> DEFINE r == c.rate
           pps == [i \in MeasuredOf(c) |-> MeasuredPps(i)]
<1>1. r \in Nat /\ IsFiniteSet(MeasuredOf(c)) /\ MeasuredOf(c) # {}
  BY RunsMeasured
<1>2. DOMAIN pps = MeasuredOf(c)
  OBVIOUS
<1>3. \A i \in DOMAIN pps : pps[i] \in Nat /\ pps[i] <= r /\ 1000 * pps[i] >= 999 * r
  <2> TAKE i \in DOMAIN pps
  <2>1. i \in 1 .. RunCount /\ ConfigOf(i) = c /\ Sustained(i)
    BY DEF MeasuredOf
  <2>2. pps[i] = summarize_run(i).processed
    BY DEF MeasuredPps
  <2> QED
    BY <2>1, <2>2, SustainedRow
<1>4. MeasuredMedian(MeasuredOf(c)) = TwiceMedian(pps)
  BY DEF MeasuredMedian
<1> HIDE DEF r, pps
<1>5. /\ TwiceMedian(pps) \in Nat /\ TwiceMedian(pps) <= 2 * r
      /\ 1000 * TwiceMedian(pps) >= 1998 * r
  BY <1>1, <1>2, <1>3, PaceBounds
<1> QED
  BY <1>4, <1>5 DEF r

(* The same of the median the selection goes by.                           *)
LEMMA GroupMedian ==
  ASSUME Summarized, NEW g \in sustainable_groups
  PROVE  /\ g.config \in Range(Configs)
         /\ g.config.rate \in Nat /\ g.config.setup \in Nat
         /\ g.processed_twice_median \in Nat
         /\ g.processed_twice_median <= 2 * g.config.rate
         /\ 1000 * g.processed_twice_median >= 1998 * g.config.rate
<1>1. PICK c \in PassingConfigs : g = GroupRecord(c)
  BY GroupsAre
<1>2. AllRepetitions(Group(c)) /\ \A row \in Group(c) : row.sustainable_run
  BY <1>1 DEF PassingConfigs
<1> DEFINE r == c.rate
           pps == [row \in Group(c) |-> row.processed]
<1>3. /\ c \in Range(Configs) /\ Group(c) = {summarize_run(i) : i \in MeasuredOf(c)}
      /\ \A i \in MeasuredOf(c) : Sustained(i)
  BY <1>2, CompleteGroup
<1>4. r \in Nat /\ c.setup \in Nat /\ MeasuredOf(c) # {}
  BY <1>3, RunsMeasured
<1>5. g.config = c /\ g.processed_twice_median = TwiceMedian(pps)
  BY <1>1 DEF GroupRecord
<1>6. DOMAIN pps = Group(c)
  OBVIOUS
<1>7. \A row \in DOMAIN pps : pps[row] \in Nat /\ pps[row] <= r /\ 1000 * pps[row] >= 999 * r
  <2> TAKE row \in DOMAIN pps
  <2>1. PICK i \in MeasuredOf(c) : row = summarize_run(i)
    BY <1>3
  <2>2. i \in 1 .. RunCount /\ ConfigOf(i) = c /\ Sustained(i)
    BY <1>3 DEF MeasuredOf
  <2>3. pps[row] = summarize_run(i).processed
    BY <2>1
  <2> QED
    BY <2>2, <2>3, SustainedRow
<1>8. IsFiniteSet(Group(c)) /\ Group(c) # {}
  <2>1. IsFiniteSet(Group(c))
    BY GroupSize
  <2>2. PICK i \in MeasuredOf(c) : TRUE
    BY <1>4
  <2>3. summarize_run(i) \in Group(c)
    BY <1>3, <2>2
  <2> QED
    BY <2>1, <2>3
<1> HIDE DEF r, pps
<1>9. /\ TwiceMedian(pps) \in Nat /\ TwiceMedian(pps) <= 2 * r
      /\ 1000 * TwiceMedian(pps) >= 1998 * r
  BY <1>4, <1>6, <1>7, <1>8, PaceBounds
<1> QED
  BY <1>3, <1>4, <1>5, <1>9 DEF r

LEMMA RatesBounded == \E bound \in Nat : \A c \in Range(Configs) : c.rate <= bound
<1> DEFINE rates == {c.rate : c \in Range(Configs)}
           paceAt == [k \in 1 .. Len(Configs) |-> Configs[k].rate]
<1>1. \A c \in Range(Configs) : \E k \in 1 .. Len(Configs) : c = Configs[k]
  BY ClaimsAssumption DEF Range
<1>2. \A k \in 1 .. Len(Configs) : Configs[k] \in Range(Configs)
  BY ConfigType
<1>3. paceAt \in Surjection(1 .. Len(Configs), rates)
  BY <1>1, <1>2 DEF Surjection
<1>4. IsFiniteSet(1 .. Len(Configs))
  BY Positive, FS_Interval
<1>5. rates \in SUBSET Nat
  BY RunsMeasured
<1> HIDE DEF rates, paceAt
<1>6. IsFiniteSet(rates)
  BY <1>3, <1>4, FS_Surjection
<1>7. \E bound \in Nat : \A x \in rates : x <= bound
  BY <1>5, <1>6, FiniteBound
<1> QED
  BY <1>7 DEF rates

(* Whatever competes at all is up against one of the highest rate: of its  *)
(* rivals with that rate, the first.                                       *)
LEMMA ContestWon ==
  ASSUME Summarized, NEW work, NEW r, NEW g \in Eligible(work, r)
  PROVE  \E h \in Highest(Eligible(work, r)) : g.config.rate <= h.config.rate
<1> DEFINE rivals == {h \in Eligible(work, r) : Contest(h.config) = Contest(g.config)}
           rates == {h.config.rate : h \in rivals}
           top == Max(rates)
           fastest == {h \in rivals : h.config.rate = top}
           setups == {h.config.setup : h \in fastest}
           first == Min(setups)
<1>1. \A h \in rivals : /\ h \in sustainable_groups /\ h.config \in Range(Configs)
                       /\ h.config.rate \in Nat /\ h.config.setup \in Nat
  <2>1. \A h \in rivals : h \in sustainable_groups
    BY DEF Eligible
  <2> HIDE DEF rivals
  <2> QED
    BY <2>1, GroupMedian
<1>2. g \in rivals
  OBVIOUS
<1>3. PICK bound \in Nat : \A c \in Range(Configs) : c.rate <= bound
  BY RatesBounded
<1> HIDE DEF rivals
<1>4. rates \in SUBSET Nat /\ rates # {} /\ \A x \in rates : x <= bound
  BY <1>1, <1>2, <1>3
<1>5. top \in rates /\ \A x \in rates : x <= top
  <2> HIDE DEF rates
  <2> QED
    BY <1>4, GreatestNumber
<1>6. top \in Nat /\ \A h \in rivals : h.config.rate <= top
  BY <1>4, <1>5
<1>7. PICK f \in rivals : f.config.rate = top
  BY <1>5
<1> HIDE DEF top
<1>8. setups \in SUBSET Nat /\ setups # {}
  BY <1>1, <1>7
<1>9. first \in setups /\ \A x \in setups : first <= x
  <2> HIDE DEF setups
  <2> QED
    BY <1>8, LeastNumber
<1>10. PICK h \in fastest : h.config.setup = first
  BY <1>9
<1>11. \A k \in fastest : k.config.setup >= h.config.setup
  <2> TAKE k \in fastest
  <2>1. k.config.setup \in setups /\ k.config.setup \in Nat /\ first \in Nat
    BY <1>1, <1>8, <1>9
  <2> HIDE DEF fastest, setups, first
  <2> QED
    BY <1>9, <1>10, <2>1
<1> HIDE DEF setups, first
<1>12. h \in rivals /\ h.config.rate = top
  BY <1>10
<1>13. ASSUME NEW k \in Eligible(work, r), Contest(k.config) = Contest(h.config)
       PROVE  \/ k.config.rate < h.config.rate
              \/ k.config.rate = h.config.rate /\ k.config.setup >= h.config.setup
  <2>1. k \in rivals
    BY <1>12, <1>13 DEF rivals
  <2>2. k.config.rate \in Nat /\ k.config.rate <= top
    BY <1>1, <1>6, <2>1
  <2>3. CASE k.config.rate = top
    BY <1>11, <1>12, <2>1, <2>3
  <2>4. CASE k.config.rate # top
    BY <1>6, <1>12, <2>2, <2>4
  <2> QED
    BY <2>3, <2>4
<1>14. h \in Highest(Eligible(work, r))
  BY <1>12, <1>13 DEF Highest, rivals
<1>15. g.config.rate <= h.config.rate
  BY <1>2, <1>6, <1>12
<1> QED
  BY <1>14, <1>15

(* No baseline that sustained its rate with this work was more than 3.1%   *)
(* faster: it was eligible, so one of its rate at least took part in the   *)
(* selection, and that was at most 2% faster.                              *)
LEMMA PassingIsFastest ==
  ASSUME Summarized, NEW work, NEW selection \in select_representatives(work),
         NEW c \in Range(Configs),
         c.receiver = "baseline", c.work_ns = selection["baseline"].config.work_ns,
         \A i \in MeasuredOf(c) : Sustained(i)
  PROVE  969 * MeasuredMedian(MeasuredOf(c)) <=
           1000 * MeasuredMedian(MeasuredOf(selection["baseline"].config))
<1> DEFINE base == selection["baseline"]
           b == base.config
           competing == Highest(Eligible(work, "baseline"))
           best == Max(Medians(competing))
<1>1. base \in competing /\ 100 * base.processed_twice_median >= 98 * best
  <2>1. "baseline" \in Receivers
    BY DEF Receivers
  <2> QED
    BY <2>1, SelectionChosen
<1>2. \A g \in competing : g \in Eligible(work, "baseline") /\ g \in sustainable_groups
  BY DEF Highest, Eligible
<1>3. b \in Range(Configs) /\ \A i \in MeasuredOf(b) : Sustained(i)
  BY <1>1, <1>2, SustainableGroup
<1>4. GroupRecord(c) \in sustainable_groups /\ GroupRecord(c).config = c
  BY SustainedGroup, GroupsAre DEF PassingConfigs, GroupRecord
<1>5. GroupRecord(c) \in Eligible(work, "baseline")
  BY <1>1, <1>2, <1>4 DEF Eligible
<1>6. PICK h \in competing : c.rate <= h.config.rate
  BY <1>4, <1>5, ContestWon
<1>7. PICK bound \in Nat : \A d \in Range(Configs) : d.rate <= bound
  BY RatesBounded
<1>8. /\ Medians(competing) \in SUBSET Nat
      /\ \A m \in Medians(competing) : m <= 2 * bound
  <2> SUFFICES ASSUME NEW g \in competing
               PROVE  /\ g.processed_twice_median \in Nat
                      /\ g.processed_twice_median <= 2 * bound
    BY DEF Medians
  <2>1. /\ g.config \in Range(Configs) /\ g.config.rate \in Nat
        /\ g.processed_twice_median \in Nat
        /\ g.processed_twice_median <= 2 * g.config.rate
    BY <1>2, GroupMedian
  <2>2. g.config.rate <= bound
    BY <1>7, <2>1
  <2> QED
    BY <2>1, <2>2
<1>9. h.processed_twice_median \in Medians(competing)
  BY DEF Medians
<1> HIDE DEF competing
<1>10. best \in Nat /\ h.processed_twice_median <= best
  <2>1. 2 * bound \in Nat
    OBVIOUS
  <2> QED
    BY <1>8, <1>9, <2>1, GreatestNumber
<1>11. /\ h.config.rate \in Nat /\ h.processed_twice_median \in Nat
       /\ 1000 * h.processed_twice_median >= 1998 * h.config.rate
  BY <1>2, GroupMedian
<1>12. /\ base.processed_twice_median \in Nat /\ b.rate \in Nat
       /\ base.processed_twice_median <= 2 * b.rate
  BY <1>1, <1>2, GroupMedian
<1>13. MeasuredMedian(MeasuredOf(b)) \in Nat /\ 1000 * MeasuredMedian(MeasuredOf(b)) >= 1998 * b.rate
  BY <1>3, SustainedMedian
<1>14. MeasuredMedian(MeasuredOf(c)) \in Nat /\ MeasuredMedian(MeasuredOf(c)) <= 2 * c.rate /\ c.rate \in Nat
  BY SustainedMedian, RunsMeasured
<1> HIDE DEF best, b, base
<1>15. 969 * MeasuredMedian(MeasuredOf(c)) <= 1000 * MeasuredMedian(MeasuredOf(b))
  BY <1>1, <1>6, <1>10, <1>11, <1>12, <1>13, <1>14
<1> QED
  BY <1>15 DEF b, base

-----------------------------------------------------------------------------
(* The counters of the profile. *)

SampleType == samples \in [Receivers -> [Counters -> [StatRuns -> Nat \union {None}]]]

(* The baseline cannot receive a packet without a call. *)
SampleInv == \A n \in StatRuns : samples["baseline"]["recvfrom"][n] # 0

LEMMA SyscallValues ==
  ASSUME SampleType, NEW r \in Receivers, NEW n \in StatRuns
  PROVE  /\ n \in KnownRuns(receive_syscalls(r)) <=>
              \A k \in {"recvfrom", "recvmmsg"} : samples[r][k][n] # None
         /\ n \in KnownRuns(receive_syscalls(r)) =>
              /\ receive_syscalls(r)[n] \in Nat
              /\ receive_syscalls(r)[n] = samples[r]["recvfrom"][n] + samples[r]["recvmmsg"][n]
              /\ samples[r]["recvfrom"][n] \in Nat /\ samples[r]["recvmmsg"][n] \in Nat
<1> DEFINE a == samples[r]["recvfrom"][n]
           b == samples[r]["recvmmsg"][n]
<1>1. a \in Nat \union {None} /\ b \in Nat \union {None}
  <2>1. "recvfrom" \in Counters /\ "recvmmsg" \in Counters
    BY DEF Counters
  <2> QED
    BY <2>1 DEF SampleType
<1>2. receive_syscalls(r)[n] = IF None \in {a, b} THEN None ELSE a + b
  BY DEF receive_syscalls
<1>3. n \in KnownRuns(receive_syscalls(r)) <=> receive_syscalls(r)[n] # None
  BY DEF KnownRuns
<1> HIDE DEF a, b
<1>4. \A x, y \in Nat : x + y # None
  BY DEF None
<1>5. n \in KnownRuns(receive_syscalls(r)) <=> a # None /\ b # None
  BY <1>1, <1>2, <1>3, <1>4
<1> QED
  BY <1>1, <1>2, <1>5 DEF a, b

(* When some counter is known for both sides and the median of one is at   *)
(* most 95% of that of the other, some value is less than some other one.  *)
LEMMA FewerSomewhere ==
  ASSUME NEW f, NEW g, IsFiniteSet(DOMAIN f), IsFiniteSet(DOMAIN g),
         DOMAIN f # {}, DOMAIN g # {}, NEW hi \in Nat,
         \A n \in DOMAIN f : f[n] \in 1 .. hi,
         \A n \in DOMAIN g : g[n] \in 0 .. hi,
         ~(100 * TwiceMedian(g) > 95 * TwiceMedian(f))
  PROVE  \E m \in DOMAIN f, n \in DOMAIN g : g[n] < f[m]
<1> SUFFICES ASSUME \A m \in DOMAIN f, n \in DOMAIN g : ~(g[n] < f[m])
             PROVE  FALSE
  OBVIOUS
<1> DEFINE S == Range(f)
           top == Max(S)
<1>1. S \in SUBSET Nat /\ S # {} /\ \A x \in S : x <= hi
  <2>1. \A x \in S : x \in Nat /\ x <= hi
    BY DEF Range
  <2>2. S # {}
    BY DEF Range
  <2> QED
    BY <2>1, <2>2
<1>2. top \in S /\ \A x \in S : x <= top
  BY <1>1, GreatestNumber
<1>3. PICK m \in DOMAIN f : top = f[m]
  BY <1>2 DEF Range
<1> HIDE DEF top
<1>4. top \in Nat /\ top >= 1
  BY <1>3
<1>5. TwiceMedian(f) \in 0 .. 2 * top
  <2>1. \A n \in DOMAIN f : f[n] \in 0 .. top
    BY <1>2, <1>4 DEF Range
  <2>2. TwiceMedian(f) \in 2 * 0 .. 2 * top
    BY <1>4, <2>1, MedianBounds
  <2> QED
    BY <2>2
<1>6. TwiceMedian(g) \in 2 * top .. 2 * hi
  <2>1. \A n \in DOMAIN g : g[n] \in top .. hi
    <3> TAKE n \in DOMAIN g
    <3>1. ~(g[n] < top) /\ g[n] \in 0 .. hi
      BY <1>3
    <3> QED
      BY <1>4, <3>1
  <2> QED
    BY <1>4, <2>1, MedianBounds
<1> QED
  BY <1>4, <1>5, <1>6

LEMMA FewerCalls ==
  ASSUME SampleType, SampleInv, NEW r \in Receivers,
         _finite(receive_syscalls("baseline")), _finite(receive_syscalls(r)),
         ~(100 * profile_median(receive_syscalls(r)) >
           95 * profile_median(receive_syscalls("baseline")))
  PROVE  \E m, n \in StatRuns :
           /\ \A k \in {"recvfrom", "recvmmsg"} :
                samples["baseline"][k][m] # None /\ samples[r][k][n] # None
           /\ samples[r]["recvfrom"][n] + samples[r]["recvmmsg"][n] <
              samples["baseline"]["recvfrom"][m] + samples["baseline"]["recvmmsg"][m]
<1> DEFINE known(q) == KnownRuns(receive_syscalls(q))
           f == [n \in known("baseline") |-> receive_syscalls("baseline")[n]]
           g == [n \in known(r) |-> receive_syscalls(r)[n]]
           w(q, n) == IF n \in known(q) THEN receive_syscalls(q)[n] ELSE 0
           total(q) == w(q, 1) + w(q, 2) + w(q, 3)
           hi == total("baseline") + total(r)
<1>1. "baseline" \in Receivers
  BY DEF Receivers
<1>2. \A q \in Receivers : known(q) \in SUBSET StatRuns
  BY DEF KnownRuns
<1>3. IsFiniteSet(StatRuns)
  <2>1. 1 \in Int /\ 3 \in Int
    OBVIOUS
  <2> QED
    BY <2>1, FS_Interval DEF StatRuns
<1>4. \A q \in Receivers : IsFiniteSet(known(q))
  <2> HIDE DEF known
  <2> QED
    BY <1>2, <1>3, FS_Subset
<1>5. \A q \in Receivers, n \in StatRuns : w(q, n) \in Nat
  <2> TAKE q \in Receivers, n \in StatRuns
  <2>1. n \in known(q) => receive_syscalls(q)[n] \in Nat
    BY SyscallValues
  <2> HIDE DEF known
  <2> QED
    BY <2>1
<1>6. \A q \in Receivers : total(q) \in Nat /\ \A n \in StatRuns : w(q, n) <= total(q)
  <2> TAKE q \in Receivers
  <2>1. 1 \in StatRuns /\ 2 \in StatRuns /\ 3 \in StatRuns
    BY DEF StatRuns
  <2>2. \A n \in StatRuns : n = 1 \/ n = 2 \/ n = 3
    BY DEF StatRuns
  <2> HIDE DEF w
  <2>3. w(q, 1) \in Nat /\ w(q, 2) \in Nat /\ w(q, 3) \in Nat
    BY <1>5, <2>1
  <2>4. total(q) \in Nat /\ w(q, 1) <= total(q) /\ w(q, 2) <= total(q) /\ w(q, 3) <= total(q)
    BY <2>3
  <2> HIDE DEF total
  <2> QED
    BY <2>2, <2>4
<1>7. \A q \in Receivers : \A n \in known(q) : w(q, n) = receive_syscalls(q)[n]
  OBVIOUS
<1>8. hi \in Nat /\ total("baseline") <= hi /\ total(r) <= hi
  <2> HIDE DEF total
  <2> QED
    BY <1>1, <1>6
<1>9. \A n \in known(r) : g[n] \in 0 .. hi
  <2> TAKE n \in known(r)
  <2>1. n \in StatRuns
    BY <1>2
  <2>2. g[n] = w(r, n)
    OBVIOUS
  <2> HIDE DEF w, total, hi, g
  <2> QED
    BY <1>5, <1>6, <1>8, <2>1, <2>2
<1>10. \A n \in known("baseline") : f[n] \in 1 .. hi
  <2> TAKE n \in known("baseline")
  <2>1. n \in StatRuns
    BY <1>1, <1>2
  <2>2. f[n] = w("baseline", n)
    OBVIOUS
  <2>3. w("baseline", n) >= 1
    <3>1. /\ w("baseline", n) =
               samples["baseline"]["recvfrom"][n] + samples["baseline"]["recvmmsg"][n]
          /\ samples["baseline"]["recvfrom"][n] \in Nat
          /\ samples["baseline"]["recvmmsg"][n] \in Nat
      BY <1>1, <2>1, SyscallValues
    <3>2. samples["baseline"]["recvfrom"][n] # 0
      BY <2>1 DEF SampleInv
    <3> HIDE DEF w
    <3> QED
      BY <3>1, <3>2
  <2> HIDE DEF w, total, hi, f
  <2> QED
    BY <1>1, <1>5, <1>6, <1>8, <2>1, <2>2, <2>3
<1>11. known("baseline") # {} /\ known(r) # {}
  BY DEF _finite
<1>12. ~(100 * TwiceMedian(g) > 95 * TwiceMedian(f))
  BY DEF profile_median
<1>13. DOMAIN f = known("baseline") /\ DOMAIN g = known(r)
  OBVIOUS
<1>14. \E m \in DOMAIN f, n \in DOMAIN g : g[n] < f[m]
  <2> HIDE DEF f, g, known, hi
  <2> QED
    BY <1>1, <1>4, <1>8, <1>9, <1>10, <1>11, <1>12, <1>13, FewerSomewhere
<1>15. PICK m \in known("baseline"), n \in known(r) :
         receive_syscalls(r)[n] < receive_syscalls("baseline")[m]
  BY <1>14
<1>16. m \in StatRuns /\ n \in StatRuns
  BY <1>1, <1>2
<1> QED
  BY <1>1, <1>15, <1>16, SyscallValues

LEMMA PassingIsFair ==
  ASSUME Summarized, SampleType, SampleInv,
         NEW work, NEW selection \in select_representatives(work),
         NEW claim \in Passing(selection)
  PROVE  LET receiver == claim.candidate.receiver
         IN  /\ \A c \in Range(Configs) :
                  c.receiver = "baseline" /\ c.work_ns = claim.candidate.work_ns =>
                    ((\A i \in MeasuredOf(c) : Sustained(i)) =>
                       969 * MeasuredMedian(MeasuredOf(c)) <=
                         1000 * MeasuredMedian(MeasuredOf(claim.baseline)))
             /\ selected["baseline"].config.batch_size = claim.baseline.batch_size
             /\ selected[receiver].config.batch_size = claim.candidate.batch_size
             /\ \E m, n \in StatRuns :
                  /\ \A k \in {"recvfrom", "recvmmsg"} :
                       samples["baseline"][k][m] # None /\ samples[receiver][k][n] # None
                  /\ samples[receiver]["recvfrom"][n] + samples[receiver]["recvmmsg"][n] <
                     samples["baseline"]["recvfrom"][m] + samples["baseline"]["recvmmsg"][m]
<1> DEFINE base == selection["baseline"]
           receiver == claim.candidate.receiver
<1>1. PICK s \in Candidates :
        /\ claim.baseline = base.config
        /\ claim.candidate = selection[s].config
        /\ ~_throughput_blockers(base, selection[s])
        /\ ~_mechanism_blockers(base, selection[s])
  BY PassingPair
<1> DEFINE cand == selection[s]
<1>2. receiver = cand.config.receiver /\ receiver \in Receivers
  <2>1. s \in Receivers
    BY DEF Candidates, Receivers
  <2>2. cand.config.receiver = s
    BY <2>1, ChosenGroup
  <2> QED
    BY <1>1, <2>1, <2>2
<1>3. /\ selected["baseline"].config.batch_size = base.config.batch_size
      /\ selected[receiver].config.batch_size = cand.config.batch_size
  BY <1>1, <1>2 DEF _mechanism_blockers
<1>4. /\ _finite(receive_syscalls("baseline")) /\ _finite(receive_syscalls(receiver))
      /\ ~(100 * profile_median(receive_syscalls(receiver)) >
           95 * profile_median(receive_syscalls("baseline")))
  BY <1>1, <1>2 DEF _mechanism_blockers
<1>5. \A c \in Range(Configs) :
        c.receiver = "baseline" /\ c.work_ns = claim.candidate.work_ns =>
          ((\A i \in MeasuredOf(c) : Sustained(i)) =>
             969 * MeasuredMedian(MeasuredOf(c)) <=
               1000 * MeasuredMedian(MeasuredOf(claim.baseline)))
  <2>1. claim.baseline.work_ns = claim.candidate.work_ns
    BY PassingIsSound
  <2> QED
    BY <1>1, <2>1, PassingIsFastest
<1>6. \E m, n \in StatRuns :
        /\ \A k \in {"recvfrom", "recvmmsg"} :
             samples["baseline"][k][m] # None /\ samples[receiver][k][n] # None
        /\ samples[receiver]["recvfrom"][n] + samples[receiver]["recvmmsg"][n] <
           samples["baseline"]["recvfrom"][m] + samples["baseline"]["recvmmsg"][m]
  BY <1>2, <1>4, FewerCalls
<1>7. /\ selected["baseline"].config.batch_size = claim.baseline.batch_size
      /\ selected[receiver].config.batch_size = claim.candidate.batch_size
  BY <1>1, <1>3
<1> HIDE DEF base, receiver, cand
<1> QED
  BY <1>5, <1>6, <1>7 DEF receiver

-----------------------------------------------------------------------------
(* The invariant of the session. *)

(* The summaries are those of the runs, and the rest relies on them.       *)
RowInv == phase \in {"prepare", "profile", "idle", "publish"} => Summarized

(* Nothing is claimed before publish(), after which runs, session and      *)
(* samples are final.                                                      *)
ClaimedLate == claims # {} => phase \in {"idle", "publish", "stopped"}

(* What the present call has written is new.                               *)
WrittenInv ==
  /\ phase # "publish" => written = 0
  /\ phase = "publish" => \A k \in 1 .. written :
                          WrittenBy(Outputs[k], attempt) => writer[Outputs[k]] = attempt

ClaimInv ==
  /\ ClaimTypeInv /\ RunInv /\ RowInv /\ SampleInv /\ ClaimedLate /\ WrittenInv
  /\ ClaimIsSound /\ ClaimIsFair /\ PublishedTogether

LEMMA OutputNames ==
  /\ Len(Outputs) = 5
  /\ Outputs[1] = "benchmark_summary" /\ Outputs[2] = "claim_evidence"
  /\ Outputs[3] = "latency" /\ Outputs[4] = "exports" /\ Outputs[5] = "checksum_manifest"
  /\ DOMAIN Outputs = 1 .. 5
  /\ Range(Outputs) = {"benchmark_summary", "claim_evidence", "latency", "exports",
                       "checksum_manifest"}
<1>1. /\ Len(Outputs) = 5
      /\ Outputs[1] = "benchmark_summary" /\ Outputs[2] = "claim_evidence"
      /\ Outputs[3] = "latency" /\ Outputs[4] = "exports" /\ Outputs[5] = "checksum_manifest"
  BY DEF Outputs
<1>2. DOMAIN Outputs = {1, 2, 3, 4, 5}
  BY DEF Outputs
<1>3. Range(Outputs) = {"benchmark_summary", "claim_evidence", "latency", "exports",
                        "checksum_manifest"}
  BY <1>1, <1>2 DEF Range
<1>4. DOMAIN Outputs = 1 .. 5
  BY DEF Outputs
<1> QED
  BY <1>1, <1>3, <1>4

LEMMA CleanSampleValues ==
  /\ CleanSamples \in [Receivers -> [Counters -> [StatRuns -> Nat \union {None}]]]
  /\ \A n \in StatRuns : CleanSamples["baseline"]["recvfrom"][n] = 100
<1> DEFINE V == Nat \union {None}
           value(r, k) == CASE k = "recvfrom" -> IF r = "baseline" THEN 100 ELSE 0
                            [] k = "recvmmsg" -> IF r = "baseline" THEN 0 ELSE 30
                            [] k = "cycles" -> IF r = "batched" THEN 90 ELSE 100
<1>1. \A r \in Receivers, k \in Counters : value(r, k) \in V
  BY DEF Counters
<1>2. value("baseline", "recvfrom") = 100
  OBVIOUS
<1>3. CleanSamples = [r \in Receivers |-> [k \in Counters |-> [n \in StatRuns |-> value(r, k)]]]
  BY DEF CleanSamples
<1>4. "baseline" \in Receivers /\ "recvfrom" \in Counters
  BY DEF Receivers, Counters
<1> HIDE DEF value, V
<1>5. CleanSamples \in [Receivers -> [Counters -> [StatRuns -> V]]]
  BY <1>1, <1>3
<1>6. \A n \in StatRuns : CleanSamples["baseline"]["recvfrom"][n] = 100
  BY <1>2, <1>3, <1>4
<1> QED
  BY <1>5, <1>6 DEF V

LEMMA ClaimInitInv == ClaimInit => ClaimInv
<1> SUFFICES ASSUME ClaimInit
             PROVE  ClaimInv
  OBVIOUS
<1>1. RunCount \in Nat /\ MaxPublishes \in Nat /\ MaxTroubles \in Nat
  BY Positive, ClaimsAssumption DEF RunCount
<1>2. ClaimTypeInv
  <2>1. outcomes \in Seq(1 .. Len(Outcomes)) /\ Len(outcomes) <= RunCount
    BY <1>1 DEF ClaimInit
  <2>2. /\ attempt \in 0 .. MaxPublishes /\ troubles \in 0 .. MaxTroubles
        /\ written \in 0 .. Len(Outputs) - 1
    BY <1>1, OutputNames DEF ClaimInit
  <2>3. writer \in [Range(Outputs) -> 0 .. attempt] /\ latency_calls \in SUBSET (1 .. attempt)
    BY DEF ClaimInit
  <2>4. claim_work \in Work
    BY DEF ClaimInit, Work
  <2>5. samples \in [Receivers -> [Counters -> [StatRuns -> Nat \union {None}]]]
    BY CleanSampleValues DEF ClaimInit
  <2> QED
    BY <2>1, <2>2, <2>3, <2>4, <2>5 DEF ClaimInit, ClaimTypeInv
<1>3. RunInv
  BY DEF ClaimInit, RunInv
<1>4. RowInv /\ ClaimedLate /\ WrittenInv
  BY DEF ClaimInit, RowInv, ClaimedLate, WrittenInv
<1>5. SampleInv
  BY CleanSampleValues DEF ClaimInit, SampleInv
<1>6. ClaimIsSound /\ ClaimIsFair
  BY DEF ClaimInit, ClaimIsSound, ClaimIsFair
<1>7. PublishedTogether
  BY OutputNames DEF ClaimInit, PublishedTogether
<1> QED
  BY <1>2, <1>3, <1>4, <1>5, <1>6, <1>7 DEF ClaimInv

(* What is claimed stays true while what it is about is left alone.        *)
LEMMA ClaimsKept ==
  ASSUME ClaimIsSound, ClaimIsFair,
         UNCHANGED <<claims, outcomes, selected, samples>>
  PROVE  ClaimIsSound' /\ ClaimIsFair'
<1>1. /\ \A i : Sustained(i)' <=> Sustained(i)
      /\ \A i : MeasuredPps(i)' = MeasuredPps(i)
      /\ \A i : Outcome(i)' = Outcome(i)
  BY DEF Sustained, MeasuredPps, summarize_run, Outcome
<1>2. ClaimIsSound'
  BY <1>1 DEF ClaimIsSound
<1>3. \A runs : MeasuredMedian(runs)' = MeasuredMedian(runs)
  BY <1>1 DEF MeasuredMedian
<1>4. ClaimIsFair'
  BY <1>1, <1>3 DEF ClaimIsFair
<1> QED
  BY <1>2, <1>4

LEMMA NoClaims ==
  ASSUME claims' = {}
  PROVE  ClaimIsSound' /\ ClaimIsFair'
BY DEF ClaimIsSound, ClaimIsFair

(* The summaries depend on the runs and their rows only.                   *)
LEMMA SummarizedKept ==
  ASSUME Summarized, UNCHANGED <<outcomes, per_run>>
  PROVE  Summarized'
<1>1. /\ RunIds' = RunIds /\ \A i : Outcome(i)' = Outcome(i)
      /\ \A i : summarize_run(i)' = summarize_run(i)
  BY DEF RunIds, Outcome, summarize_run
<1> QED
  BY <1>1 DEF Summarized, validate_metadata, Possible

-----------------------------------------------------------------------------
(* Every step keeps the invariant. *)

LEMMA CostsType ==
  ASSUME NEW n \in {0, 1}, troubles \in 0 .. MaxTroubles, Costs(n)
  PROVE  troubles' \in 0 .. MaxTroubles
BY ClaimsAssumption DEF Costs

(* The steps before publish() write no output and claim nothing.           *)
LEMMA NothingPublished ==
  ASSUME ClaimInv, phase \notin {"idle", "publish", "stopped"},
         phase' # "publish", UNCHANGED <<latency_calls, written, attempt, writer, claims>>
  PROVE  /\ WrittenInv' /\ ClaimedLate' /\ PublishedTogether'
         /\ ClaimIsSound' /\ ClaimIsFair'
<1>1. claims' = {}
  BY DEF ClaimInv, ClaimedLate
<1>2. ClaimedLate' /\ ClaimIsSound' /\ ClaimIsFair'
  BY <1>1, NoClaims DEF ClaimedLate
<1>3. WrittenInv'
  <2>1. phase # "publish"
    OBVIOUS
  <2> QED
    BY <2>1 DEF ClaimInv, WrittenInv
<1>4. PublishedTogether'
  BY DEF ClaimInv, PublishedTogether, WrittenBy
<1> QED
  BY <1>2, <1>3, <1>4

LEMMA MeasureStep ==
  ASSUME ClaimInv, NEW o \in 1 .. Len(Outcomes), MeasureRun(o)
  PROVE  ClaimInv'
<1> DEFINE i == Len(outcomes) + 1
<1>1. /\ phase = "measure" /\ i <= RunCount /\ Possible(i, o)
      /\ outcomes' = Append(outcomes, o)
      /\ phase' = IF i = RunCount THEN "summarize" ELSE phase
      /\ UNCHANGED <<per_run, selected, profile, samples, claim_work, latency_calls,
                     written, attempt, writer, claims>>
  BY DEF MeasureRun
<1>2. /\ outcomes \in Seq(1 .. Len(Outcomes))
      /\ RunCount \in Nat
  BY Positive DEF ClaimInv, ClaimTypeInv, RunCount
<1>3. /\ outcomes' \in Seq(1 .. Len(Outcomes)) /\ Len(outcomes') = i
      /\ outcomes'[i] = o
      /\ \A j \in 1 .. Len(outcomes) : outcomes'[j] = outcomes[j]
      /\ Len(outcomes) \in Nat
  BY <1>1, <1>2
<1>4. phase' \in {"measure", "summarize"}
  BY <1>1
<1>5. troubles' \in 0 .. MaxTroubles
  <2>1. PICK n \in {0, 1} : Costs(n)
    BY DEF MeasureRun
  <2> QED
    BY <2>1, CostsType DEF ClaimInv, ClaimTypeInv
<1>6. ClaimTypeInv'
  BY <1>1, <1>2, <1>3, <1>4, <1>5 DEF ClaimInv, ClaimTypeInv
<1>7. RunInv'
  <2>1. \A j \in 1 .. Len(outcomes') : Possible(j, outcomes'[j])
    <3> TAKE j \in 1 .. Len(outcomes')
    <3>1. j \in 1 .. Len(outcomes) \/ j = i
      BY <1>3
    <3>2. CASE j \in 1 .. Len(outcomes)
      BY <1>3, <3>2 DEF ClaimInv, RunInv
    <3>3. CASE j = i
      BY <1>1, <1>3, <3>3
    <3> QED
      BY <3>1, <3>2, <3>3
  <2>2. phase' # "measure" => Len(outcomes') = RunCount
    BY <1>1, <1>3
  <2> QED
    BY <2>1, <2>2 DEF RunInv, Possible
<1>8. RowInv' /\ SampleInv'
  BY <1>1, <1>4 DEF ClaimInv, RowInv, SampleInv
<1>9. /\ WrittenInv' /\ ClaimedLate' /\ PublishedTogether'
      /\ ClaimIsSound' /\ ClaimIsFair'
  BY <1>1, <1>4, NothingPublished
<1> QED
  BY <1>6, <1>7, <1>8, <1>9 DEF ClaimInv

LEMMA SummarizeStep ==
  ASSUME ClaimInv, process_directory
  PROVE  ClaimInv'
<1>1. /\ phase = "summarize" /\ phase' \in {"prepare", "stopped"}
      /\ UNCHANGED <<outcomes, selected, profile, samples, claim_work, latency_calls,
                     written, attempt, writer, claims, troubles>>
  BY DEF process_directory
<1>2. ClaimTypeInv'
  BY <1>1 DEF ClaimInv, ClaimTypeInv
<1>3. RunInv'
  BY <1>1 DEF ClaimInv, RunInv, Possible
<1>4. SampleInv'
  BY <1>1 DEF ClaimInv, SampleInv
<1>5. RowInv'
  <2> SUFFICES ASSUME phase' = "prepare"
               PROVE  Summarized'
    BY <1>1 DEF RowInv
  <2>1. /\ per_run' = {summarize_run(i) : i \in RunIds}
        /\ \A i \in RunIds : validate_metadata(summarize_run(i)) /\ Outcome(i) # "trace_damaged"
    BY DEF process_directory
  <2>2. /\ RunIds' = RunIds /\ \A i : Outcome(i)' = Outcome(i)
        /\ \A i : summarize_run(i)' = summarize_run(i)
    BY <1>1 DEF RunIds, Outcome, summarize_run
  <2>3. /\ outcomes \in Seq(1 .. Len(Outcomes)) /\ Len(outcomes) = RunCount
        /\ \A i \in 1 .. RunCount : Possible(i, outcomes[i])
    BY <1>1 DEF ClaimInv, ClaimTypeInv, RunInv
  <2> QED
    BY <1>1, <2>1, <2>2, <2>3 DEF Summarized, validate_metadata, Possible
<1>6. /\ WrittenInv' /\ ClaimedLate' /\ PublishedTogether'
      /\ ClaimIsSound' /\ ClaimIsFair'
  BY <1>1, NothingPublished
<1> QED
  BY <1>2, <1>3, <1>4, <1>5, <1>6 DEF ClaimInv

LEMMA PrepareStep ==
  ASSUME ClaimInv, NEW work \in Work, prepare_profile_config(work)
  PROVE  ClaimInv'
<1>1. /\ phase = "prepare" /\ phase' \in {"profile", "stopped"}
      /\ UNCHANGED <<outcomes, per_run, profile, samples, claim_work, latency_calls,
                     written, attempt, writer, claims, troubles>>
  BY DEF prepare_profile_config
<1>2. ClaimTypeInv'
  BY <1>1 DEF ClaimInv, ClaimTypeInv
<1>3. RunInv' /\ SampleInv'
  BY <1>1 DEF ClaimInv, RunInv, SampleInv, Possible
<1>4. RowInv'
  BY <1>1, SummarizedKept DEF ClaimInv, RowInv
<1>5. /\ WrittenInv' /\ ClaimedLate' /\ PublishedTogether'
      /\ ClaimIsSound' /\ ClaimIsFair'
  BY <1>1, NothingPublished
<1> QED
  BY <1>2, <1>3, <1>4, <1>5 DEF ClaimInv

LEMMA ProfileStep ==
  ASSUME ClaimInv, Profile
  PROVE  ClaimInv'
<1>1. /\ phase = "profile" /\ phase' = "idle"
      /\ UNCHANGED <<outcomes, per_run, selected, claim_work, latency_calls, written,
                     attempt, writer, claims>>
      /\ profile' \in {"complete", "run_missing", "run_invalid", "multiplexed"}
  BY DEF Profile, ProfileCompletes, ProfileDeviates
<1>2. /\ samples' \in [Receivers -> [Counters -> [StatRuns -> Nat \union {None}]]]
      /\ SampleInv'
  <2>1. ASSUME NEW receiver \in Receivers, NEW counter \in Counters, NEW deviating,
               NEW value \in {None, 97},
               ProfileCompletes(receiver, counter, deviating, value)
        PROVE  /\ samples' \in [Receivers -> [Counters -> [StatRuns -> Nat \union {None}]]]
               /\ SampleInv'
    <3> DEFINE V == Nat \union {None}
               change(f) == [n \in StatRuns |-> IF n <= deviating THEN value ELSE f[n]]
    <3>1. samples' = [samples EXCEPT ![receiver][counter] = change(@)]
      BY <2>1 DEF ProfileCompletes
    <3>2. samples \in [Receivers -> [Counters -> [StatRuns -> V]]]
      BY DEF ClaimInv, ClaimTypeInv
    <3>3. value \in V /\ value # 0
      BY DEF None
    <3> HIDE DEF V
    <3>4. \A f \in [StatRuns -> V] : change(f) \in [StatRuns -> V]
      BY <3>3
    <3>5. samples' \in [Receivers -> [Counters -> [StatRuns -> V]]]
      <4> HIDE DEF change
      <4> QED
        BY <3>1, <3>2, <3>4
    <3>6. \A n \in StatRuns : samples'["baseline"]["recvfrom"][n] \in
                                {samples["baseline"]["recvfrom"][n], value}
      <4> DEFINE old == samples["baseline"]["recvfrom"]
      <4>1. \A n \in StatRuns : change(old)[n] \in {old[n], value}
        OBVIOUS
      <4>2. "baseline" \in Receivers /\ "recvfrom" \in Counters
        BY DEF Receivers, Counters
      <4> HIDE DEF change
      <4>3. samples'["baseline"]["recvfrom"] \in {old, change(old)}
        BY <3>1, <3>2, <4>2
      <4> HIDE DEF old
      <4>4. \A n \in StatRuns : samples'["baseline"]["recvfrom"][n] \in {old[n], value}
        BY <4>1, <4>3
      <4> QED
        BY <4>4 DEF old
    <3>7. SampleInv'
      BY <3>3, <3>6 DEF ClaimInv, SampleInv
    <3> QED
      BY <3>5, <3>7 DEF V
  <2>2. ASSUME NEW result, ProfileDeviates(result)
        PROVE  /\ samples' \in [Receivers -> [Counters -> [StatRuns -> Nat \union {None}]]]
               /\ SampleInv'
    BY <2>2 DEF ProfileDeviates, ClaimInv, ClaimTypeInv, SampleInv
  <2> QED
    BY <2>1, <2>2 DEF Profile
<1>3. troubles' \in 0 .. MaxTroubles
  <2>1. PICK n \in {0, 1} : Costs(n)
    BY DEF Profile, ProfileCompletes, ProfileDeviates
  <2> QED
    BY <2>1, CostsType DEF ClaimInv, ClaimTypeInv
<1>4. ClaimTypeInv'
  BY <1>1, <1>2, <1>3 DEF ClaimInv, ClaimTypeInv
<1>5. RunInv'
  BY <1>1 DEF ClaimInv, RunInv, Possible
<1>6. RowInv'
  BY <1>1, SummarizedKept DEF ClaimInv, RowInv
<1>7. /\ WrittenInv' /\ ClaimedLate' /\ PublishedTogether'
      /\ ClaimIsSound' /\ ClaimIsFair'
  BY <1>1, NothingPublished
<1> QED
  BY <1>2, <1>4, <1>5, <1>6, <1>7 DEF ClaimInv

(* The steps of publish() leave alone what is claimed about.               *)
LEMMA PublishKeeps ==
  ASSUME ClaimInv, phase \in {"idle", "publish"}, phase' \in {"idle", "publish", "stopped"},
         UNCHANGED <<outcomes, per_run, selected, profile, samples>>
  PROVE  /\ RunInv' /\ RowInv' /\ SampleInv' /\ ClaimedLate'
         /\ UNCHANGED claims => ClaimIsSound' /\ ClaimIsFair'
<1>1. Summarized
  BY DEF ClaimInv, RowInv
<1>2. RunInv'
  BY DEF ClaimInv, RunInv, Possible
<1>3. RowInv'
  BY <1>1, SummarizedKept DEF RowInv
<1>4. SampleInv'
  BY DEF ClaimInv, SampleInv
<1>5. ClaimedLate'
  BY DEF ClaimedLate
<1>6. ASSUME UNCHANGED claims
      PROVE  ClaimIsSound' /\ ClaimIsFair'
  BY <1>6, ClaimsKept DEF ClaimInv
<1> QED
  BY <1>2, <1>3, <1>4, <1>5, <1>6

(* A call is given a latency session or not when it starts; what is known  *)
(* of earlier calls stays.                                                 *)
LEMMA PublishStartStep ==
  ASSUME ClaimInv, PublishStarts
  PROVE  ClaimInv'
<1>1. /\ phase = "idle" /\ phase' = "publish" /\ attempt < MaxPublishes
      /\ attempt' = attempt + 1 /\ claim_work' \in Work
      /\ latency_calls' \in {latency_calls, latency_calls \union {attempt'}}
      /\ UNCHANGED <<outcomes, per_run, selected, profile, samples, written, writer,
                     claims>>
  BY DEF PublishStarts
<1>2. /\ RunInv' /\ RowInv' /\ SampleInv' /\ ClaimedLate'
      /\ ClaimIsSound' /\ ClaimIsFair'
  BY <1>1, PublishKeeps
<1>3. /\ attempt \in Nat /\ writer \in [Range(Outputs) -> 0 .. attempt]
      /\ latency_calls \in SUBSET (1 .. attempt)
  BY ClaimsAssumption DEF ClaimInv, ClaimTypeInv
<1>4. attempt' \in 0 .. MaxPublishes /\ attempt' \in 1 .. attempt'
  BY <1>1, <1>3, ClaimsAssumption
<1>5. 0 .. attempt \subseteq 0 .. attempt' /\ 1 .. attempt \subseteq 1 .. attempt'
  BY <1>1, <1>3
<1>6. writer' \in [Range(Outputs) -> 0 .. attempt'] /\ latency_calls' \in SUBSET (1 .. attempt')
  BY <1>1, <1>3, <1>4, <1>5
<1>7. troubles' \in 0 .. MaxTroubles
  <2>1. PICK n \in {0, 1} : Costs(n)
    BY DEF PublishStarts
  <2> QED
    BY <2>1, CostsType DEF ClaimInv, ClaimTypeInv
<1>8. ClaimTypeInv'
  BY <1>1, <1>4, <1>6, <1>7 DEF ClaimInv, ClaimTypeInv
<1>9. WrittenInv'
  <2>1. written' = 0 /\ phase' = "publish"
    BY <1>1 DEF ClaimInv, WrittenInv
  <2> QED
    BY <2>1 DEF WrittenInv
<1>10. PublishedTogether'
  <2> DEFINE last == writer["checksum_manifest"]
  <2>1. last \in 0 .. attempt
    BY <1>3, OutputNames
  <2>2. last # attempt'
    BY <1>1, <1>3, <2>1
  <2>3. last \in latency_calls' => last \in latency_calls
    BY <1>1, <2>2
  <2> QED
    BY <1>1, <2>3 DEF ClaimInv, PublishedTogether, WrittenBy
<1> QED
  BY <1>2, <1>8, <1>9, <1>10 DEF ClaimInv

LEMMA PublishRefuseStep ==
  ASSUME ClaimInv, PublishRefuses
  PROVE  ClaimInv'
<1>1. /\ phase = "idle" /\ phase' = "stopped"
      /\ UNCHANGED <<outcomes, per_run, selected, profile, samples, claim_work,
                     latency_calls, written, attempt, writer, claims, troubles>>
  BY DEF PublishRefuses
<1>2. /\ RunInv' /\ RowInv' /\ SampleInv' /\ ClaimedLate'
      /\ ClaimIsSound' /\ ClaimIsFair'
  BY <1>1, PublishKeeps
<1>3. ClaimTypeInv'
  BY <1>1 DEF ClaimInv, ClaimTypeInv
<1>4. WrittenInv' /\ PublishedTogether'
  BY <1>1 DEF ClaimInv, WrittenInv, PublishedTogether, WrittenBy
<1> QED
  BY <1>2, <1>3, <1>4 DEF ClaimInv

LEMMA PublishAbortStep ==
  ASSUME ClaimInv, PublishAborts, troubles' \in 0 .. MaxTroubles
  PROVE  ClaimInv'
<1>1. /\ phase = "publish" /\ phase' = "idle" /\ written' = 0 /\ claim_work' = AnyWork
      /\ UNCHANGED <<outcomes, per_run, selected, profile, samples, latency_calls, attempt,
                     writer, claims>>
  BY DEF PublishAborts, Returns
<1>2. /\ RunInv' /\ RowInv' /\ SampleInv' /\ ClaimedLate'
      /\ ClaimIsSound' /\ ClaimIsFair'
  BY <1>1, PublishKeeps
<1>3. ClaimTypeInv'
  <2>1. written' \in 0 .. Len(Outputs) - 1 /\ claim_work' \in Work
    BY <1>1, OutputNames DEF Work
  <2> QED
    BY <1>1, <2>1 DEF ClaimInv, ClaimTypeInv
<1>4. WrittenInv' /\ PublishedTogether'
  BY <1>1 DEF ClaimInv, WrittenInv, PublishedTogether, WrittenBy
<1> QED
  BY <1>2, <1>3, <1>4 DEF ClaimInv

(* The manifest is the last file a call writes: by then the others are all *)
(* of this call, but for the files it does not write.                      *)
LEMMA WriteStep ==
  ASSUME ClaimInv, NEW output \in Range(Outputs), Write(output),
         ClaimIsSound' /\ ClaimIsFair'
  PROVE  ClaimInv'
<1>1. /\ phase = "publish" /\ Outputs[written + 1] = output
      /\ writer' = IF WrittenBy(output, attempt) THEN [writer EXCEPT ![output] = attempt] ELSE writer
      /\ IF written + 1 = Len(Outputs)
           THEN phase' = "idle" /\ written' = 0 /\ claim_work' = AnyWork
           ELSE written' = written + 1 /\ UNCHANGED <<phase, claim_work>>
      /\ UNCHANGED <<outcomes, per_run, selected, profile, samples, latency_calls, attempt,
                     troubles>>
  BY DEF Write, Returns
<1>2. /\ RunInv' /\ RowInv' /\ SampleInv' /\ ClaimedLate'
  BY <1>1, PublishKeeps
<1>3. /\ written \in 0 .. 4 /\ attempt \in Nat
      /\ writer \in [Range(Outputs) -> 0 .. attempt]
      /\ \A k \in 1 .. written : WrittenBy(Outputs[k], attempt) => writer[Outputs[k]] = attempt
  BY <1>1, OutputNames, ClaimsAssumption DEF ClaimInv, ClaimTypeInv, WrittenInv
<1>4. /\ writer' \in [Range(Outputs) -> 0 .. attempt]
      /\ WrittenBy(output, attempt) => writer'[output] = attempt
      /\ \A other \in Range(Outputs) : writer'[other] >= writer[other]
      /\ \A other \in Range(Outputs) : other # output => writer'[other] = writer[other]
  BY <1>1, <1>3
<1>5. ClaimTypeInv'
  <2>1. written' \in 0 .. Len(Outputs) - 1
    <3>1. Len(Outputs) = 5 /\ written \in 0 .. 4
      BY <1>3, OutputNames
    <3>2. written' = IF written + 1 = 5 THEN 0 ELSE written + 1
      BY <1>1, <3>1
    <3> QED
      BY <3>1, <3>2
  <2>2. claim_work' \in Work /\ phase' \in {"idle", "publish"}
    BY <1>1 DEF ClaimInv, ClaimTypeInv, Work
  <2> QED
    BY <1>1, <1>4, <2>1, <2>2 DEF ClaimInv, ClaimTypeInv
<1>6. \A o, n : WrittenBy(o, n)' <=> WrittenBy(o, n)
  BY <1>1 DEF WrittenBy
<1>7. \A k \in 1 .. written + 1 : WrittenBy(Outputs[k], attempt) => writer'[Outputs[k]] = attempt
  <2> SUFFICES ASSUME NEW k \in 1 .. written + 1, WrittenBy(Outputs[k], attempt)
               PROVE  writer'[Outputs[k]] = attempt
    OBVIOUS
  <2>1. k \in 1 .. 5 /\ (k \in 1 .. written \/ k = written + 1)
    BY <1>3
  <2>2. Outputs[k] \in Range(Outputs)
    BY <2>1, OutputNames DEF Range
  <2>3. Outputs[k] = output \/ writer'[Outputs[k]] = writer[Outputs[k]]
    BY <1>4, <2>2
  <2> QED
    BY <1>1, <1>3, <1>4, <2>1, <2>3
<1>8. WrittenInv'
  <2>1. CASE written + 1 = Len(Outputs)
    BY <1>1, <2>1 DEF WrittenInv
  <2>2. CASE written + 1 # Len(Outputs)
    <3>1. written' = written + 1 /\ attempt' = attempt /\ phase' = "publish"
      BY <1>1, <2>2
    <3> QED
      BY <1>6, <1>7, <3>1 DEF WrittenInv
  <2> QED
    BY <2>1, <2>2
<1>9. PublishedTogether'
  <2>1. "checksum_manifest" \in Range(Outputs)
    BY OutputNames
  <2> SUFFICES ASSUME NEW other \in Range(Outputs),
                      WrittenBy(other, writer'["checksum_manifest"])
               PROVE  writer'["checksum_manifest"] <= writer'[other]
    BY <1>6 DEF PublishedTogether
  <2>2. CASE output = "checksum_manifest"
    <3>1. written = 4
      <4>1. written = 0 \/ written = 1 \/ written = 2 \/ written = 3 \/ written = 4
        BY <1>3
      <4> QED
        BY <1>1, <2>2, <4>1, OutputNames
    <3>2. writer'["checksum_manifest"] = attempt
      BY <1>4, <2>2 DEF WrittenBy
    <3>3. PICK k \in 1 .. 5 : other = Outputs[k]
      BY OutputNames DEF Range
    <3>4. writer'[other] = attempt
      BY <1>7, <3>1, <3>2, <3>3
    <3> QED
      BY <1>3, <3>2, <3>4
  <2>3. CASE output # "checksum_manifest"
    <3>1. /\ writer'["checksum_manifest"] = writer["checksum_manifest"]
          /\ writer'[other] >= writer[other]
      BY <1>4, <2>1, <2>3
    <3>2. writer["checksum_manifest"] <= writer[other]
      BY <3>1 DEF ClaimInv, PublishedTogether
    <3>3. /\ writer["checksum_manifest"] \in Nat /\ writer[other] \in Nat
          /\ writer'[other] \in Nat
      BY <1>3, <1>4, <2>1
    <3> QED
      BY <3>1, <3>2, <3>3
  <2> QED
    BY <2>2, <2>3
<1> QED
  BY <1>2, <1>5, <1>8, <1>9 DEF ClaimInv

LEMMA GenerateStep ==
  ASSUME ClaimInv, generate
  PROVE  ClaimInv'
<1>1. Write("claim_evidence") /\ "claim_evidence" \in Range(Outputs)
  BY OutputNames DEF generate
<1>2. /\ Summarized /\ SampleType /\ SampleInv
      /\ UNCHANGED <<outcomes, per_run, selected, samples>>
  BY <1>1 DEF Write, ClaimInv, RowInv, ClaimTypeInv, SampleType
<1>3. PICK selection \in select_representatives(claim_work) : claims' = Passing(selection)
  BY DEF generate
<1>4. /\ \A i : Sustained(i)' <=> Sustained(i)
      /\ \A i : MeasuredPps(i)' = MeasuredPps(i)
      /\ \A i : Outcome(i)' = Outcome(i)
  BY <1>2 DEF Sustained, MeasuredPps, summarize_run, Outcome
<1>5. \A runs : MeasuredMedian(runs)' = MeasuredMedian(runs)
  BY <1>4 DEF MeasuredMedian
<1>6. ClaimIsSound'
  BY <1>2, <1>3, <1>4, PassingIsSound DEF ClaimIsSound
<1>7. ClaimIsFair'
  BY <1>2, <1>3, <1>4, <1>5, PassingIsFair DEF ClaimIsFair
<1> QED
  BY <1>1, <1>6, <1>7, WriteStep

LEMMA ClaimNextInv == ClaimInv /\ [ClaimNext]_claimVars => ClaimInv'
<1> SUFFICES ASSUME ClaimInv, [ClaimNext]_claimVars
             PROVE  ClaimInv'
  OBVIOUS
<1>1. ASSUME NEW o \in 1 .. Len(Outcomes), MeasureRun(o)
      PROVE  ClaimInv'
  BY <1>1, MeasureStep
<1>2. CASE process_directory
  BY <1>2, SummarizeStep
<1>3. ASSUME NEW work \in Work, prepare_profile_config(work)
      PROVE  ClaimInv'
  BY <1>3, PrepareStep
<1>4. CASE Profile
  BY <1>4, ProfileStep
<1>5. CASE PublishStarts
  BY <1>5, PublishStartStep
<1>6. CASE PublishRefuses
  BY <1>6, PublishRefuseStep
<1>7. CASE PublishWrites
  <2>1. PICK output \in Range(Outputs) : Write(output) /\ UNCHANGED claims
    BY <1>7 DEF PublishWrites
  <2>2. ClaimIsSound' /\ ClaimIsFair'
    BY <2>1, ClaimsKept DEF Write, ClaimInv
  <2> QED
    BY <2>1, <2>2, WriteStep
<1>8. CASE generate
  BY <1>8, GenerateStep
<1>9. CASE GenerateRaises
  <2>1. PublishAborts /\ troubles' \in 0 .. MaxTroubles
    BY <1>9 DEF GenerateRaises, ClaimInv, ClaimTypeInv
  <2> QED
    BY <2>1, PublishAbortStep
<1>10. CASE PublishFails
  <2>1. PublishAborts /\ Costs(1) /\ troubles \in 0 .. MaxTroubles
    BY <1>10 DEF PublishFails, ClaimInv, ClaimTypeInv
  <2>2. troubles' \in 0 .. MaxTroubles
    BY <2>1, CostsType
  <2> QED
    BY <2>1, <2>2, PublishAbortStep
<1>11. CASE UNCHANGED claimVars
  <2>1. UNCHANGED <<phase, outcomes, per_run, selected, profile, samples, claim_work,
                    latency_calls, written, attempt, writer, claims, troubles>>
    BY <1>11 DEF claimVars
  <2>2. ClaimTypeInv' /\ RunInv' /\ SampleInv' /\ ClaimedLate' /\ WrittenInv' /\ PublishedTogether'
    BY <2>1 DEF ClaimInv, ClaimTypeInv, RunInv, Possible, SampleInv, ClaimedLate, WrittenInv,
                PublishedTogether, WrittenBy
  <2>3. RowInv'
    BY <2>1, SummarizedKept DEF ClaimInv, RowInv
  <2>4. ClaimIsSound' /\ ClaimIsFair'
    BY <2>1, ClaimsKept DEF ClaimInv
  <2> QED
    BY <2>2, <2>3, <2>4 DEF ClaimInv
<1> QED
  BY <1>1, <1>2, <1>3, <1>4, <1>5, <1>6, <1>7, <1>8, <1>9, <1>10, <1>11
     DEF ClaimNext, Publish, Finished

THEOREM ClaimInvariance == ClaimSpec => []ClaimInv
<1>1. ClaimInit => ClaimInv
  BY ClaimInitInv
<1>2. ClaimInv /\ [ClaimNext]_claimVars => ClaimInv'
  BY ClaimNextInv
<1> QED
  BY <1>1, <1>2, PTL DEF ClaimSpec

(* A session has the values its variables are meant to have: among others, *)
(* an output is never newer than the calls of publish() made so far.       *)
THEOREM ClaimTypeCorrect == ClaimSpec => []ClaimTypeInv
<1>1. ClaimInv => ClaimTypeInv
  BY DEF ClaimInv
<1> QED
  BY <1>1, ClaimInvariance, PTL

(* Whatever was measured, selected and profiled, a row of                  *)
(* claim_evidence.csv that passes (generate()) is true of the runs.        *)
THEOREM ClaimIsSoundHolds == ClaimSpec => []ClaimIsSound
<1>1. ClaimInv => ClaimIsSound
  BY DEF ClaimInv
<1> QED
  BY <1>1, ClaimInvariance, PTL

(* And it compares with the fastest baseline there was, by counters perf   *)
(* provided for both sides (select_representatives(), _mechanism_blockers()). *)
THEOREM ClaimIsFairHolds == ClaimSpec => []ClaimIsFair
<1>1. ClaimInv => ClaimIsFair
  BY DEF ClaimInv
<1> QED
  BY <1>1, ClaimInvariance, PTL

(* Nothing that was published is older than the manifest beside it,        *)
(* wherever a call of publish() failed.                                    *)
THEOREM PublishedTogetherHolds == ClaimSpec => []PublishedTogether
<1>1. ClaimInv => PublishedTogether
  BY DEF ClaimInv
<1> QED
  BY <1>1, ClaimInvariance, PTL

=============================================================================
