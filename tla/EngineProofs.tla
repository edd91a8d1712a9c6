---------------------------- MODULE EngineProofs ----------------------------
(***************************************************************************)
(* Theorems about Engine, for every set of bundles that holds what the     *)
(* core promises of the evidence it hands over (EngineAssumption).         *)
(*                                                                         *)
(* The argument follows the diagnosis.  Whatever an analyzer finds is a    *)
(* Sound candidate: it has a code of the catalog, a priority its code      *)
(* allows, refers to evidence there is and, in a shared report of a job    *)
(* that ran before, to evidence of its own run.  Ranked candidates keep    *)
(* the best of every code and are in a total order, so that a priority     *)
(* decides which finding leads.  Complete candidates hold what the         *)
(* evidence calls for.  EngineInv says how much of that has been reached   *)
(* in each stage; a report made of sound and complete candidates passes    *)
(* every check of the codec and says what the properties demand of it.     *)
(***************************************************************************)
EXTENDS Engine, ListProofs

-----------------------------------------------------------------------------
(* Lists of evidence.                                                      *)

(* The first elements of a list.                                           *)
LEMMA AtMostElements ==
  ASSUME NEW T, NEW s \in Seq(T), NEW n \in Int
  PROVE  /\ AtMost(n, s) \in Seq(T)
         /\ ToSet(AtMost(n, s)) \subseteq ToSet(s)
         /\ \A i \in DOMAIN AtMost(n, s) : i \in DOMAIN s /\ AtMost(n, s)[i] = s[i]
         /\ Len(AtMost(n, s)) = (IF Len(s) < n THEN Len(s) ELSE IF 0 < n THEN n ELSE 0)
<1> DEFINE m == IF Len(s) < n THEN Len(s) ELSE n
           a == AtMost(n, s)
<1>1. Len(s) \in Nat /\ m \in Int /\ m <= Len(s) /\ DOMAIN s = 1 .. Len(s)
  OBVIOUS
<1>2. a = SubSeq(s, 1, m)
  BY DEF AtMost
<1> HIDE DEF m, a
<1>3. CASE m < 1
  <2>1. a = <<>>
    BY <1>1, <1>2, <1>3
  <2>2. QED
    BY <1>1, <1>3, <2>1 DEF ToSet, a, m
<1>4. CASE m \in 1 .. Len(s)
  <2>1. /\ SubSeq(s, 1, m) \in Seq(T) /\ Len(SubSeq(s, 1, m)) = m
        /\ \A i \in 1 .. m : SubSeq(s, 1, m)[i] = s[i]
    BY <1>1, <1>4
  <2>2. DOMAIN a = 1 .. m /\ a \in Seq(T) /\ Len(a) = m /\ \A i \in 1 .. m : a[i] = s[i] /\ i \in DOMAIN s
    BY <1>1, <1>2, <1>4, <2>1
  <2>3. ToSet(a) \subseteq ToSet(s)
    BY <2>2 DEF ToSet
  <2>4. m = (IF Len(s) < n THEN Len(s) ELSE IF 0 < n THEN n ELSE 0)
    BY <1>1, <1>4 DEF m
  <2>5. QED
    BY <2>2, <2>3, <2>4 DEF a
<1>5. QED
  BY <1>1, <1>3, <1>4

(* The IDs of what is listed.                                              *)
LEMMA IDsElements ==
  ASSUME NEW s
  PROVE  ToSet(IDs(s)) = {i.id : i \in ToSet(s)} /\ IDSet(s) = {i.id : i \in ToSet(s)}
BY DEF ToSet, IDs, IDSet

(* The ID of the first is one of them.                                     *)
LEMMA FirstID ==
  ASSUME NEW T, NEW s \in Seq(T)
  PROVE  IDSet(AtMost(1, s)) \subseteq {i.id : i \in ToSet(s)}
<1>1. ToSet(AtMost(1, s)) \subseteq ToSet(s)
  BY AtMostElements
<1>2. QED
  BY <1>1, IDsElements

-----------------------------------------------------------------------------
(* Ranking.                                                                *)

(* The codes a finding can have.                                           *)
KnownCodes == ToSet(CodeOrder)

(* What every candidate has to be ranked by.                               *)
Rankable(c) == c.priority \in Nat /\ c.priority <= 100 /\ c.code \in KnownCodes

(* No two codes of findings have the same place in their order.            *)
LEMMA CodesAreOrdered ==
  /\ \A a \in KnownCodes : CodeRankOf[a] \in Nat
  /\ \A a, b \in KnownCodes : CodeRankOf[a] = CodeRankOf[b] => a = b
<1>1. DOMAIN CodeOrder \subseteq Nat
  BY DEF CodeOrder
<1>2. ASSUME NEW a \in KnownCodes
      PROVE  CodeRankOf[a] \in DOMAIN CodeOrder /\ CodeOrder[CodeRankOf[a]] = a
  <2>1. CodeRankOf[a] = CHOOSE n \in DOMAIN CodeOrder : CodeOrder[n] = a
    BY DEF CodeRankOf, KnownCodes
  <2>2. \E n \in DOMAIN CodeOrder : CodeOrder[n] = a
    BY DEF KnownCodes, ToSet
  <2>3. QED
    BY <2>1, <2>2
<1>3. QED
  BY <1>1, <1>2

(* One candidate of every code is kept, and none that it has is better.    *)
LEMMA BestIsKept ==
  ASSUME NEW T, NEW cs \in Seq(T), \A c \in ToSet(cs) : Rankable(c)
  PROVE  /\ UniqueCandidates(cs) \subseteq ToSet(cs)
         /\ \A a, b \in UniqueCandidates(cs) : a.code = b.code => a = b
         /\ \A c \in ToSet(cs) : \E b \in UniqueCandidates(cs) : b.code = c.code /\ b.priority >= c.priority
<1>1. DOMAIN cs \subseteq Nat
  OBVIOUS
<1>2. \A i \in DOMAIN cs : cs[i] \in ToSet(cs) /\ cs[i].priority \in Nat /\ cs[i].priority <= 100
  <2>1. \A i \in DOMAIN cs : cs[i] \in ToSet(cs)
    BY DEF ToSet
  <2>2. QED
    BY <2>1 DEF Rankable
<1> DEFINE best(j) == \A k \in DOMAIN cs :
                        cs[k].code = cs[j].code =>
                          \/ cs[j].priority > cs[k].priority
                          \/ cs[j].priority = cs[k].priority /\ j <= k
<1>3. UniqueCandidates(cs) = {cs[i] : i \in {j \in DOMAIN cs : best(j)}}
  BY DEF UniqueCandidates
<1>4. ASSUME NEW i \in DOMAIN cs, NEW j \in DOMAIN cs, best(i), best(j), cs[i].code = cs[j].code
      PROVE  i = j
  <2>1. i \in Nat /\ j \in Nat /\ cs[i].priority \in Nat /\ cs[j].priority \in Nat
    BY <1>1, <1>2
  <2>2. /\ cs[i].priority > cs[j].priority \/ (cs[i].priority = cs[j].priority /\ i <= j)
        /\ cs[j].priority > cs[i].priority \/ (cs[j].priority = cs[i].priority /\ j <= i)
    BY <1>4
  <2>3. QED
    BY <2>1, <2>2
<1>5. ASSUME NEW i \in DOMAIN cs
      PROVE  \E j \in DOMAIN cs : best(j) /\ cs[j].code = cs[i].code /\ cs[j].priority >= cs[i].priority
  <2> DEFINE J == {j \in DOMAIN cs : cs[j].code = cs[i].code}
             D == {100 - cs[j].priority : j \in J}
  <2>1. D \in SUBSET Nat /\ D # {}
    BY <1>2
  <2> HIDE DEF D
  <2>2. PICK d \in D : \A e \in D : d <= e
    BY <2>1, LeastElement
  <2> DEFINE B == {j \in J : 100 - cs[j].priority = d}
  <2>3. B \in SUBSET Nat /\ B # {}
    BY <1>1, <2>2 DEF D
  <2> HIDE DEF B
  <2>4. PICK j \in B : \A k \in B : j <= k
    BY <2>3, LeastElement
  <2>5. j \in DOMAIN cs /\ cs[j].code = cs[i].code /\ 100 - cs[j].priority = d /\ d \in Nat
    BY <2>1, <2>2, <2>4 DEF B
  <2>6. \A k \in J : d <= 100 - cs[k].priority /\ (100 - cs[k].priority = d => j <= k)
    BY <2>2, <2>4 DEF B, D
  <2>7. \A k \in J : cs[j].priority > cs[k].priority \/ (cs[j].priority = cs[k].priority /\ j <= k)
    <3>1. TAKE k \in J
    <3>2. cs[k].priority \in Nat /\ cs[j].priority \in Nat
      BY <1>2, <2>5
    <3>3. QED
      BY <2>5, <2>6, <3>2
  <2>8. best(j)
    BY <2>5, <2>7
  <2>9. cs[j].priority >= cs[i].priority
    <3>1. cs[i].priority \in Nat /\ cs[j].priority \in Nat /\ i \in J
      BY <1>2, <2>5
    <3>2. QED
      BY <2>7, <3>1
  <2> HIDE DEF best
  <2>10. QED
    BY <2>5, <2>8, <2>9
<1> HIDE DEF best
<1>6. UniqueCandidates(cs) \subseteq ToSet(cs)
  BY <1>2, <1>3
<1>7. \A a, b \in UniqueCandidates(cs) : a.code = b.code => a = b
  BY <1>3, <1>4
<1>8. ASSUME NEW c \in ToSet(cs)
      PROVE  \E b \in UniqueCandidates(cs) : b.code = c.code /\ b.priority >= c.priority
  <2>1. PICK i \in DOMAIN cs : cs[i] = c
    BY DEF ToSet
  <2>2. PICK j \in DOMAIN cs : best(j) /\ cs[j].code = c.code /\ cs[j].priority >= c.priority
    BY <1>5, <2>1
  <2>3. QED
    BY <1>3, <2>2
<1>9. QED
  BY <1>6, <1>7, <1>8

(* The candidates ranked are the best of each code, best first.            *)
LEMMA RankedElements ==
  ASSUME NEW T, NEW cs \in Seq(T), \A c \in ToSet(cs) : Rankable(c)
  PROVE  /\ Ranked(cs) \in Seq(ToSet(cs))
         /\ ToSet(Ranked(cs)) = UniqueCandidates(cs)
         /\ \A n, m \in DOMAIN Ranked(cs) : n < m => Ahead(Ranked(cs)[n], Ranked(cs)[m])
         /\ (cs # <<>> => Ranked(cs) # <<>>)
<1> DEFINE S == UniqueCandidates(cs)
           R == {p \in S \X S : Ahead(p[1], p[2])}
<1>1. /\ S \subseteq ToSet(cs)
      /\ \A a, b \in S : a.code = b.code => a = b
      /\ \A c \in ToSet(cs) : \E b \in S : b.code = c.code /\ b.priority >= c.priority
  BY BestIsKept
<1>2. IsFiniteSet(S)
  BY <1>1, ElementsAreFinite, FS_Subset
<1>3. \A c \in S : c.priority \in Nat /\ c.code \in KnownCodes /\ CodeRankOf[c.code] \in Nat
  BY <1>1, CodesAreOrdered DEF Rankable
<1>4. \A a, b \in S : CodeRankOf[a.code] = CodeRankOf[b.code] => a = b
  BY <1>1, <1>3, CodesAreOrdered
<1> HIDE DEF S
<1>5. \A a, b \in S : <<a, b>> \in R <=> Ahead(a, b)
  OBVIOUS
<1> HIDE DEF R
<1>6. Ordered(R, S)
  <2>1. \A a, b \in S : <<a, b>> \in R => <<b, a>> \notin R
    BY <1>3, <1>5 DEF Ahead
  <2>2. \A a, b \in S : a # b => <<a, b>> \in R \/ <<b, a>> \in R
    BY <1>3, <1>4, <1>5 DEF Ahead
  <2>3. ASSUME NEW a \in S, NEW b \in S, NEW c \in S, <<a, b>> \in R, <<b, c>> \in R
        PROVE  <<a, c>> \in R
    <3>1. /\ a.priority \in Nat /\ b.priority \in Nat /\ c.priority \in Nat
          /\ CodeRankOf[a.code] \in Nat /\ CodeRankOf[b.code] \in Nat /\ CodeRankOf[c.code] \in Nat
      BY <1>3
    <3>2. Ahead(a, b) /\ Ahead(b, c)
      BY <1>5, <2>3
    <3>3. Ahead(a, c)
      BY <3>1, <3>2 DEF Ahead
    <3>4. QED
      BY <1>5, <3>3
  <2>4. QED
    BY <2>1, <2>2, <2>3 DEF Ordered
<1>7. \A c \in S : {d \in S : Ahead(d, c)} = Preceding(R, S, c)
  BY <1>5 DEF Preceding
<1>8. Sorted(Ranked(cs), R, S)
  <2>1. Ranked(cs) = [n \in 1 .. Cardinality(S) |-> CHOOSE c \in S : Cardinality({d \in S : Ahead(d, c)}) + 1 = n]
    BY DEF Ranked, S
  <2>2. \A c \in S : Cardinality({d \in S : Ahead(d, c)}) + 1 = PlaceIn(R, S, c)
    BY <1>7 DEF PlaceIn
  <2>3. \A n \in 1 .. Cardinality(S) : \E c \in S : PlaceIn(R, S, c) = n
    BY <1>2, <1>6, PlacesAreTaken
  <2>4. \A n \in 1 .. Cardinality(S) : Ranked(cs)[n] \in S /\ PlaceIn(R, S, Ranked(cs)[n]) = n
    <3>1. TAKE n \in 1 .. Cardinality(S)
    <3>2. \E c \in S : Cardinality({d \in S : Ahead(d, c)}) + 1 = n
      BY <2>2, <2>3
    <3>3. Ranked(cs)[n] \in S /\ Cardinality({d \in S : Ahead(d, Ranked(cs)[n])}) + 1 = n
      BY <2>1, <3>2
    <3>4. QED
      BY <2>2, <3>3
  <2>5. QED
    BY <2>1, <2>4 DEF Sorted
<1>9. /\ Ranked(cs) \in Seq(S) /\ ToSet(Ranked(cs)) = S
      /\ \A n, m \in DOMAIN Ranked(cs) : n < m => <<Ranked(cs)[n], Ranked(cs)[m]>> \in R
  BY <1>2, <1>6, <1>8, SortedElements
<1>10. \A n \in DOMAIN Ranked(cs) : Ranked(cs)[n] \in S
  BY <1>9
<1>11. Ranked(cs) \in Seq(ToSet(cs))
  BY <1>1, <1>9
<1>12. cs # <<>> => S # {}
  BY <1>1, ElementsOf
<1>13. QED
  BY <1>5, <1>9, <1>10, <1>11, <1>12, ElementsOf DEF S

-----------------------------------------------------------------------------
(* Codes.                                                                  *)

CoreCodes ==
  {"core.executable_not_found", "core.insufficient_structured_evidence",
   "core.intentional_false", "core.log_recording_degraded", "core.no_target_failure",
   "core.nonzero_exit", "core.permission_denied", "core.signal_termination",
   "core.start_failed", "core.supervisor_ownership_lost", "core.target_failure",
   "core.timeout", "core.user_cancellation", "core.wait_evaluation_error",
   "core.working_directory_missing"}

SecondaryCodes ==
  {"secondary.log_recording_degraded", "secondary.notification_failed",
   "secondary.repeated_failure", "secondary.same_fingerprint_history"}

(* The order of codes, one by one.                                         *)
LEMMA CodePositions ==
  /\ DOMAIN CodeOrder = 1 .. 53
  /\ CodeOrder[1] = "core.executable_not_found"
  /\ CodeOrder[2] = "core.insufficient_structured_evidence"
  /\ CodeOrder[3] = "core.intentional_false"
  /\ CodeOrder[4] = "core.log_recording_degraded"
  /\ CodeOrder[5] = "core.no_target_failure"
  /\ CodeOrder[6] = "core.nonzero_exit"
  /\ CodeOrder[7] = "core.permission_denied"
  /\ CodeOrder[8] = "core.signal_termination"
  /\ CodeOrder[9] = "core.start_failed"
  /\ CodeOrder[10] = "core.supervisor_ownership_lost"
  /\ CodeOrder[11] = "core.target_failure"
  /\ CodeOrder[12] = "core.timeout"
  /\ CodeOrder[13] = "core.user_cancellation"
  /\ CodeOrder[14] = "core.wait_evaluation_error"
  /\ CodeOrder[15] = "core.working_directory_missing"
  /\ CodeOrder[16] = "secondary.log_recording_degraded"
  /\ CodeOrder[17] = "secondary.notification_failed"
  /\ CodeOrder[18] = "secondary.repeated_failure"
  /\ CodeOrder[19] = "secondary.same_fingerprint_history"
  /\ CodeOrder[20] = "shared.aborted"
  /\ CodeOrder[21] = "shared.cancelled"
  /\ CodeOrder[22] = "shared.dependency_unsatisfied"
  /\ CodeOrder[23] = "shared.failure"
  /\ CodeOrder[24] = "shared.lost"
  /\ CodeOrder[25] = "shared.observation_uncertain"
  /\ CodeOrder[26] = "shared.scheduler_pending"
  /\ CodeOrder[27] = "shared.timed_out"
  /\ CodeOrder[28] = "address_in_use"
  /\ CodeOrder[29] = "authentication_denied"
  /\ CodeOrder[30] = "compiler_error"
  /\ CodeOrder[31] = "configuration_missing"
  /\ CodeOrder[32] = "connection_refused"
  /\ CodeOrder[33] = "data_validation"
  /\ CodeOrder[34] = "database_deadlock"
  /\ CodeOrder[35] = "database_unique_violation"
  /\ CodeOrder[36] = "deadline_exceeded"
  /\ CodeOrder[37] = "dependency_missing"
  /\ CodeOrder[38] = "dns_resolution_failed"
  /\ CodeOrder[39] = "file_descriptor_exhausted"
  /\ CodeOrder[40] = "go_panic"
  /\ CodeOrder[41] = "jvm_exception"
  /\ CodeOrder[42] = "linker_undefined_reference"
  /\ CodeOrder[43] = "migration_rejected"
  /\ CodeOrder[44] = "migration_required"
  /\ CodeOrder[45] = "missing_file"
  /\ CodeOrder[46] = "permission_denied"
  /\ CodeOrder[47] = "python_exception"
  /\ CodeOrder[48] = "rate_limited"
  /\ CodeOrder[49] = "read_only_filesystem"
  /\ CodeOrder[50] = "service_unavailable"
  /\ CodeOrder[51] = "nested_command_missing"
  /\ CodeOrder[52] = "storage_exhausted"
  /\ CodeOrder[53] = "tls_verification_failed"
BY DEF CodeOrder

(* Every code an analyzer can give a candidate has a place in it.          *)
LEMMA CodesAreKnown ==
  CoreCodes \cup SecondaryCodes \cup SharedCodes \cup TargetCodes \subseteq KnownCodes
<1>1. CoreCodes \subseteq KnownCodes
  BY CodePositions DEF CoreCodes, KnownCodes, ToSet
<1>2. SecondaryCodes \subseteq KnownCodes
  BY CodePositions DEF SecondaryCodes, KnownCodes, ToSet
<1>3. SharedCodes \subseteq KnownCodes
  BY CodePositions DEF SharedCodes, KnownCodes, ToSet
<1>4. TargetCodes \subseteq KnownCodes
  BY CodePositions DEF TargetCodes, TargetDiagnosticRules, StructureRule, KnownCodes, ToSet
<1>5. QED
  BY <1>1, <1>2, <1>3, <1>4

(* What is left out of SharedNeverBorrows.                                 *)
Exempt == {"secondary.notification_failed", "secondary.same_fingerprint_history"}

(* What the core or the job's bookkeeping establishes is never given a     *)
(* code of a message.                                                      *)
LEMMA CodesAreApart == (CoreCodes \cup SecondaryCodes \cup SharedCodes) \cap TargetCodes = {}
BY DEF CoreCodes, SecondaryCodes, SharedCodes, TargetCodes, TargetDiagnosticRules, StructureRule

(* A class that is known exactly weighs more than any message.             *)
LEMMA CoreRules ==
  ASSUME NEW class, NEW support, NEW c, c = CoreFailureCandidate(class, support)
  PROVE  /\ c.priority \in 0 .. 100 /\ c.score = c.priority /\ c.code \in CoreCodes
         /\ c.support = support /\ c.analyzer = "builtin.rules"
         /\ (class \in ExactClasses => c.priority > 86)
<1> DEFINE rule == IF class \in DOMAIN CoreRule THEN CoreRule[class] ELSE <<65, "core.target_failure">>
<1>1. rule[1] \in 0 .. 100 /\ rule[2] \in CoreCodes
  BY DEF CoreRule, CoreCodes
<1>2. class \in ExactClasses => rule[1] > 86
  BY DEF CoreRule, ExactClasses
<1>3. c = Candidate(rule[1], rule[2], support)
  BY DEF CoreFailureCandidate
<1> HIDE DEF rule
<1>4. QED
  BY <1>1, <1>2, <1>3 DEF Candidate

(* What the tables of the analyzers hold.                                  *)
LEMMA SharedOutcomeRules ==
  \A outcome \in DOMAIN SharedOutcomeRule :
    SharedOutcomeRule[outcome][1] \in 0 .. 100 /\ SharedOutcomeRule[outcome][2] \in SharedCodes
BY DEF SharedOutcomeRule, SharedCodes

LEMMA StructureRules ==
  \A code \in DOMAIN CodeRank \ {"causal"} :
    /\ StructureRule[code][1] \in 0 .. 84
    /\ StructureRule[code][2] \in TargetCodes \ TargetDiagnosticRules
BY DEF StructureRule, CodeRank, TargetCodes, TargetDiagnosticRules

-----------------------------------------------------------------------------
(* The view.                                                               *)

Items == ToSet(evidence.items)

HistoricalRun == evidence.shared /\ evidence.runs # <<>>

(* The facts a shared report about a run may rest on.                      *)
OwnItems ==
  {i \in Items : HistoricalRun => i.at \in {Job, Last(evidence.runs)} /\ i.code # "JobOutcome"}

IDsOf(S) == {i.id : i \in S}

EvidenceIDs == IDsOf(Items) \cup IDsOf(ToSet(evidence.artifacts)) \cup IDsOf(ToSet(evidence.enrichment))

(* The facts of a list that decode.                                        *)
LEMMA DecodedElements ==
  ASSUME NEW T, NEW s \in Seq(T)
  PROVE  Decoded(s) \in Seq(T) /\ ToSet(Decoded(s)) = {i \in ToSet(s) : i.ok}
<1>1. Decoded(s) = Kept(s, {i \in ToSet(s) : i.ok})
  BY DEF Decoded, Filtered, ToSet
<1>2. QED
  BY <1>1, KeptSet

(* The facts of a code.                                                    *)
LEMMA ByCodeElements ==
  ASSUME WellFormed(evidence), NEW code
  PROVE  ByCode(code) \in Seq(Items) /\ ToSet(ByCode(code)) = {i \in Items : i.code = code}
<1>1. evidence.items \in Seq(Items)
  BY DEF WellFormed, Items
<1>2. ByCode(code) = Kept(evidence.items, {i \in Items : i.code = code})
  BY DEF ByCode, Filtered, ToSet, Items
<1>3. QED
  BY <1>1, <1>2, KeptSet DEF Items

(* The facts of the selected run and of the job.                           *)
LEMMA OfSelectedRunElements ==
  ASSUME NEW T, NEW s \in Seq(T)
  PROVE  /\ OfSelectedRun(s) \in Seq(T)
         /\ ToSet(OfSelectedRun(s)) = {i \in ToSet(s) : i.at \in {Last(evidence.runs), Job}}
<1>1. OfSelectedRun(s) = Kept(s, {i \in ToSet(s) : i.at \in {Last(evidence.runs), Job}})
  BY DEF OfSelectedRun, Filtered, ToSet
<1>2. QED
  BY <1>1, KeptSet

(* No fact of another run is primary for a run of a shared job.            *)
LEMMA PrimaryElements ==
  ASSUME WellFormed(evidence), NEW code
  PROVE  /\ PrimaryItems(code) \in Seq(Items)
         /\ ToSet(PrimaryItems(code)) \subseteq {i \in Items : i.code = code}
         /\ (code # "JobOutcome" => ToSet(PrimaryItems(code)) \subseteq OwnItems)
<1>1. ByCode(code) \in Seq(Items) /\ ToSet(ByCode(code)) = {i \in Items : i.code = code}
  BY ByCodeElements
<1>2. /\ OfSelectedRun(ByCode(code)) \in Seq(Items)
      /\ ToSet(OfSelectedRun(ByCode(code))) = {i \in ToSet(ByCode(code)) : i.at \in {Last(evidence.runs), Job}}
  BY <1>1, OfSelectedRunElements
<1>3. CASE HistoricalRun
  <2>1. PrimaryItems(code) = OfSelectedRun(ByCode(code))
    BY <1>3 DEF PrimaryItems, SharedPrimaryItems, HistoricalRun
  <2>2. QED
    BY <1>1, <1>2, <2>1 DEF OwnItems
<1>4. CASE ~ HistoricalRun
  <2>1. PrimaryItems(code) \in {ByCode(code), OfSelectedRun(ByCode(code))}
    BY <1>4 DEF PrimaryItems, SharedPrimaryItems, HistoricalRun
  <2>2. OwnItems = Items
    BY <1>4 DEF OwnItems
  <2>3. QED
    BY <1>1, <1>2, <2>1, <2>2
<1>5. QED
  BY <1>3, <1>4

(* The job's own facts are never another run's, and Control has no classes. *)
LEMMA JobFacts ==
  ASSUME WellFormed(evidence)
  PROVE  /\ ToSet(ByCode("JobPhase")) \subseteq OwnItems
         /\ ToSet(ByCode("SharedConfidence")) \subseteq OwnItems
         /\ (evidence.shared => ToSet(ByCode("FailureClass")) = {})
         /\ (~ HistoricalRun => OwnItems = Items)
<1>1. \A i \in Items : i.code \in {"JobPhase", "SharedConfidence"} => i \in OwnItems
  BY DEF WellFormed, WellFormedItem, OwnItems, Items
<1>2. QED
  BY <1>1, ByCodeElements DEF WellFormed, Items, OwnItems

-----------------------------------------------------------------------------
(* What holds of every candidate.                                          *)

Of(c, messages) == \E i \in messages : DiagnosticFormat(i) = c.code /\ c.support = {i.id}

(* A message weighs at most 86, and more than 84 only if it is the last    *)
(* one of a log; what weighs 84 was collected.                             *)
Weighed(c) ==
  /\ DOMAIN c = {"priority", "score", "code", "support", "analyzer"}
  /\ Rankable(c) /\ c.score \in 0 .. 100
  /\ c.code \in TargetCodes => c.priority <= 86
  /\ c.code \in TargetDiagnosticRules /\ c.priority > 84 => Of(c, LastMessages)
  /\ c.code \in TargetDiagnosticRules /\ c.priority >= 84 => Of(c, CollectedMessages)

OwnSupport(c) ==
  HistoricalRun /\ c.code \notin Exempt =>
    \A id \in c.support : OfJobOrRun(id, Last(evidence.runs)) /\ id[1] # "JobOutcome"

SoundCandidate(c) == Weighed(c) /\ c.support \subseteq EvidenceIDs /\ OwnSupport(c)

Sound(s) == s \in Seq(ToSet(s)) /\ \A c \in ToSet(s) : SoundCandidate(c)

(* Lists of sound candidates stay sound when they are joined, cut or       *)
(* built one by one.                                                       *)
LEMMA SoundJoined ==
  ASSUME NEW s, NEW t, Sound(s), Sound(t)
  PROVE  Sound(s \o t) /\ ToSet(s \o t) = ToSet(s) \cup ToSet(t)
<1> DEFINE T == ToSet(s) \cup ToSet(t)
<1>1. s \in Seq(T) /\ t \in Seq(T)
  BY DEF Sound
<1>2. s \o t \in Seq(T) /\ ToSet(s \o t) = T
  BY <1>1, JoinedElements
<1>3. QED
  BY <1>2 DEF Sound

LEMMA SoundNone == Sound(<<>>) /\ ToSet(<<>>) = {}
BY DEF Sound, ToSet

LEMMA SoundOne ==
  ASSUME NEW c, SoundCandidate(c)
  PROVE  Sound(<<c>>) /\ ToSet(<<c>>) = {c}
<1>1. ToSet(<<c>>) = {c}
  BY DEF ToSet
<1>2. QED
  BY <1>1 DEF Sound

LEMMA SoundAtMost ==
  ASSUME NEW s, Sound(s), NEW n \in Int
  PROVE  Sound(AtMost(n, s))
<1>1. AtMost(n, s) \in Seq(ToSet(s)) /\ ToSet(AtMost(n, s)) \subseteq ToSet(s)
  BY AtMostElements DEF Sound
<1>2. AtMost(n, s) \in Seq(ToSet(AtMost(n, s)))
  BY <1>1, ElementsOf
<1>3. QED
  BY <1>1, <1>2 DEF Sound

(* A fact that may be rested on may be cited.                              *)
LEMMA ItemsSupport ==
  ASSUME WellFormed(evidence), NEW c, c.support \subseteq IDsOf(Items),
         c.code \in Exempt \/ c.support \subseteq IDsOf(OwnItems)
  PROVE  c.support \subseteq EvidenceIDs /\ OwnSupport(c)
<1>1. c.support \subseteq EvidenceIDs
  BY DEF EvidenceIDs
<1>2. ASSUME HistoricalRun, NEW i \in OwnItems
      PROVE  OfJobOrRun(i.id, Last(evidence.runs)) /\ i.id[1] # "JobOutcome"
  <2>1. i \in ToSet(evidence.items) /\ i.id[1] = i.code /\ i.code # "JobOutcome" /\ i.at \in {Job, Last(evidence.runs)}
    BY <1>2 DEF OwnItems, Items, WellFormed, WellFormedItem
  <2>2. QED
    BY <2>1 DEF OfJobOrRun
<1>3. QED
  BY <1>1, <1>2 DEF OwnSupport, IDsOf

(* What the facts alone say is no message.                                 *)
LEMMA FactsAreSound ==
  ASSUME WellFormed(evidence), NEW c, DOMAIN c = {"priority", "score", "code", "support", "analyzer"},
         c.priority \in 0 .. 100, c.score \in 0 .. 100,
         c.code \in CoreCodes \cup SecondaryCodes \cup SharedCodes,
         c.support \subseteq IDsOf(Items), c.code \in Exempt \/ c.support \subseteq IDsOf(OwnItems)
  PROVE  SoundCandidate(c)
<1>1. c.code \in KnownCodes /\ c.code \notin TargetCodes
  BY CodesAreKnown, CodesAreApart
<1>2. c.code \notin TargetDiagnosticRules
  BY <1>1 DEF TargetCodes
<1>3. c.priority \in Nat /\ c.priority <= 100
  OBVIOUS
<1>4. Weighed(c)
  BY <1>1, <1>2, <1>3 DEF Weighed, Rankable
<1>5. QED
  BY <1>4, ItemsSupport DEF SoundCandidate

LEMMA SoundList ==
  ASSUME NEW T, NEW u \in Seq(T), NEW s, s = [n \in DOMAIN u |-> s[n]],
         \A n \in DOMAIN u : SoundCandidate(s[n])
  PROVE  Sound(s) /\ Len(s) = Len(u) /\ ToSet(s) = {s[n] : n \in DOMAIN u}
<1>1. Len(u) \in Nat /\ DOMAIN u = 1 .. Len(u) /\ DOMAIN s = 1 .. Len(u)
  OBVIOUS
<1>2. s = [n \in 1 .. Len(u) |-> s[n]]
  BY <1>1
<1>3. s \in Seq(ToSet(s))
  BY <1>1, <1>2 DEF ToSet
<1>4. QED
  BY <1>1, <1>3 DEF Sound, ToSet

(* A candidate for a fact that was found is sound, if the fact is of the   *)
(* selected run or exempt.                                                 *)
LEMMA FoundAreSound ==
  ASSUME WellFormed(evidence), NEW priority \in 0 .. 100,
         NEW code \in CoreCodes \cup SecondaryCodes \cup SharedCodes,
         NEW s \in Seq(Items), code \in Exempt \/ ToSet(s) \subseteq OwnItems
  PROVE  Sound(Found(priority, code, s))
<1> DEFINE f == Found(priority, code, s)
<1>1. ASSUME NEW i \in DOMAIN s
      PROVE  SoundCandidate(f[i])
  <2>1. f[i] = Candidate(priority, code, {s[i].id})
    BY DEF Found
  <2>2. s[i] \in ToSet(s) /\ s[i] \in Items
    BY DEF ToSet
  <2> HIDE DEF f
  <2>3. /\ f[i].priority = priority /\ f[i].score = priority /\ f[i].code = code
        /\ f[i].support = {s[i].id}
        /\ DOMAIN f[i] = {"priority", "score", "code", "support", "analyzer"}
    BY <2>1 DEF Candidate
  <2>4. f[i].support \subseteq IDsOf(Items) /\ (code \in Exempt \/ f[i].support \subseteq IDsOf(OwnItems))
    BY <2>2, <2>3 DEF IDsOf
  <2>5. QED
    BY <2>3, <2>4, FactsAreSound
<1>2. f = [i \in DOMAIN s |-> f[i]]
  BY DEF Found
<1> HIDE DEF f
<1>3. QED
  BY <1>1, <1>2, SoundList DEF f

-----------------------------------------------------------------------------
(* Every analyzer finds sound candidates.                                  *)

(* What is told apart among decoded facts.                                 *)
LEMMA KnownElements ==
  ASSUME NEW s \in Seq(Items), NEW S
  PROVE  /\ Kept(Decoded(s), S) \in Seq(Items)
         /\ ToSet(Kept(Decoded(s), S)) = {i \in ToSet(s) : i.ok} \cap S
BY DecodedElements, KeptSet

(* Relabelling a candidate for a shared report keeps it sound.             *)
LEMMA BuiltinSharedIsSound ==
  ASSUME NEW c, SoundCandidate(c)
  PROVE  SoundCandidate(BuiltinShared(c))
<1>1. /\ DOMAIN BuiltinShared(c) = DOMAIN c
      /\ BuiltinShared(c).priority = c.priority /\ BuiltinShared(c).score = c.score
      /\ BuiltinShared(c).code = c.code /\ BuiltinShared(c).support = c.support
  BY DEF BuiltinShared, SoundCandidate, Weighed
<1>2. QED
  BY <1>1 DEF SoundCandidate, Weighed, Rankable, OwnSupport, Of

(* The outcomes a shared diagnosis weighs are those of its own run and     *)
(* job.                                                                    *)
LEMMA SharedOutcomesAreOwn ==
  ASSUME WellFormed(evidence)
  PROVE  SharedOutcomes \in Seq(Items) /\ ToSet(SharedOutcomes) \subseteq OwnItems
<1>1. CASE evidence.runs # <<>>
  BY <1>1, PrimaryElements DEF SharedOutcomes
<1>2. CASE evidence.runs = <<>>
  <2>1. OwnItems = Items
    BY <1>2, JobFacts DEF HistoricalRun
  <2>2. QED
    BY <1>2, <2>1, ByCodeElements DEF SharedOutcomes
<1>3. QED
  BY <1>1, <1>2

LEMMA SharedOutcomeCandidatesAreSound ==
  ASSUME WellFormed(evidence)
  PROVE  Sound(SharedOutcomeCandidates)
<1> DEFINE S == {i \in ToSet(Decoded(SharedOutcomes)) : i.value \in DOMAIN SharedOutcomeRule}
           known == Kept(Decoded(SharedOutcomes), S)
           f == SharedOutcomeCandidates
<1>1. f = [n \in DOMAIN known |-> Candidate(SharedOutcomeRule[known[n].value][1],
                                            SharedOutcomeRule[known[n].value][2], {known[n].id})]
  BY DEF SharedOutcomeCandidates, Filtered, ToSet
<1> HIDE DEF S
<1>2. known \in Seq(Items) /\ ToSet(known) \subseteq OwnItems \cap S
  BY SharedOutcomesAreOwn, KnownElements
<1>3. \A i \in S : i.value \in DOMAIN SharedOutcomeRule
  BY DEF S
<1> HIDE DEF known, f
<1>4. ASSUME NEW n \in DOMAIN known
      PROVE  SoundCandidate(f[n])
  <2>1. known[n] \in ToSet(known) /\ known[n] \in Items
    BY <1>2 DEF ToSet
  <2> DEFINE rule == SharedOutcomeRule[known[n].value]
  <2>2. rule[1] \in 0 .. 100 /\ rule[2] \in SharedCodes
    BY <1>2, <1>3, <2>1, SharedOutcomeRules
  <2>3. f[n] = Candidate(rule[1], rule[2], {known[n].id})
    BY <1>1
  <2> HIDE DEF rule
  <2>4. /\ f[n].priority = rule[1] /\ f[n].score = rule[1] /\ f[n].code = rule[2]
        /\ f[n].support = {known[n].id}
        /\ DOMAIN f[n] = {"priority", "score", "code", "support", "analyzer"}
    BY <2>3 DEF Candidate
  <2>5. f[n].support \subseteq IDsOf(Items) /\ f[n].support \subseteq IDsOf(OwnItems)
    BY <1>2, <2>1, <2>4 DEF IDsOf
  <2>6. QED
    BY <2>2, <2>4, <2>5, FactsAreSound
<1>5. f = [n \in DOMAIN known |-> f[n]]
  BY <1>1
<1>6. QED
  BY <1>2, <1>4, <1>5, SoundList DEF f

LEMMA SharedStateCandidatesAreSound ==
  ASSUME WellFormed(evidence)
  PROVE  Sound(SharedStateCandidates)
<1> DEFINE where(items, values) == Kept(Decoded(items), {i \in ToSet(Decoded(items)) : i.value \in values})
           stale == where(ByCode("SharedConfidence"), {"stale", "uncertain"})
           unmet == where(PrimaryItems("SharedDependency"), {"unsatisfied"})
           pending == where(PrimaryItems("SharedScheduler"), {"pending"})
<1>1. SharedStateCandidates = Found(50, "shared.observation_uncertain", stale)
                                \o Found(70, "shared.dependency_unsatisfied", unmet)
                                \o Found(45, "shared.scheduler_pending", pending)
  BY DEF SharedStateCandidates, Filtered, ToSet
<1>2. ASSUME NEW s \in Seq(Items), ToSet(s) \subseteq OwnItems, NEW values
      PROVE  where(s, values) \in Seq(Items) /\ ToSet(where(s, values)) \subseteq OwnItems
  BY <1>2, KnownElements
<1> HIDE DEF where
<1>3. /\ stale \in Seq(Items) /\ ToSet(stale) \subseteq OwnItems
      /\ unmet \in Seq(Items) /\ ToSet(unmet) \subseteq OwnItems
      /\ pending \in Seq(Items) /\ ToSet(pending) \subseteq OwnItems
  BY <1>2, ByCodeElements, JobFacts, PrimaryElements
<1> HIDE DEF stale, unmet, pending
<1>4. {"shared.observation_uncertain", "shared.dependency_unsatisfied", "shared.scheduler_pending"} \subseteq SharedCodes
  BY DEF SharedCodes
<1>5. /\ Sound(Found(50, "shared.observation_uncertain", stale))
      /\ Sound(Found(70, "shared.dependency_unsatisfied", unmet))
      /\ Sound(Found(45, "shared.scheduler_pending", pending))
  BY <1>3, <1>4, FoundAreSound
<1>6. QED
  BY <1>1, <1>5, SoundJoined

LEMMA SharedCandidatesAreSound ==
  ASSUME WellFormed(evidence)
  PROVE  Sound(SharedCandidates)
<1> DEFINE exits == Kept(Decoded(PrimaryItems("RunExitCode")),
                         {i \in ToSet(Decoded(PrimaryItems("RunExitCode"))) : i.value # "0"})
           signals == Kept(Decoded(PrimaryItems("RunExitSignal")),
                           {i \in ToSet(Decoded(PrimaryItems("RunExitSignal"))) : i.value # ""})
           states == SharedOutcomeCandidates \o SharedStateCandidates
           marked == [n \in DOMAIN states |-> BuiltinShared(states[n])]
<1>1. CASE ~ evidence.shared
  BY <1>1, SoundNone DEF SharedCandidates
<1>2. CASE evidence.shared
  <2>1. SharedCandidates = Found(82, "core.nonzero_exit", exits)
                             \o Found(90, "core.signal_termination", signals) \o marked
    BY <1>2 DEF SharedCandidates, Filtered, ToSet
  <2>2. /\ exits \in Seq(Items) /\ ToSet(exits) \subseteq OwnItems
        /\ signals \in Seq(Items) /\ ToSet(signals) \subseteq OwnItems
    BY PrimaryElements, KnownElements
  <2>3. Sound(states)
    BY SharedOutcomeCandidatesAreSound, SharedStateCandidatesAreSound, SoundJoined
  <2> HIDE DEF exits, signals, states
  <2>4. Sound(marked)
    <3>1. \A n \in DOMAIN states : SoundCandidate(states[n])
      BY <2>3 DEF Sound, ToSet
    <3>2. \A n \in DOMAIN states : SoundCandidate(marked[n])
      BY <3>1, BuiltinSharedIsSound
    <3>3. marked = [n \in DOMAIN states |-> marked[n]] /\ states \in Seq(ToSet(states))
      BY <2>3 DEF Sound
    <3> HIDE DEF marked
    <3>4. QED
      BY <3>2, <3>3, SoundList
  <2> HIDE DEF marked
  <2>5. Sound(Found(82, "core.nonzero_exit", exits)) /\ Sound(Found(90, "core.signal_termination", signals))
    <3>1. {"core.nonzero_exit", "core.signal_termination"} \subseteq CoreCodes
      BY DEF CoreCodes
    <3>2. QED
      BY <2>2, <3>1, FoundAreSound
  <2>6. QED
    BY <2>1, <2>4, <2>5, SoundJoined
<1>3. QED
  BY <1>1, <1>2

(* A failure class is recorded for local work only.                        *)
LEMMA ClassesAreLocal ==
  ASSUME WellFormed(evidence)
  PROVE  /\ Classes \in Seq(Items) /\ ToSet(Classes) \subseteq ToSet(ByCode("FailureClass"))
         /\ (ToSet(ByCode("FailureClass")) # {} => OwnItems = Items)
<1>1. Classes \in Seq(Items) /\ ToSet(Classes) \subseteq ToSet(ByCode("FailureClass"))
  BY PrimaryElements, ByCodeElements DEF Classes
<1>2. ToSet(ByCode("FailureClass")) # {} => OwnItems = Items
  BY JobFacts DEF HistoricalRun
<1>3. QED
  BY <1>1, <1>2

(* A job that meant to fail.                                               *)
LEMMA IntentionalFalseIsSound ==
  ASSUME WellFormed(evidence)
  PROVE  Sound(IntentionalFalseCandidate)
<1> DEFINE passing(items, S) == AtMost(1, Kept(Decoded(items), S))
           command == passing(ByCode("TargetCommand"), {i \in ToSet(Decoded(ByCode("TargetCommand"))) : i.value = "false"})
           class == passing(PrimaryItems("FailureClass"),
                            {i \in ToSet(Decoded(PrimaryItems("FailureClass"))) : i.value = "nonzero_exit"})
           exit == passing(PrimaryItems("RunExitCode"),
                           {i \in ToSet(Decoded(PrimaryItems("RunExitCode"))) : i.value # "0"})
           c == Candidate(100, "core.intentional_false", {command[1].id, class[1].id, exit[1].id})
<1>1. IntentionalFalseCandidate = IF <<>> \in {command, class, exit} THEN <<>> ELSE <<c>>
  BY DEF IntentionalFalseCandidate, Filtered, ToSet
<1>2. ASSUME NEW s \in Seq(Items), NEW S
      PROVE  passing(s, S) \in Seq(Items) /\ ToSet(passing(s, S)) \subseteq ToSet(s)
  <2>1. Kept(Decoded(s), S) \in Seq(Items) /\ ToSet(Kept(Decoded(s), S)) \subseteq ToSet(s)
    BY KnownElements
  <2>2. QED
    BY <2>1, AtMostElements
<1> HIDE DEF passing
<1>3. /\ command \in Seq(Items) /\ exit \in Seq(Items) /\ class \in Seq(Items)
      /\ ToSet(class) \subseteq ToSet(ByCode("FailureClass"))
  BY <1>2, ByCodeElements, PrimaryElements
<1> HIDE DEF command, class, exit
<1>4. ASSUME command # <<>>, class # <<>>, exit # <<>>
      PROVE  SoundCandidate(c)
  <2>1. command[1] \in Items /\ class[1] \in Items /\ exit[1] \in Items /\ ToSet(class) # {}
    BY <1>3, <1>4, ElementsOf
  <2>2. OwnItems = Items
    BY <1>3, <2>1, ClassesAreLocal
  <2>3. /\ c.priority = 100 /\ c.score = 100 /\ c.code = "core.intentional_false"
        /\ c.support = {command[1].id, class[1].id, exit[1].id}
        /\ DOMAIN c = {"priority", "score", "code", "support", "analyzer"}
    BY DEF Candidate
  <2> HIDE DEF c
  <2>4. c.support \subseteq IDsOf(Items)
    BY <2>1, <2>3 DEF IDsOf
  <2>5. c.code \in CoreCodes
    BY <2>3 DEF CoreCodes
  <2>6. QED
    BY <2>2, <2>3, <2>4, <2>5, FactsAreSound
<1> HIDE DEF c
<1>5. QED
  BY <1>1, <1>4, SoundNone, SoundOne

(* A failure class the core recorded.                                      *)
LEMMA ClassCandidateIsSound ==
  ASSUME WellFormed(evidence), NEW item \in ToSet(Classes)
  PROVE  SoundCandidate(CoreFailureCandidate(item.value, {item.id} \cup RelatedEvidence(item)))
<1> DEFINE support == {item.id} \cup RelatedEvidence(item)
           c == CoreFailureCandidate(item.value, support)
<1>1. item \in Items /\ OwnItems = Items
  BY ClassesAreLocal, ByCodeElements
<1>2. support \subseteq IDsOf(Items)
  BY <1>1 DEF RelatedEvidence, IDsOf, Items
<1> HIDE DEF support
<1>3. DOMAIN c = {"priority", "score", "code", "support", "analyzer"}
  BY DEF CoreFailureCandidate, Candidate
<1>4. c.priority \in 0 .. 100 /\ c.score \in 0 .. 100 /\ c.code \in CoreCodes /\ c.support = support
  BY CoreRules
<1> HIDE DEF c
<1>5. SoundCandidate(c)
  BY <1>1, <1>2, <1>3, <1>4, FactsAreSound
<1>6. QED
  BY <1>5 DEF c, support

(* The logs.                                                               *)
LEMMA ArtifactSupport ==
  ASSUME WellFormed(evidence), NEW a \in ToSet(evidence.artifacts), PrimaryArtifact(a.id),
         NEW c, c.support = {a.id}
  PROVE  c.support \subseteq EvidenceIDs /\ OwnSupport(c)
<1>1. a.id \in EvidenceIDs
  BY DEF EvidenceIDs, IDsOf
<1>2. HistoricalRun => OfJobOrRun(a.id, Last(evidence.runs))
  BY DEF HistoricalRun, PrimaryArtifact, OfJobOrRun
<1>3. a.id[1] # "JobOutcome"
  BY DEF WellFormed, WellFormedArtifact
<1>4. QED
  BY <1>1, <1>2, <1>3 DEF OwnSupport

Signatures == {<<75, "python_exception">>} \cup ToSet(ArtifactSignatures)

(* What the signatures of a log are worth, and what they are evidence of.  *)
LEMMA SignatureRules ==
  /\ ArtifactSignatures \in Seq(Signatures)
  /\ \A rule \in Signatures : rule[1] \in 0 .. 83 /\ rule[2] \in TargetCodes
<1>1. ArtifactSignatures \in Seq(ToSet(ArtifactSignatures))
  BY DEF ArtifactSignatures, ToSet
<1>2. ToSet(ArtifactSignatures) = {<<72, "storage_exhausted">>, <<68, "nested_command_missing">>,
                                   <<62, "permission_denied">>, <<58, "connection_refused">>}
  BY DEF ArtifactSignatures, ToSet
<1>3. QED
  BY <1>1, <1>2 DEF Signatures, TargetCodes, TargetDiagnosticRules, StructureRule

(* A log with a known signature.                                           *)
LEMMA ArtifactCandidateIsSound ==
  ASSUME WellFormed(evidence), NEW a \in ToSet(evidence.artifacts), PrimaryArtifact(a.id)
  PROVE  Sound(ArtifactCandidate(a))
<1> DEFINE holds == {rule \in ToSet(ArtifactSignatures) : \E l \in ToSet(a.log) : l.says = rule[2]}
           python == ~ Enriched("python") /\ \E l \in ToSet(a.log) : l.is = "python"
           matches == (IF python THEN <<<<75, "python_exception">>>> ELSE <<>>) \o Kept(ArtifactSignatures, holds)
           first == AtMost(1, matches)
           f == ArtifactCandidate(a)
<1>1. f = [i \in DOMAIN first |-> Candidate(matches[1][1], matches[1][2], {a.id})]
  BY DEF ArtifactCandidate, Filtered, ToSet
<1>2. matches \in Seq(Signatures)
  <2>1. Kept(ArtifactSignatures, holds) \in Seq(Signatures)
    BY SignatureRules, KeptSet
  <2>2. <<<<75, "python_exception">>>> \in Seq(Signatures) /\ <<>> \in Seq(Signatures)
    BY DEF Signatures
  <2>3. QED
    BY <2>1, <2>2, JoinedElements
<1> HIDE DEF matches
<1>3. first \in Seq(Signatures) /\ \A i \in DOMAIN first : matches # <<>>
  BY <1>2, AtMostElements
<1> HIDE DEF first, f
<1>4. ASSUME NEW i \in DOMAIN first
      PROVE  SoundCandidate(f[i])
  <2> DEFINE rule == matches[1]
  <2>1. rule \in Signatures
    BY <1>2, <1>3, <1>4, ElementsOf
  <2>2. rule[1] \in 0 .. 83 /\ rule[2] \in TargetCodes
    BY <2>1, SignatureRules
  <2>3. f[i] = Candidate(rule[1], rule[2], {a.id})
    BY <1>1
  <2> HIDE DEF rule
  <2>4. /\ f[i].priority = rule[1] /\ f[i].score = rule[1] /\ f[i].code = rule[2] /\ f[i].support = {a.id}
        /\ DOMAIN f[i] = {"priority", "score", "code", "support", "analyzer"}
    BY <2>3 DEF Candidate
  <2>5. rule[1] \in Nat /\ rule[1] < 84 /\ rule[2] \in KnownCodes
    BY <2>2, CodesAreKnown
  <2>6. Weighed(f[i])
    BY <2>4, <2>5 DEF Weighed, Rankable
  <2>7. QED
    BY <2>4, <2>6, ArtifactSupport DEF SoundCandidate
<1>5. f = [i \in DOMAIN first |-> f[i]]
  BY <1>1
<1>6. QED
  BY <1>3, <1>4, <1>5, SoundList DEF f

(* The last message of a log weighs 86, an earlier one 84.                 *)
LEMMA LastWord ==
  ASSUME WellFormed(evidence), NEW i \in CollectedMessages
  PROVE  /\ CausalPriority(i) \in {84, 86}
         /\ CausalPriority(i) = 86 <=> i \in LastMessages
<1>1. \A j \in ToSet(evidence.enrichment) : j.start \in Nat
  BY DEF WellFormed, WellFormedEnrichment
<1>2. i \in ToSet(evidence.enrichment)
  BY DEF CollectedMessages
<1>3. (\E j \in ToSet(evidence.enrichment) : j.code = "causal" /\ j.artifact = i.artifact /\ j.start > i.start)
        <=> i \notin LastMessages
  BY <1>1, <1>2 DEF LastMessages
<1>4. QED
  BY <1>3 DEF CausalPriority

(* The ranges that become candidates, and what becomes of them.            *)
Used ==
  {i \in ToSet(evidence.enrichment) :
     /\ PrimaryArtifact(i.artifact)
     /\ i.code = "causal" => DiagnosticFormat(i) \in TargetDiagnosticRules}

RangeCandidate(i) ==
  IF i.code = "causal" THEN Candidate(CausalPriority(i), DiagnosticFormat(i), {i.id})
                       ELSE Candidate(StructureRule[i.code][1], StructureRule[i.code][2], {i.id})

(* A range is given to a candidate: what the last message of a log         *)
(* weighs, no other does.                                                  *)
LEMMA RangeCandidateIsSound ==
  ASSUME WellFormed(evidence), ValidFailureEvidence(evidence), NEW i \in Used
  PROVE  SoundCandidate(RangeCandidate(i))
<1> DEFINE c == RangeCandidate(i)
<1>1. /\ i \in ToSet(evidence.enrichment) /\ PrimaryArtifact(i.artifact)
      /\ (i.code = "causal" => DiagnosticFormat(i) \in TargetDiagnosticRules)
  BY DEF Used
<1>2. i.code \in DOMAIN CodeRank /\ i.id[1] = "analysis"
  BY <1>1 DEF WellFormed, WellFormedEnrichment
<1>3. /\ c.score = c.priority /\ c.support = {i.id}
      /\ DOMAIN c = {"priority", "score", "code", "support", "analyzer"}
  BY DEF RangeCandidate, Candidate
<1>4. c.support \subseteq EvidenceIDs /\ OwnSupport(c)
  <2>1. i.id \in EvidenceIDs
    BY <1>1 DEF EvidenceIDs, IDsOf
  <2>2. HistoricalRun => OfJobOrRun(i.id, Last(evidence.runs))
    BY <1>1 DEF HistoricalRun, PrimaryArtifact, OfJobOrRun
  <2>3. QED
    BY <1>2, <1>3, <2>1, <2>2 DEF OwnSupport
<1>5. Weighed(c)
  <2>1. CASE i.code = "causal"
    <3>1. c.priority = CausalPriority(i) /\ c.code = DiagnosticFormat(i)
      BY <2>1 DEF RangeCandidate, Candidate
    <3>2. i \in CollectedMessages /\ c.priority \in {84, 86} /\ (c.priority = 86 => i \in LastMessages)
      BY <1>1, <2>1, <3>1, LastWord DEF CollectedMessages
    <3>3. c.code \in KnownCodes
      BY <1>1, <2>1, <3>1, CodesAreKnown DEF TargetCodes
    <3> HIDE DEF c
    <3>4. Of(c, CollectedMessages) /\ (c.priority = 86 => Of(c, LastMessages))
      BY <1>3, <3>1, <3>2 DEF Of
    <3>5. QED
      BY <1>3, <3>2, <3>3, <3>4 DEF Weighed, Rankable
  <2>2. CASE i.code # "causal"
    <3>1. c.priority \in 0 .. 84 /\ c.code \in TargetCodes \ TargetDiagnosticRules
      BY <1>2, <2>2, StructureRules DEF RangeCandidate, Candidate
    <3>2. c.code \in KnownCodes
      BY <3>1, CodesAreKnown
    <3> HIDE DEF c
    <3>3. QED
      BY <1>3, <3>1, <3>2 DEF Weighed, Rankable
  <2>3. QED
    BY <2>1, <2>2
<1> HIDE DEF c
<1>6. SoundCandidate(c)
  BY <1>4, <1>5 DEF SoundCandidate
<1>7. QED
  BY <1>6 DEF c

LEMMA EnrichmentCandidatesAreSound ==
  ASSUME WellFormed(evidence), ValidFailureEvidence(evidence)
  PROVE  /\ Sound(EnrichmentCandidates)
         /\ ToSet(EnrichmentCandidates) = {RangeCandidate(i) : i \in Used}
<1> DEFINE u == Kept(evidence.enrichment, Used)
           f == EnrichmentCandidates
<1>1. f = [n \in DOMAIN u |-> RangeCandidate(u[n])]
  BY DEF EnrichmentCandidates, Filtered, ToSet, Used, RangeCandidate
<1>2. u \in Seq(ToSet(evidence.enrichment)) /\ ToSet(u) = Used
  <2>1. evidence.enrichment \in Seq(ToSet(evidence.enrichment))
    BY DEF WellFormed
  <2>2. u \in Seq(ToSet(evidence.enrichment)) /\ ToSet(u) = ToSet(evidence.enrichment) \cap Used
    BY <2>1, KeptSet
  <2>3. QED
    BY <2>2 DEF Used
<1> HIDE DEF u, f
<1>3. \A n \in DOMAIN u : f[n] = RangeCandidate(u[n]) /\ u[n] \in Used
  BY <1>1, <1>2 DEF ToSet
<1>4. \A n \in DOMAIN u : SoundCandidate(f[n])
  BY <1>3, RangeCandidateIsSound
<1>5. f = [n \in DOMAIN u |-> f[n]]
  BY <1>1, <1>3
<1>6. Sound(f) /\ ToSet(f) = {f[n] : n \in DOMAIN u}
  BY <1>2, <1>4, <1>5, SoundList
<1>7. ToSet(f) = {RangeCandidate(i) : i \in Used}
  <2>1. \A n \in DOMAIN u : f[n] \in {RangeCandidate(i) : i \in Used}
    BY <1>3
  <2>2. \A i \in Used : \E n \in DOMAIN u : u[n] = i
    BY <1>2 DEF ToSet
  <2>3. \A i \in Used : \E n \in DOMAIN u : f[n] = RangeCandidate(i)
    BY <1>3, <2>2
  <2>4. QED
    BY <1>6, <2>1, <2>3
<1>8. QED
  BY <1>6, <1>7 DEF f

(* Which of the recurring classes is reported is open.                     *)
Selections == IF Recurring = {} THEN {{}} ELSE {{id} : id \in Recurring}

(* Only a job that is not shared, or has run once, recurs.                 *)
LEMMA RecurringElements ==
  ASSUME WellFormed(evidence)
  PROVE  Recurring \subseteq IDsOf(Items) /\ (Recurring # {} => OwnItems = Items)
<1> DEFINE S == {i \in ToSet(Decoded(ByCode("FailureClass"))) : i.at \notin {Job, Elsewhere} /\ i.value # ""}
           classes == Kept(Decoded(ByCode("FailureClass")), S)
<1>1. Recurring \subseteq {classes[n].id : n \in DOMAIN classes}
  BY DEF Recurring, Filtered, ToSet
<1>2. classes \in Seq(Items) /\ ToSet(classes) \subseteq ToSet(ByCode("FailureClass"))
  <2> HIDE DEF S
  <2>1. ByCode("FailureClass") \in Seq(Items)
    BY ByCodeElements
  <2>2. QED
    BY <2>1, KnownElements
<1> HIDE DEF classes
<1>3. \A n \in DOMAIN classes : classes[n] \in Items /\ classes[n] \in ToSet(ByCode("FailureClass"))
  <2>1. \A n \in DOMAIN classes : classes[n] \in ToSet(classes)
    BY DEF ToSet
  <2>2. QED
    BY <1>2, <2>1
<1>4. QED
  BY <1>1, <1>3, ClassesAreLocal DEF IDsOf

LEMMA SecondaryCandidatesAreSound ==
  ASSUME WellFormed(evidence), NEW recurring \in Selections
  PROVE  Sound(SecondaryCandidates(recurring))
<1> DEFINE health == IF evidence.shared THEN PrimaryItems("LogRecordingHealth") ELSE ByCode("LogRecordingHealth")
           degraded == Kept(Decoded(health), {i \in ToSet(Decoded(health)) : i.value = "degraded"})
           failed == Kept(Decoded(ByCode("NotificationStatus")),
                          {i \in ToSet(Decoded(ByCode("NotificationStatus"))) : i.value = "failed"})
           history == [Candidate(60, "secondary.same_fingerprint_history", IDSet(Matching)) EXCEPT !.score = 90]
           again == [n \in 1 .. Cardinality(recurring) |-> Candidate(48, "secondary.repeated_failure", recurring)]
           rest == IF Matching # <<>> THEN <<history>> ELSE again
<1>1. SecondaryCandidates(recurring) =
        First(52, "secondary.log_recording_degraded", degraded) \o First(50, "secondary.notification_failed", failed)
          \o rest
  BY DEF SecondaryCandidates, Filtered, ToSet
<1>2. /\ degraded \in Seq(Items) /\ ToSet(degraded) \subseteq OwnItems
      /\ failed \in Seq(Items)
  <2>1. health \in Seq(Items) /\ ToSet(health) \subseteq OwnItems
    BY PrimaryElements, ByCodeElements, JobFacts DEF HistoricalRun
  <2> HIDE DEF health
  <2>2. QED
    BY <2>1, ByCodeElements, KnownElements
<1> HIDE DEF degraded, failed
<1>3. {"secondary.log_recording_degraded", "secondary.notification_failed"} \subseteq SecondaryCodes
      /\ "secondary.notification_failed" \in Exempt
  BY DEF SecondaryCodes, Exempt
<1>4. /\ Sound(First(52, "secondary.log_recording_degraded", degraded))
      /\ Sound(First(50, "secondary.notification_failed", failed))
  <2>1. Sound(Found(52, "secondary.log_recording_degraded", degraded))
    BY <1>2, <1>3, FoundAreSound
  <2>2. Sound(Found(50, "secondary.notification_failed", failed))
    BY <1>2, <1>3, FoundAreSound
  <2>3. QED
    BY <2>1, <2>2, SoundAtMost DEF First
<1>5. SoundCandidate(history)
  <2>1. /\ history.priority = 60 /\ history.score = 90 /\ history.code = "secondary.same_fingerprint_history"
        /\ history.support = IDSet(Matching)
        /\ DOMAIN history = {"priority", "score", "code", "support", "analyzer"}
    BY DEF Candidate
  <2>2. Matching \in Seq(Items)
    BY ByCodeElements, DecodedElements DEF Matching
  <2>3. ToSet(Matching) \subseteq Items
    BY <2>2, ElementsOf
  <2> HIDE DEF history
  <2>4. history.support \subseteq IDsOf(Items)
    BY <2>1, <2>3, IDsElements DEF IDsOf
  <2>5. history.code \in SecondaryCodes /\ history.code \in Exempt
    BY <2>1 DEF SecondaryCodes, Exempt
  <2>6. QED
    BY <2>1, <2>4, <2>5, FactsAreSound
<1>6. Sound(again)
  <2>1. CASE recurring = {}
    <3>1. Cardinality(recurring) = 0
      BY <2>1, FS_EmptySet
    <3>2. again = <<>>
      BY <3>1
    <3>3. QED
      BY <3>2, SoundNone
  <2>2. CASE recurring # {}
    <3>1. PICK id \in Recurring : recurring = {id}
      BY <2>2 DEF Selections
    <3>2. Cardinality(recurring) = 1
      BY <3>1, FS_Singleton
    <3> DEFINE c == Candidate(48, "secondary.repeated_failure", recurring)
    <3>3. again = <<c>>
      BY <3>2
    <3>4. /\ c.priority = 48 /\ c.score = 48 /\ c.code = "secondary.repeated_failure" /\ c.support = recurring
          /\ DOMAIN c = {"priority", "score", "code", "support", "analyzer"}
      BY DEF Candidate
    <3> HIDE DEF c
    <3>5. c.support \subseteq IDsOf(Items) /\ OwnItems = Items
      BY <3>1, <3>4, RecurringElements
    <3>6. c.code \in SecondaryCodes
      BY <3>4 DEF SecondaryCodes
    <3>7. SoundCandidate(c)
      BY <3>4, <3>5, <3>6, FactsAreSound
    <3>8. QED
      BY <3>3, <3>7, SoundOne
  <2>3. QED
    BY <2>1, <2>2
<1> HIDE DEF history, again
<1>7. Sound(rest)
  BY <1>5, <1>6, SoundOne
<1> HIDE DEF rest
<1>8. QED
  BY <1>1, <1>4, <1>7, SoundJoined

(* The first of two lists of facts.                                        *)
LEMMA FirstOfElements ==
  ASSUME NEW s \in Seq(Items), NEW t \in Seq(Items)
  PROVE  FirstOf(s, t) \subseteq IDsOf(ToSet(s) \cup ToSet(t))
<1>1. s \o t \in Seq(Items) /\ ToSet(s \o t) = ToSet(s) \cup ToSet(t)
  BY JoinedElements
<1>2. QED
  BY <1>1, FirstID DEF FirstOf, IDsOf

(* The candidate of last resort, from the state of the job.                *)
LEMMA StateCandidateIsSound ==
  ASSUME WellFormed(evidence)
  PROVE  SoundCandidate(StateCandidate)
<1> DEFINE S == {i \in ToSet(Decoded(SharedOutcomes)) : i.value = "success"}
           success == Kept(Decoded(SharedOutcomes), S)
           c == StateCandidate
<1>1. /\ success \in Seq(Items) /\ ToSet(success) \subseteq OwnItems
      /\ (success # <<>> => success[1] \in Items \cap OwnItems)
  <2>1. success \in Seq(Items) /\ ToSet(success) \subseteq OwnItems
    BY SharedOutcomesAreOwn, KnownElements
  <2> HIDE DEF success
  <2>2. QED
    BY <2>1, ElementsOf
<1> DEFINE phase == FirstOf(ByCode("JobPhase"), <<>>)
           outcome == FirstOf(ByCode("JobOutcome"), ByCode("JobPhase"))
           other == FirstOf(ByCode("JobPhase"), ByCode("JobOutcome"))
<1>2. /\ phase \subseteq IDsOf(OwnItems)
      /\ (~ evidence.shared => outcome \subseteq IDsOf(OwnItems) /\ other \subseteq IDsOf(OwnItems))
  <2>1. /\ ByCode("JobPhase") \in Seq(Items) /\ ByCode("JobOutcome") \in Seq(Items) /\ <<>> \in Seq(Items)
        /\ ToSet(ByCode("JobPhase")) \subseteq OwnItems /\ ToSet(<<>>) = {}
        /\ ToSet(ByCode("JobOutcome")) \subseteq Items
        /\ (~ evidence.shared => OwnItems = Items)
    BY ByCodeElements, JobFacts, SoundNone DEF HistoricalRun
  <2>2. /\ phase \subseteq IDsOf(ToSet(ByCode("JobPhase")) \cup ToSet(<<>>))
        /\ outcome \subseteq IDsOf(ToSet(ByCode("JobOutcome")) \cup ToSet(ByCode("JobPhase")))
        /\ other \subseteq IDsOf(ToSet(ByCode("JobPhase")) \cup ToSet(ByCode("JobOutcome")))
    BY <2>1, FirstOfElements
  <2>3. QED
    BY <2>1, <2>2 DEF IDsOf
<1>3. c.code \in {"core.no_target_failure", "core.insufficient_structured_evidence"}
      /\ c.priority \in {98, 40, 35} /\ c.score \in {98, 35}
      /\ DOMAIN c = {"priority", "score", "code", "support", "analyzer"}
      /\ \/ c.support = phase
         \/ success # <<>> /\ c.support = {success[1].id}
         \/ ~ evidence.shared /\ c.support \in {outcome, other}
  BY DEF StateCandidate, Candidate, Filtered, ToSet
<1> HIDE DEF phase, outcome, other, success, c
<1>4. c.support \subseteq IDsOf(OwnItems)
  <2>1. success # <<>> => {success[1].id} \subseteq IDsOf(OwnItems)
    BY <1>1 DEF IDsOf
  <2>2. QED
    BY <1>2, <1>3, <2>1
<1>5. c.support \subseteq IDsOf(Items)
  BY <1>4 DEF IDsOf, OwnItems
<1>6. c.code \in CoreCodes /\ c.priority \in 0 .. 100 /\ c.score \in 0 .. 100
  BY <1>3 DEF CoreCodes
<1>7. SoundCandidate(c)
  BY <1>3, <1>4, <1>5, <1>6, FactsAreSound
<1>8. QED
  BY <1>7 DEF c

-----------------------------------------------------------------------------
(* The findings are the candidates kept, in their order.                   *)

FindingOf(n, c) ==
  [id |-> <<n, c.code>>, code |-> c.code, score |-> c.score, support |-> c.support, analyzer |-> c.analyzer]

(* A finding is a ranked candidate under the number of its place.          *)
LEMMA FindingsElements ==
  ASSUME NEW cs, Sound(cs)
  PROVE  /\ Ranked(cs) \in Seq(ToSet(cs)) /\ ToSet(Ranked(cs)) = UniqueCandidates(cs)
         /\ \A n, m \in DOMAIN Ranked(cs) : n < m => Ahead(Ranked(cs)[n], Ranked(cs)[m])
         /\ (cs # <<>> => Ranked(cs) # <<>> /\ Findings(cs) # <<>>)
         /\ DOMAIN Findings(cs) = DOMAIN Ranked(cs)
         /\ Findings(cs) \in Seq(ToSet(Findings(cs)))
         /\ \A n \in DOMAIN Findings(cs) :
              Findings(cs)[n] = FindingOf(n, Ranked(cs)[n]) /\ Ranked(cs)[n] \in ToSet(cs)
<1> DEFINE r == Ranked(cs)
           f == Findings(cs)
<1>1. cs \in Seq(ToSet(cs)) /\ \A c \in ToSet(cs) : Rankable(c)
  BY DEF Sound, SoundCandidate, Weighed
<1>2. /\ r \in Seq(ToSet(cs)) /\ ToSet(r) = UniqueCandidates(cs)
      /\ \A n, m \in DOMAIN r : n < m => Ahead(r[n], r[m])
      /\ (cs # <<>> => r # <<>>)
  BY <1>1, RankedElements
<1>3. f = [n \in DOMAIN r |-> FindingOf(n, r[n])]
  BY DEF Findings, FindingOf
<1> HIDE DEF r, f
<1>4. Len(r) \in Nat /\ DOMAIN r = 1 .. Len(r) /\ DOMAIN f = DOMAIN r
  BY <1>2, <1>3
<1>5. \A n \in DOMAIN f : f[n] = FindingOf(n, r[n]) /\ r[n] \in ToSet(cs)
  BY <1>2, <1>3, <1>4
<1>6. f \in Seq(ToSet(f))
  BY <1>3, <1>4 DEF ToSet
<1>7. cs # <<>> => f # <<>>
  BY <1>2, <1>4
<1>8. QED
  BY <1>2, <1>4, <1>5, <1>6, <1>7 DEF r, f

(* Every candidate is among the findings or gives way to a better one.     *)
LEMMA BestIsFound ==
  ASSUME NEW cs, Sound(cs), NEW c \in ToSet(cs)
  PROVE  \E n \in DOMAIN Findings(cs) :
           /\ Findings(cs)[n].code = c.code
           /\ Ranked(cs)[n].code = c.code /\ Ranked(cs)[n].priority >= c.priority
<1>1. cs \in Seq(ToSet(cs)) /\ \A d \in ToSet(cs) : Rankable(d)
  BY DEF Sound, SoundCandidate, Weighed
<1>2. PICK b \in UniqueCandidates(cs) : b.code = c.code /\ b.priority >= c.priority
  BY <1>1, BestIsKept
<1>3. PICK n \in DOMAIN Ranked(cs) : Ranked(cs)[n] = b
  <2>1. ToSet(Ranked(cs)) = UniqueCandidates(cs)
    BY FindingsElements
  <2>2. QED
    BY <2>1 DEF ToSet
<1>4. Findings(cs)[n].code = Ranked(cs)[n].code /\ n \in DOMAIN Findings(cs)
  BY FindingsElements DEF FindingOf
<1>5. QED
  BY <1>2, <1>3, <1>4

(* No code is lost when candidates become findings.                        *)
LEMMA CodesAreKept ==
  ASSUME NEW cs, Sound(cs)
  PROVE  Codes(cs) = Codes(Findings(cs))
<1>1. ASSUME NEW n \in DOMAIN Findings(cs)
      PROVE  Findings(cs)[n].code \in Codes(cs)
  <2>1. Findings(cs)[n].code = Ranked(cs)[n].code /\ Ranked(cs)[n] \in ToSet(cs)
    BY FindingsElements DEF FindingOf
  <2>2. QED
    BY <2>1 DEF Codes
<1>2. ASSUME NEW c \in ToSet(cs)
      PROVE  c.code \in Codes(Findings(cs))
  BY BestIsFound DEF Codes, ToSet
<1>3. QED
  BY <1>1, <1>2 DEF Codes, ToSet

(* What weighs more than every message leads.                              *)
LEMMA FactsLead ==
  ASSUME NEW cs, Sound(cs), NEW c \in ToSet(cs), c.priority > 86
  PROVE  Findings(cs)[1].code \notin TargetCodes
<1> DEFINE r == Ranked(cs)
<1>1. PICK n \in DOMAIN Findings(cs) : r[n].priority >= c.priority
  BY BestIsFound
<1>2. /\ r \in Seq(ToSet(cs)) /\ DOMAIN Findings(cs) = DOMAIN r
      /\ \A i, j \in DOMAIN r : i < j => Ahead(r[i], r[j])
      /\ \A i \in DOMAIN r : Findings(cs)[i].code = r[i].code /\ r[i] \in ToSet(cs)
  BY FindingsElements DEF FindingOf
<1> HIDE DEF r
<1>3. n \in DOMAIN r /\ 1 \in DOMAIN r /\ (n = 1 \/ 1 < n)
  BY <1>1, <1>2
<1>4. \A i \in DOMAIN r : r[i].priority \in Nat /\ Weighed(r[i])
  BY <1>2 DEF Sound, SoundCandidate, Weighed, Rankable
<1>5. c.priority \in Nat
  BY DEF Sound, SoundCandidate, Weighed, Rankable
<1>6. r[1].priority >= r[n].priority
  BY <1>2, <1>3, <1>4 DEF Ahead
<1>7. r[1].priority > 86
  BY <1>1, <1>3, <1>4, <1>5, <1>6
<1>8. QED
  BY <1>2, <1>3, <1>4, <1>7 DEF Weighed

(* The finding of a code is the best candidate of the code.                *)
LEMMA FindingIsBest ==
  ASSUME NEW cs, Sound(cs), NEW c \in ToSet(cs), NEW n \in DOMAIN Findings(cs), Findings(cs)[n].code = c.code
  PROVE  /\ Ranked(cs)[n].code = c.code /\ Ranked(cs)[n].priority >= c.priority
         /\ SoundCandidate(Ranked(cs)[n]) /\ c.priority \in Nat /\ Ranked(cs)[n].priority \in Nat
<1> DEFINE r == Ranked(cs)
<1>1. /\ ToSet(r) = UniqueCandidates(cs) /\ DOMAIN Findings(cs) = DOMAIN r
      /\ Findings(cs)[n].code = r[n].code /\ r[n] \in ToSet(cs)
  BY FindingsElements DEF FindingOf
<1>2. cs \in Seq(ToSet(cs)) /\ \A b \in ToSet(cs) : Rankable(b)
  BY DEF Sound, SoundCandidate, Weighed
<1>3. /\ \A a, b \in UniqueCandidates(cs) : a.code = b.code => a = b
      /\ \E b \in UniqueCandidates(cs) : b.code = c.code /\ b.priority >= c.priority
  BY <1>2, BestIsKept
<1> HIDE DEF r
<1>4. r[n] \in UniqueCandidates(cs)
  BY <1>1 DEF ToSet
<1>5. r[n].code = c.code /\ r[n].priority >= c.priority
  BY <1>1, <1>3, <1>4
<1>6. SoundCandidate(r[n]) /\ c.priority \in Nat /\ r[n].priority \in Nat
  BY <1>1, <1>2 DEF Sound, Rankable
<1>7. QED
  BY <1>5, <1>6 DEF r

-----------------------------------------------------------------------------
(* The diagnosis.                                                          *)

ClassFound(item, cs) ==
  LET rule == CoreFailureCandidate(item.value, {}) IN
  item.ok /\ item.value # "" => \E c \in ToSet(cs) : c.code = rule.code /\ c.priority = rule.priority

ClassesIn(n, cs) == \A k \in DOMAIN Classes : k <= n => ClassFound(Classes[k], cs)

ArtifactFound(artifact, cs) ==
  PrimaryArtifact(artifact.id) => ToSet(ArtifactCandidate(artifact)) \subseteq ToSet(cs)

ArtifactsIn(n, cs) == \A k \in DOMAIN evidence.artifacts : k <= n => ArtifactFound(evidence.artifacts[k], cs)

RangesIn(cs) == ToSet(EnrichmentCandidates) \subseteq ToSet(cs)

Complete(cs) ==
  /\ ClassesIn(Len(Classes), cs)
  /\ ArtifactsIn(Len(evidence.artifacts), cs)
  /\ RangesIn(cs)

(* What is derived from the evidence stays while the evidence does.        *)
LEMMA SameView ==
  ASSUME evidence' = evidence
  PROVE  /\ Classes' = Classes
         /\ \A id : PrimaryArtifact(id)' <=> PrimaryArtifact(id)
         /\ \A a : ArtifactCandidate(a)' = ArtifactCandidate(a)
         /\ EnrichmentCandidates' = EnrichmentCandidates
         /\ \A c : SoundCandidate(c)' <=> SoundCandidate(c)
<1>1. Classes' = Classes
  BY DEF Classes, PrimaryItems, SharedPrimaryItems, OfSelectedRun, ByCode, Filtered
<1>2. \A id : PrimaryArtifact(id)' <=> PrimaryArtifact(id)
  BY DEF PrimaryArtifact
<1>3. \A a : ArtifactCandidate(a)' = ArtifactCandidate(a)
  <2>1. Enriched("python")' <=> Enriched("python")
    BY DEF Enriched
  <2>2. QED
    BY <2>1 DEF ArtifactCandidate, Filtered
<1>4. \A i : DiagnosticFormat(i)' = DiagnosticFormat(i)
  BY DEF DiagnosticFormat
<1>5. \A i : CausalPriority(i)' = CausalPriority(i)
  BY DEF CausalPriority
<1>6. EnrichmentCandidates' = EnrichmentCandidates
  BY <1>2, <1>4, <1>5 DEF EnrichmentCandidates, Filtered
<1>7. CollectedMessages' = CollectedMessages /\ LastMessages' = LastMessages
  <2>1. CollectedMessages' = CollectedMessages
    BY <1>2, <1>4 DEF CollectedMessages
  <2>2. QED
    BY <2>1 DEF LastMessages
<1>8. EvidenceIDs' = EvidenceIDs
  BY DEF EvidenceIDs, IDsOf, Items
<1>9. \A c : Weighed(c)' <=> Weighed(c)
  BY <1>4, <1>7 DEF Weighed, Of
<1>10. \A c : OwnSupport(c)' <=> OwnSupport(c)
  BY DEF OwnSupport, HistoricalRun, OfJobOrRun
<1>11. \A c : SoundCandidate(c)' <=> SoundCandidate(c)
  BY <1>8, <1>9, <1>10 DEF SoundCandidate
<1>12. QED
  BY <1>1, <1>2, <1>3, <1>6, <1>11

(* What was found stays found when more is.                                *)
LEMMA FoundStays ==
  ASSUME NEW cs, NEW more, Sound(cs), Sound(more), NEW n \in Nat
  PROVE  /\ Sound(cs \o more)
         /\ ClassesIn(n, cs) => ClassesIn(n, cs \o more)
         /\ ArtifactsIn(n, cs) => ArtifactsIn(n, cs \o more)
         /\ RangesIn(cs) => RangesIn(cs \o more)
         /\ Complete(cs) => Complete(cs \o more)
<1>1. Sound(cs \o more) /\ ToSet(cs) \subseteq ToSet(cs \o more)
  BY SoundJoined
<1>2. \A k \in Nat : ClassesIn(k, cs) => ClassesIn(k, cs \o more)
  BY <1>1 DEF ClassesIn, ClassFound
<1>3. \A k \in Nat : ArtifactsIn(k, cs) => ArtifactsIn(k, cs \o more)
  BY <1>1 DEF ArtifactsIn, ArtifactFound
<1>4. RangesIn(cs) => RangesIn(cs \o more)
  BY <1>1 DEF RangesIn
<1>5. Complete(cs) => Complete(cs \o more)
  BY <1>1, <1>4 DEF Complete, ClassesIn, ClassFound, ArtifactsIn, ArtifactFound
<1>6. QED
  BY <1>1, <1>2, <1>3, <1>4, <1>5

(* The report of Report, before it is checked.                             *)
Whole(cs) ==
  LET draft == Draft(Findings(cs), Ranked(cs)[1]) IN
  Normalized(IF evidence.shared THEN ApplySharedReport(draft, Ranked(cs)[1].code) ELSE draft)

Fields == {"schema", "shared", "primary", "subject", "findings", "actions", "retry", "citations",
           "missing", "warnings", "analyzers", "fingerprint"}

LEMMA DraftFields ==
  ASSUME NEW findings, NEW primary, NEW d, d = Draft(findings, primary)
  PROVE  /\ DOMAIN d = Fields
         /\ d.schema = LocalSchema /\ d.shared = FALSE /\ d.primary = findings[1].id
         /\ d.subject = [phase |-> evidence.phase, outcome |-> evidence.outcome, runs |-> evidence.runs]
         /\ d.findings = findings /\ d.actions = ActionsFor(primary) /\ d.retry = RetryFor(primary)
         /\ d.citations = BuildCitations(ReferencedEvidence(findings, ActionsFor(primary), RetryFor(primary)))
         /\ d.missing = Missing(primary) /\ d.warnings = Warnings
         /\ d.fingerprint = CoreFailureFingerprint
BY DEF Draft, Fields

(* What is removed from a report that is shared.                           *)
LEMMA SharedFields ==
  ASSUME NEW r, DOMAIN r = Fields, DOMAIN r.retry = {"verdict", "policy", "score", "reasons", "earliest", "support"},
         NEW code, NEW w, w = ApplySharedReport(r, code)
  PROVE  /\ DOMAIN w = Fields
         /\ w.schema = SharedSchema /\ w.shared = TRUE /\ w.primary = r.primary
         /\ w.subject = r.subject /\ w.findings = r.findings /\ w.citations = r.citations
         /\ w.missing = r.missing /\ w.warnings = r.warnings /\ w.fingerprint = r.fingerprint
         /\ w.actions = [n \in DOMAIN r.actions |->
                           [r.actions[n] EXCEPT !.execution = "none", !.command = None, !.run = 0]]
         /\ w.retry.policy = "unknown" /\ w.retry.score = r.retry.score /\ w.retry.support = r.retry.support
         /\ w.retry.verdict \in {"not_applicable", "unknown", r.retry.verdict}
BY DEF ApplySharedReport, Fields

(* Normalizing a report only orders its analyzers.                         *)
LEMMA NormalizedFields ==
  ASSUME NEW r, DOMAIN r = Fields, NEW w, w = Normalized(r)
  PROVE  /\ DOMAIN w = Fields /\ \A f \in Fields \ {"analyzers"} : w[f] = r[f]
BY DEF Normalized, Fields

(* What the report of a run of the analyzers says, by where it comes       *)
(* from.                                                                   *)
LEMMA WholeFields ==
  ASSUME NEW cs, NEW f, f = Findings(cs), NEW primary, primary = Ranked(cs)[1], NEW w, w = Whole(cs)
  PROVE  /\ w.primary = f[1].id /\ w.findings = f
         /\ w.subject = [phase |-> evidence.phase, outcome |-> evidence.outcome, runs |-> evidence.runs]
         /\ w.citations = BuildCitations(ReferencedEvidence(f, ActionsFor(primary), RetryFor(primary)))
         /\ w.missing = Missing(primary) /\ w.warnings = Warnings /\ w.fingerprint = CoreFailureFingerprint
         /\ w.retry.support = RetryFor(primary).support /\ w.retry.score = RetryFor(primary).score
         /\ (~ evidence.shared =>
               /\ w.schema = LocalSchema /\ w.shared = FALSE
               /\ w.actions = ActionsFor(primary) /\ w.retry = RetryFor(primary))
         /\ (evidence.shared =>
               /\ w.schema = SharedSchema /\ w.shared = TRUE
               /\ w.actions = [n \in DOMAIN ActionsFor(primary) |->
                                 [ActionsFor(primary)[n] EXCEPT !.execution = "none", !.command = None, !.run = 0]]
               /\ w.retry.policy = "unknown"
               /\ w.retry.verdict \in {"not_applicable", "unknown", RetryFor(primary).verdict})
<1> DEFINE d == Draft(f, primary)
           s == ApplySharedReport(d, primary.code)
           r == IF evidence.shared THEN s ELSE d
<1>1. w = Normalized(r)
  BY DEF Whole
<1>0. d = Draft(f, primary)
  OBVIOUS
<1> HIDE DEF d
<1>2. /\ DOMAIN d = Fields
      /\ d.schema = LocalSchema /\ d.shared = FALSE /\ d.primary = f[1].id
      /\ d.subject = [phase |-> evidence.phase, outcome |-> evidence.outcome, runs |-> evidence.runs]
      /\ d.findings = f /\ d.actions = ActionsFor(primary) /\ d.retry = RetryFor(primary)
      /\ d.citations = BuildCitations(ReferencedEvidence(f, ActionsFor(primary), RetryFor(primary)))
      /\ d.missing = Missing(primary) /\ d.warnings = Warnings
      /\ d.fingerprint = CoreFailureFingerprint
  BY <1>0 DEF Draft, Fields
<1>3. DOMAIN d.retry = {"verdict", "policy", "score", "reasons", "earliest", "support"}
  <2>1. DOMAIN RetryFor(primary) = {"verdict", "policy", "score", "reasons", "earliest", "support"}
    BY DEF RetryFor
  <2>2. QED
    BY <1>2, <2>1
<1>4. /\ DOMAIN s = Fields
      /\ s.schema = SharedSchema /\ s.shared = TRUE /\ s.primary = d.primary
      /\ s.subject = d.subject /\ s.findings = d.findings /\ s.citations = d.citations
      /\ s.missing = d.missing /\ s.warnings = d.warnings /\ s.fingerprint = d.fingerprint
      /\ s.actions = [n \in DOMAIN d.actions |->
                        [d.actions[n] EXCEPT !.execution = "none", !.command = None, !.run = 0]]
      /\ s.retry.policy = "unknown" /\ s.retry.score = d.retry.score /\ s.retry.support = d.retry.support
      /\ s.retry.verdict \in {"not_applicable", "unknown", d.retry.verdict}
  BY <1>2, <1>3, SharedFields
<1> HIDE DEF s
<1>5. DOMAIN r = Fields
  BY <1>2, <1>4
<1> HIDE DEF r
<1>6. \A x \in Fields \ {"analyzers"} : w[x] = r[x]
  BY <1>1, <1>5, NormalizedFields
<1>7. /\ w.primary = r.primary /\ w.findings = r.findings /\ w.subject = r.subject
      /\ w.citations = r.citations /\ w.missing = r.missing /\ w.warnings = r.warnings
      /\ w.fingerprint = r.fingerprint /\ w.retry = r.retry /\ w.schema = r.schema
      /\ w.shared = r.shared /\ w.actions = r.actions
  BY <1>6 DEF Fields
<1>8. CASE evidence.shared
  <2>1. r = s
    BY <1>8 DEF r
  <2>2. QED
    BY <1>2, <1>4, <1>7, <1>8, <2>1
<1>9. CASE ~ evidence.shared
  <2>1. r = d
    BY <1>9 DEF r
  <2>2. QED
    BY <1>2, <1>7, <1>9, <2>1
<1>10. QED
  BY <1>8, <1>9

-----------------------------------------------------------------------------
(* What a report of sound and complete candidates says.                    *)

Judged(cs) ==
  /\ ValidFailureEvidence(evidence)
  /\ ~ (evidence.shared /\ evidence.source # "none")
  /\ Sound(cs)

(* When the core recorded an exact failure class, no message leads.        *)
LEMMA TrustedFactsLead ==
  ASSUME WellFormed(evidence), NEW cs, Sound(cs), Complete(cs),
         NEW i \in ToSet(Decoded(Classes)), i.value \in ExactClasses
  PROVE  Findings(cs)[1].code \notin TargetCodes
<1> DEFINE rule == CoreFailureCandidate(i.value, {})
<1>1. Classes \in Seq(Items)
  BY ClassesAreLocal
<1>2. i \in ToSet(Classes) /\ i.ok
  BY <1>1, DecodedElements
<1>3. PICK k \in DOMAIN Classes : Classes[k] = i
  BY <1>2 DEF ToSet
<1>4. k <= Len(Classes)
  BY <1>1, <1>3
<1>5. i.value # ""
  BY DEF ExactClasses
<1>6. ClassFound(i, cs)
  BY <1>3, <1>4 DEF Complete, ClassesIn
<1>7. PICK c \in ToSet(cs) : c.priority = rule.priority
  BY <1>2, <1>5, <1>6 DEF ClassFound
<1>8. rule.priority > 86
  BY CoreRules
<1>9. QED
  BY <1>7, <1>8, FactsLead

(* Every code the evidence calls for is among the findings.                *)
LEMMA NothingIsMissing ==
  ASSUME WellFormed(evidence), NEW cs, Sound(cs), Complete(cs)
  PROVE  WholeCodes \subseteq Codes(Findings(cs))
<1>1. ASSUME NEW a \in ToSet(evidence.artifacts), PrimaryArtifact(a.id)
      PROVE  Codes(ArtifactCandidate(a)) \subseteq Codes(cs)
  <2>1. evidence.artifacts \in Seq(ToSet(evidence.artifacts))
    BY DEF WellFormed
  <2>2. PICK k \in DOMAIN evidence.artifacts : evidence.artifacts[k] = a
    BY DEF ToSet
  <2>3. k <= Len(evidence.artifacts)
    BY <2>1, <2>2
  <2>4. ToSet(ArtifactCandidate(a)) \subseteq ToSet(cs)
    BY <1>1, <2>2, <2>3 DEF Complete, ArtifactsIn, ArtifactFound
  <2>5. QED
    BY <2>4 DEF Codes
<1>2. Codes(EnrichmentCandidates) \subseteq Codes(cs)
  BY DEF Complete, RangesIn, Codes
<1>3. ASSUME NEW i \in ToSet(Decoded(Classes)), i.value # ""
      PROVE  CoreFailureCandidate(i.value, {}).code \in Codes(cs)
  <2>1. Classes \in Seq(Items)
    BY ClassesAreLocal
  <2>2. i \in ToSet(Classes) /\ i.ok
    BY <2>1, DecodedElements
  <2>3. PICK k \in DOMAIN Classes : Classes[k] = i
    BY <2>2 DEF ToSet
  <2>4. k <= Len(Classes)
    BY <2>1, <2>3
  <2>5. ClassFound(i, cs)
    BY <2>3, <2>4 DEF Complete, ClassesIn
  <2>6. QED
    BY <1>3, <2>2, <2>5 DEF ClassFound, Codes
<1>4. WholeCodes \subseteq Codes(cs)
  BY <1>1, <1>2, <1>3 DEF WholeCodes
<1>5. QED
  BY <1>4, CodesAreKept

(* A shared report of a job that ran before rests on its own run.          *)
LEMMA NothingIsBorrowed ==
  ASSUME NEW cs, Sound(cs), HistoricalRun, NEW f \in ToSet(Findings(cs)),
         f.code \notin {"secondary.notification_failed", "secondary.same_fingerprint_history"}
  PROVE  \A id \in f.support : OfJobOrRun(id, Last(evidence.runs)) /\ id[1] # "JobOutcome"
<1>1. PICK n \in DOMAIN Findings(cs) : Findings(cs)[n] = f
  BY DEF ToSet
<1>2. Ranked(cs)[n] \in ToSet(cs) /\ f.code = Ranked(cs)[n].code /\ f.support = Ranked(cs)[n].support
  BY <1>1, FindingsElements DEF FindingOf
<1>3. QED
  BY <1>2 DEF Sound, SoundCandidate, OwnSupport, Exempt

(* A collected message is a candidate.                                     *)
LEMMA MessageIsCandidate ==
  ASSUME WellFormed(evidence), ValidFailureEvidence(evidence), NEW cs, Complete(cs), NEW i \in CollectedMessages
  PROVE  \E c \in ToSet(cs) : /\ c.code = DiagnosticFormat(i) /\ c.code \in TargetDiagnosticRules
                             /\ c.priority >= 84 /\ (i \in LastMessages => c.priority = 86)
<1> DEFINE c == RangeCandidate(i)
<1>1. /\ i \in Used /\ i.code = "causal" /\ DiagnosticFormat(i) \in TargetDiagnosticRules
  BY DEF CollectedMessages, Used
<1>2. c \in ToSet(cs)
  BY <1>1, EnrichmentCandidatesAreSound DEF Complete, RangesIn
<1>3. c.code = DiagnosticFormat(i) /\ c.priority = CausalPriority(i)
  BY <1>1 DEF RangeCandidate, Candidate
<1> HIDE DEF c
<1>4. c.priority \in {84, 86} /\ (i \in LastMessages => c.priority = 86)
  BY <1>3, LastWord
<1>5. QED
  BY <1>1, <1>2, <1>3, <1>4

(* Its diagnosis is a finding, which cites one message of that diagnosis:  *)
(* the last of a log, if one is.                                           *)
LEMMA MessageIsCited ==
  ASSUME WellFormed(evidence), ValidFailureEvidence(evidence), NEW cs, Sound(cs), Complete(cs),
         NEW i \in CollectedMessages
  PROVE  \E n \in DOMAIN Findings(cs) :
           /\ Findings(cs)[n].code = DiagnosticFormat(i)
           /\ Of(Findings(cs)[n], CollectedMessages)
           /\ i \in LastMessages => Of(Findings(cs)[n], LastMessages)
<1>1. PICK c \in ToSet(cs) : /\ c.code = DiagnosticFormat(i) /\ c.code \in TargetDiagnosticRules
                             /\ c.priority >= 84 /\ (i \in LastMessages => c.priority = 86)
  BY MessageIsCandidate
<1>2. PICK n \in DOMAIN Findings(cs) : Findings(cs)[n].code = c.code
  BY BestIsFound
<1> DEFINE b == Ranked(cs)[n]
<1>3. /\ b.code = c.code /\ b.priority >= c.priority /\ Weighed(b)
      /\ c.priority \in Nat /\ b.priority \in Nat
  BY <1>2, FindingIsBest DEF SoundCandidate
<1>4. Findings(cs)[n].code = b.code /\ Findings(cs)[n].support = b.support
  BY FindingsElements DEF FindingOf
<1> HIDE DEF b
<1>5. Of(b, CollectedMessages) /\ (i \in LastMessages => Of(b, LastMessages))
  BY <1>1, <1>3 DEF Weighed
<1>6. QED
  BY <1>1, <1>2, <1>4, <1>5 DEF Of

(* The diagnosis of a last message is ahead of one that no last message    *)
(* has.                                                                    *)
LEMMA LastMessagesAhead ==
  ASSUME WellFormed(evidence), ValidFailureEvidence(evidence), NEW cs, Sound(cs), Complete(cs),
         NEW n \in DOMAIN Findings(cs), Findings(cs)[n].code \in Diagnosed(LastMessages),
         NEW m \in DOMAIN Findings(cs),
         Findings(cs)[m].code \in Diagnosed(CollectedMessages) \ Diagnosed(LastMessages)
  PROVE  n < m
<1> DEFINE r == Ranked(cs)
<1>1. PICK i \in LastMessages : DiagnosticFormat(i) = Findings(cs)[n].code
  BY DEF Diagnosed
<1>2. PICK j \in CollectedMessages : DiagnosticFormat(j) = Findings(cs)[m].code
  BY DEF Diagnosed
<1>3. i \in CollectedMessages
  BY <1>1 DEF LastMessages
<1>4. PICK c \in ToSet(cs) : c.code = Findings(cs)[n].code /\ c.priority = 86
  BY <1>1, <1>3, MessageIsCandidate
<1>5. PICK d \in ToSet(cs) : d.code = Findings(cs)[m].code /\ d.code \in TargetDiagnosticRules
  BY <1>2, MessageIsCandidate
<1>6. /\ r[n].priority >= 86 /\ r[n].priority \in Nat
      /\ r[m].code = d.code /\ r[m].priority \in Nat /\ Weighed(r[m])
  BY <1>4, <1>5, FindingIsBest DEF SoundCandidate
<1>7. /\ r \in Seq(ToSet(cs)) /\ DOMAIN Findings(cs) = DOMAIN r
      /\ \A k, l \in DOMAIN r : k < l => Ahead(r[k], r[l])
  BY FindingsElements
<1> HIDE DEF r
<1>8. ~ Of(r[m], LastMessages)
  BY <1>5, <1>6 DEF Of, Diagnosed
<1>9. ~ (r[m].priority > 84)
  BY <1>5, <1>6, <1>8 DEF Weighed
<1>10. n \in Nat /\ m \in Nat /\ n \in DOMAIN r /\ m \in DOMAIN r
  BY <1>7
<1>11. m < n => Ahead(r[m], r[n])
  BY <1>7, <1>10
<1>12. ~ (m < n) /\ m # n
  BY <1>6, <1>9, <1>11 DEF Ahead
<1>13. QED
  BY <1>10, <1>12

-----------------------------------------------------------------------------
(* The ranges of a log.                                                    *)

Ranged(s) ==
  /\ s.start \in Nat
  /\ s.code \in DOMAIN CodeRank

RangesOf(s) == s \in Seq(ToSet(s)) /\ \A r \in ToSet(s) : Ranged(r)

(* Lists of ranges stay lists of ranges when they are joined, cut or       *)
(* filled up.                                                              *)
LEMMA RangesJoined ==
  ASSUME NEW s, NEW t, RangesOf(s), RangesOf(t)
  PROVE  RangesOf(s \o t)
<1> DEFINE T == ToSet(s) \cup ToSet(t)
<1>1. s \in Seq(T) /\ t \in Seq(T)
  BY DEF RangesOf
<1>2. s \o t \in Seq(T) /\ ToSet(s \o t) = T
  BY <1>1, JoinedElements
<1>3. QED
  BY <1>2 DEF RangesOf

LEMMA RangesAtMost ==
  ASSUME NEW s, RangesOf(s), NEW n \in Int
  PROVE  RangesOf(AtMost(n, s))
<1>1. AtMost(n, s) \in Seq(ToSet(s)) /\ ToSet(AtMost(n, s)) \subseteq ToSet(s)
  BY AtMostElements DEF RangesOf
<1>2. AtMost(n, s) \in Seq(ToSet(AtMost(n, s)))
  BY <1>1, ElementsOf
<1>3. QED
  BY <1>1, <1>2 DEF RangesOf

LEMMA RangesFill ==
  ASSUME NEW s, NEW t, RangesOf(s), RangesOf(t), NEW limit \in Nat
  PROVE  RangesOf(Fill(s, t, limit))
<1>1. Len(s) \in Nat
  BY DEF RangesOf
<1>2. RangesOf(AtMost(limit - Len(s), t))
  BY <1>1, RangesAtMost
<1>3. QED
  BY <1>2, RangesJoined DEF Fill

(* A list made line by line is a list of ranges if every line is one.      *)
LEMMA RangesMade ==
  ASSUME NEW lines \in Seq(Nat), NEW s, s = [n \in DOMAIN lines |-> s[n]],
         \A n \in DOMAIN lines : Ranged(s[n])
  PROVE  RangesOf(s)
<1>1. Len(lines) \in Nat /\ DOMAIN lines = 1 .. Len(lines) /\ s = [n \in 1 .. Len(lines) |-> s[n]]
  OBVIOUS
<1>2. s \in Seq(ToSet(s)) /\ DOMAIN s = DOMAIN lines
  BY <1>1 DEF ToSet
<1>3. QED
  BY <1>2 DEF RangesOf, ToSet

(* The positions of lines are numbers.                                     *)
LEMMA LinesElements ==
  ASSUME NEW log, log \in Seq(ToSet(log))
  PROVE  /\ \A kind : Lines(log, kind) \in Seq(Nat)
         /\ Messages(log) \in Seq(Nat)
<1> DEFINE all == [i \in DOMAIN log |-> i]
<1>1. all \in Seq(Nat)
  BY DEF ToSet
<1>2. ASSUME NEW kind
      PROVE  Lines(log, kind) \in Seq(Nat)
  <2>1. Lines(log, kind) = Kept(all, {x \in {all[k] : k \in DOMAIN all} : log[x].is = kind})
    BY DEF Lines, Filtered
  <2> HIDE DEF all
  <2>2. QED
    BY <1>1, <2>1, KeptSet
<1>3. Messages(log) = Kept(all, {x \in {all[k] : k \in DOMAIN all} : ClassifyDiagnostic(log[x]) # Silent})
  BY DEF Messages, Filtered
<1> HIDE DEF all
<1>4. QED
  BY <1>1, <1>2, <1>3, KeptSet

(* A span is a range.                                                      *)
LEMMA SpanFields ==
  ASSUME NEW start \in Nat, NEW end, NEW code \in DOMAIN CodeRank, NEW format
  PROVE  Ranged(Span(start, end, code, format))
BY DEF Span, Ranged

(* So are the blocks that start at the lines of one kind.                  *)
LEMMA BlocksAreRanges ==
  ASSUME NEW log, NEW lines \in Seq(Nat), NEW code \in DOMAIN CodeRank, NEW format
  PROVE  RangesOf(Blocks(log, lines, code, format))
<1> DEFINE s == Blocks(log, lines, code, format)
<1>1. s = [i \in DOMAIN lines |-> Span(lines[i], BoundedEnd(log, lines[i]), code, format)]
  BY DEF Blocks
<1> HIDE DEF s
<1>2. \A i \in DOMAIN lines : lines[i] \in Nat
  OBVIOUS
<1>3. \A i \in DOMAIN lines : Ranged(s[i])
  BY <1>1, <1>2, SpanFields
<1>4. s = [i \in DOMAIN lines |-> s[i]]
  BY <1>1
<1>5. QED
  BY <1>3, <1>4, RangesMade DEF s

(* The limits of the collection are numbers.                               *)
LEMMA LimitsAreNat ==
  /\ MaximumMessages \in Nat /\ MaximumStructure \in Nat /\ MaximumRanges \in Nat
  /\ MaximumItems \in Nat /\ MaximumLines \in Nat
BY EnrichmentAssumption

(* Every kind of structure is found as ranges.                             *)
LEMMA KindsAreRanges ==
  ASSUME NEW log, log \in Seq(ToSet(log))
  PROVE  /\ RangesOf(PythonTracebacks(log)) /\ RangesOf(GoPanic(log)) /\ RangesOf(JvmException(log))
         /\ RangesOf(PythonSyntaxDiagnostics(log)) /\ RangesOf(CompilerDiagnostics(log))
         /\ RangesOf(CausalMessages(log))
<1>1. {"python", "go_panic", "jvm", "compiler", "causal"} \subseteq DOMAIN CodeRank
  BY DEF CodeRank
<1>2. ASSUME NEW kind, NEW n \in Nat
      PROVE  AtMost(n, Lines(log, kind)) \in Seq(Nat)
  BY LinesElements, AtMostElements
<1>3. RangesOf(PythonTracebacks(log))
  BY <1>1, <1>2, LimitsAreNat, BlocksAreRanges DEF PythonTracebacks
<1>4. RangesOf(GoPanic(log))
  BY <1>1, <1>2, BlocksAreRanges DEF GoPanic
<1>5. RangesOf(JvmException(log))
  <2> DEFINE lines == Lines(log, "exception")
             framed == {i \in {lines[k] : k \in DOMAIN lines} :
                          \E j \in i + 1 .. i + 7 : j \in DOMAIN log /\ log[j].is = "frame"}
  <2>1. JvmException(log) = Blocks(log, AtMost(1, Kept(lines, framed)), "jvm", "jvm_exception")
    BY DEF JvmException, Filtered
  <2> HIDE DEF framed
  <2>2. lines \in Seq(Nat)
    BY LinesElements
  <2> HIDE DEF lines
  <2>3. AtMost(1, Kept(lines, framed)) \in Seq(Nat)
    BY <2>2, KeptSet, AtMostElements
  <2>4. QED
    BY <1>1, <2>1, <2>3, BlocksAreRanges
<1>6. RangesOf(PythonSyntaxDiagnostics(log))
  <2> DEFINE lines == AtMost(MaximumMessages, Lines(log, "syntax"))
             s == PythonSyntaxDiagnostics(log)
  <2>1. s = [n \in DOMAIN lines |->
               Span(IF lines[n] > 3 THEN lines[n] - 3 ELSE 1, lines[n], "compiler", "python_syntax")]
    BY DEF PythonSyntaxDiagnostics
  <2>2. lines \in Seq(Nat)
    BY <1>2, LimitsAreNat
  <2> HIDE DEF lines, s
  <2>3. \A n \in DOMAIN lines : lines[n] \in Nat /\ (IF lines[n] > 3 THEN lines[n] - 3 ELSE 1) \in Nat
    BY <2>2
  <2>4. \A n \in DOMAIN lines : Ranged(s[n])
    BY <1>1, <2>1, <2>3, SpanFields
  <2>5. s = [n \in DOMAIN lines |-> s[n]]
    BY <2>1
  <2>6. QED
    BY <2>2, <2>4, <2>5, RangesMade DEF s
<1>7. RangesOf(CompilerDiagnostics(log))
  <2> DEFINE lines == AtMost(MaximumMessages, Lines(log, "compiler"))
             s == CompilerDiagnostics(log)
  <2>1. s = [n \in DOMAIN lines |-> Span(lines[n], lines[n], "compiler", "compiler_diagnostic")]
    BY DEF CompilerDiagnostics
  <2>2. lines \in Seq(Nat)
    BY <1>2, LimitsAreNat
  <2> HIDE DEF lines, s
  <2>3. \A n \in DOMAIN lines : lines[n] \in Nat
    BY <2>2
  <2>4. \A n \in DOMAIN lines : Ranged(s[n])
    BY <1>1, <2>1, <2>3, SpanFields
  <2>5. s = [n \in DOMAIN lines |-> s[n]]
    BY <2>1
  <2>6. QED
    BY <2>2, <2>4, <2>5, RangesMade DEF s
<1>8. RangesOf(CausalMessages(log))
  <2> DEFINE lines == AtMost(MaximumMessages, Messages(log))
             s == CausalMessages(log)
  <2>1. s = [n \in DOMAIN lines |-> Span(lines[n], lines[n], "causal", ClassifyDiagnostic(log[lines[n]]))]
    BY DEF CausalMessages
  <2>2. lines \in Seq(Nat)
    BY LinesElements, LimitsAreNat, AtMostElements
  <2> HIDE DEF lines, s
  <2>3. \A n \in DOMAIN lines : lines[n] \in Nat
    BY <2>2
  <2>4. \A n \in DOMAIN lines : Ranged(s[n])
    BY <1>1, <2>1, <2>3, SpanFields
  <2>5. s = [n \in DOMAIN lines |-> s[n]]
    BY <2>1
  <2>6. QED
    BY <2>2, <2>4, <2>5, RangesMade DEF s
<1>9. QED
  BY <1>3, <1>4, <1>5, <1>6, <1>7, <1>8

(* The ranges found stay ranges, listed by place and code: every place of  *)
(* the list is taken.                                                      *)
LEMMA StructuredRangesElements ==
  ASSUME NEW data, data \in Seq(ToSet(data))
  PROVE  RangesOf(StructuredRanges(data))
<1> DEFINE log == SplitLines(data)
           blocks == PythonTracebacks(log) \o GoPanic(log) \o JvmException(log) \o PythonSyntaxDiagnostics(log)
           found == Fill(Fill(blocks, CompilerDiagnostics(log), MaximumStructure),
                         CausalMessages(log), MaximumRanges)
           before(i, j) == \/ found[i].start < found[j].start
                           \/ /\ found[i].start = found[j].start
                              /\ \/ CodeRank[found[i].code] < CodeRank[found[j].code]
                                 \/ found[i].code = found[j].code /\ i < j
           S == DOMAIN found
           R == {p \in S \X S : before(p[1], p[2])}
           place(i) == Cardinality({j \in S : before(j, i)}) + 1
           r == StructuredRanges(data)
<1>0. log \in Seq(ToSet(log))
  <2>1. 4 * MaximumLines \in Int
    BY LimitsAreNat
  <2>2. log \in Seq(ToSet(data))
    BY <2>1, AtMostElements DEF SplitLines
  <2>3. QED
    BY <2>2, ElementsOf
<1> HIDE DEF log
<1>1. RangesOf(found)
  <2>1. RangesOf(blocks)
    BY <1>0, KindsAreRanges, RangesJoined
  <2> HIDE DEF blocks
  <2>2. QED
    BY <1>0, <2>1, KindsAreRanges, LimitsAreNat, RangesFill
<1>2. r = [n \in DOMAIN found |-> found[CHOOSE i \in DOMAIN found : place(i) = n]]
  BY DEF StructuredRanges, log
<1> HIDE DEF found, r
<1>3. Len(found) \in Nat /\ S = 1 .. Len(found) /\ \A i \in S : found[i] \in ToSet(found)
  BY <1>1 DEF RangesOf, ToSet
<1>4. \A i \in S : found[i].start \in Nat /\ found[i].code \in DOMAIN CodeRank /\ i \in Nat
  BY <1>1, <1>3 DEF RangesOf, Ranged
<1>5. /\ \A c \in DOMAIN CodeRank : CodeRank[c] \in Nat
      /\ \A c, d \in DOMAIN CodeRank : CodeRank[c] = CodeRank[d] => c = d
  BY DEF CodeRank
<1>6. Ordered(R, S)
  <2>1. \A a, b \in S : <<a, b>> \in R <=> before(a, b)
    OBVIOUS
  <2>2. \A a, b \in S : before(a, b) => ~ before(b, a)
    BY <1>4, <1>5
  <2>3. \A a, b \in S : a # b => before(a, b) \/ before(b, a)
    BY <1>4, <1>5
  <2>4. \A a, b, c \in S : before(a, b) /\ before(b, c) => before(a, c)
    BY <1>4, <1>5
  <2> HIDE DEF R, S
  <2>5. QED
    BY <2>1, <2>2, <2>3, <2>4 DEF Ordered
<1>7. IsFiniteSet(S) /\ Cardinality(S) = Len(found)
  <2>1. Len(found) \in Nat /\ S = 1 .. Len(found)
    BY <1>3
  <2> HIDE DEF S
  <2>2. ASSUME NEW n \in Nat
        PROVE  IsFiniteSet(1 .. n) /\ Cardinality(1 .. n) = n
    BY FS_Interval
  <2>3. QED
    BY <2>1, <2>2
<1>8. \A i \in S : place(i) = PlaceIn(R, S, i)
  <2>1. \A i \in S : {j \in S : before(j, i)} = Preceding(R, S, i)
    BY DEF Preceding
  <2>2. QED
    BY <2>1 DEF PlaceIn
<1> HIDE DEF R, before
<1>9. \A n \in 1 .. Cardinality(S) : \E c \in S : PlaceIn(R, S, c) = n
  BY <1>6, <1>7, PlacesAreTaken
<1> DEFINE nth(n) == CHOOSE i \in DOMAIN found : place(i) = n
<1>10. \A n \in S : nth(n) \in S
  <2>1. TAKE n \in S
  <2>2. \E i \in S : place(i) = n
    BY <1>3, <1>7, <1>8, <1>9
  <2>3. QED
    BY <2>2
<1>11. \A n \in S : r[n] = found[nth(n)]
  BY <1>2
<1>12. DOMAIN r = S /\ r = [n \in S |-> r[n]]
  BY <1>2
<1> HIDE DEF nth, place
<1>13. \A n \in S : r[n] \in ToSet(found)
  BY <1>3, <1>10, <1>11
<1>14. RangesOf(r)
  <2>1. r \in Seq(ToSet(found))
    BY <1>3, <1>12, <1>13
  <2>2. ToSet(r) \subseteq ToSet(found) /\ r \in Seq(ToSet(r))
    BY <2>1, ElementsOf
  <2>3. QED
    BY <1>1, <2>2 DEF RangesOf
<1>15. QED
  BY <1>14 DEF r

(* What one log adds: ranges of that log.                                  *)
LEMMA WithArtifactElements ==
  ASSUME NEW items, items \in Seq(ToSet(items)), \A i \in ToSet(items) : WellFormedEnrichment(i),
         NEW a, a.log \in Seq(ToSet(a.log))
  PROVE  LET w == WithArtifact(items, a) IN
         w \in Seq(ToSet(w)) /\ \A i \in ToSet(w) : WellFormedEnrichment(i)
<1> DEFINE w == WithArtifact(items, a)
           found == StructuredRanges(a.log)
           ranges == AtMost(MaximumItems - Len(items), found)
           more == [n \in DOMAIN ranges |->
                      [id |-> <<"analysis", Len(items) + n, 0>>, artifact |-> a.id,
                       code |-> ranges[n].code, format |-> ranges[n].format,
                       start |-> ranges[n].start, end |-> ranges[n].end]]
<1>1. w = items \o more
  BY DEF WithArtifact
<1>2. RangesOf(found)
  BY StructuredRangesElements
<1> HIDE DEF found
<1>3. Len(items) \in Nat /\ MaximumItems - Len(items) \in Int
  BY LimitsAreNat
<1>4. RangesOf(ranges)
  BY <1>2, <1>3, RangesAtMost
<1> HIDE DEF ranges
<1>5. Len(ranges) \in Nat /\ DOMAIN ranges = 1 .. Len(ranges) /\ \A n \in DOMAIN ranges : Ranged(ranges[n])
  BY <1>4 DEF RangesOf, ToSet
<1>6. \A n \in DOMAIN more :
        /\ more[n].id = <<"analysis", Len(items) + n, 0>>
        /\ more[n].code = ranges[n].code /\ more[n].start = ranges[n].start
  OBVIOUS
<1>7. more \in Seq(ToSet(more)) /\ DOMAIN more = DOMAIN ranges
  <2>1. DOMAIN more = 1 .. Len(ranges) /\ \A n \in DOMAIN more : more[n] \in ToSet(more)
    BY <1>5 DEF ToSet
  <2>2. more = [n \in 1 .. Len(ranges) |-> more[n]]
    BY <1>5
  <2> HIDE DEF more
  <2>3. more \in Seq(ToSet(more))
    BY <1>5, <2>1, <2>2
  <2>4. QED
    BY <1>5, <2>1, <2>3
<1> HIDE DEF more, w
<1>8. \A i \in ToSet(more) : WellFormedEnrichment(i)
  <2>1. \A n \in DOMAIN more : WellFormedEnrichment(more[n])
    BY <1>5, <1>6, <1>7 DEF Ranged, WellFormedEnrichment
  <2>2. QED
    BY <2>1 DEF ToSet
<1> DEFINE T == ToSet(items) \cup ToSet(more)
<1>9. w \in Seq(T) /\ ToSet(w) = T
  <2>1. items \in Seq(T) /\ more \in Seq(T)
    BY <1>7
  <2>2. QED
    BY <1>1, <2>1, JoinedElements
<1>10. QED
  BY <1>8, <1>9 DEF w

(* Collecting the ranges of one more log leaves the evidence well formed.  *)
LEMMA CollectKeepsEvidence ==
  ASSUME NEW e, WellFormed(e), NEW n \in Nat, n < Len(e.artifacts),
         NEW f, f = [e EXCEPT !.enrichment = WithArtifact(@, e.artifacts[n + 1])]
  PROVE  WellFormed(f)
<1> DEFINE a == e.artifacts[n + 1]
           s == e.enrichment
           w == WithArtifact(s, a)
<1>1. n + 1 \in DOMAIN e.artifacts
  <2>1. e.artifacts \in Seq(ToSet(e.artifacts))
    BY DEF WellFormed
  <2>2. QED
    BY <2>1
<1>2. a.log \in Seq(ToSet(a.log)) /\ s \in Seq(ToSet(s)) /\ \A i \in ToSet(s) : WellFormedEnrichment(i)
  BY <1>1 DEF WellFormed, WellFormedArtifact, ToSet
<1> HIDE DEF a, s
<1>3. w \in Seq(ToSet(w)) /\ \A i \in ToSet(w) : WellFormedEnrichment(i)
  BY <1>2, WithArtifactElements
<1> HIDE DEF w
<1>4. /\ f.enrichment = w /\ f.sealed = e.sealed /\ f.shared = e.shared /\ f.phase = e.phase
      /\ f.outcome = e.outcome /\ f.runs = e.runs /\ f.items = e.items /\ f.artifacts = e.artifacts
      /\ f.omissions = e.omissions /\ f.active = e.active /\ f.snapshot = e.snapshot /\ f.source = e.source
      /\ f = [sealed |-> f.sealed, shared |-> f.shared, phase |-> f.phase, outcome |-> f.outcome,
              runs |-> f.runs, items |-> f.items, artifacts |-> f.artifacts, enrichment |-> f.enrichment,
              omissions |-> f.omissions, active |-> f.active, snapshot |-> f.snapshot, source |-> f.source]
  <2>1. e = [sealed |-> e.sealed, shared |-> e.shared, phase |-> e.phase, outcome |-> e.outcome,
             runs |-> e.runs, items |-> e.items, artifacts |-> e.artifacts, enrichment |-> e.enrichment,
             omissions |-> e.omissions, active |-> e.active, snapshot |-> e.snapshot, source |-> e.source]
    BY DEF WellFormed
  <2>2. f = [e EXCEPT !.enrichment = w]
    BY DEF w, s, a
  <2>3. QED
    BY <2>1, <2>2
<1>5. QED
  BY <1>3, <1>4 DEF WellFormed

-----------------------------------------------------------------------------
(* The inductive invariant.                                                *)

Stages == {"collect", "verify", "classes", "artifacts", "enriched", "report", "done"}

(* What the stage under way has found so far.                              *)
Progress ==
  /\ pc \in {"classes", "artifacts", "enriched", "report"} => Judged(candidates)
  /\ pc = "classes" => ClassesIn(at, candidates)
  /\ pc \in {"artifacts", "enriched"} => ClassesIn(Len(Classes), candidates)
  /\ pc = "artifacts" => ArtifactsIn(at, candidates)
  /\ pc = "enriched" /\ ~ cancelled => ArtifactsIn(Len(evidence.artifacts), candidates)
  /\ pc = "enriched" => RangesIn(candidates)
  /\ pc = "report" => Complete(candidates) /\ candidates # <<>>

(* What the diagnosis ends with.                                           *)
Outcome ==
  /\ pc # "done" => report = NoReport /\ error = None
  /\ pc = "done" => error \in {None, "evidence", "cancelled"}
  /\ Reported => error = None /\ Judged(candidates) /\ Complete(candidates) /\ report.findings = Findings(candidates)

EngineInv ==
  /\ pc \in Stages
  /\ at \in Nat
  /\ WellFormed(evidence)
  /\ Progress
  /\ Outcome

(* As long as the evidence stays, what was found is judged by the          *)
(* candidates alone.                                                       *)
LEMMA NextFound ==
  ASSUME evidence' = evidence
  PROVE  /\ Judged(candidates)' <=> Judged(candidates')
         /\ ClassesIn(at, candidates)' <=> ClassesIn(at', candidates')
         /\ ClassesIn(Len(Classes), candidates)' <=> ClassesIn(Len(Classes), candidates')
         /\ ArtifactsIn(at, candidates)' <=> ArtifactsIn(at', candidates')
         /\ ArtifactsIn(Len(evidence.artifacts), candidates)' <=> ArtifactsIn(Len(evidence.artifacts), candidates')
         /\ RangesIn(candidates)' <=> RangesIn(candidates')
         /\ Complete(candidates)' <=> Complete(candidates')
<1>1. Judged(candidates)' <=> Judged(candidates')
  BY SameView DEF Judged, Sound, ValidFailureEvidence, ValidCitationIDs, ValidEnrichmentItem
<1>2. ClassesIn(at, candidates)' <=> ClassesIn(at', candidates')
  BY SameView DEF ClassesIn, ClassFound
<1>3. ClassesIn(Len(Classes), candidates)' <=> ClassesIn(Len(Classes), candidates')
  BY SameView DEF ClassesIn, ClassFound
<1>4. ArtifactsIn(at, candidates)' <=> ArtifactsIn(at', candidates')
  BY SameView DEF ArtifactsIn, ArtifactFound
<1>5. ArtifactsIn(Len(evidence.artifacts), candidates)' <=> ArtifactsIn(Len(evidence.artifacts), candidates')
  BY SameView DEF ArtifactsIn, ArtifactFound
<1>6. RangesIn(candidates)' <=> RangesIn(candidates')
  BY SameView DEF RangesIn
<1>7. Complete(candidates)' <=> Complete(candidates')
  BY <1>3, <1>5, <1>6 DEF Complete
<1>8. QED
  BY <1>1, <1>2, <1>3, <1>4, <1>5, <1>6, <1>7

-----------------------------------------------------------------------------
(* Every part of the report is valid.                                      *)

LEMMA FindingsAreValid ==
  ASSUME NEW cs, Sound(cs), cs # <<>>, NEW w, w.findings = Findings(cs), w.primary = Findings(cs)[1].id
  PROVE  ValidFindings(w)
<1> DEFINE f == Findings(cs)
<1>1. /\ f # <<>> /\ f \in Seq(ToSet(f))
      /\ \A n \in DOMAIN f : f[n] = FindingOf(n, Ranked(cs)[n]) /\ Ranked(cs)[n] \in ToSet(cs)
  BY FindingsElements
<1> HIDE DEF f
<1>2. \A n \in DOMAIN f : f[n].id[1] = n /\ f[n].score \in 0 .. 100
  <2>1. \A c \in ToSet(cs) : c.score \in 0 .. 100
    BY DEF Sound, SoundCandidate, Weighed
  <2>2. TAKE n \in DOMAIN f
  <2>3. f[n] = FindingOf(n, Ranked(cs)[n])
    BY <1>1
  <2>4. f[n].id = <<n, Ranked(cs)[n].code>> /\ f[n].score = Ranked(cs)[n].score
    BY <2>3 DEF FindingOf
  <2>5. QED
    BY <1>1, <2>1, <2>4
<1>3. IsInjective(IDs(f))
  <2>1. DOMAIN IDs(f) = DOMAIN f /\ \A n \in DOMAIN f : IDs(f)[n] = f[n].id
    BY DEF IDs
  <2>2. QED
    BY <1>2, <2>1 DEF IsInjective
<1>4. f[1].id \in ToSet(IDs(f))
  BY <1>1 DEF IDs, ToSet
<1>5. \A x \in ToSet(f) : x.score \in 0 .. 100
  BY <1>2 DEF ToSet
<1>6. w.findings = f /\ w.primary = f[1].id
  BY DEF f
<1>7. QED
  BY <1>1, <1>3, <1>4, <1>5, <1>6 DEF ValidFindings

(* The selected run is one of those recorded.                              *)
LEMMA SelectedRunIsKnown ==
  ASSUME WellFormed(evidence)
  PROVE  SelectedRun \in Nat \ {0} /\ (evidence.runs # <<>> => SelectedRun \in ToSet(evidence.runs))
<1>1. evidence.runs \in Seq(Nat \ {0})
  BY DEF WellFormed
<1>2. CASE evidence.runs = <<>>
  BY <1>2 DEF SelectedRun
<1>3. CASE evidence.runs # <<>>
  <2>1. Last(evidence.runs) \in ToSet(evidence.runs) /\ ToSet(evidence.runs) \subseteq Nat \ {0}
    BY <1>1, <1>3, ElementsOf
  <2>2. QED
    BY <1>3, <2>1 DEF SelectedRun
<1>4. QED
  BY <1>2, <1>3

(* Advice: at most two actions, in a numbered list, each on the allowlist. *)
Advised(a, support) ==
  /\ a.support = support
  /\ ValidActionExecution(a)
  /\ a.command = "logs" => a.run = SelectedRun
  /\ DOMAIN a = {"id", "execution", "command", "run", "support"}

(* Every action advised rests on what the primary finding rests on.        *)
LEMMA ActionsAreAdvised ==
  ASSUME WellFormed(evidence), NEW primary
  PROVE  /\ Len(ActionsFor(primary)) \in {1, 2} /\ DOMAIN ActionsFor(primary) = 1 .. Len(ActionsFor(primary))
         /\ \A n \in DOMAIN ActionsFor(primary) :
              ActionsFor(primary)[n].id = n /\ Advised(ActionsFor(primary)[n], primary.support)
<1> DEFINE inspect(command, run) == Action(1, "read_only", command, run, primary.support)
           change(n) == Action(n, "none", None, 0, primary.support)
           a == ActionsFor(primary)
<1>1. \/ a = <<change(1)>>
      \/ a = <<inspect("show", 0), change(2)>>
      \/ a = <<inspect("evidence", 0), change(2)>>
      \/ a = <<inspect("show", 0)>>
      \/ a = <<inspect("logs", SelectedRun)>>
      \/ a = <<inspect("evidence", 0)>>
  BY DEF ActionsFor
<1>2. \A n \in {1, 2} : change(n).id = n /\ Advised(change(n), primary.support)
  BY DEF Action, Advised, ValidActionExecution, None
<1>3. /\ inspect("show", 0).id = 1 /\ Advised(inspect("show", 0), primary.support)
      /\ inspect("evidence", 0).id = 1 /\ Advised(inspect("evidence", 0), primary.support)
  BY DEF Action, Advised, ValidActionExecution
<1>4. inspect("logs", SelectedRun).id = 1 /\ Advised(inspect("logs", SelectedRun), primary.support)
  BY SelectedRunIsKnown DEF Action, Advised, ValidActionExecution
<1> HIDE DEF inspect, change, a
<1>5. /\ Len(a) \in {1, 2} /\ DOMAIN a = 1 .. Len(a)
      /\ \A n \in DOMAIN a : a[n].id = n /\ Advised(a[n], primary.support)
  <2>1. CASE a = <<change(1)>>
    BY <1>2, <2>1
  <2>2. CASE a = <<inspect("show", 0), change(2)>>
    BY <1>2, <1>3, <2>2
  <2>3. CASE a = <<inspect("evidence", 0), change(2)>>
    BY <1>2, <1>3, <2>3
  <2>4. CASE a \in {<<inspect("show", 0)>>, <<inspect("evidence", 0)>>, <<inspect("logs", SelectedRun)>>}
    BY <1>3, <1>4, <2>4
  <2>5. QED
    BY <1>1, <2>1, <2>2, <2>3, <2>4
<1>6. QED
  BY <1>5 DEF a

(* A shared job's advice is text.                                          *)
WordsOnly(actions) == [n \in DOMAIN actions |-> [actions[n] EXCEPT !.execution = "none", !.command = None, !.run = 0]]

Advice(actions, support) ==
  \E m \in {1, 2} : DOMAIN actions = 1 .. m /\ \A n \in 1 .. m : actions[n].id = n /\ Advised(actions[n], support)

(* Such advice is what ValidActions and ActionsMatchSubject demand.        *)
LEMMA AdviceIsValid ==
  ASSUME WellFormed(evidence), NEW actions, NEW support, Advice(actions, support)
  PROVE  /\ ValidActions(actions) /\ ActionsMatchSubject(actions, evidence)
         /\ (UNION {a.support : a \in ToSet(actions)}) = support
<1>0. PICK m \in {1, 2} : /\ DOMAIN actions = 1 .. m
                          /\ \A n \in 1 .. m : actions[n].id = n /\ Advised(actions[n], support)
  BY DEF Advice
<1>1. \A a \in ToSet(actions) : Advised(a, support)
  BY <1>0 DEF ToSet
<1>2. IsInjective(IDs(actions))
  BY <1>0 DEF IDs, IsInjective
<1>3. ActionsMatchSubject(actions, evidence)
  BY <1>1, SelectedRunIsKnown DEF ActionsMatchSubject, Advised
<1>4. (UNION {a.support : a \in ToSet(actions)}) = support
  <2>1. actions[1] \in ToSet(actions)
    BY <1>0 DEF ToSet
  <2>2. \A a \in ToSet(actions) : a.support = support
    BY <1>1 DEF Advised
  <2>3. QED
    BY <2>1, <2>2
<1>5. QED
  BY <1>1, <1>2, <1>3, <1>4 DEF ValidActions, Advised

(* Advice in a shared report is words only.                                *)
LEMMA WordsAreAdvised ==
  ASSUME WellFormed(evidence), NEW primary, NEW w, w = WordsOnly(ActionsFor(primary))
  PROVE  /\ DOMAIN w = DOMAIN ActionsFor(primary)
         /\ \A n \in DOMAIN w : /\ w[n].id = n /\ Advised(w[n], primary.support)
                              /\ w[n].execution = "none" /\ w[n].command = None
<1> DEFINE given == ActionsFor(primary)
<1>1. \A n \in DOMAIN given : given[n].id = n /\ Advised(given[n], primary.support)
  BY ActionsAreAdvised
<1>2. w = [n \in DOMAIN given |-> [given[n] EXCEPT !.execution = "none", !.command = None, !.run = 0]]
  BY DEF WordsOnly
<1> HIDE DEF given
<1>3. ASSUME NEW n \in DOMAIN w
      PROVE  /\ w[n].id = n /\ Advised(w[n], primary.support)
             /\ w[n].execution = "none" /\ w[n].command = None
  <2>1. w[n] = [given[n] EXCEPT !.execution = "none", !.command = None, !.run = 0] /\ n \in DOMAIN given
    BY <1>2
  <2>2. given[n].id = n /\ given[n].support = primary.support
        /\ DOMAIN given[n] = {"id", "execution", "command", "run", "support"}
    BY <1>1, <2>1 DEF Advised
  <2>3. /\ w[n].id = n /\ w[n].support = primary.support /\ w[n].execution = "none" /\ w[n].command = None
        /\ DOMAIN w[n] = {"id", "execution", "command", "run", "support"}
    BY <2>1, <2>2
  <2>4. QED
    BY <2>3 DEF Advised, ValidActionExecution, None
<1>4. QED
  BY <1>2, <1>3 DEF given

(* What a retry may be called.                                             *)
LEMMA PoliciesAreKnown == ExistingPolicy \in Policies
BY DEF ExistingPolicy, Policies

LEMMA VerdictsAreKnown ==
  ASSUME NEW code
  PROVE  BaseVerdict(code)[1] \in Verdicts /\ BaseVerdict(code)[2] \in 0 .. 100
BY DEF BaseVerdict, Verdicts

(* The advice on a retry is in its ranges and rests on the evidence.       *)
LEMMA RetryIsValid ==
  ASSUME WellFormed(evidence), NEW primary, primary.support \subseteq EvidenceIDs,
         NEW r, r = RetryFor(primary)
  PROVE  /\ r.verdict \in Verdicts /\ r.policy \in Policies /\ r.score \in 0 .. 100
         /\ r.support \subseteq EvidenceIDs
<1> DEFINE base == BaseVerdict(primary.code)
           change == base[1] = "after_change"
           history == change /\ (Recovered \/ Len(Matching) > 1)
           verdict == IF change /\ Recovered THEN <<"after_delay", 78>>
                      ELSE IF history THEN <<"after_change", 96>> ELSE base
           policy == {i.id : i \in {j \in ToSet(evidence.items) : j.code \in PolicyCodes}}
<1>1. /\ r.verdict = verdict[1] /\ r.policy = ExistingPolicy /\ r.score = verdict[2]
      /\ r.support = primary.support \cup (IF history THEN IDSet(Matching) ELSE {}) \cup policy
  BY DEF RetryFor
<1>2. base[1] \in Verdicts /\ base[2] \in 0 .. 100
  BY VerdictsAreKnown
<1> HIDE DEF base
<1>3. verdict[1] \in Verdicts /\ verdict[2] \in 0 .. 100
  BY <1>2 DEF Verdicts
<1>4. IDSet(Matching) \subseteq EvidenceIDs
  <2>1. Matching \in Seq(Items)
    BY ByCodeElements, DecodedElements DEF Matching
  <2>2. ToSet(Matching) \subseteq Items
    BY <2>1, ElementsOf
  <2>3. QED
    BY <2>2, IDsElements DEF EvidenceIDs, IDsOf
<1>5. policy \subseteq EvidenceIDs
  BY DEF EvidenceIDs, IDsOf, Items
<1> HIDE DEF verdict, history, policy
<1>6. QED
  BY <1>1, <1>3, <1>4, <1>5, PoliciesAreKnown

-----------------------------------------------------------------------------
(* Nothing is said twice.                                                  *)

(* A warning that depends on a condition is said once or not at all.       *)
LEMMA SaidOnce ==
  ASSUME NEW condition, NEW code
  PROVE  Once(Says(condition, code), {code})
<1>1. <<code>> \in Seq({code}) /\ <<>> \in Seq({code})
  OBVIOUS
<1>2. IsInjective(<<code>>) /\ IsInjective(<<>>)
  BY DEF IsInjective
<1>3. QED
  BY <1>1, <1>2 DEF Says, Once

(* One list more, with a code of its own.                                  *)
LEMMA SaidAfter ==
  ASSUME NEW S, NEW s, Once(s, S), NEW condition, NEW code, code \notin S
  PROVE  Once(s \o Says(condition, code), S \cup {code})
BY SaidOnce, OnceJoined

(* Neither what is missing nor a warning is listed twice.                  *)
LEMMA LimitationsAreSaidOnce ==
  ASSUME WellFormed(evidence), NEW primary
  PROVE  IsInjective(Missing(primary)) /\ IsInjective(Warnings)
<1> DEFINE history == Omitted("similar_not_requested")
           index == Omitted("similar_unavailable")
           S1 == {"command_context"}
           S2 == S1 \cup {"path_context"}
           S3 == S2 \cup {"environment_names"}
           S4 == S3 \cup {"system_context"}
           S5 == S4 \cup {"bounded_log_content"}
           S6 == S5 \cup {"pruned_logs"}
           S7 == S6 \cup {"resource_observations"}
           S8 == S7 \cup {"same_fingerprint_history"}
           m1 == Says(Omitted("command_not_requested") \/ Omitted("command_limit_exceeded"), "command_context")
           m2 == m1 \o Says(Omitted("paths_not_requested"), "path_context")
           m3 == m2 \o Says(Omitted("environment_names_not_requested"), "environment_names")
           m4 == m3 \o Says(Omitted("system_not_requested") \/ Omitted("system_unavailable"), "system_context")
           m5 == m4 \o Says(Omitted("log_content_not_requested") /\ primary.code # "core.intentional_false",
                            "bounded_log_content")
           m6 == m5 \o Says(Omitted("logs_pruned"), "pruned_logs")
           m7 == m6 \o Says(Omitted("resource_unsupported") \/ Omitted("resource_unavailable"),
                            "resource_observations")
           m8 == m7 \o Says(history, "same_fingerprint_history")
           m9 == m8 \o Says(index, "same_fingerprint_history")
<1>1. Missing(primary) = m9
  BY DEF Missing
<1>2. Once(m1, S1)
  BY SaidOnce
<1> HIDE DEF m1, history, index
<1>3. Once(m2, S2)
  BY <1>2, SaidAfter
<1> HIDE DEF m2
<1>4. Once(m3, S3)
  BY <1>3, SaidAfter
<1> HIDE DEF m3
<1>5. Once(m4, S4)
  BY <1>4, SaidAfter
<1> HIDE DEF m4
<1>6. Once(m5, S5)
  BY <1>5, SaidAfter
<1> HIDE DEF m5
<1>7. Once(m6, S6)
  BY <1>6, SaidAfter
<1> HIDE DEF m6
<1>8. Once(m7, S7)
  BY <1>7, SaidAfter
<1> HIDE DEF m7
<1>9. Once(m8, S8)
  BY <1>8, SaidAfter
<1> HIDE DEF m8
<1>10. ~ (history /\ index)
  BY DEF WellFormed, Omitted, history, index
<1>13. IsInjective(m9)
  <2>1. CASE ~ index
    <3>1. m8 \in Seq(S8) /\ Says(index, "same_fingerprint_history") = <<>>
      BY <1>9, <2>1 DEF Once, Says
    <3>2. m9 = m8
      BY <3>1
    <3>3. QED
      BY <1>9, <3>2 DEF Once
  <2>2. CASE ~ history
    <3>1. m7 \in Seq(S7) /\ Says(history, "same_fingerprint_history") = <<>>
      BY <1>8, <2>2 DEF Once, Says
    <3>2. m8 = m7
      BY <3>1 DEF m8
    <3>3. Once(m9, S8)
      BY <1>8, <3>2, SaidAfter
    <3>4. QED
      BY <3>3 DEF Once
  <2>3. QED
    BY <1>10, <2>1, <2>2
<1> HIDE DEF m9
<1> DEFINE W1 == {"similar_history_partially_indexed"}
           W2 == W1 \cup {"similar_history_truncated"}
           W3 == W2 \cup {"active_state_may_have_advanced"}
           W4 == W3 \cup {"log_content_is_untrusted"}
           W5 == W4 \cup {"artifact_snapshot_incomplete"}
           W6 == W5 \cup {"source_context_mismatch"}
           w1 == Says(Omitted("similar_partially_indexed"), "similar_history_partially_indexed")
           w2 == w1 \o Says(Omitted("similar_truncated"), "similar_history_truncated")
           w3 == w2 \o Says(evidence.active, "active_state_may_have_advanced")
           w4 == w3 \o Says(evidence.artifacts # <<>>, "log_content_is_untrusted")
           w5 == w4 \o Says(evidence.snapshot \in {"point_in_time", "mixed"}, "artifact_snapshot_incomplete")
           w6 == w5 \o Says(evidence.source = "mismatch", "source_context_mismatch")
<1>14. Warnings = w6
  BY DEF Warnings, SourceContextWarnings
<1>15. Once(w1, W1)
  BY SaidOnce
<1> HIDE DEF w1
<1>16. Once(w2, W2)
  BY <1>15, SaidAfter
<1> HIDE DEF w2
<1>17. Once(w3, W3)
  BY <1>16, SaidAfter
<1> HIDE DEF w3
<1>18. Once(w4, W4)
  BY <1>17, SaidAfter
<1> HIDE DEF w4
<1>19. Once(w5, W5)
  BY <1>18, SaidAfter
<1> HIDE DEF w5
<1>20. Once(w6, W6)
  BY <1>19, SaidAfter
<1>21. QED
  BY <1>1, <1>13, <1>14, <1>20 DEF Once

-----------------------------------------------------------------------------
(* Every reference is to something in the evidence, and is cited as it is. *)

ValidCitation(c) ==
  IF c.kind = "enrichment" THEN c.source # <<>> /\ c.start <= c.end
                           ELSE c.source = <<>> /\ c.start = 0 /\ c.end = 0

(* A verified range names its log and does not end before it starts.       *)
LEMMA RangesAreBounded ==
  ASSUME WellFormed(evidence), ValidFailureEvidence(evidence), NEW i \in ToSet(evidence.enrichment)
  PROVE  i.artifact # <<>> /\ i.start <= i.end
<1>1. PICK n \in DOMAIN evidence.enrichment : evidence.enrichment[n] = i
  BY DEF ToSet
<1>2. ValidEnrichmentItem(i, evidence.artifacts)
  BY <1>1 DEF ValidFailureEvidence
<1>3. PICK a \in ToSet(evidence.artifacts) : a.id = i.artifact /\ i.start <= i.end
  BY <1>2 DEF ValidEnrichmentItem
<1>4. a.id # <<>>
  BY DEF WellFormed, WellFormedArtifact
<1>5. QED
  BY <1>3, <1>4

(* A citation says of a piece of evidence what the evidence says.          *)
LEMMA CiteIsTrue ==
  ASSUME WellFormed(evidence), ValidFailureEvidence(evidence), NEW id \in EvidenceIDs
  PROVE  /\ Cite(id).id = id /\ Cite(id).kind # "none"
         /\ ValidCitation(Cite(id)) /\ CitationMatches(Cite(id), evidence)
<1>1. /\ ToSet(IDs(evidence.items)) = IDSet(evidence.items)
      /\ ToSet(IDs(evidence.artifacts)) = IDSet(evidence.artifacts)
  BY DEF IDSet
<1>2. CASE id \in IDSet(evidence.items)
  <2>1. Cite(id) = [id |-> id, kind |-> "item", source |-> <<>>, start |-> 0, end |-> 0]
    BY <1>2 DEF Cite
  <2>2. QED
    BY <1>1, <1>2, <2>1 DEF ValidCitation, CitationMatches
<1>3. CASE id \notin IDSet(evidence.items) /\ id \in IDSet(evidence.artifacts)
  <2>1. Cite(id) = [id |-> id, kind |-> "artifact", source |-> <<>>, start |-> 0, end |-> 0]
    BY <1>3 DEF Cite
  <2>2. QED
    BY <1>1, <1>3, <2>1 DEF ValidCitation, CitationMatches
<1>4. CASE id \notin IDSet(evidence.items) /\ id \notin IDSet(evidence.artifacts)
  <2>1. \E i \in ToSet(evidence.enrichment) : i.id = id
    BY <1>4, IDsElements DEF EvidenceIDs, IDsOf, Items
  <2>2. id \in IDSet(evidence.enrichment)
    BY <2>1, IDsElements
  <2> DEFINE i == CHOOSE j \in ToSet(evidence.enrichment) : j.id = id
  <2>3. i \in ToSet(evidence.enrichment) /\ i.id = id
    BY <2>1
  <2>4. Cite(id) = [id |-> id, kind |-> "enrichment", source |-> i.artifact, start |-> i.start, end |-> i.end]
    BY <1>4, <2>2 DEF Cite
  <2> HIDE DEF i
  <2>5. i.artifact # <<>> /\ i.start <= i.end
    BY <2>3, RangesAreBounded
  <2>6. /\ Cite(id).id = id /\ Cite(id).kind = "enrichment" /\ Cite(id).source = i.artifact
        /\ Cite(id).start = i.start /\ Cite(id).end = i.end
        /\ Cite(id) = [id |-> i.id, kind |-> "enrichment", source |-> i.artifact, start |-> i.start, end |-> i.end]
    BY <2>3, <2>4
  <2>7. QED
    BY <2>3, <2>5, <2>6 DEF ValidCitation, CitationMatches
<1>5. QED
  BY <1>2, <1>3, <1>4

(* So do all citations of a report, one for each reference.                *)
LEMMA CitationsAreTrue ==
  ASSUME WellFormed(evidence), ValidFailureEvidence(evidence), NEW refs \in SUBSET EvidenceIDs,
         NEW cited, cited = BuildCitations(refs)
  PROVE  /\ NotCited \notin cited /\ ValidCitations(cited)
         /\ \A c \in cited : CitationMatches(c, evidence)
         /\ refs = {c.id : c \in cited}
<1>1. \A c \in cited : \E id \in refs : c = Cite(id)
  BY DEF BuildCitations
<1>2. \A c \in cited : /\ c = Cite(c.id) /\ c.id \in refs /\ c.kind # "none"
                       /\ ValidCitation(c) /\ CitationMatches(c, evidence)
  <2>1. TAKE c \in cited
  <2>2. PICK id \in refs : c = Cite(id)
    BY <1>1
  <2>3. QED
    BY <2>2, CiteIsTrue
<1>3. \A id \in refs : Cite(id) \in cited /\ Cite(id).id = id
  BY CiteIsTrue DEF BuildCitations
<1>4. NotCited \notin cited
  BY <1>2 DEF NotCited
<1>5. ValidCitations(cited)
  BY <1>2 DEF ValidCitations, ValidCitation
<1>6. QED
  BY <1>2, <1>3, <1>4, <1>5

(* Whatever sound candidates refer to is in the evidence.                  *)
LEMMA ReferencesAreEvidence ==
  ASSUME WellFormed(evidence), NEW cs, Sound(cs), cs # <<>>
  PROVE  /\ Ranked(cs)[1].support \subseteq EvidenceIDs
         /\ (UNION {f.support : f \in ToSet(Findings(cs))}) \subseteq EvidenceIDs
<1> DEFINE f == Findings(cs)
<1>1. /\ DOMAIN f = DOMAIN Ranked(cs) /\ Ranked(cs) # <<>> /\ Ranked(cs) \in Seq(ToSet(cs))
      /\ \A n \in DOMAIN f : f[n] = FindingOf(n, Ranked(cs)[n]) /\ Ranked(cs)[n] \in ToSet(cs)
  BY FindingsElements
<1>2. \A c \in ToSet(cs) : c.support \subseteq EvidenceIDs
  BY DEF Sound, SoundCandidate
<1> HIDE DEF f
<1>3. \A n \in DOMAIN f : f[n].support \subseteq EvidenceIDs
  <2>1. TAKE n \in DOMAIN f
  <2>2. f[n].support = Ranked(cs)[n].support
    BY <1>1 DEF FindingOf
  <2>3. QED
    BY <1>1, <1>2, <2>2
<1>4. \A x \in ToSet(f) : x.support \subseteq EvidenceIDs
  BY <1>3 DEF ToSet
<1>5. Ranked(cs)[1] \in ToSet(cs)
  BY <1>1
<1>6. QED
  BY <1>2, <1>4, <1>5 DEF f

(* A fingerprint in a report is one the core recorded.                     *)
LEMMA FingerprintIsRecorded ==
  ASSUME WellFormed(evidence), CoreFailureFingerprint # None
  PROVE  \E i \in ToSet(evidence.items) :
           i.code = "FailureFingerprint" /\ i.ok /\ i.value = CoreFailureFingerprint
<1> DEFINE all == PrimaryItems("FailureFingerprint")
           known == Decoded(all)
<1>1. all \in Seq(Items) /\ ToSet(all) \subseteq {i \in Items : i.code = "FailureFingerprint"}
  BY PrimaryElements
<1> HIDE DEF all
<1>2. known \in Seq(Items) /\ ToSet(known) = {i \in ToSet(all) : i.ok}
  BY <1>1, DecodedElements
<1>3. known # <<>> /\ CoreFailureFingerprint = known[1].value
  BY DEF CoreFailureFingerprint, all
<1> HIDE DEF known
<1>4. known[1] \in ToSet(known)
  BY <1>2, <1>3, ElementsOf
<1>5. QED
  BY <1>1, <1>2, <1>3, <1>4 DEF Items

-----------------------------------------------------------------------------
(* The report is sealed and holds against its evidence.                    *)

LEMMA ReportHolds ==
  ASSUME WellFormed(evidence), NEW cs, Judged(cs), cs # <<>>
  PROVE  LET draft == Draft(Findings(cs), Ranked(cs)[1]) IN
         /\ NotCited \notin draft.citations /\ Valid(Whole(cs)) /\ ValidateAgainstEvidence(Whole(cs), evidence)
         /\ Whole(cs).findings = Findings(cs)
<1> DEFINE f == Findings(cs)
           primary == Ranked(cs)[1]
           given == ActionsFor(primary)
           advice == RetryFor(primary)
           refs == ReferencedEvidence(f, given, advice)
           cited == BuildCitations(refs)
           w == Whole(cs)
<1>1. Sound(cs) /\ ValidFailureEvidence(evidence)
  BY DEF Judged
<1>2. primary.support \subseteq EvidenceIDs /\ (UNION {x.support : x \in ToSet(f)}) \subseteq EvidenceIDs
  BY <1>1, ReferencesAreEvidence
<1>3. /\ w.primary = f[1].id /\ w.findings = f
      /\ w.subject = [phase |-> evidence.phase, outcome |-> evidence.outcome, runs |-> evidence.runs]
      /\ w.citations = cited
      /\ w.missing = Missing(primary) /\ w.warnings = Warnings /\ w.fingerprint = CoreFailureFingerprint
      /\ w.retry.support = advice.support /\ w.retry.score = advice.score
      /\ (~ evidence.shared =>
            /\ w.schema = LocalSchema /\ w.shared = FALSE
            /\ w.actions = given /\ w.retry = advice)
      /\ (evidence.shared =>
            /\ w.schema = SharedSchema /\ w.shared = TRUE
            /\ w.actions = WordsOnly(given)
            /\ w.retry.policy = "unknown"
            /\ w.retry.verdict \in {"not_applicable", "unknown", advice.verdict})
  BY WholeFields DEF WordsOnly
<1>4. Draft(f, primary).citations = cited
  BY DEF Draft
<1>5. ValidFindings(w)
  <2> HIDE DEF w, f
  <2>1. QED
    BY <1>1, <1>3, FindingsAreValid DEF f
<1> HIDE DEF w, f, primary
<1>6. /\ advice.verdict \in Verdicts /\ advice.policy \in Policies /\ advice.score \in 0 .. 100
      /\ advice.support \subseteq EvidenceIDs
  BY <1>2, RetryIsValid
<1>7. Advice(given, primary.support)
  BY ActionsAreAdvised DEF Advice
<1>8. /\ DOMAIN WordsOnly(given) = DOMAIN given
      /\ \A n \in DOMAIN WordsOnly(given) :
           /\ WordsOnly(given)[n].id = n /\ Advised(WordsOnly(given)[n], primary.support)
           /\ WordsOnly(given)[n].execution = "none" /\ WordsOnly(given)[n].command = None
  BY WordsAreAdvised
<1> HIDE DEF given, advice
<1>9. /\ ValidActions(given) /\ ActionsMatchSubject(given, evidence)
      /\ (UNION {a.support : a \in ToSet(given)}) = primary.support
  BY <1>7, AdviceIsValid
<1>10. /\ ValidActions(WordsOnly(given)) /\ ActionsMatchSubject(WordsOnly(given), evidence)
       /\ (UNION {a.support : a \in ToSet(WordsOnly(given))}) = primary.support
       /\ \A a \in ToSet(WordsOnly(given)) : a.execution = "none" /\ a.command = None
  <2>1. Advice(WordsOnly(given), primary.support)
    BY <1>7, <1>8 DEF Advice
  <2>2. \A a \in ToSet(WordsOnly(given)) : a.execution = "none" /\ a.command = None
    BY <1>8 DEF ToSet
  <2> DEFINE words == WordsOnly(given)
  <2> HIDE DEF words
  <2>3. /\ ValidActions(words) /\ ActionsMatchSubject(words, evidence)
        /\ (UNION {a.support : a \in ToSet(words)}) = primary.support
    BY <2>1, AdviceIsValid DEF words
  <2>4. QED
    BY <2>2, <2>3 DEF words
<1>11. refs \subseteq EvidenceIDs
  BY <1>2, <1>6, <1>9 DEF ReferencedEvidence
<1> HIDE DEF refs
<1>12. /\ NotCited \notin cited /\ ValidCitations(cited)
       /\ \A c \in cited : CitationMatches(c, evidence)
       /\ refs = {c.id : c \in cited}
  BY <1>1, <1>11, CitationsAreTrue
<1> HIDE DEF cited
<1>13. ValidActions(w.actions) /\ ActionsMatchSubject(w.actions, evidence)
       /\ (UNION {a.support : a \in ToSet(w.actions)}) = primary.support
  BY <1>3, <1>9, <1>10
<1>14. ValidRetry(w.retry)
  BY <1>3, <1>6 DEF ValidRetry, Verdicts, Policies
<1>15. ValidLimitations(w)
  BY <1>3, LimitationsAreSaidOnce DEF ValidLimitations
<1>16. ValidSharedReport(w)
  BY <1>3, <1>10 DEF ValidSharedReport, LocalSchema, SharedSchema
<1>17. ValidSubject(w.subject)
  <2>1. w.subject.phase = evidence.phase /\ w.subject.runs = evidence.runs
    BY <1>3
  <2>2. QED
    BY <2>1 DEF ValidSubject, WellFormed
<1>18. Valid(w)
  BY <1>3, <1>5, <1>12, <1>13, <1>14, <1>15, <1>16, <1>17 DEF Valid
<1>19. MatchesProvenance(w, evidence)
  <2>1. w.shared = evidence.shared
    BY <1>3 DEF WellFormed
  <2>2. QED
    BY <1>3, <2>1, FingerprintIsRecorded DEF MatchesProvenance
<1>20. ReportReferences(w) = refs
  BY <1>3, <1>9, <1>13 DEF ReportReferences, ReferencedEvidence, refs
<1>21. ValidateAgainstEvidence(w, evidence)
  BY <1>1, <1>3, <1>12, <1>13, <1>18, <1>19, <1>20 DEF ValidateAgainstEvidence
<1>22. QED
  BY <1>3, <1>4, <1>12, <1>18, <1>21 DEF w, f, primary

-----------------------------------------------------------------------------
(* One step of the diagnosis after the other.                              *)

LEMMA InitHolds == ASSUME Init PROVE EngineInv
<1>1. WellFormed(evidence)
  BY EngineAssumption DEF Init
<1>2. pc \in {"collect", "verify"} /\ at = 0 /\ report = NoReport /\ error = None
  BY DEF Init
<1>3. Progress /\ Outcome
  BY <1>2 DEF Progress, Outcome, Reported
<1>4. QED
  BY <1>1, <1>2, <1>3 DEF EngineInv, Stages

(* One lemma for every action of Next, in its order.                       *)
LEMMA CollectArtifactHolds == ASSUME EngineInv, CollectArtifact PROVE EngineInv'
<1>1. /\ at \in Nat /\ at < Len(evidence.artifacts) /\ WellFormed(evidence)
      /\ pc = "collect" /\ pc' = pc /\ at' = at + 1 /\ report' = report /\ error' = error
      /\ report = NoReport /\ error = None
  BY DEF EngineInv, Progress, Outcome, CollectArtifact
<1>2. evidence' = [evidence EXCEPT !.enrichment = WithArtifact(@, evidence.artifacts[at + 1])]
  BY DEF CollectArtifact
<1>3. WellFormed(evidence')
  BY <1>1, <1>2, CollectKeepsEvidence
<1>4. Progress'
  BY <1>1, <1>3 DEF Progress
<1>5. Outcome'
  BY <1>1 DEF Outcome, Reported
<1>6. QED
  BY <1>1, <1>3, <1>4, <1>5 DEF EngineInv, Stages

LEMMA CollectedHolds == ASSUME EngineInv, Collected PROVE EngineInv'
<1>1. /\ pc = "collect" /\ pc' = "verify" /\ at' = 0 /\ evidence' = evidence
      /\ report' = report /\ error' = error /\ report = NoReport /\ error = None /\ WellFormed(evidence)
  BY DEF EngineInv, Outcome, Collected, Goto, Keep
<1>2. Progress' /\ Outcome'
  BY <1>1 DEF Progress, Outcome, Reported
<1>3. QED
  BY <1>1, <1>2 DEF EngineInv, Stages

LEMMA VerifiedHolds == ASSUME EngineInv, Verified PROVE EngineInv'
<1>1. /\ pc = "verify" /\ pc' = "classes" /\ at' = 0 /\ evidence' = evidence
      /\ report' = report /\ error' = error /\ report = NoReport /\ error = None /\ WellFormed(evidence)
      /\ ValidFailureEvidence(evidence) /\ ~ (evidence.shared /\ evidence.source # "none")
  BY DEF EngineInv, Outcome, Verified, Goto, Keep
<1>2. candidates' = SharedCandidates \o IntentionalFalseCandidate
  BY DEF Verified
<1>3. Judged(candidates')
  BY <1>1, <1>2, SharedCandidatesAreSound, IntentionalFalseIsSound, SoundJoined DEF Judged
<1>4. ClassesIn(at', candidates')
  <2>1. Classes \in Seq(Items)
    BY <1>1, ClassesAreLocal
  <2>2. \A k \in DOMAIN Classes : ~ (k <= 0)
    BY <2>1
  <2>3. QED
    BY <1>1, <2>2 DEF ClassesIn
<1>5. Progress' /\ Outcome'
  BY <1>1, <1>3, <1>4, NextFound DEF Progress, Outcome, Reported
<1>6. QED
  BY <1>1, <1>5 DEF EngineInv, Stages

LEMMA StopHolds ==
  ASSUME EngineInv, NEW why \in {"evidence", "cancelled"}, pc # "done", Stop(why)
  PROVE  EngineInv'
<1>1. /\ pc' = "done" /\ error' = why /\ evidence' = evidence /\ at' = at /\ report' = NoReport
      /\ WellFormed(evidence) /\ at \in Nat
  BY DEF EngineInv, Outcome, Stop
<1>2. Progress' /\ Outcome'
  BY <1>1 DEF Progress, Outcome, Reported
<1>3. QED
  BY <1>1, <1>2 DEF EngineInv, Stages

LEMMA AnalyzeClassHolds == ASSUME EngineInv, AnalyzeClass PROVE EngineInv'
<1> DEFINE item == Classes[at + 1]
           candidate == CoreFailureCandidate(item.value, {item.id} \cup RelatedEvidence(item))
<1>1. /\ pc = "classes" /\ pc' = pc /\ at < Len(Classes) /\ at \in Nat /\ at' = at + 1 /\ evidence' = evidence
      /\ report' = report /\ error' = error /\ report = NoReport /\ error = None /\ WellFormed(evidence)
      /\ Judged(candidates) /\ ClassesIn(at, candidates)
  BY DEF EngineInv, Progress, Outcome, AnalyzeClass, Keep
<1>2. candidates' = IF ~ item.ok \/ item.value = "" THEN candidates ELSE Append(candidates, candidate)
  BY DEF AnalyzeClass
<1>3. Classes \in Seq(Items)
  BY <1>1, ClassesAreLocal
<1>4. at + 1 \in DOMAIN Classes /\ item \in ToSet(Classes)
  <2>1. at + 1 \in DOMAIN Classes
    BY <1>1, <1>3
  <2>2. QED
    BY <2>1 DEF ToSet
<1>5. SoundCandidate(candidate)
  BY <1>1, <1>4, ClassCandidateIsSound
<1>6. /\ candidate.code = CoreFailureCandidate(item.value, {}).code
      /\ candidate.priority = CoreFailureCandidate(item.value, {}).priority
  BY DEF CoreFailureCandidate, Candidate
<1> HIDE DEF candidate
<1>7. CASE ~ item.ok \/ item.value = ""
  <2>1. candidates' = candidates /\ ClassFound(item, candidates)
    BY <1>2, <1>7 DEF ClassFound
  <2>2. ClassesIn(at', candidates')
    <3>1. \A k \in DOMAIN Classes : k <= at + 1 => k <= at \/ k = at + 1
      BY <1>1, <1>3
    <3>2. QED
      BY <1>1, <2>1, <3>1 DEF ClassesIn
  <2>3. Progress' /\ Outcome'
    BY <1>1, <2>1, <2>2, NextFound DEF Progress, Outcome, Reported
  <2>4. QED
    BY <1>1, <2>3 DEF EngineInv, Stages
<1>8. CASE ~ (~ item.ok \/ item.value = "")
  <2>1. Sound(candidates) /\ candidates' = candidates \o <<candidate>>
    <3>1. Sound(candidates) /\ candidates \in Seq(ToSet(candidates))
      BY <1>1 DEF Judged, Sound
    <3>2. ASSUME NEW T, NEW s \in Seq(T), NEW c
          PROVE  Append(s, c) = s \o <<c>>
      OBVIOUS
    <3>3. Append(candidates, candidate) = candidates \o <<candidate>>
      BY <3>1, <3>2
    <3>4. QED
      BY <1>2, <1>8, <3>1, <3>3
  <2>2. Sound(<<candidate>>) /\ ToSet(<<candidate>>) = {candidate}
    BY <1>5, SoundOne
  <2>3. Sound(candidates') /\ candidate \in ToSet(candidates') /\ ClassesIn(at, candidates')
    BY <1>1, <2>1, <2>2, SoundJoined, FoundStays
  <2>4. ClassFound(item, candidates')
    BY <1>6, <2>3 DEF ClassFound
  <2>5. ClassesIn(at', candidates')
    <3>1. \A k \in DOMAIN Classes : k <= at + 1 => k <= at \/ k = at + 1
      BY <1>1, <1>3
    <3>2. QED
      BY <1>1, <2>3, <2>4, <3>1 DEF ClassesIn
  <2>6. Judged(candidates')
    BY <1>1, <2>3 DEF Judged
  <2>7. Progress' /\ Outcome'
    BY <1>1, <2>5, <2>6, NextFound DEF Progress, Outcome, Reported
  <2>8. QED
    BY <1>1, <2>7 DEF EngineInv, Stages
<1>9. QED
  BY <1>7, <1>8

LEMMA ClassesDoneHolds == ASSUME EngineInv, ClassesDone PROVE EngineInv'
<1>1. /\ pc = "classes" /\ pc' = "artifacts" /\ at = Len(Classes) /\ at' = 0 /\ evidence' = evidence
      /\ candidates' = candidates
      /\ report' = report /\ error' = error /\ report = NoReport /\ error = None /\ WellFormed(evidence)
      /\ Judged(candidates) /\ ClassesIn(Len(Classes), candidates)
  BY DEF EngineInv, Progress, Outcome, ClassesDone, Goto, Keep
<1>2. ArtifactsIn(at', candidates')
  <2>1. evidence.artifacts \in Seq(ToSet(evidence.artifacts))
    BY <1>1 DEF WellFormed
  <2>2. \A k \in DOMAIN evidence.artifacts : ~ (k <= 0)
    BY <2>1
  <2>3. QED
    BY <1>1, <2>2 DEF ArtifactsIn
<1>3. Progress' /\ Outcome'
  BY <1>1, <1>2, NextFound DEF Progress, Outcome, Reported
<1>4. QED
  BY <1>1, <1>3 DEF EngineInv, Stages

LEMMA AnalyzeArtifactHolds == ASSUME EngineInv, AnalyzeArtifact PROVE EngineInv'
<1> DEFINE artifact == evidence.artifacts[at + 1]
           found == IF PrimaryArtifact(artifact.id) THEN ArtifactCandidate(artifact) ELSE <<>>
<1>1. /\ pc = "artifacts" /\ pc' = pc /\ at < Len(evidence.artifacts) /\ at \in Nat /\ at' = at + 1
      /\ evidence' = evidence
      /\ report' = report /\ error' = error /\ report = NoReport /\ error = None /\ WellFormed(evidence)
      /\ Judged(candidates) /\ ClassesIn(Len(Classes), candidates) /\ ArtifactsIn(at, candidates)
  BY DEF EngineInv, Progress, Outcome, AnalyzeArtifact, Keep
<1>2. candidates' = IF PrimaryArtifact(artifact.id) THEN candidates \o ArtifactCandidate(artifact) ELSE candidates
  BY DEF AnalyzeArtifact
<1>3. evidence.artifacts \in Seq(ToSet(evidence.artifacts)) /\ Sound(candidates) /\ candidates \in Seq(ToSet(candidates))
  BY <1>1 DEF WellFormed, Judged, Sound
<1>4. at + 1 \in DOMAIN evidence.artifacts /\ artifact \in ToSet(evidence.artifacts)
  <2>1. at + 1 \in DOMAIN evidence.artifacts
    BY <1>1, <1>3
  <2>2. QED
    BY <2>1 DEF ToSet
<1> HIDE DEF artifact
<1>5. Sound(found)
  BY <1>1, <1>4, ArtifactCandidateIsSound, SoundNone
<1>6. candidates' = candidates \o found
  BY <1>2, <1>3
<1>7. ArtifactFound(artifact, candidates')
  <2>1. ToSet(found) \subseteq ToSet(candidates')
    BY <1>3, <1>5, <1>6, SoundJoined
  <2>2. QED
    BY <2>1 DEF ArtifactFound
<1> HIDE DEF found
<1>8. /\ Sound(candidates') /\ ClassesIn(Len(Classes), candidates') /\ ArtifactsIn(at, candidates')
  <2>1. Len(Classes) \in Nat
    BY <1>1, ClassesAreLocal
  <2>2. QED
    BY <1>1, <1>3, <1>5, <1>6, <2>1, FoundStays
<1>9. ArtifactsIn(at', candidates')
  <2>1. \A k \in DOMAIN evidence.artifacts : k <= at + 1 => k <= at \/ k = at + 1
    BY <1>1, <1>3
  <2>2. QED
    BY <1>1, <1>7, <1>8, <2>1 DEF ArtifactsIn, artifact
<1>10. Judged(candidates')
  BY <1>1, <1>8 DEF Judged
<1>11. Progress' /\ Outcome'
  BY <1>1, <1>8, <1>9, <1>10, NextFound DEF Progress, Outcome, Reported
<1>12. QED
  BY <1>1, <1>11 DEF EngineInv, Stages

LEMMA ArtifactsDoneHolds == ASSUME EngineInv, ArtifactsDone PROVE EngineInv'
<1>1. /\ pc = "artifacts" /\ pc' = "enriched" /\ at' = 0 /\ evidence' = evidence /\ at \in Nat
      /\ candidates' = candidates \o EnrichmentCandidates /\ cancelled' = cancelled
      /\ at = Len(evidence.artifacts) \/ cancelled
      /\ report' = report /\ error' = error /\ report = NoReport /\ error = None /\ WellFormed(evidence)
      /\ Judged(candidates) /\ ClassesIn(Len(Classes), candidates) /\ ArtifactsIn(at, candidates)
  BY DEF EngineInv, Progress, Outcome, ArtifactsDone, Goto, Keep
<1>2. Sound(candidates) /\ Sound(EnrichmentCandidates)
  BY <1>1, EnrichmentCandidatesAreSound DEF Judged
<1>3. RangesIn(candidates')
  BY <1>1, <1>2, SoundJoined DEF RangesIn
<1>4. /\ Sound(candidates') /\ ClassesIn(Len(Classes), candidates') /\ ArtifactsIn(at, candidates')
  <2>1. Len(Classes) \in Nat
    BY <1>1, ClassesAreLocal
  <2>2. QED
    BY <1>1, <1>2, <2>1, FoundStays
<1>5. Judged(candidates')
  BY <1>1, <1>4 DEF Judged
<1>6. Progress' /\ Outcome'
  BY <1>1, <1>3, <1>4, <1>5, NextFound DEF Progress, Outcome, Reported
<1>7. QED
  BY <1>1, <1>6 DEF EngineInv, Stages

LEMMA SettleHolds == ASSUME EngineInv, Settle PROVE EngineInv'
<1>1. /\ pc = "enriched" /\ pc' = "report" /\ at' = 0 /\ evidence' = evidence /\ ~ cancelled
      /\ report' = report /\ error' = error /\ report = NoReport /\ error = None /\ WellFormed(evidence)
      /\ Judged(candidates) /\ Complete(candidates)
  BY DEF EngineInv, Progress, Outcome, Settle, Goto, Keep, Complete
<1>2. PICK recurring \in Selections :
        LET all == candidates \o SecondaryCandidates(recurring) IN
        candidates' = IF all = <<>> THEN <<StateCandidate>> ELSE all
  BY DEF Settle, Selections
<1> DEFINE all == candidates \o SecondaryCandidates(recurring)
<1>3. Sound(all) /\ Complete(all)
  BY <1>1, SecondaryCandidatesAreSound, FoundStays DEF Judged
<1> HIDE DEF all
<1>4. Sound(candidates') /\ Complete(candidates') /\ candidates' # <<>>
  <2>1. CASE all = <<>>
    <3>1. candidates' = <<StateCandidate>>
      BY <1>2, <2>1 DEF all
    <3>2. Sound(<<StateCandidate>>)
      BY <1>1, StateCandidateIsSound, SoundOne
    <3>3. ToSet(all) \subseteq ToSet(<<StateCandidate>>)
      BY <2>1, SoundNone
    <3>4. Complete(<<StateCandidate>>)
      BY <1>3, <3>3 DEF Complete, ClassesIn, ClassFound, ArtifactsIn, ArtifactFound, RangesIn
    <3>5. QED
      BY <3>1, <3>2, <3>4
  <2>2. CASE all # <<>>
    BY <1>2, <1>3, <2>2 DEF all
  <2>3. QED
    BY <2>1, <2>2
<1>5. Judged(candidates')
  BY <1>1, <1>4 DEF Judged
<1>6. Progress' /\ Outcome'
  BY <1>1, <1>4, <1>5, NextFound DEF Progress, Outcome, Reported
<1>7. QED
  BY <1>1, <1>6 DEF EngineInv, Stages

LEMMA ReportHoldsItsOwn == ASSUME EngineInv, Report PROVE EngineInv'
<1>1. /\ pc = "report" /\ pc' = "done" /\ evidence' = evidence /\ at' = at /\ candidates' = candidates
      /\ WellFormed(evidence) /\ at \in Nat /\ report = NoReport
      /\ Judged(candidates) /\ Complete(candidates) /\ candidates # <<>>
  BY DEF EngineInv, Progress, Outcome, Report
<1> DEFINE draft == Draft(Findings(candidates), Ranked(candidates)[1])
           refused == IF NotCited \in draft.citations THEN "citations"
                      ELSE IF ~ Valid(Whole(candidates)) THEN "seal"
                      ELSE IF ~ ValidateAgainstEvidence(Whole(candidates), evidence) THEN "validate" ELSE None
<1>2. error' = refused /\ report' = IF refused = None THEN Whole(candidates) ELSE report
  BY DEF Report, Whole
<1>3. /\ NotCited \notin draft.citations /\ Valid(Whole(candidates))
      /\ ValidateAgainstEvidence(Whole(candidates), evidence)
      /\ Whole(candidates).findings = Findings(candidates)
  BY <1>1, ReportHolds
<1>4. error' = None /\ report' = Whole(candidates)
  BY <1>2, <1>3
<1>6. report'.findings = Findings(candidates')
  BY <1>1, <1>3, <1>4
<1>7. Judged(candidates)' /\ Complete(candidates)'
  BY <1>1, NextFound
<1>8. Progress'
  BY <1>1 DEF Progress
<1>9. Outcome'
  BY <1>1, <1>4, <1>6, <1>7 DEF Outcome
<1>10. QED
  BY <1>1, <1>8, <1>9 DEF EngineInv, Stages

LEMMA CancelHolds == ASSUME EngineInv, Cancel PROVE EngineInv'
<1>1. /\ pc \notin {"done", "report"} /\ cancelled' /\ pc' = pc /\ evidence' = evidence /\ at' = at
      /\ candidates' = candidates /\ report' = report /\ error' = error
  BY DEF Cancel
<1>2. Progress'
  BY <1>1, NextFound DEF EngineInv, Progress
<1>3. Outcome'
  BY <1>1 DEF EngineInv, Outcome, Reported
<1>4. QED
  BY <1>1, <1>2, <1>3 DEF EngineInv

LEMMA AgainHolds == ASSUME EngineInv, Again PROVE EngineInv'
<1>1. /\ pc = "done" /\ pc' = "verify" /\ at' = 0 /\ evidence' = evidence /\ report' = NoReport /\ error' = error
      /\ WellFormed(evidence) /\ error = None
  BY DEF EngineInv, Outcome, Reported, Again
<1>2. Progress' /\ Outcome'
  BY <1>1 DEF Progress, Outcome, Reported
<1>3. QED
  BY <1>1, <1>2 DEF EngineInv, Stages

(* What is judged does not depend on what stays as it is.                  *)
LEMMA StutterHolds == ASSUME EngineInv, UNCHANGED vars PROVE EngineInv'
<1>1. /\ pc' = pc /\ at' = at /\ evidence' = evidence /\ cancelled' = cancelled /\ candidates' = candidates
      /\ report' = report /\ error' = error
  BY DEF vars
<1>2. Progress'
  BY <1>1, NextFound DEF EngineInv, Progress
<1>3. Outcome'
  BY <1>1, NextFound DEF EngineInv, Outcome, Reported
<1>4. QED
  BY <1>1, <1>2, <1>3 DEF EngineInv

(* What the diagnosis holds to, step after step, whatever evidence it is   *)
(* given and whenever its caller cancels.                                  *)
THEOREM EngineInvariant == Spec => []EngineInv
<1>1. Init => EngineInv
  BY InitHolds
<1>2. EngineInv /\ [Next]_vars => EngineInv'
  <2>1. SUFFICES ASSUME EngineInv, [Next]_vars
                 PROVE  EngineInv'
    OBVIOUS
  <2>2. CASE CollectArtifact
    BY <2>1, <2>2, CollectArtifactHolds
  <2>3. CASE Collected
    BY <2>1, <2>3, CollectedHolds
  <2>4. CASE Verified
    BY <2>1, <2>4, VerifiedHolds
  <2>5. CASE Refuse
    BY <2>1, <2>5, StopHolds DEF Refuse
  <2>6. CASE AnalyzeClass
    BY <2>1, <2>6, AnalyzeClassHolds
  <2>7. CASE ClassesDone
    BY <2>1, <2>7, ClassesDoneHolds
  <2>8. CASE AnalyzeArtifact
    BY <2>1, <2>8, AnalyzeArtifactHolds
  <2>9. CASE ArtifactsDone
    BY <2>1, <2>9, ArtifactsDoneHolds
  <2>10. CASE Settle
    BY <2>1, <2>10, SettleHolds
  <2>11. CASE Report
    BY <2>1, <2>11, ReportHoldsItsOwn
  <2>12. CASE GiveUp
    BY <2>1, <2>12, StopHolds DEF GiveUp
  <2>13. CASE Cancel
    BY <2>1, <2>13, CancelHolds
  <2>14. CASE Again
    BY <2>1, <2>14, AgainHolds
  <2>15. CASE UNCHANGED vars
    BY <2>1, <2>15, StutterHolds
  <2>16. QED
    BY <2>1, <2>2, <2>3, <2>4, <2>5, <2>6, <2>7, <2>8, <2>9, <2>10, <2>11, <2>12, <2>13, <2>14, <2>15
       DEF Next, Diagnose, Done
<1>3. QED
  BY <1>1, <1>2, PTL DEF Spec

(* Diagnosis fails only on evidence it must refuse and on cancellation:    *)
(* whatever facts, logs and omissions the evidence holds, the report built *)
(* from it passes Seal and ValidateAgainstEvidence (engine.Diagnose).      *)
THEOREM ReportAlwaysSeals == Spec => []EveryReportSeals
<1>1. EngineInv => EveryReportSeals
  BY DEF EngineInv, Outcome, EveryReportSeals
<1>2. QED
  BY <1>1, EngineInvariant, PTL

(* When the selected run's class is an exact launch, lifecycle or policy   *)
(* fact, no log output takes its place as the primary finding.             *)
THEOREM TrustedFactsRank == Spec => []TrustedOutranksTarget
<1>1. EngineInv => TrustedOutranksTarget
  <2>1. SUFFICES ASSUME EngineInv, Reported, NEW i \in ToSet(Decoded(Classes)), i.value \in ExactClasses
                 PROVE  report.findings[1].code \notin TargetCodes
    BY DEF TrustedOutranksTarget
  <2>2. WellFormed(evidence) /\ Sound(candidates) /\ Complete(candidates) /\ report.findings = Findings(candidates)
    BY <2>1 DEF EngineInv, Outcome, Judged
  <2>3. QED
    BY <2>1, <2>2, TrustedFactsLead
<1>2. QED
  BY <1>1, EngineInvariant, PTL

(* A cancellation ends the diagnosis or comes too late: it never thins a   *)
(* report out.                                                             *)
THEOREM ReportsAreWhole == Spec => []ReportIsWhole
<1>1. EngineInv => ReportIsWhole
  <2>1. SUFFICES ASSUME EngineInv, Reported
                 PROVE  WholeCodes \subseteq Codes(report.findings)
    BY DEF ReportIsWhole
  <2>2. WellFormed(evidence) /\ Sound(candidates) /\ Complete(candidates) /\ report.findings = Findings(candidates)
    BY <2>1 DEF EngineInv, Outcome, Judged
  <2>3. QED
    BY <2>2, NothingIsMissing
<1>2. QED
  BY <1>1, EngineInvariant, PTL

(* A shared report about a historical run rests on that run's own facts    *)
(* and logs and on the job's, and its outcome never on the job's present   *)
(* one.                                                                    *)
THEOREM SharedReportsKeepToTheirRun == Spec => []SharedNeverBorrows
<1>1. EngineInv => SharedNeverBorrows
  <2>1. SUFFICES ASSUME EngineInv, Reported, HistoricalRun, NEW f \in ToSet(report.findings),
                        f.code \notin {"secondary.notification_failed", "secondary.same_fingerprint_history"}
                 PROVE  \A id \in f.support : OfJobOrRun(id, Last(evidence.runs)) /\ id[1] # "JobOutcome"
    BY DEF SharedNeverBorrows, HistoricalRun
  <2>2. Sound(candidates) /\ report.findings = Findings(candidates)
    BY <2>1 DEF EngineInv, Outcome, Judged
  <2>3. QED
    BY <2>1, <2>2, NothingIsBorrowed
<1>2. QED
  BY <1>1, EngineInvariant, PTL

(* Every diagnosis among the messages that were collected is a finding     *)
(* that cites one of them, the last message of a log where it is one; and  *)
(* the diagnoses of last messages are ranked before all the others         *)
(* (enrichmentCandidates, uniqueCandidates).                               *)
THEOREM LastMessagesLead == Spec => []LastMessageLeads
<1>1. EngineInv => LastMessageLeads
  <2>1. SUFFICES ASSUME EngineInv, Reported
                 PROVE  LastMessageLeads
    BY DEF LastMessageLeads
  <2>2. /\ WellFormed(evidence) /\ ValidFailureEvidence(evidence) /\ Sound(candidates) /\ Complete(candidates)
        /\ report.findings = Findings(candidates)
    BY <2>1 DEF EngineInv, Outcome, Judged
  <2> DEFINE final == Diagnosed(LastMessages)
             messages(code) == IF code \in final THEN LastMessages ELSE CollectedMessages
  <2>3. ASSUME NEW code \in Diagnosed(CollectedMessages)
        PROVE  Cited(code, messages(code))
    <3>1. PICK i \in messages(code) : DiagnosticFormat(i) = code
      BY <2>3 DEF Diagnosed
    <3>2. i \in CollectedMessages /\ (code \in final => i \in LastMessages)
      BY <3>1 DEF LastMessages
    <3>3. PICK n \in DOMAIN Findings(candidates) :
            /\ Findings(candidates)[n].code = code
            /\ Of(Findings(candidates)[n], CollectedMessages)
            /\ i \in LastMessages => Of(Findings(candidates)[n], LastMessages)
      BY <2>2, <3>1, <3>2, MessageIsCited
    <3>4. Findings(candidates)[n] \in ToSet(report.findings)
      BY <2>2 DEF ToSet
    <3>5. QED
      BY <3>2, <3>3, <3>4 DEF Cited, Of
  <2>4. ASSUME NEW n \in DOMAIN report.findings, NEW m \in DOMAIN report.findings,
               report.findings[n].code \in final,
               report.findings[m].code \in Diagnosed(CollectedMessages) \ final
        PROVE  n < m
    BY <2>2, <2>4, LastMessagesAhead
  <2>5. QED
    BY <2>3, <2>4 DEF LastMessageLeads
<1>2. QED
  BY <1>1, EngineInvariant, PTL
=============================================================================
