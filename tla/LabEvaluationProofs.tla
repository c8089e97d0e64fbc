-------------------------- MODULE LabEvaluationProofs --------------------------
(***************************************************************************)
(* Theorems about the evaluation side of the laboratory, as parts of Lab:   *)
(* source readiness, the odds gate, the evaluation scripts, the holdout     *)
(* policy, the feature builders and the accumulator generators.            *)
(*                                                                         *)
(* A theorem says of one part that its property always holds.  It follows  *)
(* from the inductive invariant that the module of the part states, which  *)
(* the steps of the other parts leave alone: lab never changes.            *)
(***************************************************************************)
EXTENDS LabServicesProofs, FiniteSetTheorems, FunctionTheorems, WellFoundedInduction

\* Steps of one part, and steps that leave it alone
LEMMA StepOfEvaluation ==
  ASSUME [LabNext]_labvars
  PROVE  /\ lab' = lab
         /\ lab = "odds" => [Gate!Next]_(Gate!vars)
         /\ lab = "experiments" => [Exp!Next]_(Exp!vars)
         /\ lab = "holdout" => [Hold!Next]_(Hold!vars)
         /\ lab = "features" => [Feat!Next]_(Feat!vars)
         /\ lab = "readiness" => [Ready!Next]_(Ready!vars)
         /\ lab = "accumulators" => [Acca!Next]_(Acca!vars)
BY DEF LabNext, labvars, slots, Gate!vars, Exp!vars, Hold!vars, Feat!vars, Ready!vars,
       Ready!given, Ready!audit, Ready!outside, Ready!files, Acca!vars

(***************************************************************************)
(* Source readiness: v1 source, v2 cutoff, v3 rows, v4 seen, v5 count,      *)
(* v6 accepted, v7 policy, v8 commit, v9 report, v10 manifest, v11 writer,  *)
(* v12 validator                                                           *)
(***************************************************************************)
LEMMA SameSets ==
  \A S : (Ready!IsFiniteSet(S) <=> IsFiniteSet(S)) /\ Ready!Cardinality(S) = Cardinality(S)
BY DEF Ready!IsFiniteSet, IsFiniteSet, Ready!Cardinality, Cardinality

LEMMA ReadinessInit == Ready!Init => Ready!ReadinessInv
<1>. SUFFICES ASSUME Ready!Init PROVE Ready!ReadinessInv
  OBVIOUS
<1>1. /\ v3 = <<>> /\ v4 = {} /\ v6 = {} /\ v5 = [c \in Ready!Counters |-> 0]
      /\ v1 \in BOOLEAN /\ v9 = Ready!Absent /\ v11.pc = "idle" /\ v12.pc = "idle"
  BY DEF Ready!Init, Ready!Idle, Ready!Resting
<1>2. Ready!IsFiniteSet({}) /\ Ready!Cardinality({}) = 0
  BY FS_EmptySet, SameSets
<1>3. v3 \in Seq(Ready!Records) /\ DOMAIN v3 = {} /\ Len(v3) = 0
  BY <1>1
<1>4. Ready!TypeOK
  <2>1. v5 \in [Ready!Counters -> Nat]
    BY <1>1
  <2>2. v6 \subseteq DOMAIN v3 /\ Ready!IsFiniteSet(v6)
    BY <1>1, <1>2
  <2>. QED
    BY <1>1, <1>3, <2>1, <2>2, Zenon DEF Ready!TypeOK
<1>5. Ready!SeenSound
  BY <1>1, <1>3 DEF Ready!SeenSound
<1>6. Ready!AuditAccountable
  <2>1. \A c \in Ready!Counters : v5[c] = 0
    BY <1>1
  <2>2. /\ v5["schema"] = 0 /\ v5["missing_provenance"] = 0 /\ v5["duplicate"] = 0
        /\ v5["matched"] = 0 /\ v5["unmatched"] = 0 /\ v5["ambiguous"] = 0 /\ v5["late"] = 0
    BY <2>1 DEF Ready!Counters
  <2>3. ~(v5["matched"] > 0)
    BY <2>2
  <2>4. v5["schema"] + v5["missing_provenance"] + v5["duplicate"] + v5["matched"]
          + v5["unmatched"] + v5["ambiguous"] + v5["late"] = IF v1 THEN Len(v3) ELSE 2 * Len(v3)
    <3>1. Len(v3) = 0 /\ 2 * Len(v3) = 0
      BY <1>3
    <3>2. v5["schema"] + v5["missing_provenance"] + v5["duplicate"] + v5["matched"]
          + v5["unmatched"] + v5["ambiguous"] + v5["late"] = 0
      BY <2>2
    <3>. QED
      BY <1>1, <3>1, <3>2, Zenon
  <2>5. v5["matched"] = Ready!Cardinality(v6)
    BY <1>1, <1>2, <2>2
  <2>6. \A i \in DOMAIN v3 : FALSE
    BY <1>3
  <2>. QED
    BY <2>3, <2>4, <2>5, <2>6, Zenon DEF Ready!AuditAccountable, Ready!SourceStatus
<1>7. Ready!FilesSound /\ Ready!ValidatedTogether
  <2>1. v11 = [pc |-> "idle", runs |-> 0, report |-> Ready!Absent]
         /\ v12 = [pc |-> "idle", policy |-> Ready!Absent, report |-> Ready!Absent,
                    manifest |-> Ready!Absent]
    BY DEF Ready!Init, Ready!Idle, Ready!Resting
  <2>2. Ready!Deferring(v9)
    BY <1>1 DEF Ready!Deferring, Ready!Absent
  <2>. QED
    BY <2>1, <2>2 DEF Ready!FilesSound, Ready!ValidatedTogether
<1>. QED
  BY <1>4, <1>5, <1>6, <1>7 DEF Ready!ReadinessInv

LEMMA RefusalFacts ==
  ASSUME NEW r \in Ready!Records, v1 \in BOOLEAN
  PROVE  /\ Ready!Refusal(r) \in {"late", "schema", "missing_provenance", "none"}
         /\ Ready!Refusal(r) = "none" => v1
         /\ Ready!Match(r) \in {"matched", "unmatched", "ambiguous", "late"}
<1>1. r.refusal \in Ready!Refusals \union {"none"}
  <2>. DEFINE Matched(id, x) == [Ready!Typical(id) EXCEPT !.match = x]
              Moved(id, x) == [Ready!Typical(id) EXCEPT !.kickoff = x]
              Close(id) == [Ready!Typical(id) EXCEPT !.captured = "close", !.kickoff = "shifted"]
              After(id) == [Ready!Typical(id) EXCEPT !.available = "after"]
              Other(x) == [Ready!Typical(1) EXCEPT !.refusal = x]
  <2>1. \A id : /\ Ready!Typical(id).refusal = "none" /\ Close(id).refusal = "none"
                /\ After(id).refusal = "none"
    BY DEF Ready!Typical
  <2>2. \A id, x : Matched(id, x).refusal = "none" /\ Moved(id, x).refusal = "none"
    BY DEF Ready!Typical
  <2>3. \A x : Other(x).refusal = x
    BY DEF Ready!Typical
  <2>4. /\ Ready!Refused = {Other(x) : x \in Ready!Refusals}
        /\ \A id : Ready!Varied(id) =
             {Ready!Typical(id)} \union {Matched(id, m) : m \in {"unknown", "double"}}
             \union {Moved(id, k) : k \in {"shifted", "far"}} \union {Close(id)}
             \union {After(id)}
    BY DEF Ready!Refused, Ready!Varied
  <2>. HIDE DEF Matched, Moved, Close, After, Other
  <2>5. (\A q \in Ready!Refused : q.refusal \in Ready!Refusals)
        /\ \A id : \A q \in Ready!Varied(id) : q.refusal = "none"
    BY <2>1, <2>2, <2>3, <2>4
  <2>. QED
    BY <2>5 DEF Ready!Records
<1>2. Ready!Refusals = {"late", "provenance", "schema", "source_not_allowlisted",
                        "source_version_mismatch", "input_hash_mismatch"}
  BY DEF Ready!Refusals
<1>3. /\ Ready!Refusal(r) \in {"late", "schema", "missing_provenance", "none"}
      /\ Ready!Refusal(r) = "none" => v1
  BY <1>1, <1>2 DEF Ready!Refusal
<1>4. Ready!Match(r) \in {"matched", "unmatched", "ambiguous", "late"}
  BY DEF Ready!Match
<1>. QED
  BY <1>3, <1>4

\* A record adds one to one of the seven counters, and without a source one to those
\* that lack provenance.
LEMMA CountedOnce ==
  ASSUME Ready!TypeOK, NEW S, Ready!Counted(S)
  PROVE  /\ v5' \in [Ready!Counters -> Nat]
         /\ \A c \in Ready!Counters :
              v5'[c] = v5[c] + (IF c \in S THEN 1 ELSE 0)
                             + (IF c = "missing_provenance" /\ ~v1 THEN 1 ELSE 0)
BY DEF Ready!TypeOK, Ready!Counted

SevenSum(f) ==
  f["schema"] + f["missing_provenance"] + f["duplicate"] + f["matched"] + f["unmatched"]
    + f["ambiguous"] + f["late"]

LEMMA SevenSums ==
  ASSUME NEW f \in [Ready!Counters -> Nat], NEW g \in [Ready!Counters -> Nat], NEW x \in Nat,
         NEW h \in [Ready!Counters -> Nat],
         \A d \in Ready!Counters \ {"valid"} :
           h[d] = f[d] + g[d] + (IF d = "missing_provenance" THEN x ELSE 0),
         SevenSum(g) = 1
  PROVE  SevenSum(h) = SevenSum(f) + 1 + x /\ SevenSum(f) \in Nat
<1>1. {"schema", "missing_provenance", "duplicate", "matched", "unmatched", "ambiguous", "late"}
        \subseteq Ready!Counters \ {"valid"}
  BY DEF Ready!Counters
<1>2. /\ h["schema"] = f["schema"] + g["schema"]
      /\ h["duplicate"] = f["duplicate"] + g["duplicate"]
      /\ h["matched"] = f["matched"] + g["matched"]
      /\ h["unmatched"] = f["unmatched"] + g["unmatched"]
      /\ h["ambiguous"] = f["ambiguous"] + g["ambiguous"]
      /\ h["late"] = f["late"] + g["late"]
  BY <1>1
<1>3. h["missing_provenance"] = f["missing_provenance"] + g["missing_provenance"] + x
  BY <1>1
<1>4. /\ f["schema"] \in Nat /\ f["missing_provenance"] \in Nat /\ f["duplicate"] \in Nat
      /\ f["matched"] \in Nat /\ f["unmatched"] \in Nat /\ f["ambiguous"] \in Nat
      /\ f["late"] \in Nat
  BY <1>1
<1>5. /\ g["schema"] \in Nat /\ g["missing_provenance"] \in Nat /\ g["duplicate"] \in Nat
      /\ g["matched"] \in Nat /\ g["unmatched"] \in Nat /\ g["ambiguous"] \in Nat
      /\ g["late"] \in Nat
  BY <1>1
<1>. DEFINE three(k) == k["schema"] + k["missing_provenance"] + k["duplicate"]
            five(k) == three(k) + k["matched"] + k["unmatched"]
<1>6. three(f) \in Nat /\ three(g) \in Nat /\ three(h) = three(f) + three(g) + x
  BY <1>2, <1>3, <1>4, <1>5
<1>7. five(f) \in Nat /\ five(g) \in Nat /\ five(h) = five(f) + five(g) + x
  <2>. HIDE DEF three
  <2>. QED
    BY <1>2, <1>4, <1>5, <1>6
<1>8. \A k : SevenSum(k) = five(k) + k["ambiguous"] + k["late"]
  BY DEF SevenSum
<1>. HIDE DEF five
<1>. QED
  BY <1>2, <1>4, <1>5, <1>7, <1>8

LEMMA SumGrows ==
  ASSUME Ready!TypeOK, NEW S, Ready!Counted(S), Ready!AuditAccountable,
         NEW c \in {"schema", "missing_provenance", "duplicate", "matched", "unmatched",
                    "ambiguous", "late"},
         S \subseteq {c, "valid"}, c \in S
  PROVE  SevenSum(v5') = IF v1 THEN Len(v3) + 1 ELSE 2 * (Len(v3) + 1)
<1>. DEFINE x == IF v1 THEN 0 ELSE 1
            one == [d \in Ready!Counters |-> IF d = c THEN 1 ELSE 0]
<1>1. x \in Nat /\ (v1 => x = 0) /\ (~v1 => x = 1)
  OBVIOUS
<1>2. one \in [Ready!Counters -> Nat]
  OBVIOUS
<1>3. SevenSum(one) = 1
  BY DEF SevenSum, Ready!Counters
<1>4. \A d \in Ready!Counters \ {"valid"} :
        v5'[d] = v5[d] + one[d] + (IF d = "missing_provenance" THEN x ELSE 0)
  <2>1. \A d \in Ready!Counters \ {"valid"} :
          v5'[d] = v5[d] + one[d] + (IF d = "missing_provenance" /\ ~v1 THEN 1 ELSE 0)
    BY CountedOnce
  <2>2. CASE v1
    BY <2>1, <2>2
  <2>3. CASE ~v1
    BY <2>1, <2>3
  <2>. QED
    BY <2>2, <2>3
<1>5. v5 \in [Ready!Counters -> Nat] /\ Len(v3) \in Nat
  BY DEF Ready!TypeOK
<1>. HIDE DEF x, one
<1>h. PICK h : h = v5'
  OBVIOUS
<1>6. SevenSum(v5') = SevenSum(v5) + 1 + x /\ SevenSum(v5) \in Nat
  <2>1. \A d \in Ready!Counters \ {"valid"} :
          h[d] = v5[d] + one[d] + (IF d = "missing_provenance" THEN x ELSE 0)
    BY <1>h, <1>4
  <2>2. SevenSum(h) = SevenSum(v5) + 1 + x /\ SevenSum(v5) \in Nat
    <3>1. h \in [Ready!Counters -> Nat]
      BY <1>h, CountedOnce
    <3>2. x \in Nat /\ v5 \in [Ready!Counters -> Nat]
      BY <1>1, <1>5
    <3>. QED
      BY <1>2, <1>3, <2>1, <3>1, <3>2, SevenSums
  <2>. QED
    BY <1>h, <2>2
<1>7. SevenSum(v5) = IF v1 THEN Len(v3) ELSE 2 * Len(v3)
  BY DEF SevenSum, Ready!AuditAccountable
<1>8. CASE v1
  BY <1>1, <1>5, <1>6, <1>7, <1>8
<1>9. CASE ~v1
  BY <1>1, <1>5, <1>6, <1>7, <1>9
<1>. QED
  BY <1>8, <1>9

\* A record joins the audit: it is refused, repeats an identity, or takes a new one.
LEMMA RecordJoins ==
  ASSUME Ready!ReadinessInv, NEW r \in Ready!Records, v3' = Append(v3, r), v1' = v1, v2' = v2,
         NEW S, Ready!Counted(S),
         NEW c \in {"schema", "missing_provenance", "duplicate", "matched", "unmatched",
                    "ambiguous", "late"},
         S \subseteq {c, "valid"}, c \in S,
         v6' = IF c = "matched" THEN v6 \union {Len(v3) + 1} ELSE v6,
         c = "matched" <=>
           /\ Ready!Refusal(r) = "none" /\ Ready!Match(r) = "matched"
           /\ Ready!Identity(r) \notin v4,
         v4' = IF Ready!Refusal(r) = "none" THEN v4 \union {Ready!Identity(r)} ELSE v4
  PROVE  Ready!TypeOK' /\ Ready!SeenSound' /\ Ready!AuditAccountable'
<1>1. /\ v3 \in Seq(Ready!Records) /\ v6 \subseteq DOMAIN v3 /\ Ready!IsFiniteSet(v6)
      /\ v5 \in [Ready!Counters -> Nat]
  BY DEF Ready!ReadinessInv, Ready!TypeOK
<1>b. v1 \in BOOLEAN
  BY DEF Ready!ReadinessInv, Ready!TypeOK
<1>2. /\ v3' \in Seq(Ready!Records) /\ Len(v3) \in Nat /\ Len(v3') = Len(v3) + 1
      /\ DOMAIN v3 = 1..Len(v3) /\ DOMAIN v3' = 1..(Len(v3) + 1)
      /\ v3'[Len(v3) + 1] = r /\ \A i \in 1..Len(v3) : v3'[i] = v3[i]
  <2>1. PICK M : M = Append(v3, r)
    OBVIOUS
  <2>. QED
    BY <1>1, <2>1, AppendFacts
<1>3. /\ IsFiniteSet(v6) /\ Len(v3) + 1 \notin v6
      /\ v6' \subseteq DOMAIN v3' /\ IsFiniteSet(v6')
      /\ Cardinality(v6') = Cardinality(v6) + (IF c = "matched" THEN 1 ELSE 0)
  <2>1. IsFiniteSet(v6) /\ Len(v3) + 1 \notin v6
    BY <1>1, <1>2, SameSets
  <2>2. /\ IsFiniteSet(v6 \union {Len(v3) + 1})
        /\ Cardinality(v6 \union {Len(v3) + 1}) = Cardinality(v6) + 1
    BY <2>1, FS_AddElement
  <2>3. Cardinality(v6) \in Nat
    BY <2>1, FS_CardinalityType
  <2>4. v6 \subseteq DOMAIN v3' /\ Len(v3) + 1 \in DOMAIN v3'
    BY <1>1, <1>2
  <2>5. CASE c = "matched"
    BY <2>1, <2>2, <2>4, <2>5
  <2>6. CASE c # "matched"
    BY <2>1, <2>3, <2>4, <2>6
  <2>. QED
    BY <2>5, <2>6
<1>4. Ready!TypeOK'
  <2>1. v5' \in [Ready!Counters -> Nat]
    BY CountedOnce DEF Ready!ReadinessInv
  <2>2. Ready!IsFiniteSet(v6')
    BY <1>3, SameSets
  <2>3. v1' \in BOOLEAN /\ v3' \in Seq(Ready!Records) /\ v6' \subseteq DOMAIN v3'
    BY <1>b, <1>2, <1>3, Zenon
  <2>. QED
    BY <2>1, <2>2, <2>3, Zenon DEF Ready!TypeOK, Ready!IsFiniteSet
<1>5. \A x : /\ Ready!Refusal(x)' = Ready!Refusal(x) /\ Ready!Match(x)' = Ready!Match(x)
             /\ Ready!Identity(x)' = Ready!Identity(x)
  BY DEF Ready!Refusal, Ready!Match, Ready!Identity
<1>6. \A x : x \in v4 <=> \E j \in 1..Len(v3) :
                           Ready!Refusal(v3[j]) = "none" /\ Ready!Identity(v3[j]) = x
  BY <1>2 DEF Ready!ReadinessInv, Ready!SeenSound
<1>7. Ready!SeenSound'
  <2>1. \A x : x \in v4' <=> \E j \in 1..(Len(v3) + 1) :
                             Ready!Refusal(v3'[j]) = "none" /\ Ready!Identity(v3'[j]) = x
    BY <1>2, <1>6
  <2>2. v4' = {Ready!Identity(v3'[i]) : i \in {j \in DOMAIN v3' : Ready!Refusal(v3'[j]) = "none"}}
    BY <1>2, <2>1
  <2>. QED
    BY <2>2 DEF Ready!SeenSound, Ready!Refusal, Ready!Identity
<1>8. ASSUME NEW i \in 1..(Len(v3) + 1)
      PROVE  i \in v6' <=>
               /\ Ready!Refusal(v3'[i]) = "none" /\ Ready!Match(v3'[i]) = "matched"
               /\ \A j \in 1..(i - 1) : Ready!Identity(v3'[j]) = Ready!Identity(v3'[i]) =>
                                        Ready!Refusal(v3'[j]) # "none"
  <2>1. CASE i \in 1..Len(v3)
    <3>1. i \in v6' <=> i \in v6
      BY <1>2, <2>1
    <3>2. \A j \in 1..(i - 1) : v3'[j] = v3[j]
      BY <1>2, <2>1
    <3>3. i \in v6 <=>
            /\ Ready!Refusal(v3[i]) = "none" /\ Ready!Match(v3[i]) = "matched"
            /\ \A j \in 1..(i - 1) : Ready!Identity(v3[j]) = Ready!Identity(v3[i]) =>
                                     Ready!Refusal(v3[j]) # "none"
      BY <1>2, <2>1 DEF Ready!ReadinessInv, Ready!AuditAccountable
    <3>. QED
      BY <1>2, <2>1, <3>1, <3>2, <3>3
  <2>2. CASE i = Len(v3) + 1
    <3>1. \A j \in 1..(i - 1) : j \in 1..Len(v3) /\ v3'[j] = v3[j]
      BY <1>2, <2>2
    <3>2. \A j \in 1..Len(v3) : j \in 1..(i - 1)
      BY <1>2, <2>2
    <3>3. v3'[i] = r /\ (i \in v6' <=> c = "matched")
      BY <1>2, <1>3, <2>2
    <3>4. Ready!Identity(r) \notin v4 <=>
            \A j \in 1..(i - 1) : Ready!Identity(v3'[j]) = Ready!Identity(r) =>
                                  Ready!Refusal(v3'[j]) # "none"
      BY <1>6, <3>1, <3>2
    <3>. QED
      BY <3>3, <3>4
  <2>. QED
    BY <1>2, <2>1, <2>2
<1>9. SevenSum(v5') = IF v1' THEN Len(v3') ELSE 2 * Len(v3')
  <2>1. SevenSum(v5') = IF v1 THEN Len(v3) + 1 ELSE 2 * (Len(v3) + 1)
    BY SumGrows DEF Ready!ReadinessInv
  <2>. QED
    BY <1>2, <2>1
<1>10. v5'["matched"] = Ready!Cardinality(v6')
  <2>1. v5'["matched"] = v5["matched"] + (IF "matched" \in S THEN 1 ELSE 0) + 0
    <3>1. "matched" \in Ready!Counters
      BY DEF Ready!Counters
    <3>. QED
      BY <3>1, CountedOnce DEF Ready!ReadinessInv
  <2>2. v5["matched"] = Cardinality(v6) /\ v5["matched"] \in Nat
    <3>1. v5["matched"] = Ready!Cardinality(v6)
      BY DEF Ready!ReadinessInv, Ready!AuditAccountable
    <3>2. v5["matched"] \in Nat
      BY <1>1 DEF Ready!Counters
    <3>. QED
      BY <3>1, <3>2, SameSets
  <2>3. "matched" \in S <=> c = "matched"
    OBVIOUS
  <2>4. v5'["matched"] = Cardinality(v6')
    BY <1>3, <2>1, <2>2, <2>3
  <2>. QED
    BY <2>4, SameSets
<1>11. v5'["matched"] > 0 => v6' # {}
  <2>1. Ready!Cardinality({}) = 0
    BY FS_EmptySet, SameSets
  <2>2. v6' = {} => v5'["matched"] = 0
    BY <1>10, <2>1, Zenon
  <2>. QED
    BY <2>2
<1>12. Ready!AuditAccountable'
  <2>1. \A i \in DOMAIN v3' : i \in v6' <=>
               /\ Ready!Refusal(v3'[i]) = "none" /\ Ready!Match(v3'[i]) = "matched"
               /\ \A j \in 1..(i - 1) : Ready!Identity(v3'[j]) = Ready!Identity(v3'[i]) =>
                                        Ready!Refusal(v3'[j]) # "none"
    BY <1>2, <1>8
  <2>2. \A i \in DOMAIN v3' : i \in v6' <=>
               /\ Ready!Refusal(v3[i])' = "none" /\ Ready!Match(v3[i])' = "matched"
               /\ \A j \in 1..(i - 1) : Ready!Identity(v3[j])' = Ready!Identity(v3[i])' =>
                                        Ready!Refusal(v3[j])' # "none"
    BY <2>1 DEF Ready!Refusal, Ready!Match, Ready!Identity
  <2>. QED
    BY <1>9, <1>10, <1>11, <2>2
       DEF Ready!AuditAccountable, SevenSum, Ready!SourceStatus, Ready!Cardinality
<1>. QED
  BY <1>4, <1>7, <1>12

LEMMA ReadinessAudit == Ready!ReadinessInv /\ Ready!Audit => Ready!ReadinessInv'
<1>. SUFFICES ASSUME Ready!ReadinessInv, Ready!Audit PROVE Ready!ReadinessInv'
  OBVIOUS
<1>1. PICK r \in Ready!Records :
        v3' = Append(v3, r) /\ (Ready!Refuse(r) \/ Ready!Repeat(r) \/ Ready!Assess(r))
  BY DEF Ready!Audit
<1>2. /\ v1' = v1 /\ v2' = v2 /\ v7' = v7 /\ v9' = v9 /\ v10' = v10 /\ v11' = v11
      /\ v12' = v12
  BY DEF Ready!Audit, Ready!given, Ready!outside, Ready!files
<1>3. v1 \in BOOLEAN
  BY DEF Ready!ReadinessInv, Ready!TypeOK
<1>4. /\ Ready!Refusal(r) \in {"late", "schema", "missing_provenance", "none"}
      /\ Ready!Match(r) \in {"matched", "unmatched", "ambiguous", "late"}
  BY <1>3, RefusalFacts
<1>5. Ready!TypeOK' /\ Ready!SeenSound' /\ Ready!AuditAccountable'
  <2>1. CASE Ready!Refuse(r)
    <3>1. PICK S, c : S = {Ready!Refusal(r)} /\ c = Ready!Refusal(r)
      OBVIOUS
    <3>2. Ready!Counted(S) /\ v6' = v6 /\ v4' = v4 /\ c # "none" /\ c # "matched"
      BY <1>4, <2>1, <3>1 DEF Ready!Refuse
    <3>. QED
      BY <1>1, <1>2, <1>4, <3>1, <3>2, RecordJoins
  <2>2. CASE Ready!Repeat(r)
    <3>1. Ready!Counted({"duplicate"}) /\ v6' = v6 /\ v4' = v4 /\ Ready!Identity(r) \in v4
      BY <2>2 DEF Ready!Repeat
    <3>2. v4' = v4 \union {Ready!Identity(r)}
      BY <3>1
    <3>. QED
      BY <1>1, <1>2, <3>1, <3>2, RecordJoins
  <2>3. CASE Ready!Assess(r)
    <3>1. PICK S, c : S = {"valid", Ready!Match(r)} /\ c = Ready!Match(r)
      OBVIOUS
    <3>2. /\ Ready!Counted(S) /\ Ready!Refusal(r) = "none" /\ Ready!Identity(r) \notin v4
          /\ v6' = (IF c = "matched" THEN v6 \union {Len(v3) + 1} ELSE v6)
          /\ v4' = v4 \union {Ready!Identity(r)}
      BY <2>3, <3>1 DEF Ready!Assess
    <3>. QED
      BY <1>1, <1>2, <1>4, <3>1, <3>2, RecordJoins
  <2>. QED
    BY <1>1, <2>1, <2>2, <2>3
<1>6. Ready!FilesSound' /\ Ready!ValidatedTogether'
  BY <1>2 DEF Ready!ReadinessInv, Ready!FilesSound, Ready!ValidatedTogether, Ready!Deferring,
              Ready!ValidReport
<1>. QED
  BY <1>5, <1>6 DEF Ready!ReadinessInv

\* The audit is over before a report or a manifest is written or read.
LEMMA FilesStep ==
  ASSUME Ready!ReadinessInv, UNCHANGED <<v1, v2, v3, v4, v5, v6>>,
         Ready!FilesSound', Ready!ValidatedTogether'
  PROVE  Ready!ReadinessInv'
<1>1. Ready!TypeOK'
  BY DEF Ready!ReadinessInv, Ready!TypeOK, Ready!IsFiniteSet
<1>2. Ready!SeenSound'
  BY DEF Ready!ReadinessInv, Ready!SeenSound, Ready!Refusal, Ready!Identity
<1>3. Ready!AuditAccountable'
  BY DEF Ready!ReadinessInv, Ready!AuditAccountable, Ready!Refusal, Ready!Match,
         Ready!Identity, Ready!SourceStatus, Ready!Cardinality
<1>. QED
  BY <1>1, <1>2, <1>3 DEF Ready!ReadinessInv

LEMMA WriterSteps ==
  ASSUME Ready!FilesSound,
         Ready!Start \/ Ready!WriteReport \/ Ready!WriteManifest \/ Ready!Die
  PROVE  /\ UNCHANGED <<v1, v2, v3, v4, v5, v6, v12>>
         /\ v11' = [pc |-> v11'.pc, runs |-> v11'.runs, report |-> v11'.report]
         /\ Ready!Deferring(v9')
         /\ v11'.pc = "report" => Ready!Deferring(v11'.report)
<1>1. PICK place, runs, r : v11 = [pc |-> place, runs |-> runs, report |-> r]
  BY DEF Ready!FilesSound
<1>2. UNCHANGED <<v1, v2, v3, v4, v5, v6, v12>>
  BY DEF Ready!Start, Ready!WriteReport, Ready!WriteManifest, Ready!Die, Ready!given,
         Ready!audit, Ready!files
<1>3. \A x : [v11 EXCEPT !.pc = x] = [pc |-> x, runs |-> runs, report |-> r]
  BY <1>1
<1>4. Ready!Deferring(v9) /\ (place = "report" => Ready!Deferring(r))
  BY <1>1 DEF Ready!FilesSound
<1>5. CASE Ready!Start
  <2>1. PICK q, n : q = Ready!Report(v7, v8) /\ v11' = [pc |-> "report", runs |-> n, report |-> q]
    BY <1>5 DEF Ready!Start
  <2>2. Ready!Deferring(q)
    BY <2>1 DEF Ready!Deferring, Ready!Report
  <2>3. v9' = v9
    BY <1>5 DEF Ready!Start, Ready!files
  <2>. QED
    BY <1>2, <1>4, <2>1, <2>2, <2>3
<1>6. CASE Ready!WriteReport
  <2>1. place = "report"
    BY <1>1, <1>6 DEF Ready!WriteReport
  <2>2. CASE v9' = Ready!Torn /\ v11' = v11
    BY <1>1, <1>2, <1>4, <2>1, <2>2 DEF Ready!Deferring, Ready!Torn
  <2>3. CASE v9' = v11.report /\ v11' = [v11 EXCEPT !.pc = "manifest"]
    BY <1>1, <1>2, <1>3, <1>4, <2>1, <2>3
  <2>. QED
    BY <1>6, <2>2, <2>3 DEF Ready!WriteReport
<1>7. CASE Ready!WriteManifest \/ Ready!Die
  <2>1. v9' = v9
    BY <1>7 DEF Ready!WriteManifest, Ready!Die, Ready!files
  <2>2. (v11' = v11 /\ place = "manifest") \/ v11' = [v11 EXCEPT !.pc = "idle"]
    BY <1>1, <1>7 DEF Ready!WriteManifest, Ready!Die
  <2>. QED
    BY <1>1, <1>2, <1>3, <1>4, <2>1, <2>2
<1>. QED
  BY <1>5, <1>6, <1>7

LEMMA ValidatorSteps ==
  ASSUME Ready!FilesSound, Ready!ValidatedTogether,
         Ready!LoadPolicy \/ Ready!ReadReport \/ Ready!ReadManifest
  PROVE  /\ UNCHANGED <<v1, v2, v3, v4, v5, v6, v9, v11>>
         /\ \E w : /\ v12' = w
                   /\ w = [pc |-> w.pc, policy |-> w.policy, report |-> w.report,
                           manifest |-> w.manifest]
                   /\ w.pc \in {"manifest", "passed"} =>
                        Ready!Deferring(w.report) /\ Ready!ValidReport(w.report, w.policy)
                   /\ w.pc = "passed" /\ w.manifest # Ready!Absent =>
                        w.manifest.report = w.report
<1>1. PICK place, p, r, m :
        v12 = [pc |-> place, policy |-> p, report |-> r, manifest |-> m]
  BY DEF Ready!FilesSound
<1>2. UNCHANGED <<v1, v2, v3, v4, v5, v6, v9, v11>>
  BY DEF Ready!LoadPolicy, Ready!ReadReport, Ready!ReadManifest, Ready!given,
         Ready!audit, Ready!files
<1>3. PICK w : w = v12'
  OBVIOUS
<1>4. Ready!Resting = [pc |-> "idle", policy |-> Ready!Absent, report |-> Ready!Absent,
                       manifest |-> Ready!Absent]
  BY DEF Ready!Resting
<1>5. CASE Ready!LoadPolicy
  <2>1. w = [pc |-> "report", policy |-> v7, report |-> Ready!Absent, manifest |-> Ready!Absent]
    BY <1>3, <1>5 DEF Ready!LoadPolicy, Ready!Resting
  <2>. QED
    BY <1>2, <1>3, <2>1
<1>6. CASE w = [Ready!Resting EXCEPT !.pc = "failed"]
  <2>1. w = [pc |-> "failed", policy |-> Ready!Absent, report |-> Ready!Absent,
             manifest |-> Ready!Absent]
    BY <1>6 DEF Ready!Resting
  <2>. QED
    BY <1>2, <1>3, <2>1
<1>7. CASE Ready!ReadReport /\ w # [Ready!Resting EXCEPT !.pc = "failed"]
  <2>1. /\ Ready!ValidReport(v9, p)
        /\ w = [pc |-> "manifest", policy |-> p, report |-> v9, manifest |-> m]
    BY <1>1, <1>3, <1>7 DEF Ready!ReadReport
  <2>2. Ready!Deferring(v9)
    BY DEF Ready!FilesSound
  <2>. QED
    BY <1>2, <1>3, <2>1, <2>2
<1>8. CASE Ready!ReadManifest /\ w # [Ready!Resting EXCEPT !.pc = "failed"]
  <2>1. /\ v10 = Ready!Absent \/ Ready!Linked(v10, r)
        /\ w = [pc |-> "passed", policy |-> p, report |-> r, manifest |-> v10]
        /\ place = "manifest"
    BY <1>1, <1>3, <1>8 DEF Ready!ReadManifest
  <2>2. Ready!Deferring(r) /\ Ready!ValidReport(r, p)
    BY <1>1, <2>1 DEF Ready!FilesSound
  <2>3. Ready!Linked(v10, r) => v10.report = r
    BY DEF Ready!Linked, Ready!Manifest
  <2>. QED
    BY <1>2, <1>3, <2>1, <2>2, <2>3
<1>. QED
  BY <1>5, <1>6, <1>7, <1>8

LEMMA ReadinessNext == Ready!ReadinessInv /\ [Ready!Next]_(Ready!vars) => Ready!ReadinessInv'
<1>. SUFFICES ASSUME Ready!ReadinessInv, [Ready!Next]_(Ready!vars) PROVE Ready!ReadinessInv'
  OBVIOUS
<1>. DEFINE Still == UNCHANGED <<v1, v2, v3, v4, v5, v6>>
<1>i. Ready!FilesSound /\ Ready!ValidatedTogether
  BY DEF Ready!ReadinessInv
<1>1. CASE UNCHANGED Ready!vars
  <2>1. Still /\ UNCHANGED <<v9, v10, v11, v12>>
    BY <1>1 DEF Ready!vars, Ready!given, Ready!audit, Ready!outside, Ready!files
  <2>2. Ready!FilesSound' /\ Ready!ValidatedTogether'
    BY <1>i, <2>1 DEF Ready!FilesSound, Ready!ValidatedTogether, Ready!Deferring, Ready!ValidReport
  <2>. QED
    BY <2>1, <2>2, FilesStep
<1>2. CASE Ready!Audit
  BY <1>2, ReadinessAudit
<1>3. CASE Ready!Start \/ Ready!WriteReport \/ Ready!WriteManifest \/ Ready!Die
  <2>1. PICK w, r : w = v11' /\ r = v9'
    OBVIOUS
  <2>2. /\ Still /\ v12' = v12
        /\ w = [pc |-> w.pc, runs |-> w.runs, report |-> w.report]
        /\ Ready!Deferring(r) /\ (w.pc = "report" => Ready!Deferring(w.report))
    BY <1>3, <1>i, <2>1, WriterSteps
  <2>3. Ready!ValidatedTogether'
    BY <1>i, <2>2 DEF Ready!ValidatedTogether
  <2>4. Ready!FilesSound'
    BY <1>i, <2>1, <2>2 DEF Ready!FilesSound, Ready!Deferring, Ready!ValidReport
  <2>. QED
    BY <2>2, <2>3, <2>4, FilesStep
<1>4. CASE Ready!Edit
  <2>1. Still /\ UNCHANGED <<v9, v11, v12>>
    BY <1>4 DEF Ready!Edit, Ready!given, Ready!audit, Ready!files
  <2>2. Ready!FilesSound' /\ Ready!ValidatedTogether'
    BY <1>i, <2>1 DEF Ready!FilesSound, Ready!ValidatedTogether, Ready!Deferring, Ready!ValidReport
  <2>. QED
    BY <2>1, <2>2, FilesStep
<1>5. CASE Ready!LoadPolicy \/ Ready!ReadReport \/ Ready!ReadManifest
  <2>1. Still /\ UNCHANGED <<v9, v11>>
    BY <1>5, <1>i, ValidatorSteps
  <2>2. PICK w : /\ v12' = w
                 /\ w = [pc |-> w.pc, policy |-> w.policy, report |-> w.report,
                         manifest |-> w.manifest]
                 /\ w.pc \in {"manifest", "passed"} =>
                      Ready!Deferring(w.report) /\ Ready!ValidReport(w.report, w.policy)
                 /\ w.pc = "passed" /\ w.manifest # Ready!Absent =>
                      w.manifest.report = w.report
    BY <1>5, <1>i, ValidatorSteps
  <2>3. Ready!FilesSound'
    BY <1>i, <2>1, <2>2 DEF Ready!FilesSound, Ready!Deferring, Ready!ValidReport
  <2>4. w.pc = "passed" => w.report.policy = w.policy /\ ~w.policy.allowed
    BY <2>2 DEF Ready!Deferring, Ready!ValidReport
  <2>5. Ready!ValidatedTogether'
    BY <2>2, <2>4 DEF Ready!ValidatedTogether, Ready!Absent
  <2>. QED
    BY <2>1, <2>3, <2>5, FilesStep
<1>. QED
  BY <1>1, <1>2, <1>3, <1>4, <1>5 DEF Ready!Next

\* Whatever records a source has, a record is accepted exactly if it is the first its
\* source vouches for and matches in time, and each is in one counter; and whatever is
\* edited or dies, a report that validates defers under the policy that was loaded, and
\* the manifest beside it was written for it.
THEOREM ReadinessSoundHolds == LabSpec => []ReadinessSound
<1>. DEFINE Inv == lab = "readiness" => Ready!ReadinessInv
<1>1. LabInit => Inv
  BY ReadinessInit DEF LabInit
<1>2. Inv /\ [LabNext]_labvars => Inv'
  BY ReadinessNext, StepOfEvaluation
<1>3. Inv => ReadinessSound
  BY DEF ReadinessSound, Ready!ReadinessSound, Ready!ReadinessInv
<1>. QED
  BY <1>1, <1>2, <1>3, PTL DEF LabSpec

(***************************************************************************)
(* The odds gate: v1 reusable, v2 gate, v3 read, v4 flawed, v5 rejected,    *)
(* v6 rows, v7 decision                                                    *)
(***************************************************************************)
\* What is ingested is a quote, of a source that allows its use.
LEMMA IngestedQuotes ==
  ASSUME NEW r \in Gate!Sound \union Gate!Flawed, Gate!Rejection(r) = "none"
  PROVE  r \in Gate!Quotes /\ v1
<1>1. v1 /\ r.match # "protected" /\ r.flaw \notin {"schema", "metadata"}
  BY DEF Gate!Rejection
<1>2. CASE r \in Gate!Sound
  <2>1. PICK n \in {1, 2}, o \in {"yes", "no"}, c \in 1 .. 2 : r = Gate!Row(n, o, c)
    BY <1>2 DEF Gate!Sound, Gate!Declared, Gate!Issued
  <2>2. r = [id |-> n, selection |-> o, captured |-> c, match |-> "m", type |-> "pre_match",
             flaw |-> "none"]
    BY <2>1 DEF Gate!Row
  <2>3. c \in Nat
    OBVIOUS
  <2>. QED
    BY <1>1, <2>2, <2>3 DEF Gate!Quotes
<1>3. CASE r \in Gate!Flawed
  <2>1. PICK base : base = Gate!Typical
    OBVIOUS
  <2>2. base = [id |-> 1, selection |-> "yes", captured |-> 1, match |-> "m",
                type |-> "pre_match", flaw |-> "none"]
    BY <2>1 DEF Gate!Typical, Gate!Row, Gate!Declared
  <2>3. \/ \E f \in {"schema", "metadata", "definition", "kickoff"} : r = [base EXCEPT !.flaw = f]
        \/ \E m \in {"protected", "other", "unknown"} : r = [base EXCEPT !.match = m]
        \/ \E c \in {0, 3, 4} : r = [base EXCEPT !.captured = c]
        \/ \E t \in {"opening", "closing"} : r = [base EXCEPT !.type = t]
    BY <1>3, <2>1 DEF Gate!Flawed, Gate!Issued, Gate!Kickoff
  <2>. QED
    BY <1>1, <2>2, <2>3 DEF Gate!Quotes
<1>. QED
  BY <1>1, <1>2, <1>3

LEMMA OddsIngested ==
  ASSUME Gate!GateInv, NEW r \in Gate!Sound \union Gate!Flawed, Gate!Ingest(r)
  PROVE  Gate!GateInv'
<1>1. /\ v7 = Gate!Undecided /\ UNCHANGED <<v1, v2, v7>>
      /\ \/ Gate!Rejection(r) = "none" /\ v6' = Append(v6, r)
         \/ v6' = v6
  BY DEF Gate!Ingest
<1>2. Gate!RowsSound'
  BY <1>1, IngestedQuotes DEF Gate!GateInv, Gate!RowsSound
<1>3. v7'.kind = "none"
  BY <1>1 DEF Gate!Undecided
<1>. QED
  BY <1>2, <1>3 DEF Gate!GateInv, Gate!ComparisonSound

\* A quote that was given once is looked at, and the latest of its group is taken.
LEMMA SelectedLatest ==
  ASSUME Gate!RowsSound, NEW i \in Gate!Selected, NEW j \in Gate!Admissible,
         Gate!Group(j) = Gate!Group(i), v6[j].captured > v6[i].captured
  PROVE  Gate!Twice(j)
<1>. SUFFICES ASSUME ~Gate!Twice(j) PROVE FALSE
  OBVIOUS
<1>. DEFINE First == Gate!FirstOfOutcome(Gate!Admissible)
            Once == Gate!Unrepeated(First)
<1>1. /\ \A a \in Gate!Admissible : a \in DOMAIN v6
      /\ \A a \in DOMAIN v6 : v6[a] \in Gate!Quotes
      /\ \A a \in DOMAIN v6 : a \in Nat
  BY DEF Gate!RowsSound, Gate!Admissible, Gate!Offered
<1>2. ~Gate!Before(j, j)
  BY <1>1 DEF Gate!Before, Gate!Sooner, Gate!Quotes
<1>3. \A k \in Gate!Admissible \ {j} : Gate!Key(k) # Gate!Key(j) /\ Gate!Outcome(k) # Gate!Outcome(j)
  BY DEF Gate!Twice
<1>4. j \in First
  BY <1>2, <1>3 DEF Gate!FirstOfOutcome
<1>5. First \subseteq Gate!Admissible
  BY DEF Gate!FirstOfOutcome
<1>6. j \in Once
  BY <1>3, <1>4, <1>5 DEF Gate!Unrepeated
<1>7. i \in Once /\ ~Gate!Sooner(i, j)
  BY <1>6 DEF Gate!Selected, Gate!Latest
<1>. QED
  BY <1>7 DEF Gate!Sooner

LEMMA SelectedAdmissible == Gate!Selected \subseteq Gate!Admissible
BY DEF Gate!Selected, Gate!Latest, Gate!Unrepeated, Gate!FirstOfOutcome

LEMMA OddsDecided == ASSUME Gate!GateInv, Gate!Decide PROVE Gate!GateInv'
<1>1. UNCHANGED <<v1, v2, v6>>
  BY DEF Gate!Decide
<1>2. Gate!RowsSound'
  BY <1>1 DEF Gate!GateInv, Gate!RowsSound
<1>3. CASE v7'.kind # "accepted"
  BY <1>2, <1>3 DEF Gate!GateInv, Gate!ComparisonSound
<1>4. CASE v7'.kind = "accepted"
  <2>1. PICK chosen : chosen = Gate!Selected
    OBVIOUS
  <2>2. /\ Gate!Pair(chosen) /\ v7'.selected = chosen
        /\ v7'.provenance = Gate!Provenance
    BY <1>4, <2>1 DEF Gate!Decide, Gate!Bar, Gate!Judge, Gate!Decline, Gate!Raise, Gate!Accept,
                       Gate!Decided
  <2>3. chosen \subseteq Gate!Admissible
    BY <2>1, SelectedAdmissible
  <2>4. chosen # {}
    BY <2>2 DEF Gate!Pair
  <2>5. v1
    BY <2>3, <2>4 DEF Gate!GateInv, Gate!RowsSound, Gate!Admissible, Gate!Offered
  <2>6. ASSUME NEW i \in chosen
        PROVE  v6[i].match = "m" /\ v6[i].captured < Gate!Issued /\ v6[i].flaw = "none"
    <3>1. /\ i \in DOMAIN v6 /\ v6[i].match = "m" /\ v6[i].captured < Gate!Issued
          /\ v6[i].flaw \notin {"kickoff", "definition"}
      BY <2>3, <2>6 DEF Gate!Admissible, Gate!Offered
    <3>2. v6[i] \in Gate!Quotes
      BY <3>1 DEF Gate!GateInv, Gate!RowsSound
    <3>3. v6[i].flaw \in {"none", "kickoff", "definition"}
      BY <3>2 DEF Gate!Quotes
    <3>. QED
      BY <3>1, <3>3
  <2>7. ASSUME NEW i \in chosen, NEW j \in Gate!Admissible, Gate!Group(j) = Gate!Group(i),
               v6[j].captured > v6[i].captured
        PROVE  Gate!Twice(j)
    BY <2>1, <2>7, SelectedLatest DEF Gate!GateInv
  <2>8. v2 = "policy" => /\ chosen \subseteq Gate!Provenance
                         /\ \A i \in Gate!Provenance : v6[i].captured >= Gate!Declared
    BY <2>3 DEF Gate!Provenance, Gate!Admissible, Gate!Offered, Gate!InPolicy
  <2>9. Gate!Admissible' = Gate!Admissible
    BY <1>1 DEF Gate!Admissible, Gate!Offered, Gate!InPolicy
  <2>10. v1' /\ Gate!Pair(chosen)'
    BY <1>1, <2>2, <2>5 DEF Gate!Pair
  <2>11. ASSUME NEW i \in chosen
         PROVE  /\ v6'[i].match = "m" /\ v6'[i].captured < Gate!Issued /\ v6'[i].flaw = "none"
                /\ \A j \in Gate!Admissible' :
                     (Gate!Group(j) = Gate!Group(i))' /\ v6'[j].captured > v6'[i].captured =>
                       Gate!Twice(j)'
    BY <1>1, <2>6, <2>7, <2>9 DEF Gate!Group, Gate!Twice, Gate!Key, Gate!Outcome
  <2>12. Gate!ComparisonSound'
    <3>1. PICK d : d = v7'
      OBVIOUS
    <3>2. d.selected = chosen /\ (v2 = "policy" => chosen \subseteq d.provenance /\
            \A i \in d.provenance : v6[i].captured >= Gate!Declared)
      BY <3>1, <2>2, <2>8
    <3>. QED
      BY <1>1, <3>1, <3>2, <2>10, <2>11 DEF Gate!ComparisonSound
  <2>. QED
    BY <1>2, <2>12 DEF Gate!GateInv
<1>. QED
  BY <1>3, <1>4

LEMMA GateNext == Gate!GateInv /\ [Gate!Next]_(Gate!vars) => Gate!GateInv'
<1>1. ASSUME Gate!GateInv, UNCHANGED Gate!vars PROVE Gate!GateInv'
  <2>1. UNCHANGED <<v1, v2, v6, v7>>
    BY <1>1 DEF Gate!vars
  <2>2. Gate!RowsSound'
    BY <1>1, <2>1 DEF Gate!GateInv, Gate!RowsSound
  <2>3. Gate!Admissible' = Gate!Admissible
    BY <2>1 DEF Gate!Admissible, Gate!Offered, Gate!InPolicy
  <2>4. Gate!ComparisonSound'
    BY <1>1, <2>1, <2>3 DEF Gate!GateInv, Gate!ComparisonSound, Gate!Pair, Gate!Group,
                            Gate!Twice, Gate!Key, Gate!Outcome
  <2>. QED
    BY <2>2, <2>4 DEF Gate!GateInv
<1>. QED
  BY <1>1, OddsIngested, OddsDecided DEF Gate!Next, Gate!IngestSound, Gate!IngestFlawed

\* However many rows the file has, flawed or not: a prediction is compared with one quote
\* of each outcome of one moment before it was issued, and a later one that could have been
\* used was given twice; and the provenance has the pair and nothing before the policy.
THEOREM ComparisonSoundHolds == LabSpec => []ComparisonSound
<1>. DEFINE Inv == lab = "odds" => Gate!GateInv
<1>1. LabInit => Inv
  BY DEF LabInit, Gate!Init, Gate!GateInv, Gate!RowsSound, Gate!ComparisonSound, Gate!Undecided
<1>2. Inv /\ [LabNext]_labvars => Inv'
  BY GateNext, StepOfEvaluation
<1>3. Inv => ComparisonSound
  BY DEF ComparisonSound, Gate!GateInv
<1>. QED
  BY <1>1, <1>2, <1>3, PTL DEF LabSpec

(***************************************************************************)
(* The evaluation scripts: v1 seasons, v2 job, v3 report, v4 decision      *)
(***************************************************************************)
LEMMA FoldsOfScript ==
  ASSUME NEW n, NEW s \in Exp!Scripts, NEW folds, folds = Exp!Protocol(n)[s]
  PROVE  \/ s = "cycle33" /\ folds = Exp!Cycle33(n)
         \/ s = "cycle34" /\ folds = Exp!Cycle34(n)
         \/ s = "cycle36" /\ folds = Exp!Cycle36(n)
         \/ s = "baseline" /\ folds = Exp!Baseline(n)
         \/ s = "baseline_cards" /\ folds = Exp!BaselineCards(n)
         \/ s = "variants" /\ folds = Exp!Variants(n)
         \/ s = "ablation" /\ folds = Exp!Ablation(n)
         \/ s = "ablation_cards" /\ folds = Exp!AblationCards(n)
         \/ s = "hybrid" /\ folds = Exp!Hybrid(n)
         \/ s = "multiseason" /\ folds = Exp!Multiseason(n)
         \/ s = "multiseason_cards" /\ folds = Exp!MultiseasonCards(n)
         \/ s = "future" /\ folds = Exp!Future(n)
         \/ s = "future_bootstrap" /\ folds = Exp!FutureBootstrap(n)
         \/ s = "future_errors" /\ folds = Exp!FutureErrors(n)
         \/ s = "point_in_time" /\ folds = Exp!PointInTime(n)
         \/ s = "walk_forward" /\ folds = Exp!WalkForward(n)
         \/ s = "selected" /\ folds = Exp!Selected(n)
         \/ s = "tuned" /\ folds = Exp!Tuned(n)
         \/ s = "window_selected" /\ folds = Exp!WindowSelected(n)
         \/ s = "tuned_on_validation" /\ folds = Exp!TunedOnValidation(n)
         \/ s = "platt_cards" /\ folds = Exp!PlattCards(n)
         \/ s = "isotonic" /\ folds = Exp!Isotonic(n)
         \/ s = "isotonic_holdout" /\ folds = Exp!IsotonicHoldout(n)
         \/ s = "training_windows" /\ folds = Exp!TrainingWindows(n)
         \/ s = "bootstrap" /\ folds = Exp!Bootstrap(n)
         \/ s = "bootstrap_cards" /\ folds = Exp!BootstrapCards(n)
         \/ s = "platt_btts" /\ folds = Exp!PlattBtts(n, 1)
         \/ s = "platt_btts_two" /\ folds = Exp!PlattBtts(n, 2)
BY DEF Exp!Scripts, Exp!Protocol

Behind(f) == \A r \in Exp!ReadFor(f), t \in f.test : r < t

Within(f, k) == \A r \in Exp!ReadFor(f) \union f.test : r <= k * SeasonRows

LEMMA SeasonsInOrder ==
  ASSUME NEW a \in Int, NEW b \in Int, a <= b
  PROVE  a * SeasonRows \in Int /\ b * SeasonRows \in Int /\ a * SeasonRows <= b * SeasonRows
<1>1. PICK d \in Nat : b = a + d
  <2>. WITNESS b - a \in Nat
  <2>. QED
    OBVIOUS
<1>2. SeasonRows \in Nat
  BY ExperimentsAssumption
<1>3. d * SeasonRows \in Nat /\ b * SeasonRows = a * SeasonRows + d * SeasonRows
  BY <1>1, <1>2
<1>. QED
  BY <1>2, <1>3

LEMMA RowsOfSeasons ==
  ASSUME NEW a \in Int, NEW b \in Int, NEW r \in Exp!Rows(a, b)
  PROVE  r \in Int /\ (a - 1) * SeasonRows + 1 <= r /\ r <= b * SeasonRows
BY ExperimentsAssumption DEF Exp!Rows

LEMMA ExpandingBehind ==
  ASSUME NEW k \in Int PROVE Behind(Exp!Expanding(k)) /\ Within(Exp!Expanding(k), k)
<1>1. PICK f : f = Exp!Expanding(k)
  OBVIOUS
<1>2. Exp!ReadFor(f) = Exp!Rows(1, k - 1) /\ f.test = Exp!Rows(k, k)
  BY <1>1 DEF Exp!Expanding, Exp!Fold, Exp!ReadFor
<1>3. (k - 1) * SeasonRows <= k * SeasonRows /\ (k - 1) * SeasonRows \in Int /\ k * SeasonRows \in Int
  BY SeasonsInOrder
<1>4. \A r \in Exp!Rows(1, k - 1) : r \in Int /\ r <= (k - 1) * SeasonRows
  BY RowsOfSeasons
<1>5. \A t \in Exp!Rows(k, k) : t \in Int /\ (k - 1) * SeasonRows + 1 <= t /\ t <= k * SeasonRows
  BY RowsOfSeasons
<1>. QED
  BY <1>1, <1>2, <1>3, <1>4, <1>5 DEF Behind, Within

LEMMA NestedBehind ==
  ASSUME NEW k \in Int PROVE Behind(Exp!Nested(k)) /\ Within(Exp!Nested(k), k)
<1>1. PICK f : f = Exp!Nested(k)
  OBVIOUS
<1>2. /\ Exp!ReadFor(f) = Exp!Rows(1, k - 2) \union Exp!Rows(k - 1, k - 1) \union Exp!Rows(1, k - 1)
      /\ f.test = Exp!Rows(k, k)
  BY <1>1 DEF Exp!Nested, Exp!Fold, Exp!ReadFor
<1>3. /\ (k - 2) * SeasonRows <= (k - 1) * SeasonRows /\ (k - 1) * SeasonRows <= k * SeasonRows
      /\ (k - 2) * SeasonRows \in Int /\ (k - 1) * SeasonRows \in Int /\ k * SeasonRows \in Int
  BY SeasonsInOrder
<1>4. /\ \A r \in Exp!Rows(1, k - 2) : r \in Int /\ r <= (k - 2) * SeasonRows
      /\ \A r \in Exp!Rows(k - 1, k - 1) : r \in Int /\ r <= (k - 1) * SeasonRows
      /\ \A r \in Exp!Rows(1, k - 1) : r \in Int /\ r <= (k - 1) * SeasonRows
  BY RowsOfSeasons
<1>5. \A t \in Exp!Rows(k, k) : t \in Int /\ (k - 1) * SeasonRows + 1 <= t /\ t <= k * SeasonRows
  BY RowsOfSeasons
<1>6. \A r \in Exp!ReadFor(f) : r \in Int /\ r <= (k - 1) * SeasonRows
  BY <1>2, <1>3, <1>4
<1>. QED
  BY <1>1, <1>2, <1>3, <1>5, <1>6 DEF Behind, Within

LEMMA CalibratedBehind ==
  ASSUME NEW k \in Int, NEW c \in Nat
  PROVE  Behind(Exp!Calibrated(k, c)) /\ Within(Exp!Calibrated(k, c), k)
<1>1. PICK f : f = Exp!Calibrated(k, c)
  OBVIOUS
<1>2. /\ Exp!ReadFor(f) = Exp!Rows(1, k - 1 - c) \union Exp!Rows(k - c, k - 1)
      /\ f.test = Exp!Rows(k, k)
  BY <1>1 DEF Exp!Calibrated, Exp!Fold, Exp!ReadFor
<1>3. /\ (k - 1 - c) * SeasonRows <= (k - 1) * SeasonRows /\ (k - 1) * SeasonRows <= k * SeasonRows
      /\ (k - 1 - c) * SeasonRows \in Int /\ (k - 1) * SeasonRows \in Int /\ k * SeasonRows \in Int
  BY SeasonsInOrder
<1>4. /\ \A r \in Exp!Rows(1, k - 1 - c) : r \in Int /\ r <= (k - 1 - c) * SeasonRows
      /\ \A r \in Exp!Rows(k - c, k - 1) : r \in Int /\ r <= (k - 1) * SeasonRows
  BY RowsOfSeasons
<1>5. \A t \in Exp!Rows(k, k) : t \in Int /\ (k - 1) * SeasonRows + 1 <= t /\ t <= k * SeasonRows
  BY RowsOfSeasons
<1>6. \A r \in Exp!ReadFor(f) : r \in Int /\ r <= (k - 1) * SeasonRows
  BY <1>2, <1>3, <1>4
<1>. QED
  BY <1>1, <1>2, <1>3, <1>5, <1>6 DEF Behind, Within

\* The temporal split leaves its boundaries in order.
LEMMA SplitBehind ==
  ASSUME NEW n \in Nat, NEW s \in Exp!TemporalSplit(n)
  PROVE  /\ Behind(Exp!Fold(s.train, {}, s.train, s.validation \union s.test))
         /\ Behind(Exp!Fold(s.train, {}, s.train, s.test))
         /\ Behind(Exp!Fold(s.train, s.validation, s.train \union s.validation, s.test))
         /\ Behind(Exp!Fold(s.train, s.validation, s.train, s.test))
<1>1. n * SeasonRows \in Nat /\ 7 * n * SeasonRows \in Nat /\ 15 * n * SeasonRows \in Nat
  BY ExperimentsAssumption
<1>2. PICK a \in Int : a = Exp!TrainEnd(n)
  BY <1>1 DEF Exp!TrainEnd
<1>3. PICK b \in Int : b = Exp!ValidationEnd(n)
  BY <1>1, <1>2 DEF Exp!ValidationEnd
<1>4. PICK m \in Int : m = n * SeasonRows
  BY <1>1
<1>5. /\ s = [train |-> 1 .. a, validation |-> (a + 1) .. b, test |-> (b + 1) .. m]
      /\ a < b
  BY <1>2, <1>3, <1>4 DEF Exp!TemporalSplit
<1>6. s.train = 1 .. a /\ s.validation = (a + 1) .. b /\ s.test = (b + 1) .. m
  BY <1>5
<1>7. \A fit, held, final, test :
        Exp!ReadFor(Exp!Fold(fit, held, final, test)) = fit \union held \union final
        /\ Exp!Fold(fit, held, final, test).test = test
  BY DEF Exp!ReadFor, Exp!Fold
<1>. QED
  BY <1>5, <1>6, <1>7 DEF Behind

\* The holdout season of the historical comparison, as long as it is the last
LEMMA HistoryBehind ==
  ASSUME NEW n \in Nat, n <= Holdout, Holdout \in 2 .. n, NEW f,
         f = Exp!Fold(Exp!Rows(1, n) \ Exp!Rows(Holdout, Holdout), {},
                      Exp!Rows(1, n) \ Exp!Rows(Holdout, Holdout), Exp!Rows(Holdout, Holdout))
  PROVE  Behind(f)
<1>1. n = Holdout
  OBVIOUS
<1>2. Exp!ReadFor(f) = Exp!Rows(1, n) \ Exp!Rows(n, n) /\ f.test = Exp!Rows(n, n)
  BY <1>1 DEF Exp!ReadFor, Exp!Fold
<1>3. PICK low \in Int : low = (n - 1) * SeasonRows
  BY ExperimentsAssumption
<1>4. PICK high \in Int : high = n * SeasonRows
  BY ExperimentsAssumption
<1>5. Exp!Rows(n, n) = (low + 1) .. high
  BY <1>3, <1>4 DEF Exp!Rows
<1>6. \A r \in Exp!Rows(1, n) : r \in Int /\ r <= high
  BY <1>4, RowsOfSeasons
<1>7. ASSUME NEW r \in Exp!ReadFor(f), NEW t \in f.test PROVE r < t
  <2>1. r \in Int /\ r <= high /\ r \notin (low + 1) .. high
    BY <1>2, <1>5, <1>6, <1>7
  <2>2. t \in Int /\ low + 1 <= t
    BY <1>2, <1>5, <1>7
  <2>. QED
    BY <2>1, <2>2
<1>. QED
  BY <1>7 DEF Behind

LEMMA WindowBehind ==
  ASSUME NEW k \in Int, NEW w \in Int, NEW f,
         f = Exp!Fold(Exp!Rows(k - w, k - 1), {}, Exp!Rows(k - w, k - 1), Exp!Rows(k, k))
  PROVE  Behind(f)
<1>1. Exp!ReadFor(f) = Exp!Rows(k - w, k - 1) /\ f.test = Exp!Rows(k, k)
  BY DEF Exp!Fold, Exp!ReadFor
<1>2. (k - 1) * SeasonRows \in Int
  BY ExperimentsAssumption
<1>3. \A r \in Exp!Rows(k - w, k - 1) : r \in Int /\ r <= (k - 1) * SeasonRows
  BY RowsOfSeasons
<1>4. \A t \in Exp!Rows(k, k) : t \in Int /\ (k - 1) * SeasonRows + 1 <= t
  BY RowsOfSeasons
<1>. QED
  BY <1>1, <1>2, <1>3, <1>4 DEF Behind

LEMMA WithinMore ==
  ASSUME NEW k \in Int, NEW m \in Int, k <= m, NEW f, Within(f, k),
         Exp!ReadFor(f) \union f.test \subseteq Int
  PROVE  Within(f, m)
BY SeasonsInOrder DEF Within

\* Whatever the number of seasons, of their rows, and the holdout: no script predicts
\* from what was not played yet, but a historical comparison that is run too late; and
\* those that protect the season after the holdout read none of it.
OnAllOthers(f, n) ==
  /\ n > Holdout /\ f.test = Exp!Rows(Holdout, Holdout)
  /\ Exp!ReadFor(f) = Exp!Rows(1, n) \ f.test

LEMMA FoldsBehind ==
  ASSUME NEW n \in Nat, NEW s \in Exp!Scripts, NEW f \in Exp!Protocol(n)[s]
  PROVE  /\ Behind(f) \/ (s \in Exp!Forgetful /\ OnAllOthers(f, n))
         /\ s \in Exp!Protecting => Within(f, Holdout)
<1>. DEFINE folds == Exp!Protocol(n)[s]
<1>1. Holdout \in Nat /\ SeasonRows \in Nat
  BY ExperimentsAssumption
<1>2. Exp!Unprotected(n) \in Nat /\ Exp!Unprotected(n) <= Holdout
  BY <1>1 DEF Exp!Unprotected
<1>3. ASSUME NEW k \in Int, k <= Holdout, \/ f = Exp!Nested(k)
                                         \/ \E c \in Nat : f = Exp!Calibrated(k, c)
      PROVE  Within(f, Holdout)
  <2>1. Within(f, k)
    BY <1>3, NestedBehind, CalibratedBehind
  <2>2. Exp!ReadFor(f) \union f.test \subseteq Int
    BY <1>3, RowsOfSeasons DEF Exp!Nested, Exp!Calibrated, Exp!Fold, Exp!ReadFor
  <2>. QED
    BY <1>1, <1>3, <2>1, <2>2, WithinMore
<1>6. CASE s \in {"cycle33", "cycle34", "cycle36", "point_in_time"}
  <2>1. CASE s = "cycle33"
    <3>0. f \in Exp!Cycle33(n)
      BY <2>1, FoldsOfScript
    <3>1. PICK k \in 3 .. Exp!Unprotected(n) : f = Exp!Calibrated(k, 1)
      BY <3>0 DEF Exp!Cycle33, Exp!SeasonFolds
    <3>. QED
      BY <3>1, <1>2, <1>1, <1>3, CalibratedBehind
  <2>2. CASE s = "cycle34"
    <3>1. PICK k \in 3 .. Exp!Unprotected(n) : f = Exp!Nested(k)
      BY <2>2, FoldsOfScript DEF Exp!Cycle34, Exp!NestedFolds
    <3>. QED
      BY <3>1, <1>2, <1>1, <1>3, NestedBehind
  <2>3. CASE s = "cycle36"
    <3>1. f \in Exp!Cycle36(n)
      BY <2>3, FoldsOfScript
    <3>2. PICK k \in 3 .. Holdout : f = Exp!Nested(k)
      BY <3>1 DEF Exp!Cycle36, Exp!NestedFolds
    <3>. QED
      BY <3>2, <1>1, <1>3, NestedBehind
  <2>4. CASE s = "point_in_time"
    <3>1. f \in Exp!PointInTime(n)
      BY <2>4, FoldsOfScript
    <3>2. n <= Holdout
      BY <3>1, <1>1 DEF Exp!PointInTime
    <3>3. PICK r \in 2 .. (n * SeasonRows) : f = Exp!Fold(1 .. (r - 1), {}, 1 .. (r - 1), {r})
      BY <3>1 DEF Exp!PointInTime
    <3>4. Exp!ReadFor(f) = 1 .. (r - 1) /\ f.test = {r}
      BY <3>3 DEF Exp!Fold, Exp!ReadFor
    <3>5. n * SeasonRows \in Int /\ Holdout * SeasonRows \in Int /\ n * SeasonRows <= Holdout * SeasonRows
      BY <1>1, <3>2, SeasonsInOrder
    <3>6. r \in Int /\ r <= n * SeasonRows
      BY <3>5
    <3>. QED
      BY <3>4, <3>5, <3>6 DEF Behind, Within
  <2>. QED
    BY <1>6, <2>1, <2>2, <2>3, <2>4
<1>7. CASE s \notin {"cycle33", "cycle34", "cycle36", "point_in_time"}
  <2>1. s \notin Exp!Protecting
    BY <1>7 DEF Exp!Protecting
  <2>2. CASE s \in {"baseline", "baseline_cards", "variants", "ablation", "ablation_cards", "hybrid",
                    "tuned_on_validation", "isotonic_holdout"}
    <3>1. f \in Exp!Baseline(n) \union Exp!Variants(n) \union Exp!Ablation(n) \union Exp!IsotonicHoldout(n)
      BY <2>2, FoldsOfScript DEF Exp!BaselineCards, Exp!AblationCards, Exp!Hybrid, Exp!TunedOnValidation
    <3>2. Behind(f)
      BY <3>1, SplitBehind DEF Exp!Baseline, Exp!Variants, Exp!Ablation, Exp!IsotonicHoldout
    <3>. QED
      BY <2>1, <3>2
  <2>3. CASE s \in {"multiseason", "multiseason_cards"}
    <3>1. f \in Exp!Multiseason(n)
      BY <2>3, FoldsOfScript DEF Exp!MultiseasonCards
    <3>2. CASE f \in Exp!Ablation(n)
      BY <2>1, <3>2, SplitBehind DEF Exp!Ablation
    <3>3. CASE f \notin Exp!Ablation(n) /\ n <= Holdout
      BY <1>1, <2>1, <3>1, <3>3, HistoryBehind DEF Exp!Multiseason
    <3>4. CASE f \notin Exp!Ablation(n) /\ n > Holdout
      <4>1. f = Exp!Fold(Exp!Rows(1, n) \ Exp!Rows(Holdout, Holdout), {},
                         Exp!Rows(1, n) \ Exp!Rows(Holdout, Holdout), Exp!Rows(Holdout, Holdout))
        BY <3>1, <3>4 DEF Exp!Multiseason
      <4>2. OnAllOthers(f, n)
        BY <3>4, <4>1 DEF OnAllOthers, Exp!ReadFor, Exp!Fold
      <4>. QED
        BY <2>1, <2>3, <4>2 DEF Exp!Forgetful
    <3>. QED
      BY <1>1, <3>2, <3>3, <3>4
  <2>4. CASE s \in {"future", "future_bootstrap", "future_errors", "platt_btts", "platt_btts_two",
                    "platt_cards", "isotonic", "bootstrap", "bootstrap_cards"}
    <3>1. f \in Exp!Future(n) \union Exp!PlattBtts(n, 1) \union Exp!PlattBtts(n, 2) \union Exp!PlattCards(n)
      BY <2>4, FoldsOfScript
         DEF Exp!FutureBootstrap, Exp!FutureErrors, Exp!Isotonic, Exp!Bootstrap, Exp!BootstrapCards,
             Exp!PlattCards
    <3>2. PICK k \in Int, c \in Nat : f = Exp!Calibrated(k, c)
      BY <1>1, <3>1 DEF Exp!Future, Exp!PlattBtts, Exp!PlattCards
    <3>. QED
      BY <2>1, <3>2, CalibratedBehind
  <2>5. CASE s \in {"walk_forward", "selected", "tuned", "window_selected"}
    <3>1. f \in Exp!WalkForward(n) \union Exp!Tuned(n)
      BY <2>5, FoldsOfScript DEF Exp!Selected, Exp!WindowSelected, Exp!WalkForward, Exp!Tuned
    <3>2. PICK k \in Int : f = Exp!Expanding(k) \/ f = Exp!Nested(k)
      BY <3>1 DEF Exp!WalkForward, Exp!Tuned
    <3>. QED
      BY <2>1, <3>2, ExpandingBehind, NestedBehind
  <2>6. CASE s = "training_windows"
    <3>1. f \in Exp!TrainingWindows(n)
      BY <2>6, FoldsOfScript
    <3>2. PICK k \in Int, w \in Int :
            f = Exp!Fold(Exp!Rows(k - w, k - 1), {}, Exp!Rows(k - w, k - 1), Exp!Rows(k, k))
      BY <1>1, <3>1 DEF Exp!TrainingWindows
    <3>. QED
      BY <2>1, <3>2, WindowBehind
  <2>. QED
    BY <1>7, <2>2, <2>3, <2>4, <2>5, <2>6, FoldsOfScript
<1>. QED
  BY <1>6, <1>7

(***************************************************************************)
(* The invariant                                                           *)
(***************************************************************************)
LEMMA SameSetsOfFolds ==
  \A S : (Exp!IsFiniteSet(S) <=> IsFiniteSet(S)) /\ Exp!Cardinality(S) = Cardinality(S)
BY DEF Exp!IsFiniteSet, IsFiniteSet, Exp!Cardinality, Cardinality

LEMMA ScriptNames == "none" \notin Exp!Scripts
BY DEF Exp!Scripts, Exp!Protocol

LEMMA ScriptsInit == Exp!Init => Exp!ScriptsInv
BY DEF Exp!Init, Exp!ScriptsInv, Exp!JobSound, Exp!ReportSound, Exp!ReportsWhole,
       Exp!AcceptedOnEqualTerms, Exp!Undecided

\* What keeps the report and the decision as they are
LEMMA ReportKept ==
  ASSUME Exp!ScriptsInv, UNCHANGED <<v3, v4>>, v1' \in Nat, v1 <= v1'
  PROVE  Exp!ReportSound' /\ Exp!ReportsWhole' /\ Exp!AcceptedOnEqualTerms'
<1>1. Exp!ReportSound' /\ Exp!AcceptedOnEqualTerms'
  BY DEF Exp!ScriptsInv, Exp!ReportSound, Exp!AcceptedOnEqualTerms
<1>2. Exp!ReportsWhole'
  BY DEF Exp!ScriptsInv, Exp!ReportsWhole
<1>. QED
  BY <1>1, <1>2

LEMMA FoldScored ==
  ASSUME Exp!JobSound, v2 # Exp!None, NEW f, NEW loss, NEW constants, Exp!Score(f, loss, constants)
  PROVE  v2' = [script |-> v2.script, seasons |-> v2.seasons, todo |-> v2.todo \ {f},
                ok |-> v2.ok \union {f}, marked |-> v2.marked, loss |-> v2.loss + loss,
                constants |-> v2.constants + constants]
BY DEF Exp!Score, Exp!JobSound

LEMMA FoldMarked ==
  ASSUME Exp!JobSound, v2 # Exp!None, NEW f, Exp!Mark(f)
  PROVE  v2' = [script |-> v2.script, seasons |-> v2.seasons, todo |-> v2.todo \ {f},
                ok |-> v2.ok, marked |-> v2.marked \union {f}, loss |-> v2.loss,
                constants |-> v2.constants]
BY DEF Exp!Mark, Exp!JobSound

\* What a running script has to show of its folds
LEMMA JobMoves ==
  ASSUME NEW j, v2' = j, v3' = v3, v3 = Exp!None,
         j = [script |-> j.script, seasons |-> j.seasons, todo |-> j.todo, ok |-> j.ok,
              marked |-> j.marked, loss |-> j.loss, constants |-> j.constants],
         j.script \in Exp!Scripts, j.seasons \in Nat, j.seasons <= v1',
         j.todo \union j.ok \union j.marked = Exp!Protocol(j.seasons)[j.script],
         j.todo \intersect j.ok = {}, IsFiniteSet(j.ok),
         j.marked # {} => j.script \in {"cycle33", "walk_forward"},
         j.script \in Exp!Selecting =>
           /\ j.constants \in Nat
           /\ j.loss \in j.constants .. (2 * Cardinality(j.ok) - j.constants)
  PROVE  Exp!JobSound'
<1>1. Exp!IsFiniteSet(j.ok) /\ Exp!Cardinality(j.ok) = Cardinality(j.ok)
  BY SameSetsOfFolds
<1>. QED
  BY <1>1 DEF Exp!JobSound

LEMMA ScriptScores ==
  ASSUME Exp!ScriptsInv, v2 # Exp!None, v1' = v1, v3' = v3, NEW f \in v2.todo, NEW loss, NEW constants,
         Exp!Score(f, loss, constants),
         \/ v2.script \notin Exp!Selecting
         \/ loss = 1 /\ constants = 1
         \/ loss \in 0 .. 2 /\ constants = 0
  PROVE  Exp!JobSound'
<1>1. PICK j : j = [script |-> v2.script, seasons |-> v2.seasons, todo |-> v2.todo \ {f},
                    ok |-> v2.ok \union {f}, marked |-> v2.marked, loss |-> v2.loss + loss,
                    constants |-> v2.constants + constants]
  OBVIOUS
<1>2. v2' = j
  BY <1>1, FoldScored DEF Exp!ScriptsInv
<1>3. /\ j.script = v2.script /\ j.seasons = v2.seasons /\ j.todo = v2.todo \ {f}
      /\ j.ok = v2.ok \union {f} /\ j.marked = v2.marked /\ j.loss = v2.loss + loss
      /\ j.constants = v2.constants + constants
  BY <1>1
<1>4. /\ v2.script \in Exp!Scripts /\ v2.seasons \in Nat /\ v2.seasons <= v1 /\ v3 = Exp!None
      /\ v2.todo \union v2.ok \union v2.marked = Exp!Protocol(v2.seasons)[v2.script]
      /\ v2.todo \intersect v2.ok = {} /\ IsFiniteSet(v2.ok)
      /\ v2.marked # {} => v2.script \in {"cycle33", "walk_forward"}
  BY SameSetsOfFolds DEF Exp!ScriptsInv, Exp!JobSound
<1>5. v2.script \in Exp!Selecting =>
        /\ v2.constants \in Nat
        /\ v2.loss \in v2.constants .. (2 * Cardinality(v2.ok) - v2.constants)
  BY SameSetsOfFolds DEF Exp!ScriptsInv, Exp!JobSound
<1>6. IsFiniteSet(j.ok) /\ Cardinality(j.ok) = Cardinality(v2.ok) + 1 /\ Cardinality(v2.ok) \in Nat
  BY <1>3, <1>4, FS_AddElement, FS_CardinalityType
<1>7. j.script \in Exp!Selecting =>
        /\ j.constants \in Nat
        /\ j.loss \in j.constants .. (2 * Cardinality(j.ok) - j.constants)
  BY <1>3, <1>5, <1>6
<1>8. j.todo \union j.ok \union j.marked = Exp!Protocol(j.seasons)[j.script]
  BY <1>3, <1>4
<1>9. j.todo \intersect j.ok = {}
  BY <1>3, <1>4
<1>10. j = [script |-> j.script, seasons |-> j.seasons, todo |-> j.todo, ok |-> j.ok,
            marked |-> j.marked, loss |-> j.loss, constants |-> j.constants]
  BY <1>1
<1>. QED
  BY <1>2, <1>3, <1>4, <1>6, <1>7, <1>8, <1>9, <1>10, JobMoves

LEMMA ScriptMarks ==
  ASSUME Exp!ScriptsInv, v2 # Exp!None, v1' = v1, v3' = v3, NEW f \in v2.todo, Exp!Mark(f)
  PROVE  Exp!JobSound'
<1>1. PICK j : j = [script |-> v2.script, seasons |-> v2.seasons, todo |-> v2.todo \ {f},
                    ok |-> v2.ok, marked |-> v2.marked \union {f}, loss |-> v2.loss,
                    constants |-> v2.constants]
  OBVIOUS
<1>2. v2' = j
  BY <1>1, FoldMarked DEF Exp!ScriptsInv
<1>3. /\ j.script = v2.script /\ j.seasons = v2.seasons /\ j.todo = v2.todo \ {f}
      /\ j.ok = v2.ok /\ j.marked = v2.marked \union {f} /\ j.loss = v2.loss
      /\ j.constants = v2.constants
  BY <1>1
<1>4. /\ v2.script \in Exp!Scripts /\ v2.seasons \in Nat /\ v2.seasons <= v1 /\ v3 = Exp!None
      /\ v2.todo \union v2.ok \union v2.marked = Exp!Protocol(v2.seasons)[v2.script]
      /\ v2.todo \intersect v2.ok = {} /\ IsFiniteSet(v2.ok)
  BY SameSetsOfFolds DEF Exp!ScriptsInv, Exp!JobSound
<1>5. v2.script \in {"cycle33", "walk_forward"}
  BY DEF Exp!Mark
<1>6. j.script \notin Exp!Selecting
  BY <1>3, <1>5 DEF Exp!Selecting
<1>7. j.todo \union j.ok \union j.marked = Exp!Protocol(j.seasons)[j.script]
  BY <1>3, <1>4
<1>8. j.todo \intersect j.ok = {}
  BY <1>3, <1>4
<1>9. j = [script |-> j.script, seasons |-> j.seasons, todo |-> j.todo, ok |-> j.ok,
           marked |-> j.marked, loss |-> j.loss, constants |-> j.constants]
  BY <1>1
<1>. QED
  BY <1>2, <1>3, <1>4, <1>5, <1>6, <1>7, <1>8, <1>9, JobMoves

LEMMA ScriptPredicts == ASSUME Exp!ScriptsInv, Exp!Predict PROVE Exp!ScriptsInv'
<1>1. v2 # Exp!None /\ UNCHANGED <<v1, v3, v4>>
  BY DEF Exp!Predict
<1>2. PICK f \in Exp!Upcoming(v2.todo) :
        Exp!ScoreCandidate(f) \/ Exp!ScoreNested(f) \/ Exp!ScoreCycle36(f) \/ Exp!Mark(f)
  BY DEF Exp!Predict
<1>3. f \in v2.todo
  BY <1>2 DEF Exp!Upcoming
<1>4. Exp!JobSound'
  <2>1. CASE Exp!ScoreCandidate(f)
    BY <1>1, <1>3, <2>1, ScriptScores DEF Exp!ScoreCandidate
  <2>2. CASE Exp!ScoreNested(f) \/ Exp!ScoreCycle36(f)
    BY <1>1, <1>3, <2>2, ScriptScores DEF Exp!ScoreNested, Exp!ScoreCycle36, Exp!ScoreSelected
  <2>3. CASE Exp!Mark(f)
    BY <1>1, <1>3, <2>3, ScriptMarks
  <2>. QED
    BY <1>2, <2>1, <2>2, <2>3
<1>5. v1' \in Nat /\ v1 <= v1'
  BY <1>1 DEF Exp!ScriptsInv, Exp!ReportSound
<1>. QED
  BY <1>1, <1>4, <1>5, ReportKept DEF Exp!ScriptsInv

LEMMA ScriptBegins ==
  ASSUME Exp!ScriptsInv, NEW script \in Exp!Scripts, Exp!Begin(script) PROVE Exp!ScriptsInv'
<1>1. PICK j : j = [script |-> script, seasons |-> v1, todo |-> Exp!Protocol(v1)[script],
                    ok |-> {}, marked |-> {}, loss |-> 0, constants |-> 0]
  OBVIOUS
<1>2. v2' = j /\ v3 = Exp!None /\ UNCHANGED <<v1, v3, v4>>
  BY <1>1 DEF Exp!Begin
<1>3. /\ j.script = script /\ j.seasons = v1 /\ j.todo = Exp!Protocol(v1)[script]
      /\ j.ok = {} /\ j.marked = {} /\ j.loss = 0 /\ j.constants = 0
  BY <1>1
<1>4. IsFiniteSet(j.ok) /\ Cardinality(j.ok) = 0
  BY <1>3, FS_EmptySet
<1>5. j = [script |-> j.script, seasons |-> j.seasons, todo |-> j.todo, ok |-> j.ok,
           marked |-> j.marked, loss |-> j.loss, constants |-> j.constants]
  BY <1>1
<1>6. v1 \in Nat
  BY DEF Exp!ScriptsInv, Exp!ReportSound
<1>7. Exp!JobSound'
  <2>1. j.todo \union j.ok \union j.marked = Exp!Protocol(j.seasons)[j.script]
    BY <1>3
  <2>2. j.loss \in j.constants .. (2 * Cardinality(j.ok) - j.constants)
    BY <1>3, <1>4
  <2>3. /\ j.constants \in Nat /\ j.seasons \in Nat /\ j.seasons <= v1' /\ j.script \in Exp!Scripts
        /\ j.todo \intersect j.ok = {} /\ j.marked = {} /\ v3' = v3
    BY <1>2, <1>3, <1>6
  <2>. QED
    BY <1>2, <1>4, <1>5, <2>1, <2>2, <2>3, JobMoves
<1>. QED
  BY <1>2, <1>6, <1>7, ReportKept DEF Exp!ScriptsInv

\* Nothing runs, and nothing is reported.
LEMMA ScriptStops ==
  ASSUME Exp!ScriptsInv, Exp!Abort \/ Exp!Lose \/ Exp!AddSeason PROVE Exp!ScriptsInv'
<1>1. UNCHANGED <<v3, v4>> /\ (v2' = Exp!None \/ v2' = v2)
  BY DEF Exp!Abort, Exp!Lose, Exp!AddSeason
<1>2. v1' \in Nat /\ v1 <= v1'
  BY DEF Exp!Abort, Exp!Lose, Exp!AddSeason, Exp!ScriptsInv, Exp!ReportSound
<1>3. Exp!JobSound'
  BY <1>1, <1>2 DEF Exp!ReportSound, Exp!ScriptsInv, Exp!JobSound
<1>. QED
  BY <1>1, <1>2, <1>3, ReportKept DEF Exp!ScriptsInv

LEMMA ScriptWrites33 ==
  ASSUME Exp!ScriptsInv, Exp!Write PROVE Exp!ScriptsInv'
<1>1. PICK r : r = [script |-> v2.script, seasons |-> v2.seasons, ok |-> v2.ok,
                    marked |-> v2.marked, loss |-> v2.loss, constants |-> v2.constants]
  OBVIOUS
<1>2. /\ v2 # Exp!None /\ v2.todo = {} /\ Exp!Averages /\ v2' = Exp!None /\ v3' = r /\ v1' = v1
  BY <1>1 DEF Exp!Write
<1>3. /\ r.script = v2.script /\ r.seasons = v2.seasons /\ r.ok = v2.ok
      /\ r.marked = v2.marked /\ r.loss = v2.loss /\ r.constants = v2.constants
  BY <1>1
<1>4. /\ v2.script \in Exp!Scripts /\ v2.seasons \in Nat /\ v2.seasons <= v1 /\ v3 = Exp!None
      /\ v2.todo \union v2.ok \union v2.marked = Exp!Protocol(v2.seasons)[v2.script]
      /\ v2.marked # {} => v2.script \in {"cycle33", "walk_forward"}
  BY <1>2 DEF Exp!ScriptsInv, Exp!JobSound
<1>5. v2.script \in Exp!Selecting =>
        v2.loss \in v2.constants .. (2 * Exp!Cardinality(v2.ok) - v2.constants)
  BY <1>2 DEF Exp!ScriptsInv, Exp!JobSound
<1>6. v3' # Exp!None
  BY <1>2, <1>3, <1>4, ScriptNames DEF Exp!None
<1>7. v4 = Exp!Undecided
  BY <1>4 DEF Exp!ScriptsInv, Exp!ReportSound
<1>8. Exp!JobSound'
  BY <1>2 DEF Exp!JobSound
<1>9. Exp!ReportSound'
  BY <1>2, <1>3, <1>4, <1>6 DEF Exp!ScriptsInv, Exp!ReportSound
<1>10. Exp!ReportsWhole'
  <2>1. r.marked # {} => r.script = "cycle33"
    BY <1>2, <1>3, <1>4 DEF Exp!Averages
  <2>2. r.ok \union r.marked = Exp!Protocol(r.seasons)[r.script]
    BY <1>2, <1>3, <1>4
  <2>3. r.script \in Exp!Selecting =>
          r.loss \in r.constants .. (2 * Exp!Cardinality(r.ok) - r.constants)
    BY <1>3, <1>5
  <2>. QED
    BY <1>2, <2>1, <2>2, <2>3 DEF Exp!ReportsWhole
<1>11. CASE v2.script # "cycle33"
  <2>1. v4' = v4
    BY <1>11 DEF Exp!Write
  <2>2. Exp!AcceptedOnEqualTerms'
    BY <1>7, <2>1 DEF Exp!AcceptedOnEqualTerms, Exp!Undecided
  <2>. QED
    BY <1>8, <1>9, <1>10, <2>2 DEF Exp!ScriptsInv
<1>12. CASE v2.script = "cycle33"
  <2>1. PICK agrees \in BOOLEAN :
          Exp!Decide("cycle33", agrees /\ Exp!Cycle33Release(v2.ok, v2.marked, v2.loss),
                     v2.ok, Exp!Tests(v2.ok \union v2.marked))
    BY <1>12 DEF Exp!Write
  <2>2. v4'.accepted => v2.marked = {}
    BY <2>1 DEF Exp!Decide, Exp!Cycle33Release
  <2>3. v4'.candidate = Exp!Tests(v2.ok) /\ v4'.baseline = Exp!Tests(v2.ok \union v2.marked)
    BY <2>1 DEF Exp!Decide
  <2>4. v2.marked = {} => v2.ok \union v2.marked = v2.ok
    OBVIOUS
  <2>5. v4'.accepted => v4'.candidate = v4'.baseline
    BY <2>2, <2>3, <2>4
  <2>6. Exp!AcceptedOnEqualTerms'
    BY <2>5 DEF Exp!AcceptedOnEqualTerms
  <2>. QED
    BY <1>8, <1>9, <1>10, <2>6 DEF Exp!ScriptsInv
<1>. QED
  BY <1>11, <1>12

\* Both are tested on every season from the third one.
LEMMA TestsOfReport ==
  ASSUME Exp!ReportsWhole, v3 # Exp!None, v3.script \in {"window_selected", "platt_btts"},
         v3.seasons \in Nat
  PROVE  Exp!Tests(v3.ok) = Exp!ConstantOfReport
<1>1. v3.ok = Exp!Protocol(v3.seasons)[v3.script]
  BY DEF Exp!ReportsWhole
<1>2. "window_selected" \in Exp!Scripts /\ "platt_btts" \in Exp!Scripts
  BY DEF Exp!Scripts, Exp!Protocol
<1>3. \A k : Exp!Nested(k).test = Exp!Rows(k, k) /\ Exp!Calibrated(k, 1).test = Exp!Rows(k, k)
  BY DEF Exp!Nested, Exp!Calibrated, Exp!Fold
<1>4. CASE v3.script = "window_selected"
  <2>1. v3.ok = {Exp!Nested(k) : k \in 3 .. v3.seasons}
    BY <1>1, <1>2, <1>4, FoldsOfScript DEF Exp!WindowSelected
  <2>. QED
    BY <2>1, <1>3 DEF Exp!Tests, Exp!ConstantOfReport
<1>5. CASE v3.script = "platt_btts"
  <2>1. v3.ok = {Exp!Calibrated(k, 1) : k \in 3 .. v3.seasons}
    BY <1>1, <1>2, <1>5, FoldsOfScript DEF Exp!PlattBtts
  <2>. QED
    BY <2>1, <1>3 DEF Exp!Tests, Exp!ConstantOfReport
<1>. QED
  BY <1>4, <1>5

\* Calibrated on two seasons, the third one is not tested.
LEMMA TestsOfTwo ==
  ASSUME Exp!ReportsWhole, v3 # Exp!None, v3.script = "platt_btts_two", v3.seasons \in Nat
  PROVE  Exp!Tests(v3.ok) \subseteq Exp!ConstantOfReport
<1>1. v3.ok = Exp!Protocol(v3.seasons)["platt_btts_two"]
  BY DEF Exp!ReportsWhole
<1>2. "platt_btts_two" \in Exp!Scripts
  BY DEF Exp!Scripts, Exp!Protocol
<1>3. v3.ok = {Exp!Calibrated(k, 2) : k \in 4 .. v3.seasons}
  BY <1>1, <1>2, FoldsOfScript DEF Exp!PlattBtts
<1>4. \A k : Exp!Calibrated(k, 2).test = Exp!Rows(k, k)
  BY DEF Exp!Calibrated, Exp!Fold
<1>5. 4 .. v3.seasons \subseteq 3 .. v3.seasons
  OBVIOUS
<1>. QED
  BY <1>3, <1>4, <1>5 DEF Exp!Tests, Exp!ConstantOfReport

LEMMA GateAssesses ==
  ASSUME Exp!ScriptsInv, NEW gate, NEW scripts, NEW verdicts, NEW baseline,
         Exp!Assess(gate, scripts, verdicts, baseline),
         \/ verdicts = {FALSE}
         \/ baseline = Exp!Tests(v3.ok)
         \/ /\ gate = "platt_vs_constant" /\ Exp!Tests(v3.ok) \subseteq baseline
            /\ v1 # v3.seasons \/ v3.script = "platt_btts_two"
  PROVE  Exp!ScriptsInv'
<1>1. v2 = Exp!None /\ v3 # Exp!None /\ UNCHANGED <<v1, v2, v3>>
  BY DEF Exp!Assess
<1>2. PICK accepted \in verdicts :
        v4' = [gate |-> gate, accepted |-> accepted, candidate |-> Exp!Tests(v3.ok),
               baseline |-> baseline, seasons |-> v1]
  BY DEF Exp!Assess, Exp!Decide
<1>3. Exp!JobSound' /\ Exp!ReportSound'
  BY <1>1 DEF Exp!ScriptsInv, Exp!JobSound, Exp!ReportSound
<1>4. Exp!ReportsWhole'
  BY <1>1 DEF Exp!ScriptsInv, Exp!ReportsWhole
<1>5. Exp!AcceptedOnEqualTerms'
  <2>1. CASE verdicts = {FALSE}
    BY <1>2, <2>1 DEF Exp!AcceptedOnEqualTerms
  <2>2. CASE baseline = Exp!Tests(v3.ok)
    BY <1>2, <2>2 DEF Exp!AcceptedOnEqualTerms
  <2>3. CASE gate = "platt_vs_constant" /\ Exp!Tests(v3.ok) \subseteq baseline
             /\ (v1 # v3.seasons \/ v3.script = "platt_btts_two")
    BY <1>1, <1>2, <2>3 DEF Exp!AcceptedOnEqualTerms
  <2>. QED
    BY <2>1, <2>2, <2>3
<1>. QED
  BY <1>3, <1>4, <1>5 DEF Exp!ScriptsInv

LEMMA GatesAssess ==
  ASSUME Exp!ScriptsInv,
         \/ Exp!ModelRelease \/ Exp!PlattRelease \/ Exp!WindowRelease \/ Exp!UncertaintyRelease
         \/ Exp!CalibrationRelease \/ Exp!PlattCardsComparison
  PROVE  Exp!ScriptsInv'
<1>1. CASE Exp!ModelRelease \/ Exp!UncertaintyRelease \/ Exp!CalibrationRelease
  BY <1>1, GateAssesses DEF Exp!ModelRelease, Exp!UncertaintyRelease, Exp!CalibrationRelease
<1>2. CASE Exp!PlattCardsComparison
  BY <1>2, GateAssesses DEF Exp!PlattCardsComparison, Exp!Decline
<1>3. CASE Exp!WindowRelease
  <2>1. v3 # Exp!None /\ v3.script = "window_selected"
    BY <1>3 DEF Exp!WindowRelease, Exp!Assess
  <2>2. Exp!ConstantOfReport = Exp!Tests(v3.ok)
    BY <2>1, TestsOfReport DEF Exp!ScriptsInv, Exp!ReportSound
  <2>. QED
    BY <1>3, <2>2, GateAssesses DEF Exp!WindowRelease
<1>4. CASE Exp!PlattRelease
  <2>1. v3 # Exp!None /\ v3.script \in {"platt_btts", "platt_btts_two"}
    BY <1>4 DEF Exp!PlattRelease, Exp!Assess
  <2>2. v1 = v3.seasons /\ v3.script = "platt_btts" => Exp!ConstantNow = Exp!Tests(v3.ok)
    BY <2>1, TestsOfReport DEF Exp!ScriptsInv, Exp!ReportSound, Exp!ConstantNow, Exp!ConstantOfReport
  <2>3. Exp!Tests(v3.ok) \subseteq Exp!ConstantOfReport
    BY <2>1, TestsOfReport, TestsOfTwo DEF Exp!ScriptsInv, Exp!ReportSound
  <2>4. Exp!ConstantOfReport \subseteq Exp!ConstantNow
    BY <2>1 DEF Exp!ScriptsInv, Exp!ReportSound, Exp!ConstantNow, Exp!ConstantOfReport
  <2>. QED
    BY <1>4, <2>1, <2>2, <2>3, <2>4, GateAssesses DEF Exp!PlattRelease
<1>. QED
  BY <1>1, <1>2, <1>3, <1>4

LEMMA ReportClosed == ASSUME Exp!ScriptsInv, Exp!Close PROVE Exp!ScriptsInv'
<1>1. v3 # Exp!None /\ v3' = Exp!None /\ v4' = Exp!Undecided /\ UNCHANGED <<v1, v2>>
  BY DEF Exp!Close
<1>2. v2 = Exp!None
  BY <1>1 DEF Exp!ScriptsInv, Exp!JobSound
<1>. QED
  BY <1>1, <1>2 DEF Exp!ScriptsInv, Exp!JobSound, Exp!ReportSound, Exp!ReportsWhole,
                    Exp!AcceptedOnEqualTerms, Exp!Undecided

LEMMA ScriptsNext == Exp!ScriptsInv /\ [Exp!Next]_(Exp!vars) => Exp!ScriptsInv'
<1>1. ASSUME Exp!ScriptsInv, UNCHANGED Exp!vars PROVE Exp!ScriptsInv'
  <2>1. UNCHANGED <<v1, v2, v3, v4>>
    BY <1>1 DEF Exp!vars
  <2>2. Exp!JobSound'
    BY <1>1, <2>1 DEF Exp!ScriptsInv, Exp!JobSound
  <2>3. v1' \in Nat /\ v1 <= v1'
    BY <1>1, <2>1 DEF Exp!ScriptsInv, Exp!ReportSound
  <2>. QED
    BY <1>1, <2>1, <2>2, <2>3, ReportKept DEF Exp!ScriptsInv
<1>. QED
  BY <1>1, ScriptPredicts, ScriptBegins, ScriptStops, ScriptWrites33, GatesAssess, ReportClosed
     DEF Exp!Next

LEMMA ScriptsHold == LabSpec => [](lab = "experiments" => Exp!ScriptsInv)
<1>. DEFINE Inv == lab = "experiments" => Exp!ScriptsInv
<1>1. LabInit => Inv
  BY ScriptsInit DEF LabInit
<1>2. Inv /\ [LabNext]_labvars => Inv'
  BY ScriptsNext, StepOfEvaluation
<1>. QED
  BY <1>1, <1>2, PTL DEF LabSpec

\* Whatever the seasons, their rows and the holdout: no script learns from what was not
\* played before what it tests, but the multiseason comparisons of a data set that goes on,
\* on 2425 from all the other seasons; and none from what it protects.
THEOREM NoLookaheadHolds == LabSpec => []NoLookahead
<1>1. ASSUME Exp!ScriptsInv PROVE Exp!NoLookahead
  <2>. SUFFICES ASSUME v2 # Exp!None, NEW f \in v2.ok \union v2.marked
                PROVE  /\ \/ \A r \in Exp!ReadFor(f), t \in f.test : r < t
                          \/ /\ v2.script \in Exp!Forgetful /\ v2.seasons > Holdout
                             /\ f.test = Exp!Rows(Holdout, Holdout)
                             /\ Exp!ReadFor(f) = Exp!Rows(1, v2.seasons) \ f.test
                       /\ v2.script \in Exp!Protecting =>
                            \A r \in Exp!ReadFor(f) \union f.test : r <= Holdout * SeasonRows
    BY DEF Exp!NoLookahead
  <2>1. /\ v2.script \in Exp!Scripts /\ v2.seasons \in Nat
        /\ f \in Exp!Protocol(v2.seasons)[v2.script]
    BY <1>1 DEF Exp!ScriptsInv, Exp!JobSound
  <2>2. PICK n \in Nat : n = v2.seasons
    BY <2>1
  <2>3. PICK s \in Exp!Scripts : s = v2.script
    BY <2>1
  <2>4. /\ Behind(f) \/ (s \in Exp!Forgetful /\ OnAllOthers(f, n))
        /\ s \in Exp!Protecting => Within(f, Holdout)
    BY <2>1, <2>2, <2>3, FoldsBehind
  <2>. QED
    BY <2>2, <2>3, <2>4 DEF Behind, Within, OnAllOthers
<1>2. (lab = "experiments" => Exp!ScriptsInv) => NoLookahead
  BY <1>1 DEF NoLookahead
<1>. QED
  BY <1>2, ScriptsHold, PTL

\* However long it runs, whatever fails: a report covers every fold of its protocol, and
\* a candidate is accepted on tests its constant was measured on, and on all of them but by
\* the Platt gate on a data set that has grown or a calibration of two seasons.
THEOREM ReportsSoundHolds == LabSpec => []ReportsSound
<1>1. (lab = "experiments" => Exp!ScriptsInv) => ReportsSound
  BY DEF ReportsSound, Exp!ReportsSound, Exp!ScriptsInv
<1>. QED
  BY <1>1, ScriptsHold, PTL

(***************************************************************************)
(* The holdout policy: v1 outside, v2 disk, v3 manifests, v4 pc, v5 mem,    *)
(* v6 disturbed, v7 edits, v8 starts                                       *)
(***************************************************************************)
LEMMA PolicyInit == Hold!Init => Hold!PolicyInv
<1>. SUFFICES ASSUME Hold!Init PROVE Hold!PolicyInv
  OBVIOUS
<1>1. /\ v1 = [lock |-> "lock", nested |-> "constant_train_rate", data |-> "data"]
      /\ v2 = [f \in Hold!Outputs |-> Hold!None] /\ v4 = "idle"
      /\ v3 = [f \in DOMAIN Hold!Inputs |-> Hold!None] /\ v5 = [kind |-> "none"]
  BY DEF Hold!Init, Hold!None
<1>2. Hold!TypeOK
  BY <1>1 DEF Hold!TypeOK, Hold!Locks, Hold!Modes, Hold!Data
<1>3. DOMAIN v5 = {"kind"}
  BY <1>1
<1>4. Hold!MemorySound /\ Hold!StillThere /\ Hold!OutputSound
  BY <1>1, <1>3 DEF Hold!MemorySound, Hold!StillThere, Hold!OutputSound, Hold!Places35, Hold!Places36
<1>5. v3.evaluation = Hold!None /\ v3.policy36 = Hold!None
  BY <1>1 DEF Hold!Inputs
<1>. QED
  BY <1>2, <1>4, <1>5 DEF Hold!PolicyInv, Hold!ManifestSound

\* A script that has read something
LEMMA ScriptReads ==
  ASSUME Hold!PolicyInv, NEW from, NEW to, NEW k, NEW fact, DOMAIN fact = {k},
         Hold!Reads(from, to, fact),
         k \in {"lock", "lockHash"} => fact[k] = v1.lock,
         k \in {"data", "dataHash", "labels"} => fact[k] = v1.data
  PROVE  /\ Hold!TypeOK' /\ Hold!StillThere' /\ Hold!ManifestSound'
         /\ v4 = from /\ v4' = to /\ v2' = v2 /\ DOMAIN v5' = DOMAIN v5 \union {k}
         /\ v5'[k] = fact[k] /\ \A j \in DOMAIN v5 \ {k} : v5'[j] = v5[j]
<1>1. /\ DOMAIN v5' = DOMAIN v5 \union {k}
      /\ v5'[k] = fact[k] /\ \A j \in DOMAIN v5 \ {k} : v5'[j] = v5[j]
  BY DEF Hold!Reads, Hold!Learns
<1>2. v4 = from /\ v4' = to /\ UNCHANGED <<v1, v2, v3, v6>>
  BY DEF Hold!Reads, Hold!Step
<1>3. Hold!TypeOK' /\ Hold!ManifestSound'
  BY <1>2 DEF Hold!PolicyInv, Hold!TypeOK, Hold!ManifestSound
<1>4. Hold!StillThere'
  BY <1>1, <1>2 DEF Hold!PolicyInv, Hold!StillThere
<1>. QED
  BY <1>1, <1>2, <1>3, <1>4

\* A script that has written an output
LEMMA ScriptWrites ==
  ASSUME Hold!PolicyInv, NEW from, NEW to, NEW f \in Hold!Outputs, NEW content,
         Hold!Writes(from, to, f, content)
  PROVE  /\ Hold!TypeOK' /\ Hold!StillThere' /\ Hold!ManifestSound'
         /\ v4 = from /\ v4' = to /\ v5' = v5 /\ v2'[f] = content
         /\ \A g \in Hold!Outputs \ {f} : v2'[g] = v2[g]
<1>1. v2 = [g \in Hold!Outputs |-> v2[g]] /\ v2' = [v2 EXCEPT ![f] = content]
  BY DEF Hold!PolicyInv, Hold!TypeOK, Hold!Writes
<1>2. /\ v2' = [g \in Hold!Outputs |-> v2'[g]] /\ v2'[f] = content
      /\ \A g \in Hold!Outputs \ {f} : v2'[g] = v2[g]
  BY <1>1
<1>3. v4 = from /\ v4' = to /\ UNCHANGED <<v1, v3, v5, v6>>
  BY DEF Hold!Writes, Hold!Step
<1>4. Hold!TypeOK' /\ Hold!ManifestSound' /\ Hold!StillThere'
  BY <1>2, <1>3 DEF Hold!PolicyInv, Hold!TypeOK, Hold!ManifestSound, Hold!StillThere
<1>. QED
  BY <1>2, <1>3, <1>4

\* A script that ends, for whatever reason
LEMMA ScriptEnds ==
  ASSUME Hold!PolicyInv, v4' \in {"idle", "cycle35", "cycle36"}, DOMAIN v5' = {"kind"},
         UNCHANGED <<v1, v2, v3>>
  PROVE  Hold!PolicyInv'
<1>1. Hold!TypeOK' /\ Hold!ManifestSound'
  BY DEF Hold!PolicyInv, Hold!TypeOK, Hold!ManifestSound
<1>2. Hold!MemorySound' /\ Hold!OutputSound' /\ Hold!StillThere'
  BY DEF Hold!MemorySound, Hold!OutputSound, Hold!StillThere, Hold!Places35, Hold!Places36
<1>. QED
  BY <1>1, <1>2 DEF Hold!PolicyInv

\* What a step to another place has to show
LEMMA ScriptMoves ==
  ASSUME Hold!TypeOK', Hold!StillThere', Hold!ManifestSound', Hold!MemorySound', Hold!OutputSound'
  PROVE  Hold!PolicyInv'
BY DEF Hold!PolicyInv

LEMMA Cycle35Reads ==
  ASSUME Hold!PolicyInv,
         \/ Hold!LoadLock \/ Hold!HashLock \/ Hold!HashData
  PROVE  Hold!PolicyInv'
<1>1. CASE Hold!LoadLock
  <2>1. PICK fact : fact = [lock |-> v1.lock]
    OBVIOUS
  <2>2. DOMAIN fact = {"lock"} /\ fact["lock"] = v1.lock
    BY <2>1
  <2>3. Hold!Reads("cycle35", "hash", fact)
    BY <1>1, <2>1 DEF Hold!LoadLock
  <2>4. /\ Hold!TypeOK' /\ Hold!StillThere' /\ Hold!ManifestSound'
        /\ v4 = "cycle35" /\ v4' = "hash" /\ DOMAIN v5' = DOMAIN v5 \union {"lock"}
    BY <2>2, <2>3, ScriptReads
  <2>5. DOMAIN v5' = {"kind", "lock"}
    BY <2>4 DEF Hold!PolicyInv, Hold!MemorySound
  <2>6. Hold!MemorySound' /\ Hold!OutputSound'
    BY <2>4, <2>5 DEF Hold!MemorySound, Hold!OutputSound, Hold!Places35, Hold!Places36
  <2>. QED
    BY <2>4, <2>6, ScriptMoves
<1>2. CASE Hold!HashLock
  <2>1. PICK fact : fact = [lockHash |-> v1.lock]
    OBVIOUS
  <2>2. DOMAIN fact = {"lockHash"} /\ fact["lockHash"] = v1.lock
    BY <2>1
  <2>3. Hold!Reads("hash", "select", fact)
    BY <1>2, <2>1 DEF Hold!HashLock
  <2>4. /\ Hold!TypeOK' /\ Hold!StillThere' /\ Hold!ManifestSound'
        /\ v4 = "hash" /\ v4' = "select" /\ DOMAIN v5' = DOMAIN v5 \union {"lockHash"}
    BY <2>2, <2>3, ScriptReads
  <2>5. DOMAIN v5' = {"kind", "lock", "lockHash"}
    BY <2>4 DEF Hold!PolicyInv, Hold!MemorySound
  <2>6. Hold!MemorySound' /\ Hold!OutputSound'
    BY <2>4, <2>5 DEF Hold!MemorySound, Hold!OutputSound, Hold!Places35, Hold!Places36
  <2>. QED
    BY <2>4, <2>6, ScriptMoves
<1>3. CASE Hold!HashData
  <2>1. PICK fact : fact = [dataHash |-> v1.data]
    OBVIOUS
  <2>2. DOMAIN fact = {"dataHash"} /\ fact["dataHash"] = v1.data
    BY <2>1
  <2>3. Hold!Reads("hash data", "read data", fact)
    BY <1>3, <2>1 DEF Hold!HashData
  <2>4. /\ Hold!TypeOK' /\ Hold!StillThere' /\ Hold!ManifestSound'
        /\ v4 = "hash data" /\ v4' = "read data" /\ DOMAIN v5' = DOMAIN v5 \union {"dataHash"}
    BY <2>2, <2>3, ScriptReads
  <2>5. DOMAIN v5' = {"kind", "lock", "lockHash", "nested", "dataHash"}
    BY <2>4 DEF Hold!PolicyInv, Hold!MemorySound
  <2>6. Hold!MemorySound' /\ Hold!OutputSound'
    BY <2>4, <2>5 DEF Hold!MemorySound, Hold!OutputSound, Hold!Places35, Hold!Places36
  <2>. QED
    BY <2>4, <2>6, ScriptMoves
<1>. QED
  BY <1>1, <1>2, <1>3

\* The script stops, or goes on with what it read.
LEMMA Cycle35Checks ==
  ASSUME Hold!PolicyInv, Hold!Select \/ Hold!ReadData \/ Hold!Recheck \/ Hold!ReadLabels
  PROVE  Hold!PolicyInv'
<1>1. ASSUME NEW from, Hold!Stops(from) PROVE Hold!PolicyInv'
  <2>1. v4' = "idle" /\ DOMAIN v5' = {"kind"} /\ UNCHANGED <<v1, v2, v3>>
    BY <1>1 DEF Hold!Stops, Hold!Step, Hold!None
  <2>. QED
    BY <2>1, ScriptEnds
<1>2. ASSUME Hold!Reads("select", "select done", [nested |-> v1.nested]) PROVE Hold!PolicyInv'
  <2>1. PICK fact : fact = [nested |-> v1.nested]
    OBVIOUS
  <2>2. DOMAIN fact = {"nested"} /\ Hold!Reads("select", "select done", fact)
    BY <1>2, <2>1
  <2>4. /\ Hold!TypeOK' /\ Hold!StillThere' /\ Hold!ManifestSound'
        /\ v4 = "select" /\ v4' = "select done" /\ DOMAIN v5' = DOMAIN v5 \union {"nested"}
    BY <2>2, ScriptReads
  <2>5. DOMAIN v5' = {"kind", "lock", "lockHash", "nested"}
    BY <2>4 DEF Hold!PolicyInv, Hold!MemorySound
  <2>6. Hold!MemorySound' /\ Hold!OutputSound'
    BY <2>4, <2>5 DEF Hold!MemorySound, Hold!OutputSound, Hold!Places35, Hold!Places36
  <2>. QED
    BY <2>4, <2>6, ScriptMoves
<1>3. ASSUME Hold!Reads("read data", "freeze", [data |-> v1.data]) PROVE Hold!PolicyInv'
  <2>1. PICK fact : fact = [data |-> v1.data]
    OBVIOUS
  <2>2. DOMAIN fact = {"data"} /\ fact["data"] = v1.data /\ Hold!Reads("read data", "freeze", fact)
    BY <1>3, <2>1
  <2>4. /\ Hold!TypeOK' /\ Hold!StillThere' /\ Hold!ManifestSound'
        /\ v4 = "read data" /\ v4' = "freeze" /\ DOMAIN v5' = DOMAIN v5 \union {"data"}
    BY <2>2, ScriptReads
  <2>5. DOMAIN v5' = Hold!Read35
    BY <2>4 DEF Hold!PolicyInv, Hold!MemorySound, Hold!Read35
  <2>6. Hold!MemorySound' /\ Hold!OutputSound'
    BY <2>4, <2>5 DEF Hold!MemorySound, Hold!OutputSound, Hold!Places35, Hold!Places36
  <2>. QED
    BY <2>4, <2>6, ScriptMoves
<1>4. ASSUME Hold!Reads("recheck", "labels", [predictions |-> v2.predictions]) PROVE Hold!PolicyInv'
  <2>1. PICK fact : fact = [predictions |-> v2.predictions]
    OBVIOUS
  <2>2. DOMAIN fact = {"predictions"} /\ fact["predictions"] = v2.predictions
    BY <2>1
  <2>3. Hold!Reads("recheck", "labels", fact)
    BY <1>4, <2>1
  <2>4. /\ Hold!TypeOK' /\ Hold!StillThere' /\ Hold!ManifestSound'
        /\ v4 = "recheck" /\ v4' = "labels" /\ v2' = v2
        /\ DOMAIN v5' = DOMAIN v5 \union {"predictions"} /\ v5'["predictions"] = v2.predictions
        /\ \A j \in DOMAIN v5 \ {"predictions"} : v5'[j] = v5[j]
    BY <2>2, <2>3, ScriptReads
  <2>5. DOMAIN v5 = Hold!Read35 /\ v2.predictions = Hold!Predictions
    BY <2>4 DEF Hold!PolicyInv, Hold!MemorySound, Hold!OutputSound
  <2>6. Hold!MemorySound'
    BY <2>4, <2>5 DEF Hold!MemorySound, Hold!Places35, Hold!Places36
  <2>7. v5'.lock = v5.lock /\ v5'.lockHash = v5.lockHash /\ v5'.data = v5.data
        /\ v5'.dataHash = v5.dataHash
    BY <2>4, <2>5 DEF Hold!Read35
  <2>8. v2'.predictions = Hold!Predictions' /\ v5'.predictions = v2'.predictions
    BY <2>4, <2>5, <2>7 DEF Hold!Predictions
  <2>9. Hold!OutputSound'
    BY <2>4, <2>8 DEF Hold!OutputSound, Hold!Places35, Hold!Places36
  <2>. QED
    BY <2>4, <2>6, <2>9, ScriptMoves
<1>5. ASSUME Hold!Reads("labels", "metrics", [labels |-> v1.data]) PROVE Hold!PolicyInv'
  <2>1. PICK fact : fact = [labels |-> v1.data]
    OBVIOUS
  <2>2. DOMAIN fact = {"labels"} /\ fact["labels"] = v1.data
    BY <2>1
  <2>3. Hold!Reads("labels", "metrics", fact)
    BY <1>5, <2>1
  <2>4. /\ Hold!TypeOK' /\ Hold!StillThere' /\ Hold!ManifestSound'
        /\ v4 = "labels" /\ v4' = "metrics" /\ v2' = v2
        /\ DOMAIN v5' = DOMAIN v5 \union {"labels"}
        /\ \A j \in DOMAIN v5 \ {"labels"} : v5'[j] = v5[j]
    BY <2>2, <2>3, ScriptReads
  <2>5. DOMAIN v5 = Hold!Read35 \union {"predictions"} /\ v2.predictions = Hold!Predictions
        /\ v5.predictions = v2.predictions
    BY <2>4 DEF Hold!PolicyInv, Hold!MemorySound, Hold!OutputSound
  <2>6. Hold!MemorySound'
    BY <2>4, <2>5 DEF Hold!MemorySound, Hold!Places35, Hold!Places36
  <2>7. v5'.lock = v5.lock /\ v5'.lockHash = v5.lockHash /\ v5'.data = v5.data
        /\ v5'.dataHash = v5.dataHash /\ v5'.predictions = v5.predictions
    BY <2>4, <2>5 DEF Hold!Read35
  <2>8. v2'.predictions = Hold!Predictions' /\ v5'.predictions = v2'.predictions
    BY <2>4, <2>5, <2>7 DEF Hold!Predictions
  <2>9. Hold!OutputSound'
    BY <2>4, <2>8 DEF Hold!OutputSound, Hold!Places35, Hold!Places36
  <2>. QED
    BY <2>4, <2>6, <2>9, ScriptMoves
<1>. QED
  BY <1>1, <1>2, <1>3, <1>4, <1>5 DEF Hold!Select, Hold!ReadData, Hold!Recheck, Hold!ReadLabels

LEMMA Cycle35Writes ==
  ASSUME Hold!PolicyInv,
         \/ Hold!WriteSelection \/ Hold!Freeze \/ Hold!WriteMetrics \/ Hold!WriteEvaluation
  PROVE  Hold!PolicyInv'
<1>1. CASE Hold!WriteSelection
  <2>1. PICK content : content = [lockHash |-> v5.lockHash, nested |-> v5.nested]
    OBVIOUS
  <2>2. Hold!Writes("select done", "hash data", "selection", content)
    BY <1>1, <2>1 DEF Hold!WriteSelection
  <2>3. "selection" \in Hold!Outputs
    BY DEF Hold!Outputs
  <2>4. /\ Hold!TypeOK' /\ Hold!StillThere' /\ Hold!ManifestSound'
        /\ v4 = "select done" /\ v4' = "hash data" /\ v5' = v5 /\ v2'["selection"] = content
        /\ \A g \in Hold!Outputs \ {"selection"} : v2'[g] = v2[g]
    BY <2>2, <2>3, ScriptWrites
  <2>5. Hold!MemorySound'
    BY <2>4 DEF Hold!PolicyInv, Hold!MemorySound, Hold!Places35, Hold!Places36
  <2>6. Hold!OutputSound'
    BY <2>4 DEF Hold!OutputSound, Hold!Places35, Hold!Places36
  <2>. QED
    BY <2>4, <2>5, <2>6, ScriptMoves
<1>2. CASE Hold!Freeze
  <2>1. PICK content : content = Hold!Predictions
    OBVIOUS
  <2>2. Hold!Writes("freeze", "recheck", "predictions", content)
    BY <1>2, <2>1 DEF Hold!Freeze
  <2>3. "predictions" \in Hold!Outputs
    BY DEF Hold!Outputs
  <2>4. /\ Hold!TypeOK' /\ Hold!StillThere' /\ Hold!ManifestSound'
        /\ v4 = "freeze" /\ v4' = "recheck" /\ v5' = v5 /\ v2'["predictions"] = content
        /\ \A g \in Hold!Outputs \ {"predictions"} : v2'[g] = v2[g]
    BY <2>2, <2>3, ScriptWrites
  <2>5. Hold!MemorySound'
    BY <2>4 DEF Hold!PolicyInv, Hold!MemorySound, Hold!Places35, Hold!Places36
  <2>6. v2'.predictions = Hold!Predictions'
    BY <2>1, <2>4 DEF Hold!Predictions
  <2>7. Hold!OutputSound'
    BY <2>4, <2>6 DEF Hold!OutputSound, Hold!Places35, Hold!Places36
  <2>. QED
    BY <2>4, <2>5, <2>7, ScriptMoves
<1>3. CASE Hold!WriteMetrics
  <2>1. PICK content : content = Hold!Scores
    OBVIOUS
  <2>2. Hold!Writes("metrics", "evaluation", "metrics", content)
    BY <1>3, <2>1 DEF Hold!WriteMetrics
  <2>3. "metrics" \in Hold!Outputs
    BY DEF Hold!Outputs
  <2>4. /\ Hold!TypeOK' /\ Hold!StillThere' /\ Hold!ManifestSound'
        /\ v4 = "metrics" /\ v4' = "evaluation" /\ v5' = v5 /\ v2'["metrics"] = content
        /\ \A g \in Hold!Outputs \ {"metrics"} : v2'[g] = v2[g]
    BY <2>2, <2>3, ScriptWrites
  <2>5. Hold!MemorySound'
    BY <2>4 DEF Hold!PolicyInv, Hold!MemorySound, Hold!Places35, Hold!Places36
  <2>6. v2.predictions = Hold!Predictions /\ v5.predictions = v2.predictions
    BY <2>4 DEF Hold!PolicyInv, Hold!OutputSound
  <2>7. v2'.predictions = v2.predictions
    BY <2>4 DEF Hold!Outputs
  <2>8. v2'.predictions = Hold!Predictions' /\ v5'.predictions = v2'.predictions
    BY <2>4, <2>6, <2>7 DEF Hold!Predictions
  <2>9. Hold!OutputSound'
    BY <2>4, <2>8 DEF Hold!OutputSound, Hold!Places35, Hold!Places36
  <2>. QED
    BY <2>4, <2>5, <2>9, ScriptMoves
<1>4. CASE Hold!WriteEvaluation
  <2>1. PICK content : content = Hold!Evaluation
    OBVIOUS
  <2>2. Hold!Writes("evaluation", "manifest of lock", "evaluation", content)
    BY <1>4, <2>1 DEF Hold!WriteEvaluation
  <2>3. "evaluation" \in Hold!Outputs
    BY DEF Hold!Outputs
  <2>4. /\ Hold!TypeOK' /\ Hold!StillThere' /\ Hold!ManifestSound'
        /\ v4 = "evaluation" /\ v4' = "manifest of lock" /\ v5' = v5 /\ v2'["evaluation"] = content
        /\ \A g \in Hold!Outputs \ {"evaluation"} : v2'[g] = v2[g]
    BY <2>2, <2>3, ScriptWrites
  <2>5. Hold!MemorySound'
    BY <2>4 DEF Hold!PolicyInv, Hold!MemorySound, Hold!Places35, Hold!Places36
  <2>6. v2.predictions = Hold!Predictions /\ v5.predictions = v2.predictions
    BY <2>4 DEF Hold!PolicyInv, Hold!OutputSound
  <2>7. v2'.predictions = v2.predictions
    BY <2>4 DEF Hold!Outputs
  <2>8. v2'.predictions = Hold!Predictions' /\ v5'.predictions = v2'.predictions
    BY <2>4, <2>6, <2>7 DEF Hold!Predictions
  <2>9. v2'.evaluation = Hold!Evaluation'
    BY <2>1, <2>4 DEF Hold!Evaluation, Hold!Scores
  <2>10. Hold!OutputSound'
    BY <2>4, <2>8, <2>9 DEF Hold!OutputSound, Hold!Places35, Hold!Places36
  <2>. QED
    BY <2>4, <2>5, <2>10, ScriptMoves
<1>. QED
  BY <1>1, <1>2, <1>3, <1>4

LEMMA Cycle36Steps ==
  ASSUME Hold!PolicyInv,
         \/ Hold!Develop \/ Hold!HashDevelopment
         \/ Hold!WritePolicy36 \/ Hold!WriteMetrics36 \/ Hold!WriteReport36
  PROVE  Hold!PolicyInv'
<1>1. CASE Hold!Develop
  <2>1. PICK fact : fact = [data |-> v1.data]
    OBVIOUS
  <2>2. DOMAIN fact = {"data"} /\ fact["data"] = v1.data
    BY <2>1
  <2>3. Hold!Reads("cycle36", "hash development", fact)
    BY <1>1, <2>1 DEF Hold!Develop
  <2>4. /\ Hold!TypeOK' /\ Hold!StillThere' /\ Hold!ManifestSound'
        /\ v4 = "cycle36" /\ v4' = "hash development" /\ DOMAIN v5' = DOMAIN v5 \union {"data"}
    BY <2>2, <2>3, ScriptReads
  <2>5. DOMAIN v5' = {"kind", "data"}
    BY <2>4 DEF Hold!PolicyInv, Hold!MemorySound
  <2>6. Hold!MemorySound' /\ Hold!OutputSound'
    BY <2>4, <2>5 DEF Hold!MemorySound, Hold!OutputSound, Hold!Places35, Hold!Places36
  <2>. QED
    BY <2>4, <2>6, ScriptMoves
<1>2. CASE Hold!HashDevelopment
  <2>1. PICK fact : fact = [dataHash |-> v1.data]
    OBVIOUS
  <2>2. DOMAIN fact = {"dataHash"} /\ fact["dataHash"] = v1.data
    BY <2>1
  <2>3. Hold!Reads("hash development", "policy36", fact)
    BY <1>2, <2>1 DEF Hold!HashDevelopment
  <2>4. /\ Hold!TypeOK' /\ Hold!StillThere' /\ Hold!ManifestSound'
        /\ v4 = "hash development" /\ v4' = "policy36" /\ DOMAIN v5' = DOMAIN v5 \union {"dataHash"}
    BY <2>2, <2>3, ScriptReads
  <2>5. DOMAIN v5' = {"kind", "data", "dataHash"}
    BY <2>4 DEF Hold!PolicyInv, Hold!MemorySound
  <2>6. Hold!MemorySound' /\ Hold!OutputSound'
    BY <2>4, <2>5 DEF Hold!MemorySound, Hold!OutputSound, Hold!Places35, Hold!Places36
  <2>. QED
    BY <2>4, <2>6, ScriptMoves
<1>3. CASE Hold!WritePolicy36
  <2>1. PICK content : content = Hold!Policy36
    OBVIOUS
  <2>2. Hold!Writes("policy36", "metrics36", "policy36", content)
    BY <1>3, <2>1 DEF Hold!WritePolicy36
  <2>3. "policy36" \in Hold!Outputs
    BY DEF Hold!Outputs
  <2>4. /\ Hold!TypeOK' /\ Hold!StillThere' /\ Hold!ManifestSound'
        /\ v4 = "policy36" /\ v4' = "metrics36" /\ v5' = v5 /\ v2'["policy36"] = content
        /\ \A g \in Hold!Outputs \ {"policy36"} : v2'[g] = v2[g]
    BY <2>2, <2>3, ScriptWrites
  <2>5. Hold!MemorySound'
    BY <2>4 DEF Hold!PolicyInv, Hold!MemorySound, Hold!Places35, Hold!Places36
  <2>6. v2'.policy36 = Hold!Policy36'
    BY <2>1, <2>4 DEF Hold!Policy36
  <2>7. Hold!OutputSound'
    BY <2>4, <2>6 DEF Hold!OutputSound, Hold!Places35, Hold!Places36
  <2>. QED
    BY <2>4, <2>5, <2>7, ScriptMoves
<1>4. CASE Hold!WriteMetrics36
  <2>1. PICK content : content = [madeFrom |-> v5.data]
    OBVIOUS
  <2>2. Hold!Writes("metrics36", "report36", "metrics36", content)
    BY <1>4, <2>1 DEF Hold!WriteMetrics36
  <2>3. "metrics36" \in Hold!Outputs
    BY DEF Hold!Outputs
  <2>4. /\ Hold!TypeOK' /\ Hold!StillThere' /\ Hold!ManifestSound'
        /\ v4 = "metrics36" /\ v4' = "report36" /\ v5' = v5 /\ v2'["metrics36"] = content
        /\ \A g \in Hold!Outputs \ {"metrics36"} : v2'[g] = v2[g]
    BY <2>2, <2>3, ScriptWrites
  <2>5. Hold!MemorySound'
    BY <2>4 DEF Hold!PolicyInv, Hold!MemorySound, Hold!Places35, Hold!Places36
  <2>6. v2.policy36 = Hold!Policy36
    BY <2>4 DEF Hold!PolicyInv, Hold!OutputSound
  <2>7. v2'.policy36 = v2.policy36
    BY <2>4 DEF Hold!Outputs
  <2>8. v2'.policy36 = Hold!Policy36'
    BY <2>4, <2>6, <2>7 DEF Hold!Policy36
  <2>9. Hold!OutputSound'
    BY <2>4, <2>8 DEF Hold!OutputSound, Hold!Places35, Hold!Places36
  <2>. QED
    BY <2>4, <2>5, <2>9, ScriptMoves
<1>5. CASE Hold!WriteReport36
  <2>1. PICK content : content = [policy |-> Hold!Policy36, madeFrom |-> v5.data]
    OBVIOUS
  <2>2. Hold!Writes("report36", "manifest of report36", "report36", content)
    BY <1>5, <2>1 DEF Hold!WriteReport36
  <2>3. "report36" \in Hold!Outputs
    BY DEF Hold!Outputs
  <2>4. /\ Hold!TypeOK' /\ Hold!StillThere' /\ Hold!ManifestSound'
        /\ v4 = "report36" /\ v4' = "manifest of report36" /\ v5' = v5 /\ v2'["report36"] = content
        /\ \A g \in Hold!Outputs \ {"report36"} : v2'[g] = v2[g]
    BY <2>2, <2>3, ScriptWrites
  <2>5. Hold!MemorySound'
    BY <2>4 DEF Hold!PolicyInv, Hold!MemorySound, Hold!Places35, Hold!Places36
  <2>6. v2.policy36 = Hold!Policy36
    BY <2>4 DEF Hold!PolicyInv, Hold!OutputSound
  <2>7. v2'.policy36 = v2.policy36
    BY <2>4 DEF Hold!Outputs
  <2>8. v2'.policy36 = Hold!Policy36'
    BY <2>4, <2>6, <2>7 DEF Hold!Policy36
  <2>9. v2'.report36.policy = Hold!Policy36'
    <3>1. content.policy = Hold!Policy36
      BY <2>1
    <3>2. v2'.report36.policy = Hold!Policy36
      BY <2>4, <3>1
    <3>. QED
      BY <2>4, <3>2 DEF Hold!Policy36
  <2>10. Hold!OutputSound'
    BY <2>4, <2>8, <2>9 DEF Hold!OutputSound, Hold!Places35, Hold!Places36
  <2>. QED
    BY <2>4, <2>5, <2>10, ScriptMoves
<1>. QED
  BY <1>1, <1>2, <1>3, <1>4, <1>5

\* A manifest, from the place of its output to the next
LEMMA ScriptPublishes ==
  ASSUME Hold!PolicyInv, NEW f \in DOMAIN Hold!Inputs, NEW to, Hold!WriteManifest(f, to),
         \/ Hold!Writing[f] \in Hold!Places35 /\ to \in Hold!Places35 \union {"done"}
         \/ Hold!Writing[f] \in Hold!Places36 /\ to \in Hold!Places36 \union {"done"}
  PROVE  Hold!PolicyInv'
<1>1. PICK written : written = [output |-> Hold!Content(f),
                                inputs |-> [i \in Hold!Inputs[f] |-> Hold!Content(i)],
                                disturbed |-> v6]
  OBVIOUS
<1>2. /\ v4 = Hold!Writing[f] /\ v4' = to /\ UNCHANGED <<v1, v2, v5, v6>>
      /\ v3' = [v3 EXCEPT ![f] = written]
  BY <1>1 DEF Hold!WriteManifest, Hold!Step
<1>3. v3 = [g \in DOMAIN Hold!Inputs |-> v3[g]]
  BY DEF Hold!PolicyInv, Hold!TypeOK
<1>4. /\ v3' = [g \in DOMAIN Hold!Inputs |-> v3'[g]] /\ v3'[f] = written
      /\ \A g \in DOMAIN Hold!Inputs \ {f} : v3'[g] = v3[g]
  BY <1>2, <1>3
<1>5. Hold!TypeOK' /\ Hold!StillThere'
  BY <1>2, <1>4 DEF Hold!PolicyInv, Hold!TypeOK, Hold!StillThere
<1>6. Hold!MemorySound'
  BY <1>2 DEF Hold!PolicyInv, Hold!MemorySound, Hold!Places35, Hold!Places36
<1>7. Hold!OutputSound'
  BY <1>2 DEF Hold!PolicyInv, Hold!OutputSound, Hold!Predictions, Hold!Evaluation, Hold!Scores,
              Hold!Policy36, Hold!Places35, Hold!Places36
<1>8. "evaluation" \in DOMAIN Hold!Inputs /\ "policy36" \in DOMAIN Hold!Inputs
  BY DEF Hold!Inputs
<1>9. DOMAIN v1 = {"lock", "nested", "data"}
  BY DEF Hold!PolicyInv, Hold!TypeOK
<1>10. CASE f = "evaluation"
  <2>1. v4 \in Hold!Places35
    BY <1>2, <1>10 DEF Hold!Writing, Hold!Places35
  <2>2. /\ v2.predictions = Hold!Predictions /\ v5.predictions = v2.predictions
        /\ v2.evaluation = Hold!Evaluation
        /\ DOMAIN v5 = Hold!Read35 \union {"predictions", "labels"}
    BY <2>1 DEF Hold!PolicyInv, Hold!OutputSound, Hold!MemorySound
  <2>3. /\ written.output = v2.evaluation /\ written.inputs.predictions = v2.predictions
        /\ written.inputs.lock = v1.lock /\ written.disturbed = v6
    BY <1>1, <1>9, <1>10 DEF Hold!Content, Hold!Inputs
  <2>4. /\ v2.evaluation.predictions = v2.predictions
        /\ v2.predictions.lockHash = v5.lockHash /\ v2.evaluation.lockHash = v5.lockHash
        /\ v2.predictions.madeUnder = v5.lock /\ v2.predictions.madeFrom = v5.data
        /\ v2.predictions.dataHash = v5.dataHash /\ v2.evaluation.scores.labels = v5.labels
    BY <2>2 DEF Hold!Predictions, Hold!Evaluation, Hold!Scores
  <2>5. "lock" \notin v6 => v5.lock = v1.lock /\ v5.lockHash = v1.lock
    BY <2>2 DEF Hold!PolicyInv, Hold!StillThere, Hold!Read35
  <2>6. "data" \notin v6 => v5.data = v1.data /\ v5.dataHash = v1.data /\ v5.labels = v1.data
    BY <2>2 DEF Hold!PolicyInv, Hold!StillThere, Hold!Read35
  <2>7. v3'.evaluation = written /\ v3'.policy36 = v3.policy36
    BY <1>4, <1>8, <1>10
  <2>8. Hold!ManifestSound'
    BY <2>3, <2>4, <2>5, <2>6, <2>7 DEF Hold!PolicyInv, Hold!ManifestSound
  <2>. QED
    BY <1>5, <1>6, <1>7, <2>8, ScriptMoves
<1>11. CASE f = "policy36"
  <2>1. v4 \in Hold!Places36
    BY <1>2, <1>11 DEF Hold!Writing, Hold!Places36
  <2>2. v2.policy36 = Hold!Policy36 /\ v2.report36.policy = Hold!Policy36
    BY <2>1 DEF Hold!PolicyInv, Hold!OutputSound
  <2>3. written.output = v2.policy36 /\ written.inputs.report36 = v2.report36
    BY <1>1, <1>9, <1>11 DEF Hold!Content, Hold!Inputs
  <2>4. v3'.policy36 = written /\ v3'.evaluation = v3.evaluation
    BY <1>4, <1>8, <1>11
  <2>5. Hold!ManifestSound'
    BY <2>2, <2>3, <2>4 DEF Hold!PolicyInv, Hold!ManifestSound
  <2>. QED
    BY <1>5, <1>6, <1>7, <2>5, ScriptMoves
<1>12. CASE f \notin {"evaluation", "policy36"}
  <2>1. v3'.policy36 = v3.policy36 /\ v3'.evaluation = v3.evaluation
    BY <1>4, <1>8, <1>12
  <2>2. Hold!ManifestSound'
    BY <2>1 DEF Hold!PolicyInv, Hold!ManifestSound
  <2>. QED
    BY <1>5, <1>6, <1>7, <2>2, ScriptMoves
<1>. QED
  BY <1>10, <1>11, <1>12

LEMMA ManifestSteps ==
  ASSUME Hold!PolicyInv,
         Hold!WriteManifests(Hold!Manifests35) \/ Hold!WriteManifests(Hold!Manifests36)
  PROVE  Hold!PolicyInv'
<1>1. CASE Hold!WriteManifests(Hold!Manifests35)
  <2>1. PICK order : order = Hold!Manifests35
    OBVIOUS
  <2>2. PICK i \in DOMAIN order :
          Hold!WriteManifest(order[i], IF i = Len(order) THEN "done" ELSE Hold!Writing[order[i + 1]])
    BY <1>1, <2>1 DEF Hold!WriteManifests
  <2>3. PICK to : to = IF i = Len(order) THEN "done" ELSE Hold!Writing[order[i + 1]]
    OBVIOUS
  <2>4. /\ Len(order) = 5 /\ DOMAIN order = 1 .. 5 /\ order[1] = "lock" /\ order[2] = "selection"
        /\ order[3] = "predictions" /\ order[4] = "evaluation" /\ order[5] = "metrics"
    BY <2>1 DEF Hold!Manifests35
  <2>5. i = 1 \/ i = 2 \/ i = 3 \/ i = 4 \/ i = 5
    BY <2>4
  <2>6. order[i] \in DOMAIN Hold!Inputs
    BY <2>4, <2>5 DEF Hold!Inputs
  <2>9. PICK place : place = Hold!Writing
    OBVIOUS
  <2>10. /\ place["lock"] = "manifest of lock" /\ place["selection"] = "manifest of selection"
        /\ place["predictions"] = "manifest of predictions"
        /\ place["evaluation"] = "manifest of evaluation"
        /\ place["metrics"] = "manifest of metrics"
    BY <2>9 DEF Hold!Writing
  <2>7. Hold!Writing[order[i]] \in Hold!Places35
    BY <2>4, <2>5, <2>9, <2>10 DEF Hold!Places35
  <2>8. to \in Hold!Places35 \union {"done"}
    <3>1. CASE i = 5
      BY <2>3, <2>4, <3>1
    <3>2. CASE i = 1
      <4>1. i # Len(order) /\ i + 1 = 2
        BY <2>4, <3>2
      <4>2. to = place[order[2]]
        BY <2>3, <2>9, <4>1
      <4>. QED
        BY <2>4, <2>10, <4>2 DEF Hold!Places35
    <3>3. CASE i = 2
      <4>1. i # Len(order) /\ i + 1 = 3
        BY <2>4, <3>3
      <4>2. to = place[order[3]]
        BY <2>3, <2>9, <4>1
      <4>. QED
        BY <2>4, <2>10, <4>2 DEF Hold!Places35
    <3>4. CASE i = 3
      <4>1. i # Len(order) /\ i + 1 = 4
        BY <2>4, <3>4
      <4>2. to = place[order[4]]
        BY <2>3, <2>9, <4>1
      <4>. QED
        BY <2>4, <2>10, <4>2 DEF Hold!Places35
    <3>5. CASE i = 4
      <4>1. i # Len(order) /\ i + 1 = 5
        BY <2>4, <3>5
      <4>2. to = place[order[5]]
        BY <2>3, <2>9, <4>1
      <4>. QED
        BY <2>4, <2>10, <4>2 DEF Hold!Places35
    <3>. QED
      BY <2>5, <3>1, <3>2, <3>3, <3>4, <3>5
  <2>. QED
    BY <2>2, <2>3, <2>6, <2>7, <2>8, ScriptPublishes
<1>2. CASE Hold!WriteManifests(Hold!Manifests36)
  <2>1. PICK order : order = Hold!Manifests36
    OBVIOUS
  <2>2. PICK i \in DOMAIN order :
          Hold!WriteManifest(order[i], IF i = Len(order) THEN "done" ELSE Hold!Writing[order[i + 1]])
    BY <1>2, <2>1 DEF Hold!WriteManifests
  <2>3. PICK to : to = IF i = Len(order) THEN "done" ELSE Hold!Writing[order[i + 1]]
    OBVIOUS
  <2>4. /\ Len(order) = 3 /\ DOMAIN order = 1 .. 3 /\ order[1] = "report36"
        /\ order[2] = "metrics36" /\ order[3] = "policy36"
    BY <2>1 DEF Hold!Manifests36
  <2>5. i = 1 \/ i = 2 \/ i = 3
    BY <2>4
  <2>6. order[i] \in DOMAIN Hold!Inputs
    BY <2>4, <2>5 DEF Hold!Inputs
  <2>9. PICK place : place = Hold!Writing
    OBVIOUS
  <2>10. /\ place["report36"] = "manifest of report36" /\ place["metrics36"] = "manifest of metrics36"
        /\ place["policy36"] = "manifest of policy36"
    BY <2>9 DEF Hold!Writing
  <2>7. Hold!Writing[order[i]] \in Hold!Places36
    BY <2>4, <2>5, <2>9, <2>10 DEF Hold!Places36
  <2>8. to \in Hold!Places36 \union {"done"}
    <3>1. CASE i = 3
      BY <2>3, <2>4, <3>1
    <3>2. CASE i = 1
      <4>1. i # Len(order) /\ i + 1 = 2
        BY <2>4, <3>2
      <4>2. to = place[order[2]]
        BY <2>3, <2>9, <4>1
      <4>. QED
        BY <2>4, <2>10, <4>2 DEF Hold!Places36
    <3>3. CASE i = 2
      <4>1. i # Len(order) /\ i + 1 = 3
        BY <2>4, <3>3
      <4>2. to = place[order[3]]
        BY <2>3, <2>9, <4>1
      <4>. QED
        BY <2>4, <2>10, <4>2 DEF Hold!Places36
    <3>. QED
      BY <2>5, <3>1, <3>2, <3>3
  <2>. QED
    BY <2>2, <2>3, <2>6, <2>7, <2>8, ScriptPublishes
<1>. QED
  BY <1>1, <1>2

LEMMA FilesReplaced == ASSUME Hold!PolicyInv, Hold!Replace PROVE Hold!PolicyInv'
<1>1. v1 \in [lock : Hold!Locks, nested : Hold!Modes, data : Hold!Data]
  BY DEF Hold!PolicyInv, Hold!TypeOK
<1>2. /\ v1' \in [lock : Hold!Locks, nested : Hold!Modes, data : Hold!Data]
      /\ UNCHANGED <<v2, v3, v4, v5>>
      /\ v6' = v6 \union {f \in DOMAIN v1 : v1'[f] # v1[f]}
  BY <1>1 DEF Hold!Replace
<1>3. Hold!TypeOK' /\ Hold!MemorySound' /\ Hold!OutputSound' /\ Hold!ManifestSound'
  <2>1. Hold!TypeOK'
    BY <1>2 DEF Hold!PolicyInv, Hold!TypeOK
  <2>2. Hold!MemorySound' /\ Hold!ManifestSound'
    <3>1. Hold!MemorySound'
      BY <1>2 DEF Hold!PolicyInv, Hold!MemorySound
    <3>2. Hold!ManifestSound'
      BY <1>2 DEF Hold!PolicyInv, Hold!ManifestSound
    <3>. QED
      BY <3>1, <3>2
  <2>3. Hold!OutputSound'
    BY <1>2 DEF Hold!PolicyInv, Hold!OutputSound, Hold!Predictions, Hold!Evaluation,
                Hold!Scores, Hold!Policy36
  <2>. QED
    BY <2>1, <2>2, <2>3
<1>4. /\ "lock" \notin v6' => "lock" \notin v6 /\ v1'.lock = v1.lock
      /\ "data" \notin v6' => "data" \notin v6 /\ v1'.data = v1.data
  BY <1>1, <1>2
<1>5. Hold!StillThere'
  BY <1>2, <1>4 DEF Hold!PolicyInv, Hold!StillThere
<1>. QED
  BY <1>3, <1>5, ScriptMoves

LEMMA PolicyStep == ASSUME Hold!PolicyInv, Hold!Next PROVE Hold!PolicyInv'
<1>1. CASE Hold!Die \/ Hold!Stops("done")
  <2>1. v4' = "idle" /\ DOMAIN v5' = {"kind"} /\ UNCHANGED <<v1, v2, v3>>
    BY <1>1 DEF Hold!Die, Hold!Stops, Hold!Step, Hold!None
  <2>. QED
    BY <2>1, ScriptEnds
<1>2. ASSUME NEW script \in {"cycle35", "cycle36"}, Hold!Start(script) PROVE Hold!PolicyInv'
  <2>1. v4' \in {"cycle35", "cycle36"} /\ DOMAIN v5' = {"kind"} /\ UNCHANGED <<v1, v2, v3>>
    BY <1>2 DEF Hold!Start
  <2>. QED
    BY <2>1, ScriptEnds
<1>. QED
  BY <1>1, <1>2, FilesReplaced, Cycle35Reads, Cycle35Checks, Cycle35Writes, Cycle36Steps,
     ManifestSteps DEF Hold!Next, Hold!Cycle35, Hold!Cycle36

LEMMA PolicyImplies == Hold!PolicyInv => Hold!PublishedAgree
<1>. SUFFICES ASSUME Hold!PolicyInv PROVE Hold!PublishedAgree
  OBVIOUS
<1>1. DOMAIN v1 = {"lock", "nested", "data"}
  BY DEF Hold!PolicyInv, Hold!TypeOK
<1>2. /\ Hold!Content("evaluation") = v2.evaluation /\ Hold!Content("policy36") = v2.policy36
      /\ Hold!Content("predictions") = v2.predictions /\ Hold!Content("report36") = v2.report36
      /\ Hold!Content("lock") = v1.lock
  BY <1>1 DEF Hold!Content
<1>3. /\ Hold!Inputs["evaluation"] = {"predictions", "lock"}
      /\ Hold!Inputs["policy36"] = {"report36"}
  BY DEF Hold!Inputs
<1>4. ASSUME Hold!Verifies("evaluation")
      PROVE  LET e == v2.evaluation
                 p == v2.predictions
             IN  /\ e.predictions = p /\ p.lockHash = e.lockHash
                 /\ Hold!Undisturbed("evaluation", "lock") =>
                      p.madeUnder = v1.lock /\ e.lockHash = v1.lock
                 /\ Hold!Undisturbed("evaluation", "data") =>
                      p.madeFrom = p.dataHash /\ e.scores.labels = p.dataHash
  BY <1>2, <1>3, <1>4 DEF Hold!Verifies, Hold!Undisturbed, Hold!PolicyInv, Hold!ManifestSound
<1>5. ASSUME Hold!Verifies("policy36") PROVE v2.report36.policy = v2.policy36
  BY <1>2, <1>3, <1>5 DEF Hold!Verifies, Hold!PolicyInv, Hold!ManifestSound
<1>. QED
  BY <1>4, <1>5 DEF Hold!PublishedAgree

LEMMA PolicyNext == Hold!PolicyInv /\ [Hold!Next]_(Hold!vars) => Hold!PolicyInv'
<1>1. ASSUME Hold!PolicyInv, UNCHANGED Hold!vars PROVE Hold!PolicyInv'
  <2>1. UNCHANGED <<v1, v2, v3, v4, v5, v6>>
    BY <1>1 DEF Hold!vars
  <2>2. Hold!TypeOK' /\ Hold!StillThere'
    BY <1>1, <2>1 DEF Hold!PolicyInv, Hold!TypeOK, Hold!StillThere
  <2>4. Hold!MemorySound' /\ Hold!ManifestSound'
    <3>1. Hold!MemorySound'
      BY <1>1, <2>1 DEF Hold!PolicyInv, Hold!MemorySound
    <3>2. Hold!ManifestSound'
      BY <1>1, <2>1 DEF Hold!PolicyInv, Hold!ManifestSound
    <3>. QED
      BY <3>1, <3>2
  <2>3. Hold!OutputSound'
    BY <1>1, <2>1 DEF Hold!PolicyInv, Hold!OutputSound, Hold!Predictions, Hold!Evaluation,
                      Hold!Scores, Hold!Policy36
  <2>. QED
    BY <2>2, <2>3, <2>4, ScriptMoves
<1>. QED
  BY <1>1, PolicyStep

\* Whoever replaces the lock or the data, and wherever a script dies: an evaluation whose
\* manifest verifies scored the predictions on disk, which were frozen under the lock on
\* disk if nobody replaced it since the script was started, and the same for the data.
THEOREM PublishedAgreeHolds == LabSpec => []PublishedAgree
<1>. DEFINE Inv == lab = "holdout" => Hold!PolicyInv
<1>1. LabInit => Inv
  BY PolicyInit DEF LabInit
<1>2. Inv /\ [LabNext]_labvars => Inv'
  BY PolicyNext, StepOfEvaluation
<1>3. Inv => PublishedAgree
  BY PolicyImplies DEF PublishedAgree
<1>. QED
  BY <1>1, <1>2, <1>3, PTL DEF LabSpec

(***************************************************************************)
(* The feature builders: v1 builder, v2 match, v3 event, v4 pending,       *)
(* v5 history, v6 dates, v7 league, v8 standings, v9 referees, v10 record, *)
(* v11 lacking, v12 stored                                                 *)
(***************************************************************************)
LEMMA SameSetsOfRows ==
  \A S : (Feat!IsFiniteSet(S) <=> IsFiniteSet(S)) /\ Feat!Cardinality(S) = Cardinality(S)
BY DEF Feat!IsFiniteSet, IsFiniteSet, Feat!Cardinality, Cardinality

LEMMA LargestWindow ==
  Feat!Largest(Windows) \in Nat /\ \A w \in Windows : w \in Nat /\ w <= Feat!Largest(Windows)
<1>1. PICK w \in Windows : \A x \in Windows : x <= w
  BY FeaturesAssumption
<1>2. /\ Feat!Largest(Windows) \in Windows
      /\ \A x \in Windows : x <= Feat!Largest(Windows)
  BY <1>1 DEF Feat!Largest
<1>. QED
  BY <1>2, FeaturesAssumption

\* h has the last entries of P in their order, c counting the entries after one.
LastEntries(h, P, c, max) ==
  /\ h \in Seq(P)
  /\ \A i \in DOMAIN h : c[h[i]] = Len(h) - i
  /\ \A n \in P : c[n] < max => \E i \in DOMAIN h : h[i] = n

LEMMA DequeGrows ==
  ASSUME NEW P, NEW m, m \notin P, NEW c, NEW d, d[m] = 0,
         \A n \in P : c[n] \in Nat /\ d[n] = c[n] + 1,
         NEW max \in Nat, NEW h, LastEntries(h, P, c, max),
         NEW g, g = Feat!Appended(h, m, max)
  PROVE  LastEntries(g, P \union {m}, d, max)
<1>. USE DEF LastEntries
<1>1. PICK long : long = Append(h, m)
  OBVIOUS
<1>2. /\ long \in Seq(P \union {m}) /\ Len(long) = Len(h) + 1 /\ long[Len(h) + 1] = m
      /\ \A i \in 1 .. Len(h) : long[i] = h[i]
  BY <1>1
<1>3. \A i \in 1 .. Len(h) + 1 : d[long[i]] = Len(h) + 1 - i
  <2>1. ASSUME NEW i \in 1 .. Len(h) PROVE d[long[i]] = Len(h) + 1 - i
    <3>1. h[i] \in P /\ c[h[i]] = Len(h) - i
      OBVIOUS
    <3>. QED
      BY <1>2, <3>1
  <2>. QED
    BY <1>2, <2>1
<1>4. ASSUME NEW n \in P \union {m}, d[n] < max
      PROVE  \E i \in 1 .. Len(h) + 1 : long[i] = n /\ d[n] = Len(h) + 1 - i
  <2>1. CASE n = m
    BY <1>2, <2>1
  <2>2. CASE n \in P
    <3>1. c[n] < max
      BY <1>4, <2>2
    <3>2. PICK i \in DOMAIN h : h[i] = n
      BY <2>2, <3>1
    <3>3. i \in 1 .. Len(h) /\ i \in 1 .. Len(h) + 1 /\ long[i] = n
      BY <1>2, <3>2
    <3>4. d[n] = Len(h) + 1 - i
      BY <1>3, <3>3
    <3>. QED
      BY <3>3, <3>4
  <2>. QED
    BY <2>1, <2>2
<1>5. CASE Len(long) > max
  <2>1. g = Tail(long)
    BY <1>1, <1>5 DEF Feat!Appended
  <2>2. /\ g \in Seq(P \union {m}) /\ Len(g) = Len(h)
        /\ \A i \in 1 .. Len(h) : g[i] = long[i + 1]
    BY <1>2, <2>1
  <2>3. ASSUME NEW i \in DOMAIN g PROVE d[g[i]] = Len(g) - i
    <3>1. i \in 1 .. Len(h) /\ Len(h) \in Nat
      BY <2>2
    <3>2. PICK j : j = i + 1
      OBVIOUS
    <3>3. j \in 1 .. Len(h) + 1 /\ Len(h) + 1 - j = Len(h) - i
      BY <3>1, <3>2
    <3>4. g[i] = long[j]
      BY <2>2, <3>1, <3>2
    <3>5. d[long[j]] = Len(h) + 1 - j
      BY <1>3, <3>3
    <3>. QED
      BY <2>2, <3>3, <3>4, <3>5
  <2>4. ASSUME NEW n \in P \union {m}, d[n] < max PROVE \E i \in DOMAIN g : g[i] = n
    <3>1. PICK i \in 1 .. Len(h) + 1 : long[i] = n /\ d[n] = Len(h) + 1 - i
      BY <1>4, <2>4
    <3>2. i # 1
      BY <1>2, <1>5, <2>4, <3>1
    <3>5. i - 1 \in 1 .. Len(h) /\ i = (i - 1) + 1
      BY <3>2
    <3>3. PICK j \in 1 .. Len(h) : i = j + 1
      BY <3>5
    <3>4. j \in DOMAIN g /\ g[j] = long[j + 1]
      BY <2>2
    <3>. QED
      BY <3>1, <3>3, <3>4
  <2>. QED
    BY <2>2, <2>3, <2>4
<1>6. CASE ~(Len(long) > max)
  <2>1. g = long
    BY <1>1, <1>6 DEF Feat!Appended
  <2>2. DOMAIN g = 1 .. Len(h) + 1 /\ Len(g) = Len(h) + 1
    BY <1>2, <2>1
  <2>3. ASSUME NEW i \in DOMAIN g PROVE d[g[i]] = Len(g) - i
    BY <1>3, <2>1, <2>2
  <2>4. ASSUME NEW n \in P \union {m}, d[n] < max PROVE \E i \in DOMAIN g : g[i] = n
    BY <1>4, <2>1, <2>2, <2>4
  <2>. QED
    BY <1>2, <2>1, <2>3, <2>4
<1>. QED
  BY <1>5, <1>6

LEMMA SummaryOfDeque ==
  ASSUME NEW P, NEW c, \A n \in P : c[n] \in Nat, NEW max \in Nat, NEW w \in Nat, w <= max,
         NEW h \in Seq(P),
         \A i \in DOMAIN h : c[h[i]] = Len(h) - i,
         \A n \in P : c[n] < max => \E i \in DOMAIN h : h[i] = n
  PROVE  Feat!Summary(h, w) = {n \in P : c[n] < w}
<1>1. ASSUME NEW n \in Feat!Summary(h, w) PROVE n \in P /\ c[n] < w
  <2>1. PICK i \in 1 .. Len(h) : i > Len(h) - w /\ n = h[i]
    BY <1>1 DEF Feat!Summary
  <2>. QED
    BY <2>1
<1>2. ASSUME NEW n \in P, c[n] < w PROVE n \in Feat!Summary(h, w)
  <2>1. PICK i \in DOMAIN h : h[i] = n
    BY <1>2
  <2>2. i \in 1 .. Len(h) /\ i > Len(h) - w
    BY <1>2, <2>1
  <2>. QED
    BY <2>1, <2>2 DEF Feat!Summary
<1>. QED
  BY <1>1, <1>2

\* Appended keeps what it has from the set it is given.
LEMMA DequeWithin ==
  ASSUME NEW P, NEW h \in Seq(P), NEW m \in P, NEW max
  PROVE  Feat!Appended(h, m, max) \in Seq(P)
<1>1. PICK long : long = Append(h, m)
  OBVIOUS
<1>2. long \in Seq(P) /\ Len(long) = Len(h) + 1 /\ long # <<>>
  BY <1>1
<1>3. Tail(long) \in Seq(P)
  BY <1>2
<1>. QED
  BY <1>1, <1>2, <1>3 DEF Feat!Appended

LEMMA SummaryWithin ==
  ASSUME NEW P, NEW h \in Seq(P), NEW w PROVE Feat!Summary(h, w) \subseteq P
BY DEF Feat!Summary

(***************************************************************************)
(* The next row                                                            *)
(***************************************************************************)
\* In the order of the matches, a row follows those that are gone.
LEMMA RowFollows ==
  ASSUME Feat!InputSound, Feat!LoopSound, NEW m \in FeatureMatches, Feat!NextRow(m)
  PROVE  /\ m \in v4 /\ m \notin Feat!Gone /\ Feat!Gone \subseteq FeatureMatches
         /\ v2[m].kickoff \in Nat
         /\ \A n \in Feat!Gone :
              /\ n # m /\ Feat!Before(n, m) /\ ~Feat!Before(m, n)
              /\ v2[n].kickoff \in Nat /\ v2[n].kickoff <= v2[m].kickoff
         /\ \A n \in FeatureMatches \ Feat!Gone : n = m \/ Feat!Before(m, n)
         /\ \A n \in FeatureMatches : v2[n].kickoff < v2[m].kickoff => n \in Feat!Gone
<1>1. \A n \in FeatureMatches : n \in Nat /\ v2[n].kickoff \in Nat
  BY FeaturesAssumption DEF Feat!InputSound
<1>2. m \in v4 /\ \A n \in v4 \ {m} : Feat!Before(m, n)
  BY DEF Feat!NextRow
<1>3. \A n \in Feat!Gone : n \in FeatureMatches /\ n \notin v4 /\ Feat!Before(n, m)
  BY <1>2 DEF Feat!Gone, Feat!LoopSound
<1>4. \A n \in FeatureMatches \ Feat!Gone : n = m \/ Feat!Before(m, n)
  BY <1>2 DEF Feat!Gone
<1>5. \A n \in Feat!Gone : n # m /\ ~Feat!Before(m, n) /\ v2[n].kickoff <= v2[m].kickoff
  BY <1>1, <1>2, <1>3 DEF Feat!Before
<1>6. \A n \in FeatureMatches : v2[n].kickoff < v2[m].kickoff => n \in Feat!Gone
  BY <1>1, <1>4 DEF Feat!Before
<1>. QED
  BY <1>1, <1>2, <1>3, <1>4, <1>5, <1>6

\* The matches of a team that are gone are those it has played before.
LEMMA PlayedBefore ==
  ASSUME Feat!InputSound, Feat!LoopSound, NEW m \in FeatureMatches, Feat!NextRow(m),
         NEW t, Feat!Plays(t, m)
  PROVE  /\ Feat!PlayedBy(t) = Feat!Earlier(m, {n \in FeatureMatches : Feat!Plays(t, n)})
         /\ \A n \in Feat!PlayedBy(t) : v2[n].kickoff < v2[m].kickoff
<1>1. ASSUME NEW n \in Feat!Gone, Feat!Plays(t, n) PROVE v2[n].kickoff < v2[m].kickoff
  <2>1. /\ n \in FeatureMatches /\ n # m /\ v2[n].kickoff \in Nat /\ v2[m].kickoff \in Nat
        /\ v2[n].kickoff <= v2[m].kickoff
    BY RowFollows
  <2>2. v2[n].kickoff # v2[m].kickoff
    BY <1>1, <2>1 DEF Feat!Plays, Feat!InputSound, Feat!Legal
  <2>. QED
    BY <2>1, <2>2
<1>2. \A n \in FeatureMatches : v2[n].kickoff < v2[m].kickoff => n \in Feat!Gone
  BY RowFollows
<1>3. Feat!Gone \subseteq FeatureMatches
  BY DEF Feat!Gone
<1>. QED
  BY <1>1, <1>2, <1>3 DEF Feat!PlayedBy, Feat!Earlier

\* Summaries of the last w entries are the last w matches.
LEMMA SummaryExact ==
  ASSUME Feat!InputSound, Feat!LoopSound, NEW m \in FeatureMatches, Feat!NextRow(m),
         NEW t, Feat!Plays(t, m), Feat!DequeSound(t), NEW w \in Windows
  PROVE  Feat!Summary(v5[t], w) = Feat!LastOf(t, m, w)
<1>1. PICK P : P = Feat!PlayedBy(t)
  OBVIOUS
<1>2. PICK c : c = [n \in P |-> Feat!Cardinality(Feat!After(n, P))]
  OBVIOUS
<1>3. P \subseteq FeatureMatches
  BY <1>1 DEF Feat!PlayedBy, Feat!Gone
<1>4. \A n \in P : c[n] \in Nat
  <2>1. IsFiniteSet(P)
    BY <1>3, FeaturesAssumption, FS_Subset
  <2>. SUFFICES ASSUME NEW n \in P PROVE c[n] \in Nat
    OBVIOUS
  <2>2. Feat!After(n, P) \subseteq P
    BY DEF Feat!After
  <2>3. Cardinality(Feat!After(n, P)) \in Nat
    BY <2>1, <2>2, FS_Subset, FS_CardinalityType
  <2>. QED
    BY <1>2, <2>3, SameSetsOfRows
<1>5. PICK h \in Seq(P) : h = v5[t]
  BY <1>1 DEF Feat!DequeSound
<1>6. PICK max \in Nat : max = Feat!Largest(Windows)
  BY LargestWindow
<1>7. /\ \A i \in DOMAIN h : c[h[i]] = Len(h) - i
      /\ \A n \in P : c[n] < max => \E i \in DOMAIN h : h[i] = n
  BY <1>1, <1>2, <1>5, <1>6 DEF Feat!DequeSound
<1>8. Feat!Summary(h, w) = {n \in P : c[n] < w}
  BY <1>4, <1>6, <1>7, LargestWindow, SummaryOfDeque
<1>9. Feat!LastOf(t, m, w) = {n \in P : Feat!Cardinality(Feat!After(n, P)) < w}
  BY <1>1, PlayedBefore DEF Feat!LastOf, Feat!After
<1>. QED
  BY <1>2, <1>5, <1>8, <1>9

\* Counting the kickoffs of the days before is counting the matches.
LEMMA FatigueExact ==
  ASSUME Feat!InputSound, Feat!LoopSound, NEW m \in FeatureMatches, Feat!NextRow(m),
         NEW t, Feat!Plays(t, m), Feat!DatesSound(t)
  PROVE  Feat!Cardinality(Feat!Recent(t, v2[m].kickoff)) =
         Feat!Cardinality({n \in Feat!Earlier(m, FeatureMatches) :
                             Feat!Plays(t, n) /\ v2[n].kickoff + FatigueDays >= v2[m].kickoff})
<1>1. PICK P : P = Feat!PlayedBy(t)
  OBVIOUS
<1>2. PICK k \in Nat : k = v2[m].kickoff
  BY RowFollows
<1>3. /\ P \subseteq FeatureMatches /\ \A n \in P : v2[n].kickoff \in Nat /\ v2[n].kickoff < k
      /\ P = {n \in FeatureMatches : Feat!Plays(t, n) /\ v2[n].kickoff < k}
  <2>1. P = {n \in FeatureMatches : Feat!Plays(t, n) /\ v2[n].kickoff < k}
    BY <1>1, <1>2, PlayedBefore DEF Feat!Earlier
  <2>. QED
    BY <2>1, FeaturesAssumption DEF Feat!InputSound
<1>4. \A a, b \in P : v2[a].kickoff = v2[b].kickoff => a = b
  BY <1>3 DEF Feat!InputSound, Feat!Legal, Feat!Plays
<1>5. PICK s : s = v6[t]
  OBVIOUS
<1>6. /\ s \in Seq({v2[n].kickoff : n \in P})
      /\ \A n \in P : \E i \in DOMAIN s : s[i] = v2[n].kickoff
      /\ \A i, j \in DOMAIN s : i < j => s[i] < s[j]
  BY <1>1, <1>5 DEF Feat!DatesSound
<1>7. PICK S : S = {i \in 1 .. Len(s) : s[i] < k /\ s[i] >= k - FatigueDays}
  OBVIOUS
<1>8. PICK T : T = {n \in P : v2[n].kickoff + FatigueDays >= k}
  OBVIOUS
<1>9. S = Feat!Recent(t, v2[m].kickoff)
  BY <1>2, <1>5, <1>7 DEF Feat!Recent
<1>10. T = {n \in Feat!Earlier(m, FeatureMatches) :
              Feat!Plays(t, n) /\ v2[n].kickoff + FatigueDays >= v2[m].kickoff}
  BY <1>2, <1>3, <1>8 DEF Feat!Earlier
<1>11. PICK f : f = [i \in S |-> CHOOSE n \in P : v2[n].kickoff = s[i]]
  OBVIOUS
<1>12. ASSUME NEW i \in S PROVE f[i] \in P /\ v2[f[i]].kickoff = s[i] /\ f[i] \in T
  <2>1. PICK n \in P : v2[n].kickoff = s[i]
    BY <1>6, <1>7
  <2>2. f[i] = CHOOSE q \in P : v2[q].kickoff = s[i]
    BY <1>11
  <2>3. f[i] \in P /\ v2[f[i]].kickoff = s[i]
    BY <2>1, <2>2
  <2>4. s[i] \in Nat /\ s[i] >= k - FatigueDays
    BY <1>3, <1>7, <2>1
  <2>5. s[i] + FatigueDays >= k
    BY <2>4, FeaturesAssumption
  <2>. QED
    BY <1>8, <2>3, <2>5
<1>13. ASSUME NEW i \in S, NEW j \in S, f[i] = f[j] PROVE i = j
  <2>1. s[i] = s[j]
    BY <1>12, <1>13
  <2>2. i \in 1 .. Len(s) /\ j \in 1 .. Len(s) /\ s[i] \in Nat /\ s[j] \in Nat
    BY <1>3, <1>7, <1>12
  <2>. QED
    BY <1>6, <2>1, <2>2
<1>14. ASSUME NEW n \in T PROVE \E i \in S : f[i] = n
  <2>1. n \in P /\ v2[n].kickoff \in Nat /\ v2[n].kickoff < k
    BY <1>3, <1>8
  <2>2. PICK i \in DOMAIN s : s[i] = v2[n].kickoff
    BY <1>6, <2>1
  <2>3. v2[n].kickoff + FatigueDays >= k
    BY <1>8
  <2>4. s[i] >= k - FatigueDays
    BY <2>1, <2>2, <2>3, FeaturesAssumption
  <2>5. i \in S
    BY <1>6, <1>7, <2>1, <2>2, <2>4
  <2>6. f[i] \in P /\ v2[f[i]].kickoff = v2[n].kickoff
    BY <1>12, <2>2, <2>5
  <2>. QED
    BY <1>4, <2>1, <2>5, <2>6
<1>15. f \in [S -> T]
  BY <1>11, <1>12
<1>16. f \in Bijection(S, T)
  BY <1>13, <1>14, <1>15, Fun_IsBij
<1>17. IsFiniteSet(S)
  <2>1. IsFiniteSet(1 .. Len(s))
    BY <1>6, FS_Interval
  <2>. QED
    BY <1>7, <2>1, FS_Subset
<1>18. Cardinality(T) = Cardinality(S)
  BY <1>16, <1>17, FS_Bijection, Fun_ExistsBij
<1>. QED
  BY <1>9, <1>10, <1>18, SameSetsOfRows

(***************************************************************************)
(* A row that is built                                                     *)
(***************************************************************************)
LEMMA RowTaken ==
  ASSUME Feat!InputSound, Feat!LoopSound, NEW m \in FeatureMatches, NEW features,
         Feat!Build(m, features)
  PROVE  /\ Feat!InputSound' /\ Feat!LoopSound' /\ UNCHANGED <<v1, v2, v3, v11>>
         /\ Feat!Gone' = Feat!Gone \union {m} /\ DOMAIN v10' = DOMAIN v10 \union {m}
         /\ v10'[m] = features /\ \A n \in DOMAIN v10 : v10'[n] = v10[n]
         /\ \A t : Feat!PlayedBy(t)' =
                  IF Feat!Plays(t, m) THEN Feat!PlayedBy(t) \union {m} ELSE Feat!PlayedBy(t)
<1>1. /\ Feat!NextRow(m) /\ v4' = v4 \ {m} /\ UNCHANGED <<v1, v2, v3, v11>>
      /\ v10' = [n \in DOMAIN v10 \union {m} |-> IF n = m THEN features ELSE v10[n]]
  BY DEF Feat!Build, Feat!input
<1>2. m \in v4 /\ m \notin Feat!Gone
  BY <1>1, RowFollows
<1>3. Feat!Gone' = Feat!Gone \union {m}
  BY <1>1, <1>2 DEF Feat!Gone
<1>4. Feat!InputSound'
  BY <1>1 DEF Feat!InputSound, Feat!Legal
<1>5. /\ DOMAIN v10 = Feat!Gone /\ DOMAIN v10' = Feat!Gone \union {m}
      /\ v10'[m] = features /\ \A n \in DOMAIN v10 : v10'[n] = v10[n]
  BY <1>1, <1>2 DEF Feat!LoopSound
<1>6. \A n \in Feat!Gone \union {m}, p \in v4 \ {m} : Feat!Before(n, p)
  BY <1>1 DEF Feat!LoopSound, Feat!NextRow
<1>7. Feat!LoopSound'
  BY <1>1, <1>3, <1>5, <1>6 DEF Feat!LoopSound, Feat!Before
<1>8. \A t : Feat!PlayedBy(t)' =
        IF Feat!Plays(t, m) THEN Feat!PlayedBy(t) \union {m} ELSE Feat!PlayedBy(t)
  BY <1>1, <1>3 DEF Feat!PlayedBy, Feat!Plays
<1>. QED
  BY <1>1, <1>3, <1>4, <1>5, <1>7, <1>8

LEMMA DequeTaken ==
  ASSUME Feat!InputSound, Feat!LoopSound, NEW m \in FeatureMatches, NEW features,
         Feat!Build(m, features), NEW t, Feat!DequeSound(t),
         v5'[t] = IF Feat!Plays(t, m) THEN Feat!Appended(v5[t], m, Feat!Largest(Windows)) ELSE v5[t]
  PROVE  Feat!DequeSound(t)'
<1>1. v2' = v2 /\ Feat!NextRow(m)
  BY RowTaken DEF Feat!Build
<1>2. PICK P : P = Feat!PlayedBy(t)
  OBVIOUS
<1>3. PICK max \in Nat : max = Feat!Largest(Windows)
  BY LargestWindow
<1>4. PICK h \in Seq(P) : h = v5[t]
  BY <1>2 DEF Feat!DequeSound
<1>5. CASE ~Feat!Plays(t, m)
  <2>1. Feat!PlayedBy(t)' = P /\ v5'[t] = h
    BY <1>2, <1>4, <1>5, RowTaken
  <2>2. /\ \A i \in DOMAIN h : Feat!Cardinality(Feat!After(h[i], P)) = Len(h) - i
        /\ \A n \in P : Feat!Cardinality(Feat!After(n, P)) < max => \E i \in DOMAIN h : h[i] = n
    BY <1>2, <1>3, <1>4 DEF Feat!DequeSound
  <2>3. \A n : Feat!After(n, P)' = Feat!After(n, P)
    BY <1>1 DEF Feat!After, Feat!Before
  <2>. QED
    BY <1>3, <2>1, <2>2, <2>3 DEF Feat!DequeSound
<1>6. CASE Feat!Plays(t, m)
  <2>1. PICK Q : Q = P \union {m}
    OBVIOUS
  <2>2. PICK c : c = [n \in P |-> Feat!Cardinality(Feat!After(n, P))]
    OBVIOUS
  <2>3. PICK d : d = [n \in Q |-> Feat!Cardinality(Feat!After(n, Q))]
    OBVIOUS
  <2>4. P \subseteq Feat!Gone /\ P \subseteq FeatureMatches
    BY <1>2 DEF Feat!PlayedBy, Feat!Gone
  <2>5. m \notin P /\ \A n \in P : Feat!Before(n, m) /\ ~Feat!Before(m, n)
    BY <1>1, <2>4, RowFollows
  <2>6. ~Feat!Before(m, m)
    BY <1>1, RowFollows, FeaturesAssumption DEF Feat!Before
  <2>7. IsFiniteSet(P)
    BY <2>4, FeaturesAssumption, FS_Subset
  <2>8. ASSUME NEW n \in P PROVE c[n] \in Nat /\ d[n] = c[n] + 1
    <3>1. Feat!After(n, Q) = Feat!After(n, P) \union {m}
      BY <2>1, <2>5 DEF Feat!After
    <3>2. Feat!After(n, P) \subseteq P
      BY DEF Feat!After
    <3>3. IsFiniteSet(Feat!After(n, P)) /\ m \notin Feat!After(n, P)
      BY <2>5, <2>7, <3>2, FS_Subset
    <3>4. /\ Cardinality(Feat!After(n, P)) \in Nat
          /\ Cardinality(Feat!After(n, Q)) = Cardinality(Feat!After(n, P)) + 1
      BY <3>1, <3>3, FS_AddElement, FS_CardinalityType
    <3>. QED
      BY <2>1, <2>2, <2>3, <3>4, SameSetsOfRows
  <2>9. d[m] = 0
    <3>1. Feat!After(m, Q) = {}
      BY <2>1, <2>5, <2>6 DEF Feat!After
    <3>. QED
      BY <2>1, <2>3, <3>1, FS_EmptySet, SameSetsOfRows
  <2>10. /\ \A i \in DOMAIN h : c[h[i]] = Len(h) - i
         /\ \A n \in P : c[n] < max => \E i \in DOMAIN h : h[i] = n
    BY <1>2, <1>3, <1>4, <2>2 DEF Feat!DequeSound
  <2>11. PICK g : g = Feat!Appended(h, m, max)
    OBVIOUS
  <2>12. /\ g \in Seq(Q) /\ \A i \in DOMAIN g : d[g[i]] = Len(g) - i
         /\ \A n \in Q : d[n] < max => \E i \in DOMAIN g : g[i] = n
    <3>1. LastEntries(h, P, c, max)
      BY <2>10 DEF LastEntries
    <3>2. LastEntries(g, P \union {m}, d, max)
      BY <2>5, <2>8, <2>9, <2>11, <3>1, DequeGrows
    <3>. QED
      BY <2>1, <3>2 DEF LastEntries
  <2>13. Feat!PlayedBy(t)' = Q /\ v5'[t] = g
    BY <1>2, <1>3, <1>4, <1>6, <2>1, <2>11, RowTaken
  <2>14. \A n : Feat!After(n, Q)' = Feat!After(n, Q)
    BY <1>1 DEF Feat!After, Feat!Before
  <2>15. /\ \A i \in DOMAIN g : Feat!Cardinality(Feat!After(g[i], Q)) = Len(g) - i
         /\ \A n \in Q : Feat!Cardinality(Feat!After(n, Q)) < max => \E i \in DOMAIN g : g[i] = n
    <3>1. \A n \in Q : d[n] = Feat!Cardinality(Feat!After(n, Q))
      BY <2>3
    <3>2. \A i \in DOMAIN g : g[i] \in Q
      BY <2>12
    <3>. QED
      BY <2>12, <3>1, <3>2
  <2>. QED
    BY <1>3, <2>12, <2>13, <2>14, <2>15 DEF Feat!DequeSound
<1>. QED
  BY <1>5, <1>6

LEMMA SeqsWithin == ASSUME NEW K, NEW M, K \subseteq M, NEW s \in Seq(K) PROVE s \in Seq(M)
<1>1. Len(s) \in Nat /\ DOMAIN s = 1 .. Len(s) /\ s \in [1 .. Len(s) -> K]
  OBVIOUS
<1>2. s \in [1 .. Len(s) -> M]
  BY <1>1
<1>. QED
  BY <1>1, <1>2

LEMMA DatesTaken ==
  ASSUME Feat!InputSound, Feat!LoopSound, NEW m \in FeatureMatches, NEW features,
         Feat!Build(m, features), NEW t, Feat!DatesSound(t),
         v6'[t] = IF Feat!Plays(t, m) THEN Append(v6[t], v2[m].kickoff) ELSE v6[t]
  PROVE  Feat!DatesSound(t)'
<1>1. v2' = v2 /\ Feat!NextRow(m)
  BY RowTaken DEF Feat!Build
<1>2. PICK P : P = Feat!PlayedBy(t)
  OBVIOUS
<1>3. PICK s : s = v6[t]
  OBVIOUS
<1>4. /\ s \in Seq({v2[n].kickoff : n \in P})
      /\ \A n \in P : \E i \in DOMAIN s : s[i] = v2[n].kickoff
      /\ \A i, j \in DOMAIN s : i < j => s[i] < s[j]
  BY <1>2, <1>3 DEF Feat!DatesSound
<1>5. CASE ~Feat!Plays(t, m)
  <2>1. Feat!PlayedBy(t)' = P /\ v6'[t] = s
    BY <1>2, <1>3, <1>5, RowTaken
  <2>. QED
    BY <1>1, <1>4, <2>1 DEF Feat!DatesSound
<1>6. CASE Feat!Plays(t, m)
  <2>1. PICK Q : Q = P \union {m}
    OBVIOUS
  <2>2. PICK k \in Nat : k = v2[m].kickoff
    BY <1>1, RowFollows
  <2>3. PICK r : r = Append(s, k)
    OBVIOUS
  <2>4. Feat!PlayedBy(t)' = Q /\ v6'[t] = r
    BY <1>2, <1>3, <1>6, <2>1, <2>2, <2>3, RowTaken
  <2>5. \A n \in P : v2[n].kickoff < k
    BY <1>1, <1>2, <1>6, <2>2, PlayedBefore
  <2>6. PICK K : K = {v2[n].kickoff : n \in P}
    OBVIOUS
  <2>7. PICK M : M = {v2[n].kickoff : n \in Q}
    OBVIOUS
  <2>8. K \subseteq M /\ k \in M /\ s \in Seq(K) /\ \A x \in K : x < k
    BY <1>4, <2>1, <2>2, <2>5, <2>6, <2>7
  <2>9. /\ r \in Seq(M) /\ DOMAIN r = 1 .. Len(s) + 1 /\ r[Len(s) + 1] = k
        /\ \A i \in 1 .. Len(s) : r[i] = s[i] /\ r[i] < k
        /\ Len(s) \in Nat /\ DOMAIN s = 1 .. Len(s)
    <3>1. s \in Seq(M) /\ Len(s) \in Nat /\ DOMAIN s = 1 .. Len(s)
      <4>1. K \subseteq M /\ s \in Seq(K)
        BY <2>8
      <4>2. s \in Seq(M)
        BY <4>1, SeqsWithin
      <4>. QED
        BY <4>2
    <3>2. /\ r \in Seq(M) /\ DOMAIN r = 1 .. Len(s) + 1 /\ r[Len(s) + 1] = k
          /\ \A i \in 1 .. Len(s) : r[i] = s[i]
      BY <2>3, <2>8, <3>1
    <3>3. ASSUME NEW i \in 1 .. Len(s) PROVE s[i] \in K
      <4>1. i \in DOMAIN s
        BY <3>1
      <4>. QED
        BY <2>8, <4>1
    <3>. QED
      BY <2>8, <3>1, <3>2, <3>3
  <2>10. \A n \in Q : \E i \in DOMAIN r : r[i] = v2[n].kickoff
    BY <1>4, <2>1, <2>2, <2>9
  <2>11. \A i, j \in DOMAIN r : i < j => r[i] < r[j]
    BY <1>4, <2>9
  <2>. QED
    BY <1>1, <2>4, <2>7, <2>9, <2>10, <2>11 DEF Feat!DatesSound
<1>. QED
  BY <1>5, <1>6

LEMMA FeaturesInit == Feat!Init => Feat!FeaturesInv
<1>. SUFFICES ASSUME Feat!Init PROVE Feat!FeaturesInv
  OBVIOUS
<1>1. PICK k \in [FeatureMatches -> Kickoffs], f \in [FeatureMatches -> Fixtures] :
        v2 = [m \in FeatureMatches |-> [kickoff |-> k[m], home |-> f[m][1], away |-> f[m][2]]]
  BY DEF Feat!Init
<1>2. ASSUME NEW m \in FeatureMatches
      PROVE  v2[m].kickoff \in Kickoffs /\ {v2[m].home, v2[m].away} \subseteq Feat!Teams
  <2>1. f[m] \in Fixtures /\ v2[m].kickoff = k[m] /\ v2[m].home = f[m][1] /\ v2[m].away = f[m][2]
    BY <1>1
  <2>. QED
    BY <1>1, <2>1 DEF Feat!Teams
<1>3. Feat!InputSound
  BY <1>1, <1>2 DEF Feat!InputSound, Feat!Init
<1>4. v4 = FeatureMatches /\ v10 = <<>> /\ v12 = <<>> /\ Feat!Gone = {} /\ DOMAIN v10 = {} /\ DOMAIN v12 = {}
  BY DEF Feat!Init, Feat!Gone
<1>5. Feat!LoopSound
  BY <1>4 DEF Feat!LoopSound
<1>6. \A t : Feat!PlayedBy(t) = {}
  BY <1>4 DEF Feat!PlayedBy
<1>7. v5 = [t \in Feat!Teams |-> <<>>] /\ v6 = [t \in Feat!Teams |-> <<>>]
  BY DEF Feat!Init
<1>8. Feat!TeamsSound
  <2>1. ASSUME NEW t \in Feat!Teams PROVE Feat!DequeSound(t) /\ Feat!DatesSound(t)
    <3>1. v5[t] = <<>> /\ v6[t] = <<>> /\ Feat!PlayedBy(t) = {}
      BY <1>6, <1>7
    <3>. QED
      BY <3>1 DEF Feat!DequeSound, Feat!DatesSound
  <2>. QED
    BY <1>7, <2>1 DEF Feat!TeamsSound
<1>9. Feat!ContextSound
  <2>1. v7 = {} /\ v8 = [s \in {1, 2} |-> {}]
        /\ v9 = [r \in {RefereeOf[m] : m \in FeatureMatches} |-> <<>>]
    BY DEF Feat!Init
  <2>. QED
    BY <1>4, <2>1 DEF Feat!ContextSound
<1>10. Feat!PointInTime
  BY <1>4 DEF Feat!PointInTime, Feat!TeamHistoryExact, Feat!StatisticsEarlier, Feat!ContextOfRowsBefore
<1>11. Feat!StoredSound
  BY <1>4 DEF Feat!StoredSound
<1>. QED
  BY <1>3, <1>5, <1>8, <1>9, <1>10, <1>11 DEF Feat!FeaturesInv

\* What a statistic of a row has to show
StatisticExact(m, side, w, basis) ==
  /\ basis \subseteq Feat!Earlier(m, FeatureMatches)
  /\ (\A n \in Feat!LastOf(Feat!TeamAt(m, side), m, w) :
        Feat!SideOf(Feat!TeamAt(m, side), n) \notin v11[n]) =>
       basis = Feat!LastOf(Feat!TeamAt(m, side), m, w)

\* What a row of features has to show
FeaturesExact(m, features) ==
  /\ v1 \in {"pre_match", "cards"} =>
       \A w \in Windows : /\ features.home[w] = Feat!LastOf(v2[m].home, m, w)
                         /\ features.away[w] = Feat!LastOf(v2[m].away, m, w)
  /\ v1 = "pre_match" =>
       /\ features.fatigue =
            Feat!Cardinality({n \in Feat!Earlier(m, FeatureMatches) :
                                Feat!Plays(v2[m].home, n) /\ v2[n].kickoff + FatigueDays >= v2[m].kickoff})
       /\ features.league = {n \in FeatureMatches : Feat!Before(n, m)}
       /\ features.importance = {n \in features.league : Feat!Season(n) = Feat!Season(m)}
  /\ v1 = "pre_match" =>
       \A side \in Feat!Sides, w \in Windows :
         StatisticExact(m, side, w, features.statistics[side][w])
  /\ v1 = "cards" => \A n \in features.referee :
                      Feat!Before(n, m) /\ RefereeOf[n] = RefereeOf[m]
  /\ v1 = "qualitative" => (features.counted => v3.available <= v2[m].kickoff)

LEMMA ExactRows == Feat!PointInTime <=> \A m \in DOMAIN v10 : FeaturesExact(m, v10[m])
BY DEF Feat!PointInTime, Feat!TeamHistoryExact, Feat!StatisticsEarlier, Feat!ContextOfRowsBefore,
   FeaturesExact, StatisticExact

LEMMA ExactRowsPrimed == Feat!PointInTime' <=> \A m \in DOMAIN v10' : FeaturesExact(m, v10[m])'
BY DEF Feat!PointInTime, Feat!TeamHistoryExact, Feat!StatisticsEarlier, Feat!ContextOfRowsBefore,
   FeaturesExact, StatisticExact

LEMMA ExactKept ==
  ASSUME UNCHANGED <<v1, v2, v3, v11>>, NEW m, NEW features
  PROVE  FeaturesExact(m, features)' <=> FeaturesExact(m, features)
<1>1. \A t, n : Feat!Plays(t, n)' <=> Feat!Plays(t, n)
  BY DEF Feat!Plays
<1>2. \A S : Feat!Earlier(m, S)' = Feat!Earlier(m, S)
  BY DEF Feat!Earlier
<1>3. \A t, w : Feat!LastOf(t, m, w)' = Feat!LastOf(t, m, w)
  BY DEF Feat!LastOf, Feat!Earlier, Feat!Plays, Feat!Before
<1>4. ASSUME NEW side, NEW w, NEW basis
      PROVE  StatisticExact(m, side, w, basis)' <=> StatisticExact(m, side, w, basis)
  <2>1. Feat!TeamAt(m, side)' = Feat!TeamAt(m, side)
    BY DEF Feat!TeamAt
  <2>2. \A t, n : Feat!SideOf(t, n)' = Feat!SideOf(t, n)
    BY DEF Feat!SideOf
  <2>3. PICK t : t = Feat!TeamAt(m, side)
    OBVIOUS
  <2>4. Feat!LastOf(t, m, w)' = Feat!LastOf(t, m, w)
    BY <1>3
  <2>. QED
    BY <1>2, <2>1, <2>2, <2>3, <2>4 DEF StatisticExact
<1>5. (\A side \in Feat!Sides, w \in Windows :
         StatisticExact(m, side, w, features.statistics[side][w]))'
      <=> \A side \in Feat!Sides, w \in Windows :
            StatisticExact(m, side, w, features.statistics[side][w])
  <2>1. ASSUME NEW side \in Feat!Sides, NEW w \in Windows
        PROVE  StatisticExact(m, side, w, features.statistics[side][w])'
               <=> StatisticExact(m, side, w, features.statistics[side][w])
    <3>1. PICK basis : basis = features.statistics[side][w]
      OBVIOUS
    <3>2. StatisticExact(m, side, w, basis)' <=> StatisticExact(m, side, w, basis)
      BY <1>4
    <3>. QED
      BY <3>1, <3>2
  <2>. QED
    BY <2>1 DEF Feat!Sides
<1>6. PICK home, away, rows, reach :
        home = v2[m].home /\ away = v2[m].away /\ rows = FeatureMatches /\ reach = FatigueDays
  OBVIOUS
<1>7. /\ v2' = v2 /\ v1' = v1 /\ v3' = v3 /\ FeatureMatches' = FeatureMatches /\ FatigueDays' = FatigueDays
      /\ Windows' = Windows
  OBVIOUS
<1>8. \A w : Feat!LastOf(home, m, w)' = Feat!LastOf(home, m, w) /\ Feat!LastOf(away, m, w)' = Feat!LastOf(away, m, w)
  BY <1>3
<1>9. (\A w \in Windows : /\ features.home[w] = Feat!LastOf(home, m, w)
                         /\ features.away[w] = Feat!LastOf(away, m, w))'
      <=> \A w \in Windows : /\ features.home[w] = Feat!LastOf(home, m, w)
                             /\ features.away[w] = Feat!LastOf(away, m, w)
  BY <1>8
<1>10. {n \in Feat!Earlier(m, FeatureMatches) :
          Feat!Plays(v2[m].home, n) /\ v2[n].kickoff + FatigueDays >= v2[m].kickoff}'
       = {n \in Feat!Earlier(m, FeatureMatches) :
            Feat!Plays(v2[m].home, n) /\ v2[n].kickoff + FatigueDays >= v2[m].kickoff}
  BY <1>1, <1>2
<1>11. (\A w \in Windows : /\ features.home[w] = Feat!LastOf(v2[m].home, m, w)
                          /\ features.away[w] = Feat!LastOf(v2[m].away, m, w))'
       <=> \A w \in Windows : /\ features.home[w] = Feat!LastOf(v2[m].home, m, w)
                              /\ features.away[w] = Feat!LastOf(v2[m].away, m, w)
  BY <1>6, <1>9
<1>12. (features.fatigue =
          Feat!Cardinality({n \in Feat!Earlier(m, FeatureMatches) :
                              Feat!Plays(v2[m].home, n) /\ v2[n].kickoff + FatigueDays >= v2[m].kickoff}))'
       <=> features.fatigue =
             Feat!Cardinality({n \in Feat!Earlier(m, FeatureMatches) :
                                 Feat!Plays(v2[m].home, n) /\ v2[n].kickoff + FatigueDays >= v2[m].kickoff})
  BY <1>10
<1>13. (\A n : Feat!Before(n, m)' <=> Feat!Before(n, m)) /\ \A n : Feat!Season(n)' = Feat!Season(n)
  BY DEF Feat!Before, Feat!Season
<1>14. /\ (features.league = {n \in FeatureMatches : Feat!Before(n, m)})'
          <=> features.league = {n \in FeatureMatches : Feat!Before(n, m)}
       /\ (features.importance = {n \in features.league : Feat!Season(n) = Feat!Season(m)})'
          <=> features.importance = {n \in features.league : Feat!Season(n) = Feat!Season(m)}
       /\ (\A n \in features.referee : Feat!Before(n, m) /\ RefereeOf[n] = RefereeOf[m])'
          <=> \A n \in features.referee : Feat!Before(n, m) /\ RefereeOf[n] = RefereeOf[m]
  BY <1>13
<1>. QED
  BY <1>5, <1>7, <1>11, <1>12, <1>14 DEF FeaturesExact

LEMMA RecordTaken ==
  ASSUME Feat!FeaturesInv, NEW m \in FeatureMatches, NEW features,
         Feat!Build(m, features), FeaturesExact(m, features)
  PROVE  Feat!PointInTime'
<1>1. /\ UNCHANGED <<v1, v2, v3, v11>> /\ DOMAIN v10' = DOMAIN v10 \union {m}
      /\ v10'[m] = features /\ \A n \in DOMAIN v10 : v10'[n] = v10[n]
  BY RowTaken DEF Feat!FeaturesInv
<1>2. ASSUME NEW n \in DOMAIN v10' PROVE FeaturesExact(n, v10[n])'
  <2>1. PICK row : row = v10'[n]
    OBVIOUS
  <2>2. FeaturesExact(n, row)
    BY <1>1, <2>1, ExactRows DEF Feat!FeaturesInv
  <2>3. FeaturesExact(n, row)'
    BY <1>1, <2>2, ExactKept
  <2>. QED
    BY <2>1, <2>3
<1>. QED
  BY <1>2, ExactRowsPrimed

\* The deques and the dates, whichever of them the builder gathers
LEMMA TeamsTaken ==
  ASSUME Feat!FeaturesInv, NEW m \in FeatureMatches, NEW features, Feat!Build(m, features),
         v1 \in {"pre_match", "cards"} => v5' = Feat!Gathered(m, v5, Feat!Largest(Windows)),
         v1 = "pre_match" =>
           v6' = [t \in Feat!Teams |->
                    IF Feat!Plays(t, m) THEN Append(v6[t], v2[m].kickoff) ELSE v6[t]]
  PROVE  Feat!TeamsSound'
<1>1. v1' = v1
  BY RowTaken DEF Feat!FeaturesInv
<1>2. ASSUME v1 \in {"pre_match", "cards"}
      PROVE  v5' = [t \in Feat!Teams |-> v5'[t]] /\ \A t \in Feat!Teams : Feat!DequeSound(t)'
  <2>1. v5' = [t \in Feat!Teams |->
                 IF Feat!Plays(t, m) THEN Feat!Appended(v5[t], m, Feat!Largest(Windows)) ELSE v5[t]]
    BY <1>2 DEF Feat!Gathered
  <2>2. ASSUME NEW t \in Feat!Teams PROVE Feat!DequeSound(t)'
    <3>1. Feat!DequeSound(t)
      BY <1>2 DEF Feat!FeaturesInv, Feat!TeamsSound
    <3>2. v5'[t] = IF Feat!Plays(t, m) THEN Feat!Appended(v5[t], m, Feat!Largest(Windows)) ELSE v5[t]
      BY <2>1
    <3>. QED
      BY <3>1, <3>2, DequeTaken DEF Feat!FeaturesInv
  <2>. QED
    BY <2>1, <2>2
<1>3. ASSUME v1 = "pre_match"
      PROVE  v6' = [t \in Feat!Teams |-> v6'[t]] /\ \A t \in Feat!Teams : Feat!DatesSound(t)'
  <2>1. v6' = [t \in Feat!Teams |->
                 IF Feat!Plays(t, m) THEN Append(v6[t], v2[m].kickoff) ELSE v6[t]]
    BY <1>3
  <2>2. ASSUME NEW t \in Feat!Teams PROVE Feat!DatesSound(t)'
    <3>1. Feat!DatesSound(t)
      BY <1>3 DEF Feat!FeaturesInv, Feat!TeamsSound
    <3>2. v6'[t] = IF Feat!Plays(t, m) THEN Append(v6[t], v2[m].kickoff) ELSE v6[t]
      BY <2>1
    <3>. QED
      BY <3>1, <3>2, DatesTaken DEF Feat!FeaturesInv
  <2>. QED
    BY <2>1, <2>2
<1>4. Feat!Teams' = Feat!Teams
  BY DEF Feat!Teams
<1>. QED
  BY <1>1, <1>2, <1>3, <1>4 DEF Feat!TeamsSound

\* The two teams of a row, and what is known of them
LEMMA TeamsOfRow ==
  ASSUME Feat!FeaturesInv, NEW m \in FeatureMatches, Feat!NextRow(m),
         v1 \in {"pre_match", "cards"}, NEW w \in Windows
  PROVE  /\ Feat!TeamSummaries(m, v2[m].home)[w] = Feat!LastOf(v2[m].home, m, w)
         /\ Feat!TeamSummaries(m, v2[m].away)[w] = Feat!LastOf(v2[m].away, m, w)
<1>1. ASSUME NEW t \in {v2[m].home, v2[m].away}
      PROVE  Feat!TeamSummaries(m, t)[w] = Feat!LastOf(t, m, w)
  <2>1. t \in Feat!Teams /\ Feat!Plays(t, m)
    BY DEF Feat!FeaturesInv, Feat!InputSound, Feat!Plays
  <2>2. Feat!DequeSound(t)
    BY <2>1 DEF Feat!FeaturesInv, Feat!TeamsSound
  <2>3. Feat!Summary(v5[t], w) = Feat!LastOf(t, m, w)
    BY <2>1, <2>2, SummaryExact DEF Feat!FeaturesInv
  <2>. QED
    BY <2>3 DEF Feat!TeamSummaries
<1>. QED
  BY <1>1

\* The statistics of a row are from matches that are gone, and of its teams.
LEMMA StatisticsOfRow ==
  ASSUME Feat!FeaturesInv, NEW m \in FeatureMatches, Feat!NextRow(m), v1 = "pre_match",
         NEW side \in Feat!Sides, NEW w \in Windows
  PROVE  StatisticExact(m, side, w, Feat!Statistics(m, Feat!TeamAt(m, side))[w])
<1>1. PICK t : t = Feat!TeamAt(m, side)
  OBVIOUS
<1>2. t \in Feat!Teams /\ Feat!Plays(t, m)
  BY <1>1 DEF Feat!FeaturesInv, Feat!InputSound, Feat!Plays, Feat!TeamAt
<1>3. Feat!DequeSound(t)
  BY <1>2 DEF Feat!FeaturesInv, Feat!TeamsSound
<1>4. PICK last : last = Feat!LastOf(t, m, w)
  OBVIOUS
<1>5. Feat!Summary(v5[t], w) = last
  BY <1>2, <1>3, <1>4, SummaryExact DEF Feat!FeaturesInv
<1>6. last \subseteq Feat!PlayedBy(t) /\ \A n \in Feat!PlayedBy(t) : v2[n].kickoff < v2[m].kickoff
  <2>1. Feat!PlayedBy(t) = Feat!Earlier(m, {n \in FeatureMatches : Feat!Plays(t, n)})
        /\ \A n \in Feat!PlayedBy(t) : v2[n].kickoff < v2[m].kickoff
    BY <1>2, PlayedBefore DEF Feat!FeaturesInv
  <2>. QED
    BY <1>4, <2>1 DEF Feat!LastOf
<1>7. PICK basis : basis = Feat!Statistic(t, last)
  OBVIOUS
<1>8. \A n \in last : n \in Feat!Gone /\ Feat!SideOf(t, n) \in Feat!Sides
  BY <1>6 DEF Feat!PlayedBy, Feat!SideOf, Feat!Sides
<1>9. basis \subseteq Feat!Earlier(m, FeatureMatches)
  <2>. SUFFICES ASSUME NEW p \in basis PROVE p \in Feat!Earlier(m, FeatureMatches)
    OBVIOUS
  <2>1. PICK n \in last : p \in v12[n][Feat!SideOf(t, n)]
    BY <1>7 DEF Feat!Statistic
  <2>2. p \in Feat!Gone /\ (p = n \/ Feat!Before(p, n))
    BY <1>8, <2>1 DEF Feat!FeaturesInv, Feat!StoredSound
  <2>3. p \in FeatureMatches /\ n \in FeatureMatches /\ v2[n].kickoff < v2[m].kickoff
    BY <1>6, <1>8, <2>1, <2>2 DEF Feat!Gone
  <2>4. v2[p].kickoff \in Nat /\ v2[n].kickoff \in Nat /\ v2[m].kickoff \in Nat
    BY <2>3, FeaturesAssumption DEF Feat!FeaturesInv, Feat!InputSound
  <2>5. v2[p].kickoff < v2[m].kickoff
    BY <2>2, <2>3, <2>4 DEF Feat!Before
  <2>. QED
    BY <2>3, <2>5 DEF Feat!Earlier
<1>10. ASSUME \A n \in last : Feat!SideOf(t, n) \notin v11[n] PROVE basis = last
  <2>1. \A n \in last : v12[n][Feat!SideOf(t, n)] = {n}
    BY <1>8, <1>10 DEF Feat!FeaturesInv, Feat!StoredSound
  <2>. QED
    BY <1>7, <2>1 DEF Feat!Statistic
<1>11. Feat!Statistics(m, t)[w] = basis
  BY <1>5, <1>7 DEF Feat!Statistics
<1>. QED
  BY <1>1, <1>4, <1>9, <1>10, <1>11 DEF StatisticExact

\* What is gathered for a match is its own, or from matches that are gone.
LEMMA StoredTaken ==
  ASSUME Feat!FeaturesInv, v1 = "pre_match", NEW m \in FeatureMatches, NEW features,
         Feat!Build(m, features),
         v12' = [n \in DOMAIN v12 \union {m} |->
                   IF n = m THEN [side \in Feat!Sides |-> Feat!Gathering(m, side)] ELSE v12[n]]
  PROVE  Feat!StoredSound'
<1>1. /\ Feat!NextRow(m) /\ v2' = v2 /\ v11' = v11 /\ v1' = v1
      /\ Feat!Gone' = Feat!Gone \union {m}
  BY RowTaken DEF Feat!Build, Feat!FeaturesInv
<1>2. m \notin Feat!Gone /\ \A p \in Feat!Gone : Feat!Before(p, m)
  BY <1>1, RowFollows DEF Feat!FeaturesInv
<1>3. DOMAIN v12 = Feat!Gone
  BY DEF Feat!FeaturesInv, Feat!StoredSound
<1>4. \A n \in Feat!Gone, side \in Feat!Sides : v12[n][side] \subseteq Feat!Gone
  BY DEF Feat!FeaturesInv, Feat!StoredSound
<1>5. ASSUME NEW side \in Feat!Sides
      PROVE  /\ \A p \in Feat!Gathering(m, side) : p \in Feat!Gone \union {m} /\ (p = m \/ Feat!Before(p, m))
             /\ side \notin v11[m] => Feat!Gathering(m, side) = {m}
  <2>1. PICK t : t = Feat!TeamAt(m, side)
    OBVIOUS
  <2>2. t \in Feat!Teams
    BY <2>1 DEF Feat!FeaturesInv, Feat!InputSound, Feat!TeamAt
  <2>3. \A i \in DOMAIN v5[t] : v5[t][i] \in Feat!Gone /\ Feat!SideOf(t, v5[t][i]) \in Feat!Sides
    <3>1. v5[t] \in Seq(Feat!PlayedBy(t))
      BY <2>2 DEF Feat!FeaturesInv, Feat!TeamsSound, Feat!DequeSound
    <3>2. \A i \in DOMAIN v5[t] : v5[t][i] \in Feat!PlayedBy(t)
      BY <3>1
    <3>. QED
      BY <3>2 DEF Feat!PlayedBy, Feat!SideOf, Feat!Sides
  <2>4. Feat!Statistic(t, {v5[t][i] : i \in DOMAIN v5[t]}) \subseteq Feat!Gone
    BY <1>4, <2>3 DEF Feat!Statistic
  <2>5. UNION {v12[n][s] : n \in DOMAIN v12, s \in Feat!Sides} \subseteq Feat!Gone
    BY <1>3, <1>4
  <2>6. \/ side \notin v11[m] /\ Feat!Gathering(m, side) = {m}
        \/ side \in v11[m] /\ Feat!Gathering(m, side) \subseteq Feat!Gone
    <3>1. CASE side \notin v11[m]
      BY <3>1 DEF Feat!Gathering
    <3>2. CASE side \in v11[m] /\ v5[t] # <<>>
      BY <2>1, <2>4, <3>2 DEF Feat!Gathering
    <3>3. CASE side \in v11[m] /\ v5[t] = <<>>
      BY <2>1, <2>5, <3>3 DEF Feat!Gathering
    <3>. QED
      BY <3>1, <3>2, <3>3
  <2>. QED
    BY <1>2, <2>6
<1>6. DOMAIN v12' = Feat!Gone \union {m} /\ \A n \in Feat!Gone : v12'[n] = v12[n]
  BY <1>2, <1>3
<1>7. \A side \in Feat!Sides : v12'[m][side] = Feat!Gathering(m, side)
  OBVIOUS
<1>8. \A n \in Feat!Gone, side \in Feat!Sides :
        /\ \A p \in v12[n][side] : p \in Feat!Gone /\ (p = n \/ Feat!Before(p, n))
        /\ side \notin v11[n] => v12[n][side] = {n}
  BY DEF Feat!FeaturesInv, Feat!StoredSound
<1>9. \A n \in Feat!Gone \union {m}, side \in Feat!Sides :
        /\ \A p \in v12'[n][side] : p \in Feat!Gone \union {m} /\ (p = n \/ Feat!Before(p, n))
        /\ side \notin v11[n] => v12'[n][side] = {n}
  BY <1>5, <1>6, <1>7, <1>8
<1>10. \A p, n : Feat!Before(p, n)' <=> Feat!Before(p, n)
  BY <1>1 DEF Feat!Before
<1>. QED
  BY <1>1, <1>6, <1>9, <1>10 DEF Feat!StoredSound

\* The referees have matches of theirs in M.
RefereesWithin(M) ==
  /\ v9 = [r \in {RefereeOf[n] : n \in FeatureMatches} |-> v9[r]]
  /\ \A n \in FeatureMatches : v9[RefereeOf[n]] \in Seq({q \in M : RefereeOf[q] = RefereeOf[n]})

LEMMA RefereesStay ==
  ASSUME Feat!FeaturesInv, NEW m
  PROVE  RefereesWithin(Feat!Gone \union {m})
<1>1. RefereesWithin(Feat!Gone)
  BY DEF Feat!FeaturesInv, Feat!ContextSound, RefereesWithin
<1>2. ASSUME NEW n \in FeatureMatches
      PROVE  v9[RefereeOf[n]] \in Seq({q \in Feat!Gone \union {m} : RefereeOf[q] = RefereeOf[n]})
  <2>1. {q \in Feat!Gone : RefereeOf[q] = RefereeOf[n]}
          \subseteq {q \in Feat!Gone \union {m} : RefereeOf[q] = RefereeOf[n]}
    OBVIOUS
  <2>2. v9[RefereeOf[n]] \in Seq({q \in Feat!Gone : RefereeOf[q] = RefereeOf[n]})
    BY <1>1 DEF RefereesWithin
  <2>. QED
    BY <2>1, <2>2, SeqsWithin
<1>. QED
  BY <1>1, <1>2 DEF RefereesWithin

\* The rows that are gone are those before the next one.
LEMMA RowsBefore ==
  ASSUME Feat!InputSound, Feat!LoopSound, NEW m \in FeatureMatches, Feat!NextRow(m)
  PROVE  Feat!Gone = {n \in FeatureMatches : Feat!Before(n, m)}
<1>1. \A n \in FeatureMatches : n \in Nat /\ v2[n].kickoff \in Nat
  BY FeaturesAssumption DEF Feat!InputSound
<1>2. \A n \in FeatureMatches \ Feat!Gone : ~Feat!Before(n, m)
  BY <1>1, RowFollows DEF Feat!Before
<1>. QED
  BY <1>2, RowFollows

LEMMA PreMatchBuilt ==
  ASSUME Feat!FeaturesInv, NEW m \in FeatureMatches, Feat!PreMatchRow(m) PROVE Feat!FeaturesInv'
<1>1. PICK features :
        features = [home |-> Feat!TeamSummaries(m, v2[m].home),
                    away |-> Feat!TeamSummaries(m, v2[m].away),
                    statistics |-> [side \in Feat!Sides |->
                                      Feat!Statistics(m, Feat!TeamAt(m, side))],
                    fatigue |-> Feat!Cardinality(Feat!Recent(v2[m].home, v2[m].kickoff)),
                    league |-> v7, importance |-> v8[Feat!Season(m)]]
  OBVIOUS
<1>2. /\ v1 = "pre_match" /\ Feat!Build(m, features)
      /\ v5' = Feat!Gathered(m, v5, Feat!Largest(Windows))
      /\ v6' = [t \in Feat!Teams |->
                  IF Feat!Plays(t, m) THEN Append(v6[t], v2[m].kickoff) ELSE v6[t]]
      /\ v7' = v7 \union {m} /\ v9' = v9
      /\ v8' = [v8 EXCEPT ![Feat!Season(m)] = @ \union {m}]
      /\ v12' = [n \in DOMAIN v12 \union {m} |->
                   IF n = m THEN [side \in Feat!Sides |-> Feat!Gathering(m, side)] ELSE v12[n]]
  BY <1>1 DEF Feat!PreMatchRow
<1>3. /\ features.home = Feat!TeamSummaries(m, v2[m].home)
      /\ features.away = Feat!TeamSummaries(m, v2[m].away)
      /\ features.fatigue = Feat!Cardinality(Feat!Recent(v2[m].home, v2[m].kickoff))
      /\ features.league = v7 /\ features.importance = v8[Feat!Season(m)]
      /\ \A side \in Feat!Sides :
           features.statistics[side] = Feat!Statistics(m, Feat!TeamAt(m, side))
  BY <1>1
<1>4. Feat!NextRow(m) /\ Feat!InputSound /\ Feat!LoopSound
  BY <1>2 DEF Feat!Build, Feat!FeaturesInv
<1>5. Feat!InputSound' /\ Feat!LoopSound' /\ Feat!Gone' = Feat!Gone \union {m}
  BY <1>2, <1>4, RowTaken
<1>6. Feat!TeamsSound'
  BY <1>2, TeamsTaken
<1>7. Feat!Season(m) \in {1, 2}
  BY DEF Feat!Season
<1>8. v7 = Feat!Gone /\ v8 = [s \in {1, 2} |-> {n \in Feat!Gone : Feat!Season(n) = s}]
  BY <1>2 DEF Feat!FeaturesInv, Feat!ContextSound
<1>9. /\ v7' = Feat!Gone'
      /\ v8' = [s \in {1, 2} |-> {n \in Feat!Gone' : Feat!Season(n)' = s}]
  <2>1. \A n : Feat!Season(n)' = Feat!Season(n)
    BY <1>2 DEF Feat!Season, Feat!Build, Feat!input
  <2>2. ASSUME NEW s \in {1, 2} PROVE v8'[s] = {n \in Feat!Gone' : Feat!Season(n)' = s}
    BY <1>2, <1>5, <1>7, <1>8, <2>1
  <2>3. v8' = [s \in {1, 2} |-> v8'[s]]
    BY <1>2, <1>8
  <2>4. v7' = Feat!Gone'
    BY <1>2, <1>5, <1>8
  <2>5. v8' = [s \in {1, 2} |-> {n \in Feat!Gone' : Feat!Season(n)' = s}]
    BY <2>2, <2>3
  <2>. QED
    BY <2>4, <2>5
<1>10. v9' = v9 /\ RefereesWithin(Feat!Gone')
  BY <1>2, <1>5, RefereesStay
<1>11. Feat!ContextSound'
  BY <1>9, <1>10 DEF Feat!ContextSound, RefereesWithin
<1>12. FeaturesExact(m, features)
  <2>1. \A w \in Windows : /\ features.home[w] = Feat!LastOf(v2[m].home, m, w)
                          /\ features.away[w] = Feat!LastOf(v2[m].away, m, w)
    BY <1>2, <1>3, <1>4, TeamsOfRow
  <2>2. features.fatigue =
          Feat!Cardinality({n \in Feat!Earlier(m, FeatureMatches) :
                              Feat!Plays(v2[m].home, n) /\ v2[n].kickoff + FatigueDays >= v2[m].kickoff})
    <3>1. v2[m].home \in Feat!Teams /\ Feat!Plays(v2[m].home, m)
      BY <1>4 DEF Feat!InputSound, Feat!Plays
    <3>2. Feat!DatesSound(v2[m].home)
      BY <1>2, <3>1 DEF Feat!FeaturesInv, Feat!TeamsSound
    <3>. QED
      BY <1>3, <1>4, <3>1, <3>2, FatigueExact
  <2>3. Feat!Gone = {n \in FeatureMatches : Feat!Before(n, m)}
    BY <1>4, RowsBefore
  <2>4. /\ features.league = {n \in FeatureMatches : Feat!Before(n, m)}
        /\ features.importance = {n \in features.league : Feat!Season(n) = Feat!Season(m)}
    BY <1>3, <1>7, <1>8, <2>3
  <2>5. \A side \in Feat!Sides, w \in Windows :
          StatisticExact(m, side, w, features.statistics[side][w])
    BY <1>2, <1>3, <1>4, StatisticsOfRow
  <2>. QED
    BY <1>2, <2>1, <2>2, <2>4, <2>5 DEF FeaturesExact
<1>13. Feat!PointInTime'
  BY <1>2, <1>12, RecordTaken
<1>14. Feat!StoredSound'
  BY <1>2, StoredTaken
<1>. QED
  BY <1>5, <1>6, <1>11, <1>13, <1>14 DEF Feat!FeaturesInv

LEMMA CardBuilt ==
  ASSUME Feat!FeaturesInv, NEW m \in FeatureMatches, Feat!CardRow(m) PROVE Feat!FeaturesInv'
<1>1. PICK features :
        features = [home |-> Feat!TeamSummaries(m, v2[m].home),
                    away |-> Feat!TeamSummaries(m, v2[m].away),
                    referee |-> Feat!Summary(v9[RefereeOf[m]], RefereeWindow)]
  OBVIOUS
<1>2. /\ v1 = "cards" /\ Feat!Build(m, features)
      /\ v5' = Feat!Gathered(m, v5, Feat!Largest(Windows)) /\ v7' = v7 /\ v8' = v8
      /\ v9' = [v9 EXCEPT ![RefereeOf[m]] = Feat!Appended(@, m, RefereeWindow)]
  BY <1>1 DEF Feat!CardRow
<1>3. /\ features.home = Feat!TeamSummaries(m, v2[m].home)
      /\ features.away = Feat!TeamSummaries(m, v2[m].away)
      /\ features.referee = Feat!Summary(v9[RefereeOf[m]], RefereeWindow)
  BY <1>1
<1>4. Feat!NextRow(m) /\ Feat!InputSound /\ Feat!LoopSound
  BY <1>2 DEF Feat!Build, Feat!FeaturesInv
<1>5. Feat!InputSound' /\ Feat!LoopSound' /\ Feat!Gone' = Feat!Gone \union {m}
  BY <1>2, <1>4, RowTaken
<1>6. Feat!TeamsSound'
  BY <1>2, TeamsTaken
<1>7. RefereesWithin(Feat!Gone)
  BY DEF Feat!FeaturesInv, Feat!ContextSound, RefereesWithin
<1>8. PICK G : G = Feat!Gone \union {m}
  OBVIOUS
<1>9. /\ v9 = [r \in {RefereeOf[n] : n \in FeatureMatches} |-> v9[r]]
      /\ \A n \in FeatureMatches : v9[RefereeOf[n]] \in Seq({q \in G : RefereeOf[q] = RefereeOf[n]})
  BY <1>2, <1>8, RefereesStay DEF RefereesWithin
<1>10. Feat!Appended(v9[RefereeOf[m]], m, RefereeWindow) \in Seq({q \in G : RefereeOf[q] = RefereeOf[m]})
  <2>1. m \in {q \in G : RefereeOf[q] = RefereeOf[m]}
    BY <1>8
  <2>. QED
    BY <1>9, <2>1, DequeWithin
<1>11. RefereesWithin(G)'
  BY <1>2, <1>9, <1>10 DEF RefereesWithin
<1>12. Feat!ContextSound'
  <2>1. v1' = "cards"
    BY <1>2 DEF Feat!Build, Feat!input
  <2>. QED
    BY <1>5, <1>8, <1>11, <2>1 DEF Feat!ContextSound, RefereesWithin
<1>13. FeaturesExact(m, features)
  <2>1. \A w \in Windows : /\ features.home[w] = Feat!LastOf(v2[m].home, m, w)
                          /\ features.away[w] = Feat!LastOf(v2[m].away, m, w)
    BY <1>2, <1>3, <1>4, TeamsOfRow
  <2>2. Feat!Gone = {n \in FeatureMatches : Feat!Before(n, m)}
    BY <1>4, RowsBefore
  <2>3. features.referee \subseteq {n \in Feat!Gone : RefereeOf[n] = RefereeOf[m]}
    <3>1. v9[RefereeOf[m]] \in Seq({n \in Feat!Gone : RefereeOf[n] = RefereeOf[m]})
      BY <1>7 DEF RefereesWithin
    <3>. QED
      BY <1>3, <3>1, SummaryWithin
  <2>. QED
    BY <1>2, <2>1, <2>2, <2>3 DEF FeaturesExact
<1>14. Feat!PointInTime'
  BY <1>2, <1>13, RecordTaken
<1>15. Feat!StoredSound'
  <2>1. v1' = v1
    BY <1>2, <1>4, RowTaken
  <2>. QED
    BY <1>2, <2>1 DEF Feat!StoredSound
<1>. QED
  BY <1>5, <1>6, <1>12, <1>14, <1>15 DEF Feat!FeaturesInv

LEMMA QualitativeBuilt ==
  ASSUME Feat!FeaturesInv, NEW m \in FeatureMatches, Feat!QualitativeRow(m) PROVE Feat!FeaturesInv'
<1>1. PICK features : features = [counted |-> Feat!Available(m)]
  OBVIOUS
<1>2. v1 = "qualitative" /\ Feat!Build(m, features) /\ UNCHANGED <<v5, v6, v7, v8, v9>>
  BY <1>1 DEF Feat!QualitativeRow
<1>3. features.counted = Feat!Available(m)
  BY <1>1
<1>4. Feat!InputSound' /\ Feat!LoopSound' /\ Feat!Gone' = Feat!Gone \union {m}
  BY <1>2, RowTaken DEF Feat!FeaturesInv
<1>5. Feat!TeamsSound'
  BY <1>2, TeamsTaken
<1>6. v9' = v9 /\ RefereesWithin(Feat!Gone')
  BY <1>2, <1>4, RefereesStay
<1>7. v1' = "qualitative"
  BY <1>2 DEF Feat!Build, Feat!input
<1>8. Feat!ContextSound'
  BY <1>6, <1>7 DEF Feat!ContextSound, RefereesWithin
<1>9. FeaturesExact(m, features)
  BY <1>2, <1>3 DEF FeaturesExact, Feat!Available
<1>10. Feat!PointInTime'
  BY <1>2, <1>9, RecordTaken
<1>11. Feat!StoredSound'
  <2>1. v1' = v1
    BY <1>2, RowTaken DEF Feat!FeaturesInv
  <2>. QED
    BY <1>2, <2>1 DEF Feat!StoredSound
<1>. QED
  BY <1>4, <1>5, <1>8, <1>10, <1>11 DEF Feat!FeaturesInv

LEMMA FeaturesNext == Feat!FeaturesInv /\ [Feat!Next]_(Feat!vars) => Feat!FeaturesInv'
<1>1. ASSUME Feat!FeaturesInv, UNCHANGED Feat!vars PROVE Feat!FeaturesInv'
  <2>1. UNCHANGED <<v1, v2, v3, v4, v5, v6, v7, v8, v9, v10, v11, v12>>
    BY <1>1 DEF Feat!vars
  <2>2. Feat!InputSound' /\ Feat!LoopSound'
    BY <1>1, <2>1 DEF Feat!FeaturesInv, Feat!InputSound, Feat!Legal, Feat!LoopSound, Feat!Gone,
                      Feat!Before
  <2>9. Feat!ContextSound'
    <3>1. (\A n : Feat!Season(n)' = Feat!Season(n)) /\ Feat!Gone' = Feat!Gone
      BY <2>1 DEF Feat!Season, Feat!Gone
    <3>2. [s \in {1, 2} |-> {n \in Feat!Gone : Feat!Season(n) = s}]'
            = [s \in {1, 2} |-> {n \in Feat!Gone : Feat!Season(n) = s}]
      BY <3>1
    <3>. QED
      BY <1>1, <2>1, <3>1, <3>2 DEF Feat!FeaturesInv, Feat!ContextSound
  <2>3. \A t : Feat!DequeSound(t)' <=> Feat!DequeSound(t)
    BY <2>1 DEF Feat!DequeSound, Feat!PlayedBy, Feat!Plays, Feat!Gone, Feat!After, Feat!Before
  <2>4. \A t : Feat!DatesSound(t)' <=> Feat!DatesSound(t)
    BY <2>1 DEF Feat!DatesSound, Feat!PlayedBy, Feat!Plays, Feat!Gone
  <2>5. Feat!TeamsSound'
    BY <1>1, <2>1, <2>3, <2>4 DEF Feat!FeaturesInv, Feat!TeamsSound
  <2>6. ASSUME NEW n \in DOMAIN v10' PROVE FeaturesExact(n, v10[n])'
    <3>1. PICK row : row = v10'[n]
      OBVIOUS
    <3>2. FeaturesExact(n, row)
      BY <1>1, <2>1, <3>1, ExactRows DEF Feat!FeaturesInv
    <3>3. FeaturesExact(n, row)'
      BY <2>1, <3>2, ExactKept
    <3>. QED
      BY <3>1, <3>3
  <2>7. Feat!PointInTime'
    BY <2>6, ExactRowsPrimed
  <2>8. Feat!StoredSound'
    BY <1>1, <2>1 DEF Feat!FeaturesInv, Feat!StoredSound, Feat!Gone, Feat!Before
  <2>. QED
    BY <2>2, <2>5, <2>7, <2>8, <2>9 DEF Feat!FeaturesInv
<1>. QED
  BY <1>1, PreMatchBuilt, CardBuilt, QualitativeBuilt DEF Feat!Next

\* Whatever the matches, kickoffs, teams, windows and missing statistics: the summaries of
\* a row are the last matches its teams played before, its statistics, imputed ones too,
\* are from matches before it, its fatigue counts those of the days before, its league
\* and table are those of the rows before, and its referee has only such rows.
THEOREM PointInTimeHolds == LabSpec => []PointInTime
<1>. DEFINE Inv == lab = "features" => Feat!FeaturesInv
<1>1. LabInit => Inv
  BY FeaturesInit DEF LabInit
<1>2. Inv /\ [LabNext]_labvars => Inv'
  BY FeaturesNext, StepOfEvaluation
<1>3. Inv => PointInTime
  BY DEF PointInTime, Feat!FeaturesInv
<1>. QED
  BY <1>1, <1>2, <1>3, PTL DEF LabSpec

(***************************************************************************)
(* The accumulators: v1 pool, v2 pc, v3 todo, v4 selected, v5 pairs,        *)
(* v6 found, v7 history, v8 loaded, v9 answered, v10 asked, v11 deaths      *)
(***************************************************************************)
LEMMA SmallestOf ==
  ASSUME NEW S, S \subseteq Nat, S # {}
  PROVE  \E m \in S : \A k \in S : m <= k
<1>1. PICK m \in S : \A k \in S : <<k, m>> \notin OpToRel(<, Nat)
  BY NatLessThanWellFounded, WFMin
<1>2. ASSUME NEW k \in S PROVE m <= k
  <2>1. ~(k < m)
    BY <1>1 DEF OpToRel
  <2>. QED
    BY <2>1
<1>. QED
  BY <1>2

LEMMA AccaMin ==
  ASSUME NEW S, S \subseteq Nat, S # {}
  PROVE  Acca!Min(S) \in S /\ \A k \in S : Acca!Min(S) <= k
<1>. QED
  BY SmallestOf DEF Acca!Min

Weight(S, i, w) == IF i \in S THEN w ELSE 0

Code(S) ==
  Weight(S, 1, 256) + Weight(S, 2, 128) + Weight(S, 3, 64) + Weight(S, 4, 32) +
  Weight(S, 5, 16) + Weight(S, 6, 8) + Weight(S, 7, 4) + Weight(S, 8, 2) + Weight(S, 9, 1)

LEMMA CodeBounded == ASSUME NEW S PROVE Code(S) \in 0 .. 511
BY DEF Code, Weight

\* The order of combinations() is that of these codes, from the largest.
LEMMA SoonerByCode ==
  ASSUME NEW A \in SUBSET Acca!Legs, NEW B \in SUBSET Acca!Legs, A # B, Code(B) <= Code(A)
  PROVE  Acca!Sooner(A, B)
<1>. DEFINE D == (A \ B) \union (B \ A)
<1>1. D \subseteq 1 .. 9 /\ D # {}
  BY DEF Acca!Legs
<1>2. PICK m : m = Acca!Min(D)
  OBVIOUS
<1>3. m \in D /\ \A k \in D : m <= k
  BY <1>1, <1>2, AccaMin
<1>4. SUFFICES ASSUME m \notin A PROVE FALSE
  BY <1>2 DEF Acca!Sooner
<1>5. m \in B /\ m \in 1 .. 9
  BY <1>1, <1>3, <1>4
<1>6. \A i \in 1 .. 9 : i < m => (i \in A <=> i \in B)
  BY <1>3, <1>5
<1>. HIDE DEF D
<1>7. \A i \in 1 .. 9 : i < m => (i \in A <=> i \in B)
  BY <1>6
<1>8. Code(A) < Code(B)
  <2>1. CASE m = 1
    BY <1>4, <1>5, <2>1 DEF Code, Weight
  <2>2. CASE m = 2
    <3>1. \A i \in {1} : i \in A <=> i \in B
      BY <1>7, <2>2
    <3>. QED
      BY <1>4, <1>5, <2>2, <3>1 DEF Code, Weight
  <2>3. CASE m = 3
    <3>1. \A i \in {1, 2} : i \in A <=> i \in B
      BY <1>7, <2>3
    <3>. QED
      BY <1>4, <1>5, <2>3, <3>1 DEF Code, Weight
  <2>4. CASE m = 4
    <3>1. \A i \in {1, 2, 3} : i \in A <=> i \in B
      BY <1>7, <2>4
    <3>. QED
      BY <1>4, <1>5, <2>4, <3>1 DEF Code, Weight
  <2>5. CASE m = 5
    <3>1. \A i \in {1, 2, 3, 4} : i \in A <=> i \in B
      BY <1>7, <2>5
    <3>. QED
      BY <1>4, <1>5, <2>5, <3>1 DEF Code, Weight
  <2>6. CASE m = 6
    <3>1. \A i \in {1, 2, 3, 4, 5} : i \in A <=> i \in B
      BY <1>7, <2>6
    <3>. QED
      BY <1>4, <1>5, <2>6, <3>1 DEF Code, Weight
  <2>7. CASE m = 7
    <3>1. \A i \in {1, 2, 3, 4, 5, 6} : i \in A <=> i \in B
      BY <1>7, <2>7
    <3>. QED
      BY <1>4, <1>5, <2>7, <3>1 DEF Code, Weight
  <2>8. CASE m = 8
    <3>1. \A i \in {1, 2, 3, 4, 5, 6, 7} : i \in A <=> i \in B
      BY <1>7, <2>8
    <3>. QED
      BY <1>4, <1>5, <2>8, <3>1 DEF Code, Weight
  <2>9. CASE m = 9
    <3>1. \A i \in {1, 2, 3, 4, 5, 6, 7, 8} : i \in A <=> i \in B
      BY <1>7, <2>9
    <3>. QED
      BY <1>4, <1>5, <2>9, <3>1 DEF Code, Weight
  <2>. QED
    BY <1>5, <2>1, <2>2, <2>3, <2>4, <2>5, <2>6, <2>7, <2>8, <2>9
<1>9. Code(A) \in Nat /\ Code(B) \in Nat
  BY CodeBounded
<1>. QED
  BY <1>8, <1>9

LEMMA FirstOfIsIn ==
  ASSUME NEW C, C \subseteq SUBSET Acca!Legs, C # {}
  PROVE  Acca!FirstOf(C) \in C
<1>. DEFINE Left == {511 - Code(S) : S \in C}
<1>0. ASSUME NEW S PROVE 511 - Code(S) \in Nat /\ Code(S) \in Nat
  BY CodeBounded
<1>1. Left \subseteq Nat /\ Left # {}
  BY <1>0
<1>2. PICK S \in C : \A T \in C : 511 - Code(S) <= 511 - Code(T)
  <2>. HIDE DEF Left
  <2>1. PICK x \in Left : \A y \in Left : x <= y
    BY <1>1, SmallestOf
  <2>. USE DEF Left
  <2>2. PICK S \in C : x = 511 - Code(S)
    OBVIOUS
  <2>. QED
    BY <2>1, <2>2
<1>3. ASSUME NEW T \in C \ {S} PROVE Acca!Sooner(S, T)
  <2>1. Code(T) <= Code(S)
    BY <1>0, <1>2
  <2>. QED
    BY <2>1, SoonerByCode
<1>. QED
  BY <1>3 DEF Acca!FirstOf

LEMMA CombinedEdgeBounded ==
  ASSUME NEW S PROVE Acca!CombinedEdge(S) \in 0 .. 200
<1>. QED
  BY DEF Acca!Share, Acca!Edge, Acca!CombinedEdge

LEMMA BestIsIn ==
  ASSUME NEW C, C \subseteq SUBSET Acca!Legs, C # {}
  PROVE  Acca!Best(C) \in C
<1>. DEFINE Left == {200 - Acca!CombinedEdge(S) : S \in C}
            Top == {S \in C : \A T \in C : Acca!CombinedEdge(T) <= Acca!CombinedEdge(S)}
<1>0. ASSUME NEW S PROVE 200 - Acca!CombinedEdge(S) \in Nat /\ Acca!CombinedEdge(S) \in Nat
  BY CombinedEdgeBounded
<1>1. Left \subseteq Nat /\ Left # {}
  BY <1>0
<1>2. PICK S \in C : \A T \in C : 200 - Acca!CombinedEdge(S) <= 200 - Acca!CombinedEdge(T)
  <2>. HIDE DEF Left
  <2>1. PICK x \in Left : \A y \in Left : x <= y
    BY <1>1, SmallestOf
  <2>. USE DEF Left
  <2>2. PICK S \in C : x = 200 - Acca!CombinedEdge(S)
    OBVIOUS
  <2>. QED
    BY <2>1, <2>2
<1>3. \A T \in C : Acca!CombinedEdge(T) <= Acca!CombinedEdge(S)
  BY <1>0, <1>2
<1>4. Top # {} /\ Top \subseteq C
  BY <1>3
<1>5. Acca!FirstOf(Top) \in Top
  BY <1>4, FirstOfIsIn
<1>. QED
  BY <1>4, <1>5 DEF Acca!Best

\* What the safe and the value generator find is apart.
LEMMA GeneratedApart ==
  ASSUME v1 \subseteq Acca!Legs
  PROVE  /\ Acca!SafeLegs \subseteq Acca!Legs /\ Acca!Apart(Acca!SafeLegs)
         /\ Acca!ValueLegs \subseteq Acca!Legs /\ Acca!Apart(Acca!ValueLegs)
<1>0. Acca!Apart({})
  BY DEF Acca!Apart
<1>1. ASSUME NEW k
      PROVE  /\ Acca!SafeCombos(k) \subseteq {S \in SUBSET Acca!Legs : Acca!Apart(S)}
             /\ Acca!ValueCombos(k) \subseteq {S \in SUBSET Acca!Legs : Acca!Apart(S)}
  BY DEF Acca!SafeCombos, Acca!ValueCombos, Acca!kSubset
<1>2. Acca!SafeLegs \in {S \in SUBSET Acca!Legs : Acca!Apart(S)}
  <2>1. CASE Acca!SafeCombos(2) # {}
    BY <1>1, <2>1, FirstOfIsIn DEF Acca!SafeLegs
  <2>2. CASE Acca!SafeCombos(2) = {} /\ Acca!SafeCombos(3) # {}
    BY <1>1, <2>2, FirstOfIsIn DEF Acca!SafeLegs
  <2>3. CASE Acca!SafeCombos(2) = {} /\ Acca!SafeCombos(3) = {}
    BY <1>0, <2>3 DEF Acca!SafeLegs
  <2>. QED
    BY <2>1, <2>2, <2>3
<1>3. Acca!ValueLegs \in {S \in SUBSET Acca!Legs : Acca!Apart(S)}
  <2>1. CASE Acca!ValueCombos(4) # {}
    BY <1>1, <2>1, BestIsIn DEF Acca!ValueLegs
  <2>2. CASE Acca!ValueCombos(4) = {} /\ Acca!ValueCombos(3) # {}
    BY <1>1, <2>2, BestIsIn DEF Acca!ValueLegs
  <2>3. CASE Acca!ValueCombos(4) = {} /\ Acca!ValueCombos(3) = {}
    BY <1>0, <2>3 DEF Acca!ValueLegs
  <2>. QED
    BY <2>1, <2>2, <2>3
<1>. QED
  BY <1>2, <1>3
\* The legs of the first selection are the first four of the pool.
Bit(S, i) == IF i \in S THEN 1 ELSE 0

UpTo(S, k) == {j \in S : j <= k}

LEMMA SameCardinality == \A S : Acca!Cardinality(S) = Cardinality(S)
BY DEF Acca!Cardinality, Cardinality

LEMMA UpToNext ==
  ASSUME NEW S \in SUBSET (1 .. 9), NEW k \in 1 .. 9
  PROVE  Cardinality(UpTo(S, k)) = Cardinality(UpTo(S, k - 1)) + Bit(S, k)
<1>0. k <= k /\ ~(k <= k - 1) /\ \A j \in S : j <= k - 1 <=> j <= k /\ j # k
  OBVIOUS
<1>1. IsFiniteSet(UpTo(S, k - 1))
  <2>1. UpTo(S, k - 1) \subseteq 1 .. 9
    BY DEF UpTo
  <2>2. IsFiniteSet(1 .. 9)
    <3>1. 1 \in Int /\ 9 \in Int
      OBVIOUS
    <3>. QED
      BY <3>1, FS_Interval, Zenon
  <2>. QED
    BY <2>1, <2>2, FS_Subset
<1>2. Cardinality(UpTo(S, k - 1)) \in Nat
  BY <1>1, FS_CardinalityType
<1>3. CASE k \in S
  <2>1. UpTo(S, k) = UpTo(S, k - 1) \union {k} /\ k \notin UpTo(S, k - 1)
    BY <1>0, <1>3 DEF UpTo
  <2>. QED
    BY <1>1, <1>3, <2>1, FS_AddElement DEF Bit
<1>4. CASE k \notin S
  <2>1. UpTo(S, k) = UpTo(S, k - 1)
    BY <1>0, <1>4 DEF UpTo
  <2>. QED
    BY <1>2, <1>4, <2>1 DEF Bit
<1>. QED
  BY <1>3, <1>4

LEMMA UpToNone ==
  ASSUME NEW S \in SUBSET (1 .. 9)
  PROVE  Cardinality(UpTo(S, 0)) = 0 /\ UpTo(S, 9) = S
<1>1. \A j \in S : ~(j <= 0) /\ j <= 9
  OBVIOUS
<1>2. UpTo(S, 0) = {} /\ UpTo(S, 9) = S
  BY <1>1 DEF UpTo
<1>. QED
  BY <1>2, FS_EmptySet

LEMMA TopIsFour ==
  ASSUME v1 \subseteq Acca!Legs, Acca!Cardinality(v1) >= Acca!LegsNeeded
  PROVE  /\ Acca!Top \subseteq v1 /\ IsFiniteSet(Acca!Top)
         /\ Cardinality(Acca!Top) = 4
<1>. DEFINE C(k) == Cardinality(UpTo(v1, k))
            D(k) == Cardinality(UpTo(Acca!Top, k))
<1>1. v1 \in SUBSET (1 .. 9) /\ Acca!Top \in SUBSET (1 .. 9) /\ Acca!Top \subseteq v1
  BY DEF Acca!Legs, Acca!Top
<1>2. \A i \in 1 .. 9 : i \in Acca!Top <=> (i \in v1 /\ C(i) <= 4)
  BY <1>1, SameCardinality DEF Acca!Top, Acca!LegsNeeded, UpTo
<1>3. C(0) = 0 /\ D(0) = 0
  BY <1>1, UpToNone
<1>4. \A k \in 1 .. 9 : C(k) = C(k - 1) + Bit(v1, k) /\ D(k) = D(k - 1) + Bit(Acca!Top, k)
  BY <1>1, UpToNext
<1>5. C(9) >= 4 /\ D(9) = Cardinality(Acca!Top)
  BY <1>1, UpToNone, SameCardinality DEF Acca!LegsNeeded
<1>. HIDE DEF C, D
\* The selection takes every leg until it has four.
<1>6. ASSUME NEW k \in 1 .. 9, C(k - 1) \in Nat, D(k - 1) = IF C(k - 1) <= 4 THEN C(k - 1) ELSE 4
      PROVE  C(k) \in Nat /\ D(k) = IF C(k) <= 4 THEN C(k) ELSE 4
  <2>1. C(k) = C(k - 1) + Bit(v1, k) /\ D(k) = D(k - 1) + Bit(Acca!Top, k)
    BY <1>4
  <2>2. CASE k \in v1
    BY <1>2, <1>6, <2>1, <2>2 DEF Bit
  <2>3. CASE k \notin v1
    BY <1>2, <1>6, <2>1, <2>3 DEF Bit
  <2>. QED
    BY <2>2, <2>3
<1>. DEFINE Both(k) == C(k) \in Nat /\ D(k) = IF C(k) <= 4 THEN C(k) ELSE 4
<1>7. Both(0) /\ \A k \in 1 .. 9 : Both(k - 1) => Both(k)
  BY <1>3, <1>6
<1>. HIDE DEF Both
<1>8. Both(1) /\ Both(2) /\ Both(3)
  BY <1>7
<1>9. Both(4) /\ Both(5) /\ Both(6)
  BY <1>7, <1>8
<1>10. Both(7) /\ Both(8) /\ Both(9)
  BY <1>7, <1>9
<1>11. Cardinality(Acca!Top) = 4
  BY <1>5, <1>10 DEF Both
<1>12. IsFiniteSet(Acca!Top)
  <2>1. IsFiniteSet(1 .. 9)
    <3>1. 1 \in Int /\ 9 \in Int
      OBVIOUS
    <3>. QED
      BY <3>1, FS_Interval, Zenon
  <2>. QED
    BY <1>1, <2>1, FS_Subset
<1>. QED
  BY <1>1, <1>11, <1>12

\* A leg has two teams, so of three that it is correlated with two are not apart.
LEMMA CorrelatedBoth ==
  ASSUME NEW i, NEW j, Acca!Correlated(i, j) PROVE Acca!Correlated(j, i)
BY DEF Acca!Correlated

LEMMA TwoTeams ==
  ASSUME NEW b \in Acca!Legs, NEW i, NEW j, NEW k, i # j, i # k, j # k,
         NEW S, i \in S, j \in S, k \in S, Acca!Apart(S),
         Acca!Correlated(b, i), Acca!Correlated(b, j), Acca!Correlated(b, k)
  PROVE  FALSE
<1>1. PICK s, t : Acca!Teams[b] = {s, t}
  <2>1. b \in {1, 2, 3, 4, 5, 6, 7, 8, 9}
    BY DEF Acca!Legs
  <2>2. /\ Acca!Teams[1] = {"a", "b"} /\ Acca!Teams[2] = {"c", "d"}
        /\ Acca!Teams[3] = {"b", "c"} /\ Acca!Teams[4] = {"e", "f"}
        /\ Acca!Teams[5] = {"a", "b"} /\ Acca!Teams[6] = {"f", "g"}
        /\ Acca!Teams[7] = {"h", "i"} /\ Acca!Teams[8] = {"j", "k"}
        /\ Acca!Teams[9] = {"l", "m"}
    BY DEF Acca!Teams
  <2>3. CASE b = 1
    BY <2>2, <2>3, Zenon
  <2>4. CASE b = 2
    BY <2>2, <2>4, Zenon
  <2>5. CASE b = 3
    BY <2>2, <2>5, Zenon
  <2>6. CASE b = 4
    BY <2>2, <2>6, Zenon
  <2>7. CASE b = 5
    BY <2>2, <2>7, Zenon
  <2>8. CASE b = 6
    BY <2>2, <2>8, Zenon
  <2>9. CASE b = 7
    BY <2>2, <2>9, Zenon
  <2>10. CASE b = 8
    BY <2>2, <2>10, Zenon
  <2>11. CASE b = 9
    BY <2>2, <2>11, Zenon
  <2>. QED
    BY <2>1, <2>3, <2>4, <2>5, <2>6, <2>7, <2>8, <2>9, <2>10, <2>11
<1>2. /\ s \in Acca!Teams[i] \/ t \in Acca!Teams[i]
      /\ s \in Acca!Teams[j] \/ t \in Acca!Teams[j]
      /\ s \in Acca!Teams[k] \/ t \in Acca!Teams[k]
  BY <1>1 DEF Acca!Correlated
<1>3. /\ Acca!Teams[i] \intersect Acca!Teams[j] = {}
      /\ Acca!Teams[i] \intersect Acca!Teams[k] = {}
      /\ Acca!Teams[j] \intersect Acca!Teams[k] = {}
  BY DEF Acca!Apart, Acca!Correlated
<1>. QED
  BY <1>2, <1>3

\* The history keeps the newest entries.
LEMMA NewestOf ==
  ASSUME NEW E, NEW s \in Seq(E)
  PROVE  /\ Acca!Newest(s) \in Seq(E)
         /\ Len(Acca!Newest(s)) = IF Len(s) < AccaHistory THEN Len(s) ELSE AccaHistory
         /\ \A i \in 1 .. Len(Acca!Newest(s)) : Acca!Newest(s)[i] = s[i]
<1>1. PICK n : n = IF Len(s) < AccaHistory THEN Len(s) ELSE AccaHistory
  OBVIOUS
<1>2. n \in Nat /\ n <= Len(s) /\ Len(s) \in Nat
  BY <1>1, AccumulatorsAssumption
<1>3. Acca!Newest(s) = SubSeq(s, 1, n)
  BY <1>1 DEF Acca!Newest
<1>4. /\ SubSeq(s, 1, n) \in Seq(E) /\ Len(SubSeq(s, 1, n)) = n
      /\ \A i \in 1 .. n : SubSeq(s, 1, n)[i] = s[i]
  BY <1>2
<1>. QED
  BY <1>1, <1>3, <1>4

LEMMA NewestOfNewest ==
  ASSUME NEW E, NEW e \in E, NEW s \in Seq(E)
  PROVE  Acca!Newest(<<e>> \o Acca!Newest(s)) = Acca!Newest(<<e>> \o s)
<1>1. PICK n : n = Acca!Newest(s)
  OBVIOUS
<1>2. /\ n \in Seq(E) /\ Len(n) = IF Len(s) < AccaHistory THEN Len(s) ELSE AccaHistory
      /\ \A i \in 1 .. Len(n) : n[i] = s[i]
  BY <1>1, NewestOf
<1>3. PICK a, b : a = <<e>> \o n /\ b = <<e>> \o s
  OBVIOUS
<1>4. /\ a \in Seq(E) /\ Len(a) = Len(n) + 1
      /\ b \in Seq(E) /\ Len(b) = Len(s) + 1
  BY <1>2, <1>3
<1>5. \A i \in 1 .. Len(a) : a[i] = b[i]
  <2>1. a[1] = e /\ b[1] = e
    BY <1>2, <1>3
  <2>2. ASSUME NEW i \in 1 .. Len(a), i # 1 PROVE a[i] = b[i]
    <3>1. i - 1 \in 1 .. Len(n) /\ i - 1 \in 1 .. Len(s)
      BY <1>2, <1>4, <2>2, AccumulatorsAssumption
    <3>2. a[i] = n[i - 1] /\ b[i] = s[i - 1]
      BY <1>2, <1>3, <1>4, <2>2, <3>1
    <3>. QED
      BY <1>2, <3>1, <3>2
  <2>. QED
    BY <2>1, <2>2
<1>6. PICK x, y : x = Acca!Newest(a) /\ y = Acca!Newest(b)
  OBVIOUS
<1>7. /\ x \in Seq(E) /\ Len(x) = IF Len(a) < AccaHistory THEN Len(a) ELSE AccaHistory
      /\ \A i \in 1 .. Len(x) : x[i] = a[i]
  BY <1>4, <1>6, NewestOf
<1>8. /\ y \in Seq(E) /\ Len(y) = IF Len(b) < AccaHistory THEN Len(b) ELSE AccaHistory
      /\ \A i \in 1 .. Len(y) : y[i] = b[i]
  BY <1>4, <1>6, NewestOf
<1>9. Len(s) \in Nat /\ Len(n) \in Nat /\ Len(x) = Len(y) /\ Len(x) <= Len(a)
  BY <1>2, <1>4, <1>7, <1>8, AccumulatorsAssumption
<1>10. \A i \in 1 .. Len(x) : x[i] = y[i]
  BY <1>4, <1>5, <1>7, <1>8, <1>9
<1>11. x = y
  BY <1>7, <1>8, <1>9, <1>10
<1>. QED
  BY <1>1, <1>3, <1>6, <1>11

\* A file that was torn is never taken for the history.
LEMMA NewestIsNotTorn ==
  ASSUME NEW s \in Seq([mode : Acca!Modes, legs : SUBSET Acca!Legs])
  PROVE  Acca!Newest(s) # <<Acca!Torn>>
<1>. SUFFICES ASSUME Acca!Newest(s) = <<Acca!Torn>> PROVE FALSE
  OBVIOUS
<1>1. Acca!Newest(s) \in Seq([mode : Acca!Modes, legs : SUBSET Acca!Legs])
  BY NewestOf
<1>2. Acca!Torn \in [mode : Acca!Modes, legs : SUBSET Acca!Legs]
  BY <1>1
<1>3. Acca!Torn.mode \in Acca!Modes
  BY <1>2
<1>. QED
  BY <1>3 DEF Acca!Torn, Acca!Modes

LEMMA TopKept == ASSUME v1' = v1 PROVE Acca!Top' = Acca!Top
BY DEF Acca!Top

LEMMA SelectionKept ==
  ASSUME Acca!SelectionSound, UNCHANGED <<v1, v2, v4, v5>>
  PROVE  Acca!SelectionSound'
BY TopKept DEF Acca!SelectionSound, Acca!Met, Acca!Untouched, Acca!ReplacedFirst

LEMMA FoundKept ==
  ASSUME Acca!FoundSound, UNCHANGED <<v1, v6>>, v11' \in Nat,
         v2' \in {"load", "truncate", "write"} => v2 \in {"load", "truncate", "write"}
  PROVE  Acca!FoundSound'
BY TopKept DEF Acca!FoundSound, Acca!SystemSized

LEMMA HistoryKept ==
  ASSUME Acca!HistorySound, Acca!AccumulatorsSound, UNCHANGED <<v1, v7, v8, v9>>,
         v11' = 0 => /\ v11 = 0
                     /\ \/ v2' = v2
                        \/ v2 # "write" /\ v2' \notin {"truncate", "write"}
  PROVE  Acca!HistorySound' /\ Acca!AccumulatorsSound'
<1>1. Acca!HistorySound'
  BY DEF Acca!HistorySound, Acca!Newest
<1>2. Acca!AccumulatorsSound'
  BY TopKept DEF Acca!AccumulatorsSound, Acca!SystemSized, Acca!Newest
<1>. QED
  BY <1>1, <1>2

LEMMA Finding ==
  ASSUME Acca!FoundSound, NEW m \in Acca!Modes, NEW S \in SUBSET Acca!Legs, Acca!Apart(S),
         m = "system" /\ S # {} => Acca!SystemSized(S),
         Acca!Finds(m, S), UNCHANGED <<v1, v11>>
  PROVE  Acca!FoundSound' /\ v2' \in {"next", "load"}
<1>1. /\ v6 \in [Acca!Modes -> SUBSET Acca!Legs]
      /\ v6' = [v6 EXCEPT ![m] = S] /\ v2' = IF S = {} THEN "next" ELSE "load"
  BY DEF Acca!FoundSound, Acca!Finds
<1>2. PICK f : f = v6'
  OBVIOUS
<1>3. /\ f \in [Acca!Modes -> SUBSET Acca!Legs] /\ f[m] = S
      /\ \A k \in Acca!Modes : k # m => f[k] = v6[k]
  BY <1>1, <1>2
<1>4. \A k \in Acca!Modes : Acca!Apart(f[k])
  BY <1>3 DEF Acca!FoundSound
<1>5. "system" \in Acca!Modes
  BY DEF Acca!Modes
<1>6. f["system"] # {} => Acca!SystemSized(f["system"])
  BY <1>3, <1>5 DEF Acca!FoundSound
<1>7. Acca!FoundSound'
  BY <1>1, <1>2, <1>3, <1>4, <1>6, TopKept DEF Acca!FoundSound, Acca!SystemSized, Acca!Apart
<1>. QED
  BY <1>1, <1>7

LEMMA AskedForBets == ASSUME Acca!AccumulatorsInv, Acca!Ask PROVE Acca!AccumulatorsInv'
<1>1. /\ v2 = "idle" /\ v2' = "next" /\ v6' = Acca!Nothing
      /\ UNCHANGED <<v1, v4, v5, v7, v8, v9, v11>>
  BY DEF Acca!Ask
<1>2. Acca!SelectionSound'
  BY <1>1 DEF Acca!SelectionSound
<1>3. Acca!FoundSound'
  <2>1. /\ v6' = [m \in Acca!Modes |-> {}] /\ "system" \in Acca!Modes /\ Acca!Apart({})
    BY <1>1 DEF Acca!Nothing, Acca!Modes, Acca!Apart
  <2>2. PICK f : f = v6'
    OBVIOUS
  <2>3. f \in [Acca!Modes -> SUBSET Acca!Legs] /\ \A m \in Acca!Modes : f[m] = {}
    BY <2>1, <2>2
  <2>. QED
    BY <1>1, <2>1, <2>2, <2>3 DEF Acca!AccumulatorsInv, Acca!FoundSound, Acca!Apart
<1>4. Acca!HistorySound' /\ Acca!AccumulatorsSound'
  BY <1>1, HistoryKept DEF Acca!AccumulatorsInv
<1>. QED
  BY <1>2, <1>3, <1>4 DEF Acca!AccumulatorsInv

LEMMA GeneratedBets == ASSUME Acca!AccumulatorsInv, Acca!Generate PROVE Acca!AccumulatorsInv'
<1>1. v2 = "next" /\ UNCHANGED <<v1, v4, v5, v7, v8, v9, v11>>
  BY DEF Acca!Generate
<1>2. Acca!FoundSound' /\ v2' \in {"next", "load"}
  <2>1. v1 \subseteq Acca!Legs
    BY DEF Acca!AccumulatorsInv, Acca!FoundSound
  <2>2. \/ Acca!Finds("safe", Acca!SafeLegs)
        \/ Acca!Finds("value", Acca!ValueLegs)
    BY DEF Acca!Generate
  <2>3. PICK A, B : A = Acca!SafeLegs /\ B = Acca!ValueLegs
    OBVIOUS
  <2>4. /\ A \in SUBSET Acca!Legs /\ Acca!Apart(A) /\ B \in SUBSET Acca!Legs /\ Acca!Apart(B)
        /\ "safe" \in Acca!Modes /\ "value" \in Acca!Modes
    BY <2>1, <2>3, GeneratedApart DEF Acca!Modes
  <2>5. Acca!Finds("safe", A) \/ Acca!Finds("value", B)
    BY <2>2, <2>3
  <2>. QED
    BY <1>1, <2>4, <2>5, Finding DEF Acca!AccumulatorsInv
<1>3. Acca!SelectionSound'
  BY <1>2 DEF Acca!SelectionSound
<1>4. Acca!HistorySound' /\ Acca!AccumulatorsSound'
  BY <1>1, <1>2, HistoryKept DEF Acca!AccumulatorsInv
<1>. QED
  BY <1>2, <1>3, <1>4 DEF Acca!AccumulatorsInv

LEMMA NothingFound ==
  ASSUME Acca!FoundSound, Acca!Finds("system", {}), UNCHANGED <<v1, v11>>
  PROVE  Acca!FoundSound' /\ v2' = "next"
<1>1. /\ {} \in SUBSET Acca!Legs /\ Acca!Apart({}) /\ "system" \in Acca!Modes
      /\ ~("system" = "system" /\ {} # {})
  BY DEF Acca!Apart, Acca!Modes
<1>2. v2' = "next"
  BY DEF Acca!Finds
<1>. QED
  BY <1>1, <1>2, Finding

LEMMA SystemStarted == ASSUME Acca!AccumulatorsInv, Acca!StartSystem PROVE Acca!AccumulatorsInv'
<1>1. v2 = "next" /\ UNCHANGED <<v1, v7, v8, v9, v11>>
  BY DEF Acca!StartSystem
<1>2. CASE Acca!Finds("system", {})
  <2>1. Acca!FoundSound' /\ v2' = "next"
    BY <1>1, <1>2, NothingFound DEF Acca!AccumulatorsInv
  <2>2. Acca!SelectionSound'
    BY <2>1 DEF Acca!SelectionSound
  <2>3. Acca!HistorySound' /\ Acca!AccumulatorsSound'
    BY <1>1, <2>1, HistoryKept DEF Acca!AccumulatorsInv
  <2>. QED
    BY <2>1, <2>2, <2>3 DEF Acca!AccumulatorsInv
<1>3. CASE /\ Acca!Cardinality(v1) >= Acca!LegsNeeded /\ v4' = Acca!Top
           /\ v5' = {p \in Acca!Top \X Acca!Top : p[1] < p[2]} /\ v2' = "pairs" /\ v6' = v6
  <2>1. Acca!SelectionSound'
    <3>1. \A i, j \in Acca!Top : i < j => <<i, j>> \in v5'
      BY <1>3
    <3>. QED
      BY <1>1, <1>3, <3>1, TopKept DEF Acca!SelectionSound, Acca!Untouched
  <2>2. Acca!FoundSound'
    BY <1>1, <1>3, FoundKept DEF Acca!AccumulatorsInv, Acca!FoundSound
  <2>3. Acca!HistorySound' /\ Acca!AccumulatorsSound'
    BY <1>1, <1>3, HistoryKept DEF Acca!AccumulatorsInv
  <2>. QED
    BY <2>1, <2>2, <2>3 DEF Acca!AccumulatorsInv
<1>. QED
  BY <1>2, <1>3 DEF Acca!StartSystem

\* The pair that comes first is one of the pairs.
LEMMA FirstPairIsOne ==
  ASSUME NEW P, P \subseteq Acca!Legs \X Acca!Legs, P # {}
  PROVE  \E p \in P : \A q \in P : p[1] < q[1] \/ (p[1] = q[1] /\ p[2] <= q[2])
<1>. DEFINE Codes == {10 * p[1] + p[2] : p \in P}
<1>1. \A p \in P : p[1] \in 1 .. 9 /\ p[2] \in 1 .. 9
  BY DEF Acca!Legs
<1>2. Codes \subseteq Nat /\ Codes # {}
  BY <1>1
<1>3. PICK p \in P : \A q \in P : 10 * p[1] + p[2] <= 10 * q[1] + q[2]
  <2>. HIDE DEF Codes
  <2>1. PICK x \in Codes : \A y \in Codes : x <= y
    BY <1>2, SmallestOf
  <2>. USE DEF Codes
  <2>2. PICK p \in P : x = 10 * p[1] + p[2]
    OBVIOUS
  <2>. QED
    BY <2>1, <2>2
<1>4. ASSUME NEW q \in P PROVE p[1] < q[1] \/ (p[1] = q[1] /\ p[2] <= q[2])
  <2>1. 10 * p[1] + p[2] <= 10 * q[1] + q[2]
    BY <1>3
  <2>2. PICK a, b, c, d : a = p[1] /\ b = p[2] /\ c = q[1] /\ d = q[2]
    OBVIOUS
  <2>3. /\ a \in 1 .. 9 /\ b \in 1 .. 9 /\ c \in 1 .. 9 /\ d \in 1 .. 9
        /\ 10 * a + b <= 10 * c + d
    BY <1>1, <2>1, <2>2
  <2>4. a < c \/ (a = c /\ b <= d)
    BY <2>3
  <2>. QED
    BY <2>2, <2>4
<1>. QED
  BY <1>4

LEMMA NextPair ==
  ASSUME Acca!AccumulatorsInv, v2 = "pairs", v5 # {}
  PROVE  \E a, b \in Acca!Top : a < b /\ <<a, b>> \in v5 /\ Acca!FirstPair = <<a, b>>
<1>1. /\ v5 \subseteq {p \in Acca!Top \X Acca!Top : p[1] < p[2]}
      /\ Acca!Top \subseteq Acca!Legs
  BY DEF Acca!AccumulatorsInv, Acca!SelectionSound, Acca!FoundSound, Acca!Top
<1>2. v5 \subseteq Acca!Legs \X Acca!Legs
  BY <1>1
<1>3. Acca!FirstPair \in v5
  BY <1>2, FirstPairIsOne DEF Acca!FirstPair
<1>. QED
  BY <1>1, <1>3

\* A pair whose legs are apart is only checked.
LEMMA PairIsApart ==
  ASSUME Acca!SelectionSound, v2 = "pairs", UNCHANGED <<v1, v2, v4>>,
         NEW a \in Acca!Top, NEW b \in Acca!Top, ~Acca!Correlated(a, b), v5' = v5 \ {<<a, b>>}
  PROVE  Acca!SelectionSound'
<1>1. ASSUME Acca!Untouched PROVE Acca!Untouched'
  BY <1>1, TopKept DEF Acca!Untouched
<1>2. ASSUME NEW c \in Acca!Top, Acca!ReplacedFirst(c)
      PROVE  /\ c \in Acca!Top \ v4
             /\ v4 \subseteq v1 /\ Acca!Apart(v4) /\ Acca!Apart(Acca!Top \ {c})
             /\ \A j \in Acca!Top \ {c} : j \notin v4 => c < j /\ <<c, j>> \notin v5'
             /\ Acca!Met(c)' = Acca!Met(c)
  <2>1. Acca!Met(c)' = Acca!Met(c)
    BY TopKept DEF Acca!Met
  <2>. QED
    BY <1>2, <2>1 DEF Acca!ReplacedFirst
<1>3. ASSUME NEW c \in Acca!Top, Acca!ReplacedFirst(c) PROVE Acca!ReplacedFirst(c)'
  BY <1>2, <1>3, TopKept DEF Acca!ReplacedFirst
<1>. QED
  BY <1>1, <1>3, TopKept DEF Acca!SelectionSound

LEMMA CountReplaced ==
  ASSUME NEW S, IsFiniteSet(S), NEW b, NEW alt, alt \notin S, alt # b
  PROVE  /\ b \in S => Cardinality((S \ {b}) \union {alt}) = Cardinality(S)
         /\ b \notin S => Cardinality((S \ {b}) \union {alt}) = Cardinality(S) + 1
<1>1. Cardinality(S) \in Nat
  BY FS_CardinalityType
<1>2. CASE b \in S
  <2>1. IsFiniteSet(S \ {b}) /\ Cardinality(S \ {b}) = Cardinality(S) - 1
    BY <1>2, FS_RemoveElement
  <2>2. Cardinality((S \ {b}) \union {alt}) = Cardinality(S \ {b}) + 1
    BY <2>1, FS_AddElement
  <2>. QED
    BY <1>1, <1>2, <2>1, <2>2
<1>3. CASE b \notin S
  <2>1. (S \ {b}) \union {alt} = S \union {alt}
    BY <1>3
  <2>. QED
    BY <1>3, <2>1, FS_AddElement
<1>. QED
  BY <1>2, <1>3

\* A replacement that keeps the legs apart
LEMMA PairIsReplaced ==
  ASSUME Acca!SelectionSound, Acca!FoundSound, v2 = "pairs", UNCHANGED <<v1, v2>>,
         NEW a \in Acca!Top, NEW b \in Acca!Top, a < b, <<a, b>> \in v5, Acca!Correlated(a, b),
         NEW alt \in v1 \ (Acca!Top \union v4), Acca!Apart((v4 \ {b}) \union {alt}),
         v4' = (v4 \ {b}) \union {alt}, v5' = v5 \ {<<a, b>>}
  PROVE  Acca!SelectionSound'
<1>1. /\ Acca!Top \subseteq v1 /\ v1 \subseteq Acca!Legs /\ IsFiniteSet(Acca!Top)
      /\ Cardinality(Acca!Top) = 4
  BY TopIsFour DEF Acca!SelectionSound, Acca!FoundSound
<1>2. v4 \subseteq Acca!Legs
  BY <1>1 DEF Acca!SelectionSound, Acca!Untouched, Acca!ReplacedFirst
<1>3. IsFiniteSet(v4)
  <2>1. IsFiniteSet(1 .. 9)
    <3>1. 1 \in Int /\ 9 \in Int
      OBVIOUS
    <3>. QED
      BY <3>1, FS_Interval, Zenon
  <2>. QED
    BY <1>2, <2>1, FS_Subset DEF Acca!Legs
<1>4. a # b /\ alt # b /\ alt \notin v4 /\ alt \notin Acca!Top /\ a \in Int /\ b \in Int
  BY <1>1 DEF Acca!Legs
<1>5. CASE Acca!Untouched
  <2>1. v4 = Acca!Top /\ b \in v4
    BY <1>5 DEF Acca!Untouched
  <2>2. Acca!Apart(Acca!Top \ {b})
    BY <2>1 DEF Acca!Apart
  <2>3. Acca!Met(b)' = {a}
    BY <1>4, <1>5, TopKept DEF Acca!Met, Acca!Untouched
  <2>4. Cardinality(v4') = 4
    BY <1>1, <1>3, <1>4, <2>1, CountReplaced
  <2>5. Acca!ReplacedFirst(b)'
    <3>1. b \in Acca!Top \ v4' /\ v4' \subseteq v1 /\ Acca!Apart(v4')
      BY <1>1, <1>4, <2>1 DEF Acca!Apart
    <3>2. \A j \in Acca!Top \ {b} : j \in v4'
      BY <2>1
    <3>3. Acca!Cardinality(v4') = 4
      BY <2>4, SameCardinality
    <3>. QED
      BY <2>2, <2>3, <3>1, <3>2, <3>3, TopKept DEF Acca!ReplacedFirst, Acca!LegsNeeded
  <2>. QED
    BY <2>5, TopKept DEF Acca!SelectionSound
<1>6. ASSUME NEW c \in Acca!Top, Acca!ReplacedFirst(c) PROVE Acca!ReplacedFirst(c)'
  <2>1. /\ c \notin v4 /\ v4 \subseteq v1 /\ Acca!Apart(v4) /\ Acca!Apart(Acca!Top \ {c})
        /\ \A j \in Acca!Top \ {c} : j \notin v4 => c < j /\ <<c, j>> \notin v5
    BY <1>6 DEF Acca!ReplacedFirst
  <2>2. a = c \/ b = c
    BY <1>4, <2>1 DEF Acca!Apart
  <2>3. /\ c \notin v4' /\ v4' \subseteq v1 /\ Acca!Apart(v4')
    BY <1>1, <1>4, <2>1 DEF Acca!Apart
  <2>4. CASE a = c
    <3>1. b \in v4
      BY <1>4, <2>1, <2>4
    <3>2. Cardinality(v4') = Cardinality(v4)
      BY <1>3, <1>4, <3>1, CountReplaced
    <3>3. Acca!Met(c)' = Acca!Met(c)
      BY <1>4, <2>4, TopKept DEF Acca!Met
    <3>4. \A j \in Acca!Top \ {c} : j \notin v4' => c < j /\ <<c, j>> \notin v5'
      BY <2>1, <2>4
    <3>. QED
      BY <1>6, <2>1, <2>3, <3>2, <3>3, <3>4, TopKept, SameCardinality DEF Acca!ReplacedFirst
  <2>5. CASE b = c
    <3>1. b \notin v4
      BY <2>1, <2>5
    <3>2. Cardinality(v4') = Cardinality(v4) + 1
      BY <1>3, <1>4, <3>1, CountReplaced
    <3>3. Acca!Met(c)' = Acca!Met(c) \union {a} /\ a \notin Acca!Met(c)
      BY <1>4, <2>5, TopKept DEF Acca!Met
    <3>4. \A j \in Acca!Top \ {c} : j \notin v4' => c < j /\ <<c, j>> \notin v5'
      BY <1>4, <2>1, <2>5
    <3>5. CASE Acca!Cardinality(v4) = Acca!LegsNeeded /\ \E i \in Acca!Top : Acca!Met(c) = {i}
      <4>1. PICK i \in Acca!Top : Acca!Met(c) = {i}
        BY <3>5
      <4>2. i # a /\ Acca!Met(c)' = {i, a}
        BY <3>3, <4>1
      <4>3. Acca!Cardinality(v4') = Acca!LegsNeeded + 1
        BY <3>2, <3>5, SameCardinality
      <4>. QED
        BY <2>1, <2>3, <3>4, <4>2, <4>3, TopKept DEF Acca!ReplacedFirst
    <3>6. ASSUME NEW i \in Acca!Top, NEW j \in Acca!Top, i # j, Acca!Met(c) = {i, j}
          PROVE  FALSE
      <4>1. /\ i < c /\ j < c /\ Acca!Correlated(i, c) /\ Acca!Correlated(j, c)
            /\ a # i /\ a # j
        BY <3>3, <3>6 DEF Acca!Met
      <4>2. /\ i \in Acca!Top \ {c} /\ j \in Acca!Top \ {c} /\ a \in Acca!Top \ {c}
            /\ c \in Acca!Legs
        BY <1>1, <1>4, <2>5, <4>1 DEF Acca!Legs
      <4>3. /\ Acca!Correlated(c, i) /\ Acca!Correlated(c, j) /\ Acca!Correlated(c, a)
        BY <2>5, <4>1, CorrelatedBoth
      <4>. QED
        BY <2>1, <3>6, <4>1, <4>2, <4>3, TwoTeams
    <3>. QED
      BY <1>6, <3>5, <3>6 DEF Acca!ReplacedFirst
  <2>. QED
    BY <2>2, <2>4, <2>5
<1>. QED
  BY <1>5, <1>6, TopKept DEF Acca!SelectionSound

LEMMA PairChecked == ASSUME Acca!AccumulatorsInv, Acca!CheckPair PROVE Acca!AccumulatorsInv'
<1>1. v2 = "pairs" /\ v5 # {} /\ UNCHANGED <<v1, v7, v8, v9, v11>>
  BY DEF Acca!CheckPair
<1>2. PICK a \in Acca!Top, b \in Acca!Top :
        a < b /\ <<a, b>> \in v5 /\ Acca!FirstPair = <<a, b>>
  BY <1>1, NextPair
<1>3. PICK p : p = <<a, b>>
  OBVIOUS
<1>4. p[1] = a /\ p[2] = b
  BY <1>3
<1>5. \/ /\ ~Acca!Correlated(p[1], p[2])
         /\ v5' = v5 \ {p} /\ UNCHANGED <<v4, v6, v3, v2>>
      \/ /\ Acca!Correlated(p[1], p[2]) /\ Acca!Alternatives(p) # {}
         /\ v4' = Acca!Replaced(p[2], Acca!Min(Acca!Alternatives(p)))
         /\ v5' = v5 \ {p} /\ UNCHANGED <<v6, v3, v2>>
      \/ Acca!Finds("system", {})
  BY <1>2, <1>3 DEF Acca!CheckPair
<1>6. CASE ~Acca!Correlated(a, b) /\ v5' = v5 \ {p} /\ UNCHANGED <<v4, v6, v2>>
  <2>1. Acca!SelectionSound'
    BY <1>1, <1>3, <1>6, PairIsApart DEF Acca!AccumulatorsInv
  <2>2. Acca!FoundSound'
    BY <1>1, <1>6, FoundKept DEF Acca!AccumulatorsInv, Acca!FoundSound
  <2>3. Acca!HistorySound' /\ Acca!AccumulatorsSound'
    BY <1>1, <1>6, HistoryKept DEF Acca!AccumulatorsInv
  <2>. QED
    BY <2>1, <2>2, <2>3 DEF Acca!AccumulatorsInv
<1>7. CASE /\ Acca!Correlated(a, b) /\ Acca!Alternatives(p) # {}
           /\ v4' = Acca!Replaced(b, Acca!Min(Acca!Alternatives(p)))
           /\ v5' = v5 \ {p} /\ UNCHANGED <<v6, v2>>
  <2>1. PICK alt : alt = Acca!Min(Acca!Alternatives(p))
    OBVIOUS
  <2>2. Acca!Alternatives(p) \subseteq Nat
    <3>1. Acca!Alternatives(p) \subseteq v1
      BY DEF Acca!Alternatives
    <3>2. v1 \subseteq 1 .. 9
      BY DEF Acca!AccumulatorsInv, Acca!FoundSound, Acca!Legs
    <3>3. \A i \in 1 .. 9 : i \in Nat
      OBVIOUS
    <3>. QED
      BY <3>1, <3>2, <3>3, Zenon
  <2>3. alt \in Acca!Alternatives(p)
    BY <1>7, <2>1, <2>2, AccaMin
  <2>4. /\ alt \in v1 \ (Acca!Top \union v4) /\ Acca!Apart((v4 \ {b}) \union {alt})
        /\ v4' = (v4 \ {b}) \union {alt}
    BY <1>4, <1>7, <2>1, <2>3 DEF Acca!Alternatives, Acca!Replaced
  <2>5. Acca!SelectionSound'
    BY <1>1, <1>2, <1>3, <1>7, <2>4, PairIsReplaced DEF Acca!AccumulatorsInv
  <2>6. Acca!FoundSound'
    BY <1>1, <1>7, FoundKept DEF Acca!AccumulatorsInv, Acca!FoundSound
  <2>7. Acca!HistorySound' /\ Acca!AccumulatorsSound'
    BY <1>1, <1>7, HistoryKept DEF Acca!AccumulatorsInv
  <2>. QED
    BY <2>5, <2>6, <2>7 DEF Acca!AccumulatorsInv
<1>8. CASE Acca!Finds("system", {})
  <2>1. Acca!FoundSound' /\ v2' = "next"
    BY <1>1, <1>8, NothingFound DEF Acca!AccumulatorsInv
  <2>2. Acca!SelectionSound'
    BY <2>1 DEF Acca!SelectionSound
  <2>3. Acca!HistorySound' /\ Acca!AccumulatorsSound'
    BY <1>1, <2>1, HistoryKept DEF Acca!AccumulatorsInv
  <2>. QED
    BY <2>1, <2>2, <2>3 DEF Acca!AccumulatorsInv
<1>. QED
  BY <1>4, <1>5, <1>6, <1>7, <1>8

\* What is left when every pair was checked
LEMMA SelectedSized ==
  ASSUME Acca!SelectionSound, Acca!FoundSound, v2 = "pairs", v5 = {}
  PROVE  v4 \subseteq Acca!Legs /\ Acca!Apart(v4) /\ Acca!SystemSized(v4)
<1>1. /\ Acca!Top \subseteq v1 /\ v1 \subseteq Acca!Legs /\ Cardinality(Acca!Top) = 4
  BY TopIsFour DEF Acca!SelectionSound, Acca!FoundSound
<1>2. CASE Acca!Untouched
  <2>1. v4 = Acca!Top /\ \A i, j \in Acca!Top : i < j => ~Acca!Correlated(i, j)
    BY <1>2 DEF Acca!Untouched
  <2>2. ASSUME NEW i \in Acca!Top, NEW j \in Acca!Top, i # j PROVE ~Acca!Correlated(i, j)
    <3>1. i < j \/ j < i
      BY <1>1, <2>2 DEF Acca!Legs
    <3>. QED
      BY <2>1, <3>1, CorrelatedBoth
  <2>3. Acca!Apart(v4)
    BY <2>1, <2>2 DEF Acca!Apart
  <2>4. Acca!SystemSized(v4)
    BY <1>1, <2>1, SameCardinality DEF Acca!SystemSized, Acca!LegsNeeded
  <2>. QED
    BY <1>1, <2>1, <2>3, <2>4
<1>3. ASSUME NEW b \in Acca!Top, Acca!ReplacedFirst(b)
      PROVE  v4 \subseteq Acca!Legs /\ Acca!Apart(v4) /\ Acca!SystemSized(v4)
  <2>1. v4 \subseteq v1 /\ Acca!Apart(v4) /\ b \in Acca!Top \ v4
    BY <1>3 DEF Acca!ReplacedFirst
  <2>2. ASSUME NEW i \in Acca!Top, NEW j \in Acca!Top, i # j, Acca!Met(b) = {i, j}
        PROVE  /\ i \in Acca!Top \ {b} /\ j \in Acca!Top \ {b}
               /\ Acca!Correlated(b, i) /\ Acca!Correlated(b, j)
    <3>1. i < b /\ j < b /\ Acca!Correlated(i, b) /\ Acca!Correlated(j, b)
      BY <2>2 DEF Acca!Met
    <3>2. i # b /\ j # b
      BY <1>1, <3>1 DEF Acca!Legs
    <3>. QED
      BY <3>1, <3>2, CorrelatedBoth
  <2>3. Acca!SystemSized(v4)
    BY <1>3, <2>1, <2>2 DEF Acca!ReplacedFirst, Acca!SystemSized
  <2>. QED
    BY <1>1, <2>1, <2>3
<1>. QED
  BY <1>2, <1>3 DEF Acca!SelectionSound

LEMMA SystemFinished == ASSUME Acca!AccumulatorsInv, Acca!FinishSystem PROVE Acca!AccumulatorsInv'
<1>1. /\ v2 = "pairs" /\ v5 = {} /\ Acca!Finds("system", v4)
      /\ UNCHANGED <<v1, v7, v8, v9, v11>>
  BY DEF Acca!FinishSystem
<1>2. PICK S : S = v4
  OBVIOUS
<1>3. S \in SUBSET Acca!Legs /\ Acca!Apart(S) /\ Acca!SystemSized(S)
  BY <1>1, <1>2, SelectedSized DEF Acca!AccumulatorsInv
<1>4. Acca!Finds("system", S) /\ "system" \in Acca!Modes
  BY <1>1, <1>2 DEF Acca!Modes
<1>5. Acca!FoundSound' /\ v2' \in {"next", "load"}
  BY <1>1, <1>3, <1>4, Finding DEF Acca!AccumulatorsInv
<1>6. Acca!SelectionSound'
  BY <1>5 DEF Acca!SelectionSound
<1>7. Acca!HistorySound' /\ Acca!AccumulatorsSound'
  BY <1>1, <1>5, HistoryKept DEF Acca!AccumulatorsInv
<1>. QED
  BY <1>5, <1>6, <1>7 DEF Acca!AccumulatorsInv

\* The entry is of what was found.
LEMMA EntrySound ==
  ASSUME Acca!FoundSound, v2 \in {"load", "truncate", "write"}
  PROVE  /\ Acca!Entry \in [mode : Acca!Modes, legs : SUBSET Acca!Legs]
         /\ Acca!Apart(Acca!Entry.legs)
         /\ Acca!Entry.mode = "system" => Acca!SystemSized(Acca!Entry.legs)
<1>1. \E m \in Acca!Modes : v6[m] # {} /\ (m = "safe" => v6["value"] = {})
  <2>1. PICK m \in Acca!Modes : v6[m] # {}
    BY DEF Acca!FoundSound
  <2>2. "value" \in Acca!Modes
    BY DEF Acca!Modes
  <2>3. CASE m = "safe" /\ v6["value"] # {}
    BY <2>2, <2>3
  <2>. QED
    BY <2>1, <2>3
<1>2. /\ Acca!Mode \in Acca!Modes /\ v6[Acca!Mode] # {}
  BY <1>1 DEF Acca!Mode, Acca!Modes
<1>3. PICK m : m = Acca!Mode
  OBVIOUS
<1>4. Acca!Entry = [mode |-> m, legs |-> v6[m]]
  BY <1>3 DEF Acca!Entry
<1>5. m \in Acca!Modes /\ v6[m] \in SUBSET Acca!Legs /\ Acca!Apart(v6[m]) /\ v6[m] # {}
  BY <1>2, <1>3 DEF Acca!FoundSound
<1>6. m = "system" => Acca!SystemSized(v6[m])
  BY <1>5 DEF Acca!FoundSound
<1>. QED
  BY <1>4, <1>5, <1>6

LEMMA HistoryLoaded == ASSUME Acca!AccumulatorsInv, Acca!Load PROVE Acca!AccumulatorsInv'
<1>1. /\ v2 = "load" /\ v2' = "truncate" /\ UNCHANGED <<v1, v4, v5, v6, v7, v9, v11>>
      /\ v8' = IF v7 = <<Acca!Torn>> THEN <<>> ELSE v7
  BY DEF Acca!Load
<1>2. Acca!SelectionSound'
  BY <1>1 DEF Acca!SelectionSound
<1>3. Acca!FoundSound'
  BY <1>1, FoundKept DEF Acca!AccumulatorsInv, Acca!FoundSound
<1>4. v11 = 0 => v7 = Acca!Newest(v9) /\ v7 # <<Acca!Torn>>
  BY <1>1, NewestIsNotTorn DEF Acca!AccumulatorsInv, Acca!AccumulatorsSound, Acca!HistorySound
<1>5. Acca!HistorySound'
  BY <1>1, <1>4 DEF Acca!AccumulatorsInv, Acca!HistorySound, Acca!Newest
<1>6. Acca!AccumulatorsSound'
  BY <1>1, TopKept DEF Acca!AccumulatorsInv, Acca!AccumulatorsSound, Acca!SystemSized, Acca!Newest
<1>. QED
  BY <1>2, <1>3, <1>5, <1>6 DEF Acca!AccumulatorsInv

LEMMA HistoryTruncated == ASSUME Acca!AccumulatorsInv, Acca!Truncate PROVE Acca!AccumulatorsInv'
<1>1. v2 = "truncate" /\ v2' = "write" /\ UNCHANGED <<v1, v4, v5, v6, v8, v9, v11>>
  BY DEF Acca!Truncate
<1>2. Acca!SelectionSound'
  BY <1>1 DEF Acca!SelectionSound
<1>3. Acca!FoundSound'
  BY <1>1, FoundKept DEF Acca!AccumulatorsInv, Acca!FoundSound
<1>4. Acca!HistorySound'
  BY <1>1 DEF Acca!AccumulatorsInv, Acca!HistorySound, Acca!Newest
<1>5. Acca!AccumulatorsSound'
  BY <1>1, TopKept DEF Acca!AccumulatorsInv, Acca!AccumulatorsSound, Acca!SystemSized
<1>. QED
  BY <1>2, <1>3, <1>4, <1>5 DEF Acca!AccumulatorsInv

LEMMA HistoryWritten == ASSUME Acca!AccumulatorsInv, Acca!WriteHistory PROVE Acca!AccumulatorsInv'
<1>. DEFINE Entries == [mode : Acca!Modes, legs : SUBSET Acca!Legs]
<1>1. /\ v2 = "write" /\ v2' = "next" /\ UNCHANGED <<v1, v4, v5, v6, v8, v11>>
      /\ v7' = Acca!Newest(<<Acca!Entry>> \o v8) /\ v9' = <<Acca!Entry>> \o v9
  BY DEF Acca!WriteHistory
<1>2. Acca!SelectionSound'
  BY <1>1 DEF Acca!SelectionSound
<1>3. Acca!FoundSound'
  BY <1>1, FoundKept DEF Acca!AccumulatorsInv, Acca!FoundSound
<1>4. PICK e : e = Acca!Entry
  OBVIOUS
<1>5. /\ e \in Entries /\ Acca!Apart(e.legs)
      /\ e.mode = "system" => Acca!SystemSized(e.legs)
  BY <1>1, <1>4, EntrySound DEF Acca!AccumulatorsInv
<1>6. v9 \in Seq(Entries)
  BY DEF Acca!AccumulatorsInv, Acca!HistorySound
<1>7. PICK a : a = <<e>> \o v9
  OBVIOUS
<1>8. v9' = a /\ a \in Seq(Entries) /\ \A k \in DOMAIN a : a[k] = e \/ \E j \in DOMAIN v9 : a[k] = v9[j]
  <2>1. a \in Seq(Entries) /\ Len(a) = Len(v9) + 1 /\ Len(v9) \in Nat /\ a[1] = e
    BY <1>5, <1>6, <1>7
  <2>2. ASSUME NEW k \in DOMAIN a, k # 1 PROVE \E j \in DOMAIN v9 : a[k] = v9[j]
    <3>1. k \in 1 .. Len(v9) + 1
      BY <2>1
    <3>2. PICK j : j = k - 1
      OBVIOUS
    <3>3. j \in DOMAIN v9 /\ j \in 1 .. Len(v9)
      BY <1>6, <2>1, <2>2, <3>1, <3>2
    <3>4. a[k] = v9[j]
      BY <1>5, <1>6, <1>7, <2>1, <2>2, <3>1, <3>2, <3>3
    <3>. QED
      BY <3>3, <3>4
  <2>. QED
    BY <1>1, <1>4, <1>7, <2>1, <2>2
<1>9. \A k \in DOMAIN a : /\ Acca!Apart(a[k].legs)
                          /\ a[k].mode = "system" => Acca!SystemSized(a[k].legs)
  BY <1>5, <1>8 DEF Acca!AccumulatorsInv, Acca!AccumulatorsSound
<1>10. v11 = 0 => v7' = Acca!Newest(a)
  <2>1. v11 = 0 => v8 = Acca!Newest(v9)
    BY <1>1 DEF Acca!AccumulatorsInv, Acca!HistorySound
  <2>2. Acca!Newest(<<e>> \o Acca!Newest(v9)) = Acca!Newest(<<e>> \o v9)
    BY <1>5, <1>6, NewestOfNewest
  <2>. QED
    BY <1>1, <1>4, <1>7, <2>1, <2>2
<1>11. Acca!HistorySound'
  BY <1>1, <1>8 DEF Acca!HistorySound
<1>12. Acca!AccumulatorsSound'
  BY <1>1, <1>8, <1>9, <1>10, TopKept DEF Acca!AccumulatorsSound, Acca!SystemSized, Acca!Newest
<1>. QED
  BY <1>2, <1>3, <1>11, <1>12 DEF Acca!AccumulatorsInv

LEMMA BetsReturned ==
  ASSUME Acca!AccumulatorsInv, Acca!Return \/ Acca!Die \/ UNCHANGED Acca!vars
  PROVE  Acca!AccumulatorsInv'
<1>1. /\ UNCHANGED <<v1, v4, v5, v6, v7, v8, v9>> /\ v11 \in Nat
      /\ \/ v2 = "next" /\ v2' = "idle" /\ v11' = v11
         \/ v2' = "idle" /\ v11' = v11 + 1
         \/ v2' = v2 /\ v11' = v11
  BY DEF Acca!Return, Acca!Die, Acca!vars, Acca!AccumulatorsInv, Acca!FoundSound
<1>2. Acca!SelectionSound'
  <2>1. CASE v2' = v2
    BY <1>1, <2>1, SelectionKept DEF Acca!AccumulatorsInv
  <2>2. CASE v2' = "idle"
    BY <2>2 DEF Acca!SelectionSound
  <2>. QED
    BY <1>1, <2>1, <2>2
<1>3. Acca!FoundSound'
  BY <1>1, FoundKept DEF Acca!AccumulatorsInv
<1>4. Acca!HistorySound' /\ Acca!AccumulatorsSound'
  <2>1. v11' = 0 => v11 = 0 /\ (v2' = v2 \/ (v2 = "next" /\ v2' = "idle"))
    <3>1. v11 \in Nat /\ v11 + 1 # 0
      BY <1>1
    <3>. QED
      BY <1>1, <3>1
  <2>. QED
    BY <1>1, <2>1, HistoryKept DEF Acca!AccumulatorsInv
<1>. QED
  BY <1>2, <1>3, <1>4 DEF Acca!AccumulatorsInv

LEMMA AccumulatorsNext == Acca!AccumulatorsInv /\ [Acca!Next]_(Acca!vars) => Acca!AccumulatorsInv'
BY AskedForBets, GeneratedBets, SystemStarted, PairChecked, SystemFinished, HistoryLoaded,
   HistoryTruncated, HistoryWritten, BetsReturned DEF Acca!Next

LEMMA AccumulatorsInit == Acca!Init => Acca!AccumulatorsInv
<1>. SUFFICES ASSUME Acca!Init PROVE Acca!AccumulatorsInv
  OBVIOUS
<1>1. /\ v1 \subseteq Acca!Legs /\ v2 = "idle" /\ v6 = Acca!Nothing
      /\ v7 = <<>> /\ v9 = <<>> /\ v11 = 0
  BY DEF Acca!Init, Acca!Eligible
<1>2. Acca!SelectionSound
  BY <1>1 DEF Acca!SelectionSound
<1>3. Acca!FoundSound
  <2>1. v6 = [m \in Acca!Modes |-> {}] /\ "system" \in Acca!Modes /\ Acca!Apart({})
    BY <1>1 DEF Acca!Nothing, Acca!Modes, Acca!Apart
  <2>2. v6 \in [Acca!Modes -> SUBSET Acca!Legs] /\ \A m \in Acca!Modes : v6[m] = {}
    BY <2>1
  <2>. QED
    BY <1>1, <2>1, <2>2 DEF Acca!FoundSound
<1>4. Acca!HistorySound
  BY <1>1 DEF Acca!HistorySound
<1>5. Acca!AccumulatorsSound
  <2>1. <<>> \in Seq({}) /\ Len(<<>>) = 0 /\ DOMAIN v9 = {}
    BY <1>1
  <2>2. Acca!Newest(<<>>) = <<>>
    BY <2>1, AccumulatorsAssumption DEF Acca!Newest
  <2>. QED
    BY <1>1, <2>1, <2>2 DEF Acca!AccumulatorsSound
<1>. QED
  BY <1>2, <1>3, <1>4, <1>5 DEF Acca!AccumulatorsInv

\* Whatever is in the pool and however often bets are asked for: legs of what was found are
\* apart, a system has its four legs or one more for a leg that met two others, and as long as
\* no process died the history has the newest of what was found.
THEOREM AccumulatorsSoundHolds == LabSpec => []AccumulatorsSound
<1>. DEFINE Inv == lab = "accumulators" => Acca!AccumulatorsInv
<1>1. LabInit => Inv
  BY AccumulatorsInit DEF LabInit
<1>2. Inv /\ [LabNext]_labvars => Inv'
  BY AccumulatorsNext, StepOfEvaluation
<1>3. Inv => AccumulatorsSound
  BY DEF AccumulatorsSound, Acca!AccumulatorsInv
<1>. QED
  BY <1>1, <1>2, <1>3, PTL DEF LabSpec
==============================================================================
