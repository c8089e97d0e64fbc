--------------------------- MODULE ExternalReadiness ---------------------------
(***************************************************************************)
(* Readiness of an external source (ingestion/external_readiness.py): the   *)
(* audit of the records of a source, and the command that writes a report   *)
(* and a manifest and, started again, validates them.                       *)
(*                                                                         *)
(* Hashes are the contents they stand for.  The counter license_failures    *)
(* stays zero: no ExternalSource is without a licence                       *)
(* (external_contracts.py:41).                                             *)
(***************************************************************************)
EXTENDS Naturals, Sequences, FiniteSets

CONSTANTS
  MaxRows,    \* bound: records of the source
  MaxRuns     \* bound: commands that write a report

\* What ExternalSnapshotRecord or the checks of its source refuse a record for
Refusals == {"late", "provenance", "schema", "source_not_allowlisted",
             "source_version_mismatch", "input_hash_mismatch"}

\* captured is "close": after the kickoff of the event, before the record's own.
\* kickoff is the record's: the event's, later within the tolerance, or far off it.
Typical(id) ==
  [id |-> id, match |-> "known", captured |-> "early", kickoff |-> "exact",
   available |-> "before", refusal |-> "none"]

Varied(id) ==
  {Typical(id)}
    \union {[Typical(id) EXCEPT !.match = m] : m \in {"unknown", "double"}}
    \union {[Typical(id) EXCEPT !.kickoff = k] : k \in {"shifted", "far"}}
    \union {[Typical(id) EXCEPT !.captured = "close", !.kickoff = "shifted"]}
    \union {[Typical(id) EXCEPT !.available = "after"]}

Refused == {[Typical(1) EXCEPT !.refusal = r] : r \in Refusals}

Records == Varied(1) \union Varied(2) \union Refused

\* Two policies that defer, and one that lists a source
Policies == {[version |-> v, allowed |-> v = 3] : v \in 1..3}
Absent == [kind |-> "absent"]
Torn == [kind |-> "torn"]

VARIABLES
  source,     \* the authorized source is given
  cutoff,     \* a cutoff is given
  rows, seen, count, accepted,  \* the audit: records read, identities, counters, places
  policy, commit,               \* the policy file and the commit checked out
  report, manifest,             \* the two files
  writer, validator             \* the two commands

audit == <<rows, seen, count, accepted>>
given == <<source, cutoff>>
outside == <<policy, commit>>
files == <<report, manifest>>
vars == <<given, audit, outside, files, writer, validator>>

Counters == {"valid", "matched", "unmatched", "ambiguous", "late", "missing_provenance",
             "duplicate", "schema"}

Idle == [pc |-> "idle", runs |-> 0, report |-> Absent]
Resting == [pc |-> "idle", policy |-> Absent, report |-> Absent, manifest |-> Absent]

Init ==
  /\ source \in BOOLEAN /\ cutoff \in BOOLEAN
  /\ rows = <<>> /\ seen = {} /\ accepted = {}
  /\ count = [c \in Counters |-> 0]
  /\ policy \in Policies /\ commit = 1
  /\ report = Absent /\ manifest = Absent
  /\ writer = Idle /\ validator = Resting

(***************************************************************************)
(* audit_snapshot_records, record by record                                *)
(***************************************************************************)
\* _record_identity: neither the kickoff, the availability nor the price
Identity(r) == <<r.id, r.match, r.captured>>

\* The counter of a record refused before its identity is looked at
Refusal(r) ==
  CASE r.refusal \in {"late", "schema"} -> r.refusal
    [] r.refusal \in Refusals \ {"late", "schema"} \/ ~source -> "missing_provenance"
    [] OTHER -> "none"

\* The counter of a record whose identity is new
Match(r) ==
  CASE r.match = "unknown" -> "unmatched"
    [] r.match = "double" -> "ambiguous"
    [] r.kickoff = "far" -> "unmatched"
    [] r.captured = "close" -> "late"
    [] r.available = "after" /\ cutoff -> "late"
    [] OTHER -> "matched"

\* Without a source every record has been counted as missing_provenance beforehand.
Counted(S) ==
  count' = [c \in Counters |->
              count[c] + (IF c \in S THEN 1 ELSE 0)
                       + (IF c = "missing_provenance" /\ ~source THEN 1 ELSE 0)]

Refuse(r) == Refusal(r) # "none" /\ Counted({Refusal(r)}) /\ UNCHANGED <<seen, accepted>>

Repeat(r) ==
  /\ Refusal(r) = "none" /\ Identity(r) \in seen
  /\ Counted({"duplicate"}) /\ UNCHANGED <<seen, accepted>>

\* Mutant: the identity is taken by the record that matches.
AssessMatched(r) ==
  /\ Refusal(r) = "none" /\ Identity(r) \notin seen
  /\ seen' = IF Match(r) = "matched" THEN seen \union {Identity(r)} ELSE seen
  /\ Counted({"valid", Match(r)})
  /\ accepted' = IF Match(r) = "matched" THEN accepted \union {Len(rows) + 1} ELSE accepted

\* The identity is taken before the record is matched.
Assess(r) ==
  /\ Refusal(r) = "none" /\ Identity(r) \notin seen
  /\ seen' = seen \union {Identity(r)}
  /\ Counted({"valid", Match(r)})
  /\ accepted' = IF Match(r) = "matched" THEN accepted \union {Len(rows) + 1} ELSE accepted

Audit ==
  /\ Len(rows) < MaxRows /\ writer = Idle /\ validator = Resting /\ commit = 1
  /\ \E r \in Records : rows' = Append(rows, r) /\ (Refuse(r) \/ Repeat(r) \/ Assess(r))
  /\ UNCHANGED <<given, outside, files, writer, validator>>

SourceStatus == IF source /\ count["matched"] > 0 THEN "source_verified" ELSE "source_rejected"

(***************************************************************************)
(* The command, mode readiness                                             *)
(***************************************************************************)
\* deferred_readiness_report; source_status is deferred if nothing is allow-listed.
Report(p, c) == [kind |-> "report", policy |-> p, commit |-> c, deferred |-> ~p.allowed]

Manifest(r) == [kind |-> "manifest", policy |-> r.policy, report |-> r]

Start ==
  /\ rows = <<>> /\ writer.pc = "idle" /\ writer.runs < MaxRuns
  /\ writer' = [pc |-> "report", runs |-> writer.runs + 1, report |-> Report(policy, commit)]
  /\ UNCHANGED <<given, audit, outside, files, validator>>

\* write_readiness_report and write_manifest open the file, then write it.
WriteReport ==
  /\ writer.pc = "report"
  /\ \/ report # Torn /\ report' = Torn /\ writer' = writer
     \/ report = Torn /\ report' = writer.report /\ writer' = [writer EXCEPT !.pc = "manifest"]
  /\ UNCHANGED <<given, audit, outside, manifest, validator>>

WriteManifest ==
  /\ writer.pc = "manifest"
  /\ \/ manifest # Torn /\ manifest' = Torn /\ writer' = writer
     \/ /\ manifest = Torn /\ manifest' = Manifest(writer.report)
        /\ writer' = [writer EXCEPT !.pc = "idle"]
  /\ UNCHANGED <<given, audit, outside, report, validator>>

\* The command dies, between two writes or in one.
Die ==
  /\ writer.pc # "idle" /\ writer' = [writer EXCEPT !.pc = "idle"]
  /\ UNCHANGED <<given, audit, outside, files, validator>>

\* Somebody edits the policy, or checks out another commit.
Edit ==
  /\ rows = <<>>
  /\ \/ \E p \in Policies : policy' = p /\ p.version > policy.version /\ commit' = commit
     \/ commit = 1 /\ commit' = 2 /\ policy' = policy
  /\ UNCHANGED <<given, audit, files, writer, validator>>

(***************************************************************************)
(* The command, mode validate                                              *)
(***************************************************************************)
LoadPolicy ==
  /\ rows = <<>> /\ validator.pc \in {"idle", "passed", "failed"}
  /\ validator' = [Resting EXCEPT !.pc = "report", !.policy = policy]
  /\ UNCHANGED <<given, audit, outside, files, writer>>

\* validate_readiness_report: the hash of the policy, and a report without sources defers.
ValidReport(r, p) == r.kind = "report" /\ r.policy = p /\ r.deferred

ReadReport ==
  /\ validator.pc = "report"
  /\ \/ /\ ValidReport(report, validator.policy)
        /\ validator' = [validator EXCEPT !.pc = "manifest", !.report = report]
     \/ ~ValidReport(report, validator.policy) /\ validator' = [Resting EXCEPT !.pc = "failed"]
  /\ UNCHANGED <<given, audit, outside, files, writer>>

\* Mutant: compares the policy, and not the hash of the report.
LinkedPolicyOnly(n, r) == n.kind = "manifest" /\ n.policy = r.policy

\* validate_deferred_manifest
Linked(n, r) == n = Manifest(r)

\* Without a manifest there is nothing to compare.
ReadManifest ==
  /\ validator.pc = "manifest"
  /\ \/ /\ manifest = Absent \/ Linked(manifest, validator.report)
        /\ validator' = [validator EXCEPT !.pc = "passed", !.manifest = manifest]
     \/ /\ manifest # Absent /\ ~Linked(manifest, validator.report)
        /\ validator' = [Resting EXCEPT !.pc = "failed"]
  /\ UNCHANGED <<given, audit, outside, files, writer>>

Next ==
  \/ Audit
  \/ Start \/ WriteReport \/ WriteManifest \/ Die \/ Edit
  \/ LoadPolicy \/ ReadReport \/ ReadManifest

Spec == Init /\ [][Next]_vars

(***************************************************************************)
(* Properties                                                              *)
(***************************************************************************)
\* A record is accepted if and only if it is the first of its identity that its source
\* vouches for, and it matches one event in time: a first record that does not match
\* hides a corrected one.  Every record of a source is in one counter.
AuditAccountable ==
  /\ \A i \in DOMAIN rows :
       i \in accepted <=>
         /\ Refusal(rows[i]) = "none" /\ Match(rows[i]) = "matched"
         /\ \A j \in 1..(i - 1) : Identity(rows[j]) = Identity(rows[i]) => Refusal(rows[j]) # "none"
  /\ count["schema"] + count["missing_provenance"] + count["duplicate"] + count["matched"]
       + count["unmatched"] + count["ambiguous"] + count["late"]
     = IF source THEN Len(rows) ELSE 2 * Len(rows)
  /\ count["matched"] = Cardinality(accepted)
  /\ SourceStatus = "source_verified" => accepted # {}

\* What validates is a deferred report of the policy that was loaded, and the manifest
\* beside it, if there is one, was written for that report: never for that of another
\* commit, or of a command that died after it had written the report.
ValidatedTogether ==
  validator.pc = "passed" =>
    /\ validator.report.policy = validator.policy /\ ~validator.policy.allowed
    /\ validator.manifest # Absent => validator.manifest.report = validator.report

ReadinessSound == AuditAccountable /\ ValidatedTogether

(***************************************************************************)
(* An invariant from which it follows                                      *)
(***************************************************************************)
TypeOK ==
  /\ source \in BOOLEAN
  /\ rows \in Seq(Records)
  /\ count \in [Counters -> Nat]
  /\ accepted \subseteq DOMAIN rows /\ IsFiniteSet(accepted)

\* The identities of the records that were not refused
SeenSound == seen = {Identity(rows[i]) : i \in {j \in DOMAIN rows : Refusal(rows[j]) = "none"}}

\* Reports, wherever they are, defer exactly under a policy that lists no source.
Deferring(r) == r.kind = "report" => (r.deferred <=> ~r.policy.allowed)

FilesSound ==
  /\ writer = [pc |-> writer.pc, runs |-> writer.runs, report |-> writer.report]
  /\ validator = [pc |-> validator.pc, policy |-> validator.policy,
                  report |-> validator.report, manifest |-> validator.manifest]
  /\ Deferring(report)
  /\ writer.pc = "report" => Deferring(writer.report)
  /\ validator.pc \in {"manifest", "passed"} =>
       Deferring(validator.report) /\ ValidReport(validator.report, validator.policy)

ReadinessInv ==
  TypeOK /\ SeenSound /\ AuditAccountable /\ FilesSound /\ ValidatedTogether
=============================================================================
