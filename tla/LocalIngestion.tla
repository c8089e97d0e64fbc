---------------------------- MODULE LocalIngestion ----------------------------
(***************************************************************************)
(* Local ingestion (ingestion/local_csv.py): one command line run after    *)
(* another reads a CSV file, quarantines rows, and writes a raw copy, a     *)
(* normalized and a processed file (named by the hash of the input), a      *)
(* quarantine report and a manifest (named by the run id).                  *)
(*                                                                         *)
(* A step ends at each file operation.  A call is a job, and the input does *)
(* not change during one.                                                   *)
(***************************************************************************)
EXTENDS IngestionJobs, Files, FiniteSets

CONSTANTS
  MaxIngests,       \* bound: calls of ingest_file
  MaxCrashes        \* bound: calls that die

\* A line of a normalized or processed file.
Line == [id : MatchIds, run : IngestRunIds, source : Sources]

\* rejection_counts_by_reason
Reasons == [flawed : Nat, duplicate : Nat, conflict : Nat]

Report == [rows_quarantined : Nat, reasons : Reasons]

\* The manifest: what names its files (input, run), what it says of them
\* (the text of the outputs stands for their hashes), and the counts.
Manifest ==
  [input : Inputs, run : IngestRunIds, source : Sources,
   output : Seq(SUBSET Line), processed : Seq(SUBSET Line), accepted : SUBSET MatchIds,
   rows_read : Nat, rows_accepted : Nat, rows_quarantined : Nat, reasons : Reasons,
   failed : BOOLEAN]

VARIABLES
  \* files
  raw,         \* raw/<input>.csv
  normalized,  \* normalized/<input>.csv
  processed,   \* processed/<input>.csv
  quarantine,  \* quarantine/<run_id>.json
  manifest,    \* manifests/<run_id>.json
  \* the call
  pc,
  job,
  accepted,    \* row numbers in accepted
  \* history and bounds
  finished,    \* manifests written so far
  superseded,  \* run ids of manifests whose input or run id was ingested again
  forgotten,   \* a manifest was torn by a crash or written over for another job
  ingests, crashes

files == <<raw, normalized, processed, quarantine, manifest>>
call  == <<pc, job, accepted>>
vars  == <<files, call, finished, superseded, forgotten, ingests, crashes>>

Init ==
  /\ raw = [x \in Inputs |-> Absent]
  /\ normalized = [x \in Inputs |-> Absent]
  /\ processed = [x \in Inputs |-> Absent]
  /\ quarantine = [r \in IngestRunIds |-> Absent]
  /\ manifest = [r \in IngestRunIds |-> Absent]
  /\ pc = "idle" /\ job \in Jobs /\ accepted = {}
  /\ finished = {} /\ superseded = {} /\ forgotten = FALSE
  /\ ingests = 0 /\ crashes = 0

(***************************************************************************)
(* What a call computes                                                    *)
(***************************************************************************)
Source == Rows[job.input]
MatchIdsOf(rows) == {Source[i].id : i \in rows}

\* validate: every row of a match id that occurs twice is a duplicate.
Flawed == {i \in DOMAIN Source : Source[i].flawed}
Duplicate == {i \in DOMAIN Source : \E j \in DOMAIN Source \ {i} : Source[j].id = Source[i].id}
Valid == DOMAIN Source \ (Flawed \union Duplicate)

\* The index of row i in the accepted frame, which validate has sorted by
\* kickoff and numbered again.
Position(i) == 1 + Cardinality({j \in Valid : Source[j].id < Source[i].id})

\* Mutant: the other versions of the same input count as well.
ClaimedAny ==
  UNION {m.accepted : m \in {n \in UNION {Contents(manifest[r]) : r \in IngestRunIds} :
                               n.source = job.source}}

\* Mutant: only the manifests of failed runs count.
ClaimedByFailed ==
  UNION {m.accepted : m \in {n \in UNION {Contents(manifest[r]) : r \in IngestRunIds} :
                               n.failed /\ n.source = job.source /\ n.input # job.input}}

\* conflict_ids: what manifests of this source accepted from other inputs.
Claimed ==
  UNION {m.accepted : m \in {n \in UNION {Contents(manifest[r]) : r \in IngestRunIds} :
                               n.source = job.source /\ n.input # job.input}}

Conflicting == Valid \ accepted

\* rejected_row_indices: rows found by validate, and positions of conflicts.
Rejected == Flawed \union Duplicate \union {Position(i) : i \in Conflicting}

Counts ==
  [flawed |-> Cardinality(Flawed), duplicate |-> Cardinality(Duplicate),
   conflict |-> Cardinality(Conflicting)]

Lines == {[id |-> m, run |-> job.run, source |-> job.source] : m \in MatchIdsOf(accepted)}

NewReport == [rows_quarantined |-> Cardinality(Rejected), reasons |-> Counts]

\* rejection_rate > max_rejection_rate
PolicyExceeded == 100 * Cardinality(Rejected) > MaxRejection * Len(Source)

NewManifest ==
  [input |-> job.input, run |-> job.run, source |-> job.source,
   output |-> normalized[job.input].text, processed |-> processed[job.input].text,
   accepted |-> MatchIdsOf(accepted),
   rows_read |-> Len(Source), rows_accepted |-> Cardinality(accepted),
   rows_quarantined |-> Cardinality(Rejected), reasons |-> Counts,
   failed |-> PolicyExceeded]

(***************************************************************************)
(* ingest_file                                                             *)
(***************************************************************************)
Start ==
  /\ pc = "idle" /\ ingests < MaxIngests
  /\ ingests' = ingests + 1
  /\ job' \in Jobs
  /\ accepted' = {}
  /\ pc' = "raw"
  /\ UNCHANGED <<files, finished, superseded, forgotten, crashes>>

\* write_immutable_raw: immutable raw collision with different content
RawCollision ==
  /\ pc = "raw"
  /\ raw[job.input] \notin {Absent, Whole(job.input)}
  /\ pc' = "idle"
  /\ UNCHANGED <<files, job, accepted, finished, superseded, forgotten, ingests, crashes>>

\* Mutant: a copy that is there is not hashed.
RawPresentUnchecked ==
  /\ pc = "raw"
  /\ raw[job.input] # Absent
  /\ pc' = "claims"
  /\ UNCHANGED <<files, job, accepted, finished, superseded, forgotten, ingests, crashes>>

RawPresent ==
  /\ pc = "raw"
  /\ raw[job.input] = Whole(job.input)
  /\ pc' = "claims"
  /\ UNCHANGED <<files, job, accepted, finished, superseded, forgotten, ingests, crashes>>

OpenRaw ==
  /\ pc = "raw"
  /\ raw[job.input] = Absent
  /\ raw' = [raw EXCEPT ![job.input] = Torn]
  /\ pc' = "copy"
  /\ UNCHANGED <<normalized, processed, quarantine, manifest, job, accepted, finished,
                 superseded, forgotten, ingests, crashes>>

CopyRaw ==
  /\ pc = "copy"
  /\ raw' = [raw EXCEPT ![job.input] = Whole(job.input)]
  /\ pc' = "claims"
  /\ UNCHANGED <<normalized, processed, quarantine, manifest, job, accepted, finished,
                 superseded, forgotten, ingests, crashes>>

\* Rows of a match id that another input of the source holds are conflicts.
ResolveConflicts ==
  /\ pc = "claims"
  /\ accepted' = {i \in Valid : Source[i].id \notin Claimed}
  /\ pc' = "normalize"
  /\ UNCHANGED <<files, job, finished, superseded, forgotten, ingests, crashes>>

OpenNormalized ==
  /\ pc = "normalize"
  /\ normalized' = [normalized EXCEPT ![job.input] = Torn]
  /\ superseded' = superseded \union
       {r \in IngestRunIds : r = job.run \/ \E m \in Contents(manifest[r]) : m.input = job.input}
  /\ pc' = "normalizing"
  /\ UNCHANGED <<raw, processed, quarantine, manifest, job, accepted, finished, forgotten,
                 ingests, crashes>>

WriteNormalized ==
  /\ pc = "normalizing"
  /\ normalized' = [normalized EXCEPT ![job.input] = Whole(Lines)]
  /\ pc' = "process"
  /\ UNCHANGED <<raw, processed, quarantine, manifest, job, accepted, finished, superseded,
                 forgotten, ingests, crashes>>

OpenProcessed ==
  /\ pc = "process"
  /\ processed' = [processed EXCEPT ![job.input] = Torn]
  /\ pc' = "processing"
  /\ UNCHANGED <<raw, normalized, quarantine, manifest, job, accepted, finished, superseded,
                 forgotten, ingests, crashes>>

WriteProcessed ==
  /\ pc = "processing"
  /\ processed' = [processed EXCEPT ![job.input] = Whole(Lines)]
  /\ pc' = "quarantine"
  /\ UNCHANGED <<raw, normalized, quarantine, manifest, job, accepted, finished, superseded,
                 forgotten, ingests, crashes>>

OpenQuarantine ==
  /\ pc = "quarantine"
  /\ quarantine' = [quarantine EXCEPT ![job.run] = Torn]
  /\ pc' = "quarantining"
  /\ UNCHANGED <<raw, normalized, processed, manifest, job, accepted, finished, superseded,
                 forgotten, ingests, crashes>>

WriteQuarantine ==
  /\ pc = "quarantining"
  /\ quarantine' = [quarantine EXCEPT ![job.run] = Whole(NewReport)]
  /\ pc' = "manifest"
  /\ UNCHANGED <<raw, normalized, processed, manifest, job, accepted, finished, superseded,
                 forgotten, ingests, crashes>>

OpenManifest ==
  /\ pc = "manifest"
  /\ manifest' = [manifest EXCEPT ![job.run] = Torn]
  /\ forgotten' = (forgotten \/ \E m \in Contents(manifest[job.run]) :
                     m.input # job.input \/ m.source # job.source)
  /\ pc' = "listing"
  /\ UNCHANGED <<raw, normalized, processed, quarantine, job, accepted, finished, superseded,
                 ingests, crashes>>

\* The call returns, or raises if the policy is exceeded: the manifest stays.
WriteManifest ==
  /\ pc = "listing"
  /\ manifest' = [manifest EXCEPT ![job.run] = Whole(NewManifest)]
  /\ finished' = finished \union {NewManifest}
  /\ superseded' = superseded \ {job.run}
  /\ pc' = "idle"
  /\ UNCHANGED <<raw, normalized, processed, quarantine, job, accepted, forgotten, ingests,
                 crashes>>

\* The process dies; the files stay as they are.
Crash ==
  /\ pc # "idle" /\ crashes < MaxCrashes
  /\ crashes' = crashes + 1
  /\ forgotten' = (forgotten \/ pc = "listing")
  /\ pc' = "idle"
  /\ UNCHANGED <<files, job, accepted, finished, superseded, ingests>>

RawCopy == RawCollision \/ RawPresent \/ OpenRaw \/ CopyRaw
Outputs == OpenNormalized \/ WriteNormalized \/ OpenProcessed \/ WriteProcessed
Reports == OpenQuarantine \/ WriteQuarantine \/ OpenManifest \/ WriteManifest

\* No call is left to start.
Quiet == pc = "idle" /\ ingests = MaxIngests /\ UNCHANGED vars

Next == Start \/ RawCopy \/ ResolveConflicts \/ Outputs \/ Reports \/ Crash \/ Quiet

Spec == Init /\ [][Next]_vars

(***************************************************************************)
(* validate_manifest                                                       *)
(***************************************************************************)
Manifests == UNION {Contents(manifest[r]) : r \in IngestRunIds}

\* The checks on the raw copy, the outputs and the quarantine report.
FilesMatch(m) ==
  /\ raw[m.input] = Whole(m.input)
  /\ normalized[m.input].exists /\ normalized[m.input].text = m.output
  /\ processed[m.input].exists /\ processed[m.input].text = m.processed
  /\ \A lines \in Contents(normalized[m.input]) \union Contents(processed[m.input]) :
       {line.id : line \in lines} = m.accepted
  /\ quarantine[m.run] = Whole([rows_quarantined |-> m.rows_quarantined, reasons |-> m.reasons])

\* The check of the counts: manifest row accounting is incomplete
RowsComplete(m) == m.rows_accepted + m.rows_quarantined >= m.rows_read

(***************************************************************************)
(* Properties                                                              *)
(***************************************************************************)
Places ==
  {"idle", "raw", "copy", "claims", "normalize", "normalizing", "process", "processing",
   "quarantine", "quarantining", "manifest", "listing"}

TypeOK ==
  /\ raw \in [Inputs -> File(Inputs)]
  /\ normalized \in [Inputs -> File(SUBSET Line)]
  /\ processed \in [Inputs -> File(SUBSET Line)]
  /\ quarantine \in [IngestRunIds -> File(Report)]
  /\ manifest \in [IngestRunIds -> File(Manifest)]
  /\ pc \in Places
  /\ job \in Jobs
  /\ accepted \subseteq DOMAIN Source
  /\ finished \subseteq Manifest
  /\ superseded \subseteq IngestRunIds
  /\ forgotten \in BOOLEAN
  /\ ingests \in Nat /\ crashes \in Nat

\* The manifests on disk accept a match id of a source from one input only,
\* through crashes, runs repeated under other run ids and run ids reused.
OneInputPerMatch ==
  \A m, n \in Manifests :
    m.source = n.source /\ m.input # n.input => m.accepted \intersect n.accepted = {}

\* A manifest describes the files it names from the moment it is written
\* until its input or its run id is ingested again, whatever crashes happen
\* in between.
ManifestsStayValid ==
  \A r \in IngestRunIds \ superseded : \A m \in Contents(manifest[r]) : FilesMatch(m)

\* What manifest_fingerprint is computed from: no run id, no path.
Fingerprint(m) ==
  <<m.input, m.source, m.accepted, m.rows_read, m.rows_accepted, m.rows_quarantined, m.reasons>>

\* Ingesting an input again gives the same fingerprint, whatever else was
\* ingested in between and under whichever run id, unless a manifest that
\* held claims was lost.
RerunsAgree ==
  ~forgotten =>
    \A m, n \in finished :
      m.input = n.input /\ m.source = n.source => Fingerprint(m) = Fingerprint(n)

\* Claimed by docs/archive/cycle_38_ingestion_contract.md: rows_quarantined
\* counts rows, so that accepted and quarantined rows add up to those read.
\* It does not: a conflict is counted at its place among the accepted rows.
RowsAccounted == \A m \in Manifests : RowsComplete(m)
=============================================================================
