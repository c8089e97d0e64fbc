------------------------ MODULE LocalIngestionProofs ------------------------
(***************************************************************************)
(* Theorems about LocalIngestion for any inputs, jobs and bounds.           *)
(***************************************************************************)
EXTENDS LocalIngestion, FiniteSetTheorems, TLAPS

(***************************************************************************)
(* Types                                                                   *)
(***************************************************************************)
\* A whole or torn file of a document is a file.
LEMMA FileType ==
  ASSUME NEW S, NEW x \in S
  PROVE  Whole(x) \in File(S) /\ Torn \in File(S) /\ Absent \in File(S)
BY DEF Whole, Torn, Absent, File

\* The rows of the input at hand, and the sets of row numbers validate forms.
LEMMA RowsType ==
  ASSUME job \in Jobs
  PROVE  /\ job \in Job /\ Source \in Seq(Row)
         /\ Valid \subseteq DOMAIN Source
         /\ \A S \in SUBSET DOMAIN Source : IsFiniteSet(S) /\ Cardinality(S) \in Nat
<1>1. job \in Job /\ job.input \in Inputs /\ job.run \in IngestRunIds /\ job.source \in Sources
  BY InputAssumption DEF Job
<1>2. Source \in Seq(Row)
  BY <1>1, InputAssumption DEF Source
<1>3. DOMAIN Source = 1..Len(Source) /\ Len(Source) \in Nat
  BY <1>2
<1>4. IsFiniteSet(DOMAIN Source)
  BY <1>3, FS_Interval
<1>5. \A S \in SUBSET DOMAIN Source : IsFiniteSet(S) /\ Cardinality(S) \in Nat
  BY <1>4, FS_Subset, FS_CardinalityType
<1> QED BY <1>1, <1>2, <1>5 DEF Valid

LEMMA IdsType ==
  ASSUME job \in Jobs, accepted \subseteq DOMAIN Source
  PROVE  MatchIdsOf(accepted) \subseteq MatchIds
<1>1. Source \in Seq(Row)
  BY RowsType
<1>2. \A i \in DOMAIN Source : Source[i] \in Row
  BY <1>1
<1> QED BY <1>2 DEF MatchIdsOf, Row

LEMMA CountsType ==
  ASSUME job \in Jobs, accepted \subseteq DOMAIN Source
  PROVE  Cardinality(Rejected) \in Nat /\ Counts \in Reasons
<1>1. Flawed \subseteq DOMAIN Source /\ Duplicate \subseteq DOMAIN Source
  BY DEF Flawed, Duplicate
<1>2. Conflicting \subseteq DOMAIN Source
  BY RowsType DEF Conflicting
<1>3. /\ IsFiniteSet(Flawed) /\ IsFiniteSet(Duplicate) /\ IsFiniteSet(Conflicting)
      /\ Cardinality(Flawed) \in Nat /\ Cardinality(Duplicate) \in Nat
      /\ Cardinality(Conflicting) \in Nat
  BY <1>1, <1>2, RowsType
<1>4. IsFiniteSet({Position(i) : i \in Conflicting})
  <2>1. PICK n \in Nat : n = Cardinality(DOMAIN Source)
    BY RowsType
  <2>2. \A i : Position(i) \in 1..(n + 1)
    <3> TAKE i
    <3> DEFINE B == {j \in Valid : Source[j].id < Source[i].id}
    <3>1. B \in SUBSET DOMAIN Source
      BY RowsType
    <3>2. Cardinality(B) \in Nat /\ Cardinality(B) <= n
      BY <2>1, <3>1, RowsType, FS_Subset
    <3> HIDE DEF B
    <3>3. Position(i) = 1 + Cardinality(B)
      BY DEF Position, B
    <3> QED BY <3>2, <3>3
  <2>3. {Position(i) : i \in Conflicting} \subseteq 1..(n + 1)
    BY <2>2
  <2>4. IsFiniteSet(1..(n + 1))
    BY FS_Interval
  <2> QED BY <2>3, <2>4, FS_Subset
<1>5. IsFiniteSet(Rejected)
  BY <1>3, <1>4, FS_Union DEF Rejected
<1>6. Cardinality(Rejected) \in Nat
  BY <1>5, FS_CardinalityType
<1> QED BY <1>3, <1>6 DEF Counts, Reasons

LEMMA LinesType ==
  ASSUME job \in Jobs, accepted \subseteq DOMAIN Source
  PROVE  Lines \in SUBSET Line
BY IdsType, RowsType DEF Lines, Line, Job

LEMMA NewManifestType ==
  ASSUME TypeOK
  PROVE  NewManifest \in Manifest
<1>1. job \in Job /\ Source \in Seq(Row)
  BY RowsType DEF TypeOK
<1>2. job.input \in Inputs /\ job.run \in IngestRunIds /\ job.source \in Sources
  BY <1>1 DEF Job
<1>3. normalized[job.input] \in File(SUBSET Line) /\ processed[job.input] \in File(SUBSET Line)
  BY <1>2 DEF TypeOK
<1>4. normalized[job.input].text \in Seq(SUBSET Line) /\ processed[job.input].text \in Seq(SUBSET Line)
  BY <1>3 DEF File
<1>5. MatchIdsOf(accepted) \in SUBSET MatchIds
  BY IdsType DEF TypeOK
<1>6. Cardinality(Rejected) \in Nat /\ Counts \in Reasons
  BY CountsType DEF TypeOK
<1>7. Cardinality(accepted) \in Nat /\ Len(Source) \in Nat
  BY <1>1, RowsType DEF TypeOK
<1>8. PolicyExceeded \in BOOLEAN
  BY DEF PolicyExceeded
<1> QED BY <1>2, <1>4, <1>5, <1>6, <1>7, <1>8 DEF NewManifest, Manifest

LEMMA InitType == Init => TypeOK
<1> SUFFICES ASSUME Init PROVE TypeOK
  OBVIOUS
<1>1. /\ Absent \in File(Inputs) /\ Absent \in File(SUBSET Line)
      /\ Absent \in File(Report) /\ Absent \in File(Manifest)
  BY DEF Absent, File
<1> QED BY <1>1 DEF Init, TypeOK, Places

LEMMA NextType == TypeOK /\ [Next]_vars => TypeOK'
<1> SUFFICES ASSUME TypeOK, [Next]_vars PROVE TypeOK'
  OBVIOUS
<1> USE DEF TypeOK
<1>a. job \in Job /\ job.input \in Inputs /\ job.run \in IngestRunIds
  BY RowsType DEF Job
<1>b. job' = job => Source' = Source
  BY DEF Source
<1>1. CASE Start
  <2>1. ingests' \in Nat
    BY <1>1 DEF Start
  <2> QED BY <1>1, <2>1 DEF Start, files, Places
<1>2. CASE RawCollision \/ RawPresent
  BY <1>2, <1>b DEF RawCollision, RawPresent, files, Places
<1>3. CASE OpenRaw \/ CopyRaw
  <2>1. Torn \in File(Inputs) /\ Whole(job.input) \in File(Inputs)
    BY <1>a, FileType
  <2> QED BY <1>3, <1>b, <2>1 DEF OpenRaw, CopyRaw, Places
<1>4. CASE ResolveConflicts
  <2>1. accepted' \subseteq DOMAIN Source
    BY <1>4, RowsType DEF ResolveConflicts
  <2> QED BY <1>4, <1>b, <2>1 DEF ResolveConflicts, files, Places
<1>5. CASE Outputs
  <2>1. Torn \in File(SUBSET Line) /\ Whole(Lines) \in File(SUBSET Line)
    BY LinesType, FileType
  <2>2. CASE OpenNormalized
    BY <2>2, <1>b, <2>1 DEF OpenNormalized, Places
  <2>3. CASE WriteNormalized
    BY <2>3, <1>b, <2>1 DEF WriteNormalized, Places
  <2>4. CASE OpenProcessed
    BY <2>4, <1>b, <2>1 DEF OpenProcessed, Places
  <2>5. CASE WriteProcessed
    BY <2>5, <1>b, <2>1 DEF WriteProcessed, Places
  <2> QED BY <1>5, <2>2, <2>3, <2>4, <2>5 DEF Outputs
<1>6. CASE OpenQuarantine \/ WriteQuarantine
  <2>1. NewReport \in Report
    BY CountsType DEF NewReport, Report
  <2>2. Torn \in File(Report) /\ Whole(NewReport) \in File(Report)
    BY <2>1, FileType
  <2> QED BY <1>6, <1>b, <2>2 DEF OpenQuarantine, WriteQuarantine, Places
<1>7. CASE OpenManifest \/ WriteManifest
  <2>1. NewManifest \in Manifest
    BY NewManifestType
  <2>2. Torn \in File(Manifest) /\ Whole(NewManifest) \in File(Manifest)
    BY <2>1, FileType
  <2>3. CASE OpenManifest
    BY <2>3, <1>b, <2>2 DEF OpenManifest, Places
  <2>4. CASE WriteManifest
    BY <2>4, <1>b, <2>1, <2>2 DEF WriteManifest, Places
  <2> QED BY <1>7, <2>3, <2>4
<1>8. CASE Crash
  <2>1. crashes' \in Nat
    BY <1>8 DEF Crash
  <2> QED BY <1>8, <1>b, <2>1 DEF Crash, files, Places
<1>9. CASE Quiet \/ UNCHANGED vars
  BY <1>9, <1>b DEF Quiet, vars, files, call
<1> QED
  BY <1>1, <1>2, <1>3, <1>4, <1>5, <1>6, <1>7, <1>8, <1>9 DEF Next, RawCopy, Reports

\* Files, the call and the history keep their types in every run.
THEOREM TypeOKCorrect == Spec => []TypeOK
<1>1. Init => TypeOK
  BY InitType
<1>2. TypeOK /\ [Next]_vars => TypeOK'
  BY NextType
<1> QED BY <1>1, <1>2, PTL DEF Spec

(***************************************************************************)
(* One input for each match                                                *)
(***************************************************************************)
\* From the resolution of conflicts until the manifest is written, what the
\* call accepts is not claimed by another input.
Resolved == Places \ {"idle", "raw", "copy", "claims"}

ClaimInv ==
  /\ OneInputPerMatch
  /\ pc \in Resolved => MatchIdsOf(accepted) \intersect Claimed = {}

LEMMA ClaimedMeans ==
  \A id : id \in Claimed <=>
    \E m \in Manifests : m.source = job.source /\ m.input # job.input /\ id \in m.accepted
BY DEF Claimed, Manifests

\* A step that adds no manifest and leaves the call where it is keeps ClaimInv.
LEMMA ClaimKept ==
  ASSUME ClaimInv, Manifests' \subseteq Manifests, job' = job, accepted' = accepted,
         pc' \in Resolved => pc \in Resolved
  PROVE  ClaimInv'
<1>1. Claimed' \subseteq Claimed
  BY DEF Claimed, Manifests
<1>2. MatchIdsOf(accepted)' = MatchIdsOf(accepted)
  BY DEF MatchIdsOf, Source
<1> QED BY <1>1, <1>2 DEF ClaimInv, OneInputPerMatch

LEMMA NextClaim == TypeOK /\ ClaimInv /\ [Next]_vars => ClaimInv'
<1> SUFFICES ASSUME TypeOK, ClaimInv, [Next]_vars PROVE ClaimInv'
  OBVIOUS
<1>a. manifest' = manifest => Manifests' = Manifests
  BY DEF Manifests
<1>b. job.run \in IngestRunIds /\ manifest \in [IngestRunIds -> File(Manifest)]
  BY RowsType DEF TypeOK, Job
<1>1. CASE Start
  BY <1>1, <1>a DEF Start, files, ClaimInv, OneInputPerMatch, Resolved
<1>2. CASE RawCopy
  <2>1. Manifests' = Manifests /\ job' = job /\ accepted' = accepted /\ pc' \notin Resolved
    BY <1>2, <1>a
    DEF RawCopy, RawCollision, RawPresent, OpenRaw, CopyRaw, files, Resolved, Places
  <2> QED BY <2>1, ClaimKept
<1>3. CASE ResolveConflicts
  <2>1. Manifests' = Manifests /\ job' = job
    BY <1>3, <1>a DEF ResolveConflicts, files
  <2>2. Claimed' = Claimed
    BY <2>1 DEF Claimed, Manifests
  <2>3. MatchIdsOf(accepted)' \intersect Claimed = {}
    BY <1>3 DEF ResolveConflicts, MatchIdsOf, Source
  <2> QED BY <2>1, <2>2, <2>3 DEF ClaimInv, OneInputPerMatch
<1>4. CASE Outputs \/ OpenQuarantine \/ WriteQuarantine
  <2>1. Manifests' = Manifests /\ job' = job /\ accepted' = accepted /\ pc \in Resolved
    BY <1>4, <1>a
    DEF Outputs, OpenNormalized, WriteNormalized, OpenProcessed, WriteProcessed,
        OpenQuarantine, WriteQuarantine, Resolved, Places
  <2> QED BY <2>1, ClaimKept
<1>5. CASE OpenManifest
  <2>1. \A r \in IngestRunIds : Contents(manifest[r])' \subseteq Contents(manifest[r])
    BY <1>5, <1>b DEF OpenManifest, Contents, Torn
  <2>2. Manifests' \subseteq Manifests
    BY <2>1 DEF Manifests
  <2> QED BY <1>5, <2>2, ClaimKept DEF OpenManifest, Resolved, Places
<1>6. CASE WriteManifest
  <2>1. \A r \in IngestRunIds :
          Contents(manifest[r])' \subseteq Contents(manifest[r]) \union {NewManifest}
    BY <1>6, <1>b DEF WriteManifest, Contents, Whole
  <2>2. Manifests' \subseteq Manifests \union {NewManifest}
    BY <2>1 DEF Manifests
  <2>3. /\ NewManifest.source = job.source /\ NewManifest.input = job.input
        /\ NewManifest.accepted = MatchIdsOf(accepted)
    BY DEF NewManifest
  <2>4. \A m \in Manifests : m.source = job.source /\ m.input # job.input =>
          m.accepted \intersect MatchIdsOf(accepted) = {}
    BY <1>6, ClaimedMeans DEF ClaimInv, WriteManifest, Resolved, Places
  <2>5. OneInputPerMatch'
    BY <2>2, <2>3, <2>4 DEF ClaimInv, OneInputPerMatch
  <2> QED BY <1>6, <2>5 DEF ClaimInv, WriteManifest, Resolved
<1>7. CASE Crash
  <2>1. Manifests' = Manifests /\ job' = job /\ accepted' = accepted /\ pc' \notin Resolved
    BY <1>7, <1>a DEF Crash, files, Resolved
  <2> QED BY <2>1, ClaimKept
<1>8. CASE Quiet \/ UNCHANGED vars
  <2>1. Manifests' = Manifests /\ job' = job /\ accepted' = accepted /\ pc' = pc
    BY <1>8, <1>a DEF Quiet, vars, files, call
  <2> QED BY <2>1, ClaimKept
<1> QED BY <1>1, <1>2, <1>3, <1>4, <1>5, <1>6, <1>7, <1>8 DEF Next, Reports

\* However runs crash, repeat and reuse run ids, the manifests on disk never
\* accept one match of one source from two inputs.
THEOREM OneInputPerMatchHolds == Spec => []OneInputPerMatch
<1>1. Init => ClaimInv
  BY DEF Init, ClaimInv, OneInputPerMatch, Manifests, Contents, Absent, Resolved
<1>2. TypeOK /\ ClaimInv /\ [Next]_vars => ClaimInv'
  BY NextClaim
<1>3. ClaimInv => OneInputPerMatch
  BY DEF ClaimInv
<1> QED BY <1>1, <1>2, <1>3, TypeOKCorrect, PTL DEF Spec

(***************************************************************************)
(* Manifests stay valid                                                    *)
(***************************************************************************)
\* A manifest is checked against files that its run and input name.  A call
\* has superseded every manifest whose files it may change; from then on each
\* file holds what it wrote, and that is what its own manifest will say.
Rewriting == Resolved \ {"normalize"}

ManifestsNamed == \A r \in IngestRunIds : \A m \in Contents(manifest[r]) : m.run = r

OthersUntouched ==
  \A r \in IngestRunIds \ superseded :
    r # job.run /\ \A m \in Contents(manifest[r]) : m.input # job.input

FilesOfCall ==
  /\ pc \in Resolved \union {"claims"} => raw[job.input] = Whole(job.input)
  /\ pc \in Rewriting => OthersUntouched
  /\ pc \in Rewriting \ {"normalizing"} => normalized[job.input] = Whole(Lines)
  /\ pc \in {"quarantine", "quarantining", "manifest", "listing"} =>
       processed[job.input] = Whole(Lines)
  /\ pc \in {"manifest", "listing"} => quarantine[job.run] = Whole(NewReport)

ValidInv == ManifestsNamed /\ ManifestsStayValid /\ FilesOfCall

\* What the call writes depends on the job and the accepted rows alone.
LEMMA SameCall ==
  ASSUME job' = job, accepted' = accepted
  PROVE  Lines' = Lines /\ NewReport' = NewReport
<1>1. Source' = Source /\ Flawed' = Flawed /\ Duplicate' = Duplicate /\ Valid' = Valid
  BY DEF Source, Flawed, Duplicate, Valid
<1>2. \A i : Position(i)' = Position(i)
  BY <1>1 DEF Position
<1>3. Rejected' = Rejected /\ Counts' = Counts
  BY <1>1, <1>2 DEF Rejected, Counts, Conflicting
<1>4. MatchIdsOf(accepted)' = MatchIdsOf(accepted)
  BY <1>1 DEF MatchIdsOf
<1> QED BY <1>3, <1>4 DEF Lines, NewReport

\* The checks on a manifest only look at the files it names.
LEMMA FilesKept ==
  ASSUME NEW m, FilesMatch(m), raw'[m.input] = raw[m.input],
         normalized'[m.input] = normalized[m.input],
         processed'[m.input] = processed[m.input], quarantine'[m.run] = quarantine[m.run]
  PROVE  FilesMatch(m)'
BY DEF FilesMatch

\* A step of a call that changes no manifest, and no file of a manifest that
\* is not superseded, keeps the valid manifests valid.
LEMMA ValidKept ==
  ASSUME ManifestsNamed, ManifestsStayValid,
         manifest' = manifest, superseded \subseteq superseded',
         \A r \in IngestRunIds \ superseded : \A m \in Contents(manifest[r]) :
           /\ raw'[m.input] = raw[m.input]
           /\ normalized'[m.input] = normalized[m.input]
           /\ processed'[m.input] = processed[m.input]
           /\ quarantine'[r] = quarantine[r]
  PROVE  ManifestsNamed' /\ ManifestsStayValid'
<1>1. ManifestsNamed'
  BY DEF ManifestsNamed
<1>2. ASSUME NEW r \in IngestRunIds \ superseded', NEW m \in Contents(manifest[r])
      PROVE  FilesMatch(m)'
  <2>1. r \in IngestRunIds \ superseded /\ m.run = r /\ FilesMatch(m)
    BY <1>2 DEF ManifestsNamed, ManifestsStayValid
  <2>2. raw'[m.input] = raw[m.input] /\ normalized'[m.input] = normalized[m.input]
    BY <1>2, <2>1
  <2>3. processed'[m.input] = processed[m.input] /\ quarantine'[m.run] = quarantine[m.run]
    BY <1>2, <2>1
  <2> QED BY <2>1, <2>2, <2>3, FilesKept
<1> QED BY <1>1, <1>2 DEF ManifestsStayValid

LEMMA CallKept ==
  ASSUME FilesOfCall, files' = files, job' = job, accepted' = accepted,
         superseded' = superseded, pc' = pc \/ pc' \in {"idle", "raw"}
  PROVE  FilesOfCall'
BY SameCall DEF FilesOfCall, OthersUntouched, files, Rewriting, Resolved, Places

LEMMA NextValid == TypeOK /\ ValidInv /\ [Next]_vars => ValidInv'
<1> SUFFICES ASSUME TypeOK, ValidInv, [Next]_vars PROVE ValidInv'
  OBVIOUS
<1> USE DEF ValidInv
<1>a. job.input \in Inputs /\ job.run \in IngestRunIds
  BY RowsType DEF TypeOK, Job
<1>b. /\ raw \in [Inputs -> File(Inputs)] /\ normalized \in [Inputs -> File(SUBSET Line)]
      /\ processed \in [Inputs -> File(SUBSET Line)] /\ quarantine \in [IngestRunIds -> File(Report)]
      /\ manifest \in [IngestRunIds -> File(Manifest)]
  BY DEF TypeOK
<1>c. \A r \in IngestRunIds : \A m \in Contents(manifest[r]) : m.input \in Inputs
  <2> SUFFICES ASSUME NEW r \in IngestRunIds, NEW m \in Contents(manifest[r])
               PROVE  m.input \in Inputs
    OBVIOUS
  <2>1. manifest[r].text \in Seq(Manifest)
    BY <1>b DEF File
  <2>2. m \in Manifest
    BY <2>1 DEF Contents
  <2> QED BY <2>2 DEF Manifest
<1>1. CASE Start
  <2>1. files' = files /\ superseded' = superseded /\ pc' = "raw"
    BY <1>1 DEF Start
  <2>2. FilesOfCall'
    BY <2>1 DEF FilesOfCall, Rewriting, Resolved
  <2> QED BY <2>1, <2>2, ValidKept DEF files
<1>2. CASE RawCollision \/ Crash \/ Quiet \/ UNCHANGED vars
  <2>1. /\ files' = files /\ superseded' = superseded /\ job' = job /\ accepted' = accepted
        /\ pc' = pc \/ pc' = "idle"
    BY <1>2 DEF RawCollision, Crash, Quiet, vars, files, call
  <2>2. FilesOfCall'
    BY <2>1, CallKept
  <2> QED BY <2>1, <2>2, ValidKept DEF files
<1>3. CASE RawPresent
  <2>1. files' = files /\ superseded' = superseded /\ pc' = "claims" /\ job' = job
    BY <1>3 DEF RawPresent
  <2>2. FilesOfCall'
    BY <1>3, <2>1 DEF RawPresent, FilesOfCall, files, Rewriting, Resolved
  <2> QED BY <2>1, <2>2, ValidKept DEF files
<1>4. CASE OpenRaw \/ CopyRaw
  <2>1. /\ normalized' = normalized /\ processed' = processed /\ quarantine' = quarantine
        /\ manifest' = manifest /\ superseded' = superseded /\ job' = job
    BY <1>4 DEF OpenRaw, CopyRaw
  <2>2. raw[job.input] # Whole(job.input) \/ raw' = raw
    BY <1>4, <1>a, <1>b DEF OpenRaw, CopyRaw, Absent, Whole
  <2>3. \A r \in IngestRunIds \ superseded : \A m \in Contents(manifest[r]) :
          raw'[m.input] = raw[m.input]
    <3> SUFFICES ASSUME NEW r \in IngestRunIds \ superseded, NEW m \in Contents(manifest[r])
                 PROVE  raw'[m.input] = raw[m.input]
      OBVIOUS
    <3>1. raw[m.input] = Whole(m.input) /\ m.input \in Inputs
      BY <1>c DEF ManifestsStayValid, FilesMatch
    <3> QED BY <1>4, <1>b, <2>2, <3>1 DEF OpenRaw, CopyRaw
  <2>4. pc' \in {"copy", "claims"} /\ (pc' = "claims" => raw'[job'.input] = Whole(job'.input))
    BY <1>4, <1>a, <1>b DEF OpenRaw, CopyRaw
  <2>5. FilesOfCall'
    BY <2>4 DEF FilesOfCall, Rewriting, Resolved
  <2> QED BY <2>1, <2>3, <2>5, ValidKept
<1>5. CASE ResolveConflicts
  <2>1. files' = files /\ superseded' = superseded /\ pc' = "normalize" /\ job' = job
    BY <1>5 DEF ResolveConflicts
  <2>2. FilesOfCall'
    BY <1>5, <2>1 DEF ResolveConflicts, FilesOfCall, files, Rewriting, Resolved, Places
  <2> QED BY <2>1, <2>2, ValidKept DEF files
<1>6. CASE OpenNormalized
  <2>1. /\ raw' = raw /\ processed' = processed /\ quarantine' = quarantine
        /\ manifest' = manifest /\ job' = job /\ accepted' = accepted
        /\ superseded \subseteq superseded' /\ pc' = "normalizing"
    BY <1>6 DEF OpenNormalized
  <2>2. normalized' = [normalized EXCEPT ![job.input] = Torn]
    BY <1>6 DEF OpenNormalized
  <2>3. OthersUntouched'
    BY <1>6, <2>1 DEF OpenNormalized, OthersUntouched
  <2>4. \A r \in IngestRunIds \ superseded' : \A m \in Contents(manifest[r]) : FilesMatch(m)'
    <3> SUFFICES ASSUME NEW r \in IngestRunIds \ superseded', NEW m \in Contents(manifest[r])
                 PROVE  FilesMatch(m)'
      OBVIOUS
    <3>1. m.input # job.input
      BY <2>1, <2>3 DEF OthersUntouched
    <3>2. m.input \in Inputs /\ FilesMatch(m)
      BY <2>1, <1>c DEF ManifestsStayValid
    <3>3. normalized'[m.input] = normalized[m.input]
      BY <1>b, <2>2, <3>1, <3>2
    <3> QED BY <2>1, <3>2, <3>3, FilesKept
  <2>5. ManifestsStayValid' /\ ManifestsNamed'
    BY <2>1, <2>4 DEF ManifestsStayValid, ManifestsNamed
  <2>6. FilesOfCall'
    BY <1>6, <2>1, <2>3 DEF OpenNormalized, FilesOfCall, Rewriting, Resolved, Places
  <2> QED BY <2>5, <2>6
<1>7. CASE WriteNormalized \/ OpenProcessed \/ WriteProcessed
  <2>1. /\ raw' = raw /\ quarantine' = quarantine /\ manifest' = manifest
        /\ superseded' = superseded /\ job' = job /\ accepted' = accepted
        /\ pc \in Rewriting
    BY <1>7
    DEF WriteNormalized, OpenProcessed, WriteProcessed, Rewriting, Resolved, Places
  <2>2. \A x \in Inputs \ {job.input} :
          normalized'[x] = normalized[x] /\ processed'[x] = processed[x]
    BY <1>7, <1>b DEF WriteNormalized, OpenProcessed, WriteProcessed
  <2>3. OthersUntouched
    BY <2>1 DEF FilesOfCall
  <2>4. \A r \in IngestRunIds \ superseded : \A m \in Contents(manifest[r]) :
          normalized'[m.input] = normalized[m.input] /\ processed'[m.input] = processed[m.input]
    BY <1>c, <2>2, <2>3 DEF OthersUntouched
  <2>5. ManifestsStayValid' /\ ManifestsNamed'
    BY <2>1, <2>4, ValidKept
  <2>6. /\ pc' \in {"process", "processing", "quarantine"}
        /\ normalized'[job.input] = Whole(Lines)
        /\ pc' = "quarantine" => processed'[job.input] = Whole(Lines)
    BY <1>7, <1>a, <1>b
    DEF FilesOfCall, WriteNormalized, OpenProcessed, WriteProcessed, Rewriting, Resolved, Places
  <2>7. raw[job.input] = Whole(job.input) /\ OthersUntouched'
    BY <2>1, <2>3 DEF FilesOfCall, Rewriting, OthersUntouched
  <2>8. FilesOfCall'
    BY <2>1, <2>6, <2>7, SameCall DEF FilesOfCall
  <2> QED BY <2>5, <2>8
<1>8. CASE OpenQuarantine \/ WriteQuarantine
  <2>1. /\ raw' = raw /\ normalized' = normalized /\ processed' = processed
        /\ manifest' = manifest /\ superseded' = superseded
        /\ job' = job /\ accepted' = accepted /\ pc \in {"quarantine", "quarantining"}
    BY <1>8 DEF OpenQuarantine, WriteQuarantine
  <2>2. OthersUntouched
    BY <2>1 DEF FilesOfCall, Rewriting, Resolved, Places
  <2>3. \A r \in IngestRunIds \ superseded : quarantine'[r] = quarantine[r]
    BY <1>8, <1>b, <2>2 DEF OpenQuarantine, WriteQuarantine, OthersUntouched
  <2>4. ManifestsStayValid' /\ ManifestsNamed'
    BY <2>1, <2>3, ValidKept
  <2>5. /\ pc' \in {"quarantining", "manifest"}
        /\ pc' = "manifest" => quarantine'[job.run] = Whole(NewReport)
    BY <1>8, <1>a, <1>b DEF OpenQuarantine, WriteQuarantine
  <2>6. /\ raw[job.input] = Whole(job.input) /\ normalized[job.input] = Whole(Lines)
        /\ processed[job.input] = Whole(Lines) /\ OthersUntouched'
    BY <2>1, <2>2 DEF FilesOfCall, Rewriting, Resolved, Places, OthersUntouched
  <2>7. FilesOfCall'
    BY <2>1, <2>5, <2>6, SameCall DEF FilesOfCall
  <2> QED BY <2>4, <2>7
<1>9. CASE OpenManifest
  <2>1. /\ raw' = raw /\ normalized' = normalized /\ processed' = processed
        /\ quarantine' = quarantine /\ superseded' = superseded
        /\ job' = job /\ accepted' = accepted /\ pc = "manifest" /\ pc' = "listing"
    BY <1>9 DEF OpenManifest
  <2>2. \A r \in IngestRunIds : Contents(manifest[r])' \subseteq Contents(manifest[r])
    BY <1>9, <1>b DEF OpenManifest, Contents, Torn
  <2>3. ManifestsNamed'
    BY <2>2 DEF ManifestsNamed
  <2>4. \A r \in IngestRunIds \ superseded : \A m \in Contents(manifest[r])' : FilesMatch(m)'
    BY <2>1, <2>2, FilesKept DEF ManifestsStayValid
  <2>5. ManifestsStayValid'
    BY <2>1, <2>4 DEF ManifestsStayValid
  <2>6. OthersUntouched /\ OthersUntouched'
    BY <2>1, <2>2 DEF FilesOfCall, Rewriting, Resolved, Places, OthersUntouched
  <2>7. FilesOfCall'
    BY <2>1, <2>6, SameCall DEF FilesOfCall, Resolved, Places, Rewriting
  <2> QED BY <2>3, <2>5, <2>7
<1>10. CASE WriteManifest
  <2>1. /\ raw' = raw /\ normalized' = normalized /\ processed' = processed
        /\ quarantine' = quarantine /\ superseded' = superseded \ {job.run}
        /\ job' = job /\ pc = "listing" /\ pc' = "idle"
    BY <1>10 DEF WriteManifest
  <2>2. /\ \A r \in IngestRunIds \ {job.run} : Contents(manifest[r])' = Contents(manifest[r])
        /\ Contents(manifest[job.run])' = {NewManifest}
    BY <1>10, <1>a, <1>b DEF WriteManifest, Contents, Whole
  <2>3. NewManifest.run = job.run /\ NewManifest.input = job.input
    BY DEF NewManifest
  <2>4. ManifestsNamed'
    <3> SUFFICES ASSUME NEW r \in IngestRunIds, NEW m \in Contents(manifest[r])'
                 PROVE  m.run = r
      BY DEF ManifestsNamed
    <3>1. CASE r = job.run
      <4>1. m = NewManifest
        BY <2>1, <2>2, <3>1
      <4> QED BY <2>3, <3>1, <4>1
    <3>2. CASE r # job.run
      BY <2>2, <3>2 DEF ManifestsNamed
    <3> QED BY <3>1, <3>2
  <2>5. FilesMatch(NewManifest)
    <3>1. /\ raw[job.input] = Whole(job.input) /\ normalized[job.input] = Whole(Lines)
          /\ processed[job.input] = Whole(Lines) /\ quarantine[job.run] = Whole(NewReport)
      BY <2>1 DEF FilesOfCall, Resolved, Rewriting, Places
    <3>2. \A lines \in Contents(Whole(Lines)) : {line.id : line \in lines} = MatchIdsOf(accepted)
      <4>1. Contents(Whole(Lines)) = {Lines}
        BY DEF Contents, Whole
      <4>2. {line.id : line \in Lines} = MatchIdsOf(accepted)
        <5> DEFINE L(m) == [id |-> m, run |-> job.run, source |-> job.source]
        <5>1. \A m : L(m).id = m
          OBVIOUS
        <5>2. Lines = {L(m) : m \in MatchIdsOf(accepted)}
          BY DEF Lines
        <5> HIDE DEF L
        <5> QED BY <5>1, <5>2
      <4> QED BY <4>1, <4>2
    <3>3. Whole(NewReport) =
            Whole([rows_quarantined |-> NewManifest.rows_quarantined,
                   reasons |-> NewManifest.reasons])
      BY DEF NewReport, NewManifest
    <3>4. /\ NewManifest.output = Whole(Lines).text /\ NewManifest.processed = Whole(Lines).text
          /\ NewManifest.accepted = MatchIdsOf(accepted)
      BY <3>1 DEF NewManifest
    <3>5. Whole(Lines).exists
      BY DEF Whole
    <3> QED BY <2>3, <3>1, <3>2, <3>3, <3>4, <3>5 DEF FilesMatch
  <2>6. \A r \in IngestRunIds \ superseded' : \A m \in Contents(manifest[r])' : FilesMatch(m)
    BY <2>1, <2>2, <2>5 DEF ManifestsStayValid
  <2>7. \A r \in IngestRunIds \ superseded' : \A m \in Contents(manifest[r])' : FilesMatch(m)'
    BY <2>1, <2>6, FilesKept
  <2>8. ManifestsStayValid'
    BY <2>7 DEF ManifestsStayValid
  <2>9. FilesOfCall'
    BY <2>1 DEF FilesOfCall, Resolved, Rewriting
  <2> QED BY <2>4, <2>8, <2>9
<1> QED
  BY <1>1, <1>2, <1>3, <1>4, <1>5, <1>6, <1>7, <1>8, <1>9, <1>10
  DEF Next, RawCopy, Outputs, Reports

\* A manifest describes its files from the moment it is written until its
\* input or run id is ingested again, through any crashes of other calls.
THEOREM ManifestsStayValidHolds == Spec => []ManifestsStayValid
<1>1. Init => ValidInv
  BY DEF Init, ValidInv, ManifestsNamed, ManifestsStayValid, FilesOfCall, Contents, Absent,
         Resolved, Rewriting
<1>2. TypeOK /\ ValidInv /\ [Next]_vars => ValidInv'
  BY NextValid
<1>3. ValidInv => ManifestsStayValid
  BY DEF ValidInv
<1> QED BY <1>1, <1>2, <1>3, TypeOKCorrect, PTL DEF Spec

(***************************************************************************)
(* Reruns agree                                                            *)
(***************************************************************************)
\* What validate and the conflicts with the claims C make of an input,
\* whichever call computes it.
FlawedOf(x) == {i \in DOMAIN Rows[x] : Rows[x][i].flawed}
DuplicateOf(x) ==
  {i \in DOMAIN Rows[x] : \E j \in DOMAIN Rows[x] \ {i} : Rows[x][j].id = Rows[x][i].id}
ValidOf(x) == DOMAIN Rows[x] \ (FlawedOf(x) \union DuplicateOf(x))
AcceptedOf(x, C) == {i \in ValidOf(x) : Rows[x][i].id \notin C}
IdsOf(x, S) == {Rows[x][i].id : i \in S}
PositionOf(x, i) == 1 + Cardinality({j \in ValidOf(x) : Rows[x][j].id < Rows[x][i].id})
RejectedOf(x, S) ==
  FlawedOf(x) \union DuplicateOf(x) \union {PositionOf(x, i) : i \in ValidOf(x) \ S}
CountsOf(x, S) ==
  [flawed |-> Cardinality(FlawedOf(x)), duplicate |-> Cardinality(DuplicateOf(x)),
   conflict |-> Cardinality(ValidOf(x) \ S)]
PrintOf(x, s, S) ==
  <<x, s, IdsOf(x, S), Len(Rows[x]), Cardinality(S), Cardinality(RejectedOf(x, S)),
    CountsOf(x, S)>>

\* Claims of other inputs of the source, of all manifests written so far.
OtherClaims(x, s) ==
  UNION {n.accepted : n \in {f \in finished : f.source = s /\ f.input # x}}

\* A manifest has the fingerprint that these claims give its input.
Printed(m) ==
  Fingerprint(m) =
    PrintOf(m.input, m.source, AcceptedOf(m.input, OtherClaims(m.input, m.source)))

\* A manifest for the same input and source is on disk, or being written over.
Held(m) ==
  \/ \E n \in Manifests : n.input = m.input /\ n.source = m.source
  \/ pc = "listing" /\ job.input = m.input /\ job.source = m.source

\* While no manifest was lost, the claims on disk are those of all manifests
\* ever written: so each call computes what any other of its input did.
RerunInv ==
  /\ Manifests \subseteq finished
  /\ pc = "listing" => manifest[job.run] = Torn
  /\ ~forgotten =>
       /\ \A m \in finished : Printed(m) /\ Held(m)
       /\ pc \in Resolved => accepted = AcceptedOf(job.input, OtherClaims(job.input, job.source))

\* The manifest of a call has the fingerprint of its input and accepted rows.
LEMMA CallPrint == Fingerprint(NewManifest) = PrintOf(job.input, job.source, accepted)
<1>1. Flawed = FlawedOf(job.input) /\ Duplicate = DuplicateOf(job.input)
  BY DEF Flawed, FlawedOf, Duplicate, DuplicateOf, Source
<1>2. Valid = ValidOf(job.input)
  BY <1>1 DEF Valid, ValidOf, Source
<1>3. \A i : Position(i) = PositionOf(job.input, i)
  BY <1>2 DEF Position, PositionOf, Source
<1>4. Rejected = RejectedOf(job.input, accepted)
  BY <1>1, <1>2, <1>3 DEF Rejected, RejectedOf, Conflicting
<1>5. Counts = CountsOf(job.input, accepted)
  BY <1>1, <1>2 DEF Counts, CountsOf, Conflicting
<1>6. MatchIdsOf(accepted) = IdsOf(job.input, accepted) /\ Source = Rows[job.input]
  BY DEF MatchIdsOf, IdsOf, Source
<1>. QED
  BY <1>4, <1>5, <1>6 DEF Fingerprint, NewManifest, PrintOf

LEMMA ValidSame == Valid = ValidOf(job.input)
BY DEF Valid, ValidOf, Flawed, FlawedOf, Duplicate, DuplicateOf, Source

\* What a manifest accepts is what its fingerprint says.
LEMMA PrintedAccepts ==
  ASSUME NEW m, Printed(m)
  PROVE  m.accepted = IdsOf(m.input, AcceptedOf(m.input, OtherClaims(m.input, m.source)))
BY DEF Printed, Fingerprint, PrintOf

LEMMA RerunInit == Init => RerunInv
BY DEF Init, RerunInv, Manifests, Contents, Absent, Resolved

\* A step that adds no manifest, loses none and leaves the call where it is.
LEMMA RerunKept ==
  ASSUME RerunInv, Manifests' = Manifests, finished' = finished,
         forgotten' = forgotten \/ forgotten', pc # "listing", pc' # "listing",
         pc' \in Resolved => pc \in Resolved /\ job' = job /\ accepted' = accepted
  PROVE  RerunInv'
<1>1. \A x, s : OtherClaims(x, s)' = OtherClaims(x, s)
  BY DEF OtherClaims
<1>2. \A m \in finished : Printed(m) => Printed(m)'
  BY <1>1 DEF Printed
<1>3. \A m \in finished : Held(m) => Held(m)'
  BY DEF Held
<1>. QED
  BY <1>1, <1>2, <1>3 DEF RerunInv

\* At the resolution of conflicts the claims on disk are those ever made.
LEMMA ClaimsComplete ==
  ASSUME RerunInv, ~forgotten, pc # "listing"
  PROVE  Claimed = OtherClaims(job.input, job.source)
<1>1. Claimed \subseteq OtherClaims(job.input, job.source)
  BY ClaimedMeans DEF RerunInv, OtherClaims
<1>2. ASSUME NEW f \in finished, f.source = job.source, f.input # job.input
      PROVE  f.accepted \subseteq Claimed
  <2>1. PICK n \in Manifests : n.input = f.input /\ n.source = f.source
    BY DEF RerunInv, Held
  <2>2. n.accepted = f.accepted
    BY <2>1, PrintedAccepts DEF RerunInv
  <2>. QED
    BY <1>2, <2>1, <2>2, ClaimedMeans
<1>. QED
  BY <1>1, <1>2 DEF OtherClaims

LEMMA ResolveReruns ==
  ASSUME RerunInv, ResolveConflicts
  PROVE  RerunInv'
<1>1. /\ pc = "claims" /\ pc' = "normalize" /\ job' = job /\ manifest' = manifest
      /\ finished' = finished /\ forgotten' = forgotten
      /\ accepted' = {i \in Valid : Source[i].id \notin Claimed}
  BY DEF ResolveConflicts, files
<1>2. Manifests' = Manifests
  BY <1>1 DEF Manifests
<1>3. \A x, s : OtherClaims(x, s)' = OtherClaims(x, s)
  BY <1>1 DEF OtherClaims
<1>4. ASSUME ~forgotten
      PROVE  accepted' = AcceptedOf(job.input, OtherClaims(job.input, job.source))
  BY <1>1, <1>4, ClaimsComplete, ValidSame DEF AcceptedOf, Source
<1>5. \A m \in finished : (Printed(m) => Printed(m)') /\ (Held(m) => Held(m)')
  BY <1>1, <1>2, <1>3 DEF Printed, Held
<1>. QED
  BY <1>1, <1>2, <1>3, <1>4, <1>5 DEF RerunInv

\* Emptying the manifest loses no claim, unless it was that of another job.
LEMMA OpenReruns ==
  ASSUME TypeOK, RerunInv, OpenManifest
  PROVE  RerunInv'
<1>1. /\ pc = "manifest" /\ pc' = "listing" /\ job' = job /\ accepted' = accepted
      /\ finished' = finished /\ job.run \in IngestRunIds
      /\ manifest' = [manifest EXCEPT ![job.run] = Torn]
      /\ manifest \in [IngestRunIds -> File(Manifest)]
  BY RowsType DEF OpenManifest, TypeOK, Job
<1>2. Manifests' \subseteq Manifests /\ manifest'[job.run] = Torn
  BY <1>1 DEF Manifests, Contents, Torn
<1>3. \A x, s : OtherClaims(x, s)' = OtherClaims(x, s)
  BY <1>1 DEF OtherClaims
<1>4. ASSUME ~forgotten', NEW m \in finished, Held(m) PROVE Held(m)'
  <2>1. PICK r \in IngestRunIds : \E n \in Contents(manifest[r]) : n.input = m.input /\ n.source = m.source
    BY <1>1, <1>4 DEF Held, Manifests
  <2>2. CASE r = job.run
    <3>1. job.input = m.input /\ job.source = m.source
      BY <1>4, <2>1, <2>2 DEF OpenManifest
    <3>. QED
      BY <1>1, <3>1 DEF Held
  <2>3. CASE r # job.run
    <3>1. manifest'[r] = manifest[r]
      BY <1>1, <2>3
    <3>. QED
      BY <2>1, <3>1 DEF Held, Manifests
  <2>. QED
    BY <2>2, <2>3
<1>5. \A m \in finished : Printed(m) => Printed(m)'
  BY <1>3 DEF Printed
<1>6. ~forgotten' => ~forgotten
  BY DEF OpenManifest
<1>. QED
  BY <1>1, <1>2, <1>3, <1>4, <1>5, <1>6 DEF RerunInv, Resolved, Places

\* The manifest that is written claims what no other input ever did.
LEMMA WriteReruns ==
  ASSUME TypeOK, RerunInv, WriteManifest
  PROVE  RerunInv'
<1>1. /\ pc = "listing" /\ pc' = "idle" /\ job' = job /\ job.run \in IngestRunIds
      /\ forgotten' = forgotten /\ manifest \in [IngestRunIds -> File(Manifest)]
      /\ manifest' = [manifest EXCEPT ![job.run] = Whole(NewManifest)]
      /\ finished' = finished \union {NewManifest} /\ manifest[job.run] = Torn
  BY RowsType DEF WriteManifest, TypeOK, Job, RerunInv
<1>2. PICK k : k = NewManifest
  OBVIOUS
<1>3. k.input = job.input /\ k.source = job.source /\ k.accepted = IdsOf(job.input, accepted)
  BY <1>2 DEF NewManifest, MatchIdsOf, IdsOf, Source
<1>4. /\ \A r \in IngestRunIds \ {job.run} : manifest'[r] = manifest[r]
      /\ Contents(manifest'[job.run]) = {k} /\ Contents(manifest[job.run]) = {}
  BY <1>1, <1>2 DEF Contents, Whole, Torn
<1>5. Manifests' = Manifests \union {k}
  BY <1>1, <1>4 DEF Manifests
<1>6. Manifests' \subseteq finished'
  BY <1>1, <1>2, <1>5 DEF RerunInv
<1>7. ASSUME ~forgotten PROVE \A m \in finished' : Printed(m)' /\ Held(m)'
  <2>1. accepted = AcceptedOf(job.input, OtherClaims(job.input, job.source))
    BY <1>1, <1>7 DEF RerunInv, Resolved, Places
  <2>2. OtherClaims(k.input, k.source)' = OtherClaims(k.input, k.source)
    BY <1>1, <1>2 DEF OtherClaims
  <2>3. Printed(k)'
    BY <1>2, <1>3, <2>1, <2>2, CallPrint DEF Printed
  <2>4. Held(k)'
    BY <1>5 DEF Held
  <2>5. ASSUME NEW m \in finished PROVE Printed(m)' /\ Held(m)'
    <3>1. Printed(m) /\ Held(m)
      BY <1>7 DEF RerunInv
    <3>2. Held(m)'
      BY <1>3, <1>5, <3>1 DEF Held
    <3>3. CASE m.input = k.input \/ m.source # k.source
      <4>1. OtherClaims(m.input, m.source)' = OtherClaims(m.input, m.source)
        BY <1>1, <1>2, <3>3 DEF OtherClaims
      <4>. QED
        BY <3>1, <3>2, <4>1 DEF Printed
    <3>4. CASE m.input # k.input /\ m.source = k.source
      <4>1. OtherClaims(m.input, m.source)' = OtherClaims(m.input, m.source) \union k.accepted
        BY <1>1, <1>2, <3>4 DEF OtherClaims
      <4>2. m.accepted \subseteq OtherClaims(job.input, job.source)
        BY <1>3, <3>4 DEF OtherClaims
      <4>3. m.accepted \intersect k.accepted = {}
        BY <1>3, <2>1, <4>2 DEF IdsOf, AcceptedOf
      <4>4. AcceptedOf(m.input, OtherClaims(m.input, m.source) \union k.accepted)
              = AcceptedOf(m.input, OtherClaims(m.input, m.source))
        BY <3>1, <4>3, PrintedAccepts DEF AcceptedOf, IdsOf
      <4>. QED
        BY <3>1, <3>2, <4>1, <4>4 DEF Printed
    <3>. QED
      BY <3>3, <3>4
  <2>. QED
    BY <1>1, <1>2, <2>3, <2>4, <2>5
<1>. QED
  BY <1>1, <1>6, <1>7 DEF RerunInv, Resolved

LEMMA RerunStep == TypeOK /\ RerunInv /\ [Next]_vars => RerunInv'
<1>. SUFFICES ASSUME TypeOK, RerunInv, [Next]_vars PROVE RerunInv'
  OBVIOUS
<1>1. manifest' = manifest => Manifests' = Manifests
  BY DEF Manifests
<1>2. CASE Start \/ RawCopy
  <2>1. /\ manifest' = manifest /\ finished' = finished /\ forgotten' = forgotten
        /\ pc # "listing" /\ pc' \notin Resolved
    BY <1>2 DEF Start, RawCopy, RawCollision, RawPresent, OpenRaw, CopyRaw, files, Resolved, Places
  <2>. QED
    BY <1>1, <2>1, RerunKept DEF Resolved, Places
<1>3. CASE Outputs \/ OpenQuarantine \/ WriteQuarantine
  <2>1. /\ manifest' = manifest /\ finished' = finished /\ forgotten' = forgotten
        /\ pc # "listing" /\ pc' # "listing" /\ pc \in Resolved /\ job' = job /\ accepted' = accepted
    BY <1>3 DEF Outputs, OpenNormalized, WriteNormalized, OpenProcessed, WriteProcessed,
       OpenQuarantine, WriteQuarantine, Resolved, Places
  <2>. QED
    BY <1>1, <2>1, RerunKept
<1>4. CASE Crash
  <2>1. CASE pc = "listing"
    <3>1. forgotten' /\ Manifests' = Manifests /\ finished' = finished /\ pc' = "idle"
      BY <1>1, <1>4, <2>1 DEF Crash, files
    <3>. QED
      BY <3>1 DEF RerunInv
  <2>2. CASE pc # "listing"
    <3>1. /\ manifest' = manifest /\ finished' = finished /\ forgotten' = forgotten /\ pc' = "idle"
      BY <1>4, <2>2 DEF Crash, files, TypeOK
    <3>. QED
      BY <1>1, <2>2, <3>1, RerunKept DEF Resolved
  <2>. QED
    BY <2>1, <2>2
<1>5. CASE Quiet \/ UNCHANGED vars
  BY <1>5 DEF Quiet, vars, files, call, RerunInv, Printed, Held, OtherClaims, Manifests
<1>. QED
  BY <1>2, <1>3, <1>4, <1>5, ResolveReruns, OpenReruns, WriteReruns DEF Next, Reports

\* Ingesting an input again gives the same fingerprint, for any inputs, jobs,
\* crashes and order of calls, as long as no manifest was lost.
THEOREM RerunsAgreeHolds == Spec => []RerunsAgree
<1>1. TypeOK /\ RerunInv /\ [Next]_vars => RerunInv'
  BY RerunStep
<1>2. RerunInv => RerunsAgree
  BY DEF RerunInv, RerunsAgree, Printed
<1>. QED
  BY <1>1, <1>2, RerunInit, TypeOKCorrect, PTL DEF Spec
=============================================================================
