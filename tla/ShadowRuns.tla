----------------------------- MODULE ShadowRuns -----------------------------
(***************************************************************************)
(* Shadow runs (shadow/runner.py, shadow/ledger.py) as the prediction      *)
(* service calls them (service/application.py): threads of the local API   *)
(* and command line processes that issue predictions into one output root. *)
(*                                                                         *)
(* A call writes its prediction artifact, appends each prediction to the   *)
(* shared hash-chained ledger, writes or compares its run record, and      *)
(* answers.  There is no lock: a step ends at each file operation.  Files  *)
(* are written in place, so that opening one for writing empties it first; *)
(* a line is added to the ledger by one write, which a death or a full disk *)
(* can cut short.                                                          *)
(* A request stands for one that passed validation; the predictions it     *)
(* leads to are a function of it, its plan.                                *)
(***************************************************************************)
EXTENDS Files, FiniteSets

CONSTANTS
  Callers,     \* threads and processes on one output root
  RunIds,      \* run ids; the service derives one from the request
  Ids,         \* prediction ids, the hash of what a prediction depends on
  Cutoffs,     \* training cutoffs: in the ledger record, not in the id
  Requests,    \* requests in use: a run id and the plan it leads to
  MaxCalls,    \* bound: calls started
  MaxCrashes   \* bound: callers that die inside a call

Prediction == [id : Ids, cutoff : Cutoffs]
Request == [run : RunIds, plan : Seq(Prediction)]

ASSUME RequestAssumption ==
  /\ Requests \subseteq Request
  /\ \A q \in Requests : \A i, j \in DOMAIN q.plan :
       q.plan[i].id = q.plan[j].id => i = j
  /\ {MaxCalls, MaxCrashes} \subseteq Nat

\* A ledger line.  Hashes do not collide: the hash of a line is what it is
\* computed from, its prediction and all those before it.
Entry == [prediction : Prediction, prev : Seq(Prediction)]
Hash(e) == Append(e.prev, e.prediction)

\* The bytes of the ledger file, as far as its hash tells them apart: the
\* entries written to it in full, and how many of them were there at each
\* place where a line is not one entry.
Text == [entries : Seq(Entry), cuts : Seq(Nat)]

\* The run record without its two timestamps: the fields the request
\* determines, and the hashes of the artifact and of the whole ledger.
RunRecord == [request : Requests, output : Seq(Seq(Prediction)), ledger : Text]

VARIABLES
  \* files
  ledger,    \* ledger/predictions.jsonl: the entries in it
  cuts,      \* where a line of it is part of an entry, or two run together
  unended,   \* the last entry has no newline
  artifact,  \* predictions/<run_id>.json
  record,    \* runs/<run_id>.json
  \* one caller each
  pc,
  req,       \* the request it serves
  next,      \* index of the prediction to append next
  prev,      \* previous_hash, once read
  output,    \* the artifact text it hashed
  seen,      \* the ledger it hashed or counted
  \* history and bounds
  answered,  \* answers given: the request and the ledger they report
  calls, crashes

files  == <<ledger, cuts, unended, artifact, record>>
caller == <<pc, req, next, prev, output, seen>>
vars   == <<files, caller, answered, calls, crashes>>

LedgerText == [entries |-> ledger, cuts |-> cuts]

Init ==
  /\ ledger = <<>> /\ cuts = <<>> /\ unended = FALSE
  /\ artifact = [r \in RunIds |-> Absent]
  /\ record = [r \in RunIds |-> Absent]
  /\ pc = [c \in Callers |-> "idle"]
  /\ req \in [Callers -> Requests]
  /\ next = [c \in Callers |-> 1]
  /\ prev = [c \in Callers |-> <<>>]
  /\ output = [c \in Callers |-> <<>>]
  /\ seen = [c \in Callers |-> LedgerText]
  /\ answered = {} /\ calls = 0 /\ crashes = 0

(***************************************************************************)
(* Helpers                                                                 *)
(***************************************************************************)
GoTo(c, to) == pc' = [pc EXCEPT ![c] = to]

Run(c)  == req[c].run
Plan(c) == req[c].plan
Wanted(c) == Plan(c)[next[c]]

\* previous_hash; GENESIS is the empty sequence.
LastHash(l) == IF l = <<>> THEN <<>> ELSE Hash(l[Len(l)])

\* ShadowLedger.records: json.loads raises on a line that is not one entry.
Readable == cuts = <<>>

\* ShadowLedger.verify, of what it reads.
Linked(l) ==
  \A i \in DOMAIN l : l[i].prev = IF i = 1 THEN <<>> ELSE Hash(l[i - 1])
Unique(l) ==
  \A i, j \in DOMAIN l : l[i].prediction.id = l[j].prediction.id => i = j
Intact(l) == Linked(l) /\ Unique(l)

\* Lines of the ledger with an id; the dictionary of existing records keeps
\* the last one.
Lines(id) == {i \in DOMAIN ledger : ledger[i].prediction.id = id}
Existing(p) ==
  \E i \in Lines(p.id) :
    ledger[i].prediction = p /\ \A j \in Lines(p.id) : j <= i

\* Mutant: the last prediction is left out.
AdvanceShort(c) ==
  /\ next' = [next EXCEPT ![c] = @ + 1]
  /\ GoTo(c, IF next[c] + 1 < Len(Plan(c)) THEN "verify" ELSE "final")

\* The next prediction, or the final verification after the last one.
Advance(c) ==
  /\ next' = [next EXCEPT ![c] = @ + 1]
  /\ GoTo(c, IF next[c] < Len(Plan(c)) THEN "verify" ELSE "final")

Refuse(c) ==
  /\ GoTo(c, "refused")
  /\ UNCHANGED <<files, req, next, prev, output, seen, answered, calls, crashes>>

NewRecord(c) == [request |-> req[c], output |-> output[c], ledger |-> seen[c]]

(***************************************************************************)
(* One call                                                                *)
(***************************************************************************)
Start(c) ==
  /\ pc[c] = "idle" /\ calls < MaxCalls
  /\ calls' = calls + 1
  /\ \E q \in Requests : req' = [req EXCEPT ![c] = q]
  /\ GoTo(c, "check")
  /\ UNCHANGED <<files, next, prev, output, seen, answered, crashes>>

\* existing prediction artifact conflict: refusing mutation
ArtifactConflict(c) ==
  /\ pc[c] = "check"
  /\ artifact[Run(c)] \notin {Absent, Whole(Plan(c))}
  /\ Refuse(c)

\* Mutant: whatever is there is kept.
ArtifactAcceptableAny(c) ==
  /\ pc[c] = "check"
  /\ GoTo(c, "exists")
  /\ UNCHANGED <<files, req, next, prev, output, seen, answered, calls, crashes>>

ArtifactAcceptable(c) ==
  /\ pc[c] = "check"
  /\ artifact[Run(c)] \in {Absent, Whole(Plan(c))}
  /\ GoTo(c, "exists")
  /\ UNCHANGED <<files, req, next, prev, output, seen, answered, calls, crashes>>

FindArtifact(c) ==
  /\ pc[c] = "exists"
  /\ GoTo(c, IF artifact[Run(c)].exists THEN "hash" ELSE "open")
  /\ UNCHANGED <<files, req, next, prev, output, seen, answered, calls, crashes>>

OpenArtifact(c) ==
  /\ pc[c] = "open"
  /\ artifact' = [artifact EXCEPT ![Run(c)] = Torn]
  /\ GoTo(c, "write")
  /\ UNCHANGED <<ledger, cuts, unended, record, req, next, prev, output, seen, answered, calls, crashes>>

WriteArtifact(c) ==
  /\ pc[c] = "write"
  /\ artifact' = [artifact EXCEPT ![Run(c)] = Whole(Plan(c))]
  /\ GoTo(c, "hash")
  /\ UNCHANGED <<ledger, cuts, unended, record, req, next, prev, output, seen, answered, calls, crashes>>

\* Mutant: an artifact found on disk counts as issued.
HashArtifactOnly(c) ==
  /\ pc[c] = "hash"
  /\ output' = [output EXCEPT ![c] = artifact[Run(c)].text]
  /\ next' = [next EXCEPT ![c] = 1]
  /\ GoTo(c, "final")
  /\ UNCHANGED <<files, req, prev, seen, answered, calls, crashes>>

\* output_sha256, from the file as it is read back.
HashArtifact(c) ==
  /\ pc[c] = "hash"
  /\ output' = [output EXCEPT ![c] = artifact[Run(c)].text]
  /\ next' = [next EXCEPT ![c] = 1]
  /\ GoTo(c, IF Plan(c) = <<>> THEN "final" ELSE "verify")
  /\ UNCHANGED <<files, req, prev, seen, answered, calls, crashes>>

\* Whoever reads a ledger with a cut line is refused.
LedgerUnreadable(c) ==
  /\ pc[c] \in {"verify", "look", "link", "final", "count"}
  /\ ~Readable
  /\ Refuse(c)

\* The verification before each append and after the last one.
LedgerBroken(c) ==
  /\ pc[c] \in {"verify", "final"}
  /\ Readable /\ ~Intact(ledger)
  /\ Refuse(c)

\* Mutant: a broken ledger is accepted.
LedgerUnverified(c) ==
  /\ pc[c] \in {"verify", "final"}
  /\ GoTo(c, IF pc[c] = "verify" THEN "look" ELSE "sha")
  /\ UNCHANGED <<files, req, next, prev, output, seen, answered, calls, crashes>>

LedgerVerified(c) ==
  /\ pc[c] \in {"verify", "final"}
  /\ Readable /\ Intact(ledger)
  /\ GoTo(c, IF pc[c] = "verify" THEN "look" ELSE "sha")
  /\ UNCHANGED <<files, req, next, prev, output, seen, answered, calls, crashes>>

\* Mutant: a prediction that is there is a conflict.
IssuedRefused(c) ==
  /\ pc[c] = "look" /\ Readable
  /\ Lines(Wanted(c).id) # {}
  /\ Refuse(c)

\* Already there: nothing is appended.
AlreadyIssued(c) ==
  /\ pc[c] = "look" /\ Readable
  /\ Existing(Wanted(c))
  /\ Advance(c)
  /\ UNCHANGED <<files, req, prev, output, seen, answered, calls, crashes>>

\* prediction ID conflict: existing record would be mutated
IdConflict(c) ==
  /\ pc[c] = "look" /\ Readable
  /\ Lines(Wanted(c).id) # {}
  /\ ~Existing(Wanted(c))
  /\ Refuse(c)

NotIssued(c) ==
  /\ pc[c] = "look" /\ Readable
  /\ Lines(Wanted(c).id) = {}
  /\ GoTo(c, "link")
  /\ UNCHANGED <<files, req, next, prev, output, seen, answered, calls, crashes>>

\* Mutant: the hash of the caller's own last line is remembered.
LinkCached(c) ==
  /\ pc[c] = "link" /\ Readable
  /\ prev' = [prev EXCEPT ![c] = IF @ = <<>> THEN LastHash(ledger) ELSE @]
  /\ GoTo(c, "append")
  /\ UNCHANGED <<files, req, next, output, seen, answered, calls, crashes>>

Link(c) ==
  /\ pc[c] = "link" /\ Readable
  /\ prev' = [prev EXCEPT ![c] = LastHash(ledger)]
  /\ GoTo(c, "append")
  /\ UNCHANGED <<files, req, next, output, seen, answered, calls, crashes>>

NewEntry(c) == [prediction |-> Wanted(c), prev |-> prev[c]]

\* What is written after an entry without newline runs together with it.
CutsWritten == IF unended THEN Append(cuts, Len(ledger)) ELSE cuts

AppendEntry(c) ==
  /\ pc[c] = "append"
  /\ ledger' = Append(ledger, NewEntry(c))
  /\ cuts' = CutsWritten /\ unended' = FALSE
  /\ Advance(c)
  /\ UNCHANGED <<artifact, record, req, prev, output, seen, answered, calls, crashes>>

\* The write is cut short, by a death or a full disk: part of the entry is
\* in the file, or all of it but its newline.
CutAppend(c) ==
  /\ pc[c] = "append" /\ crashes < MaxCrashes
  /\ crashes' = crashes + 1
  /\ \/ ledger' = ledger /\ cuts' = Append(cuts, Len(ledger)) /\ unended' = FALSE
     \/ ledger' = Append(ledger, NewEntry(c)) /\ cuts' = CutsWritten /\ unended' = TRUE
  /\ GoTo(c, "idle")
  /\ UNCHANGED <<artifact, record, req, next, prev, output, seen, answered, calls>>

\* ledger_sha256: of the whole ledger, other runs' predictions included.
HashLedger(c) ==
  /\ pc[c] = "sha"
  /\ seen' = [seen EXCEPT ![c] = LedgerText]
  /\ GoTo(c, "record")
  /\ UNCHANGED <<files, req, next, prev, output, answered, calls, crashes>>

FindRecord(c) ==
  /\ pc[c] = "record"
  /\ GoTo(c, IF record[Run(c)].exists THEN "compare" ELSE "openrecord")
  /\ UNCHANGED <<files, req, next, prev, output, seen, answered, calls, crashes>>

\* An empty file does not parse; any other difference is a conflict.
RecordConflict(c) ==
  /\ pc[c] = "compare"
  /\ record[Run(c)] # Whole(NewRecord(c))
  /\ Refuse(c)

\* Mutant: ledger_sha256 counts as a runtime field.
RecordAgreesLoosely(c) ==
  /\ pc[c] = "compare"
  /\ record[Run(c)].text # <<>>
  /\ record[Run(c)].text[1].request = req[c]
  /\ GoTo(c, "count")
  /\ UNCHANGED <<files, req, next, prev, output, seen, answered, calls, crashes>>

RecordAgrees(c) ==
  /\ pc[c] = "compare"
  /\ record[Run(c)] = Whole(NewRecord(c))
  /\ GoTo(c, "count")
  /\ UNCHANGED <<files, req, next, prev, output, seen, answered, calls, crashes>>

OpenRecord(c) ==
  /\ pc[c] = "openrecord"
  /\ record' = [record EXCEPT ![Run(c)] = Torn]
  /\ GoTo(c, "writerecord")
  /\ UNCHANGED <<ledger, cuts, unended, artifact, req, next, prev, output, seen, answered, calls, crashes>>

WriteRecord(c) ==
  /\ pc[c] = "writerecord"
  /\ record' = [record EXCEPT ![Run(c)] = Whole(NewRecord(c))]
  /\ GoTo(c, "count")
  /\ UNCHANGED <<ledger, cuts, unended, artifact, req, next, prev, output, seen, answered, calls, crashes>>

\* predict: the counts of the answer, then the hash of the ledger.
CountLedger(c) ==
  /\ pc[c] = "count" /\ Readable
  /\ seen' = [seen EXCEPT ![c] = LedgerText]
  /\ GoTo(c, "answer")
  /\ UNCHANGED <<files, req, next, prev, output, answered, calls, crashes>>

Answer(c) ==
  /\ pc[c] = "answer"
  /\ answered' = answered \union
       {[request |-> req[c], count |-> Len(seen[c].entries), ledger |-> LedgerText]}
  /\ GoTo(c, "idle")
  /\ UNCHANGED <<files, req, next, prev, output, seen, calls, crashes>>

\* The refusal reaches the client (blocked_provenance).
Return(c) ==
  /\ pc[c] = "refused"
  /\ GoTo(c, "idle")
  /\ UNCHANGED <<files, req, next, prev, output, seen, answered, calls, crashes>>

\* The process dies; the files stay as they are.
Crash(c) ==
  /\ pc[c] \notin {"idle", "refused"}
  /\ crashes < MaxCrashes
  /\ crashes' = crashes + 1
  /\ GoTo(c, "idle")
  /\ UNCHANGED <<files, req, next, prev, output, seen, answered, calls>>

Artifact(c) ==
  \/ ArtifactConflict(c) \/ ArtifactAcceptable(c) \/ FindArtifact(c)
  \/ OpenArtifact(c) \/ WriteArtifact(c) \/ HashArtifact(c)

Ledger(c) ==
  \/ LedgerUnreadable(c) \/ LedgerBroken(c) \/ LedgerVerified(c)
  \/ AlreadyIssued(c) \/ IdConflict(c) \/ NotIssued(c)
  \/ Link(c) \/ AppendEntry(c) \/ CutAppend(c) \/ HashLedger(c)

Record(c) ==
  \/ FindRecord(c) \/ RecordConflict(c) \/ RecordAgrees(c)
  \/ OpenRecord(c) \/ WriteRecord(c) \/ CountLedger(c)

\* Everyone is done and no call is left to start.
Quiet ==
  /\ calls = MaxCalls /\ \A c \in Callers : pc[c] = "idle"
  /\ UNCHANGED vars

Next ==
  \/ \E c \in Callers :
       Start(c) \/ Artifact(c) \/ Ledger(c) \/ Record(c) \/ Answer(c) \/ Return(c) \/ Crash(c)
  \/ Quiet

Spec == Init /\ [][Next]_vars

(***************************************************************************)
(* Properties                                                              *)
(***************************************************************************)
Places ==
  {"idle", "check", "exists", "open", "write", "hash", "verify", "look", "link",
   "append", "final", "sha", "record", "compare", "openrecord", "writerecord",
   "count", "answer", "refused"}

TypeOK ==
  /\ ledger \in Seq(Entry) /\ cuts \in Seq(Nat) /\ unended \in BOOLEAN
  /\ artifact \in [RunIds -> File(Seq(Prediction))]
  /\ record \in [RunIds -> File(RunRecord)]
  /\ pc \in [Callers -> Places]
  /\ req \in [Callers -> Requests]
  /\ next \in [Callers -> Nat]
  /\ prev \in [Callers -> Seq(Prediction)]
  /\ output \in [Callers -> Seq(Seq(Prediction))]
  /\ seen \in [Callers -> Text]
  /\ answered \subseteq [request : Requests, count : Nat, ledger : Text]
  /\ calls \in Nat /\ crashes \in Nat

\* Claimed by docs/archive/cycle_39_shadow_mode.md: the ledger is one hash
\* chain without duplicate ids.  One caller at a time keeps its entries so
\* through deaths and replays, a death inside an append included: that one
\* makes the ledger unreadable, but only at its end, where nothing follows
\* but an entry run together with the one before it.  Two callers at once
\* fork the chain.
ChainIntact ==
  /\ Intact(ledger)
  /\ \A i \in DOMAIN cuts : cuts[i] >= Len(ledger) - 1

\* The run record of r, if it is there and whole.
Recorded(r) == Contents(record[r])

Issued(l, p) == \E i \in DOMAIN l : l[i].prediction = p

\* A run is recorded as completed only over a ledger in which every
\* prediction it issues is written, however the calls are interleaved.
RecordCoversPlan ==
  \A r \in RunIds : \A run \in Recorded(r) :
    \A i \in DOMAIN run.request.plan : Issued(run.ledger.entries, run.request.plan[i])

\* The run record describes the artifact beside it: output_sha256 is the hash
\* of a whole artifact with the plan of the recorded request.
RecordMatchesArtifact ==
  \A r \in RunIds : \A run \in Recorded(r) :
    run.output = <<run.request.plan>> /\ artifact[r] = Whole(run.request.plan)

\* A request that is answered again is answered the same: same counts, same
\* ledger, so the same response_content_sha256; and its counts are those of
\* the ledger whose hash it reports.
AnswersAgree ==
  \A a, b \in answered :
    /\ a.count = Len(a.ledger.entries)
    /\ a.request = b.request => a = b

\* Requests that can never both be served: one run id for two plans, or one
\* prediction id with two training cutoffs.
Clash(p, q) ==
  \/ p # q /\ p.run = q.run
  \/ \E i \in DOMAIN p.plan, j \in DOMAIN q.plan :
       p.plan[i].id = q.plan[j].id /\ p.plan[i] # q.plan[j]

\* A call that died is resumed by repeating the request: it is refused only
\* if a death left an empty file or cut a line of the ledger, other requests
\* clash with it, or the ledger has grown since the run was recorded.
ResumedUnlessTorn ==
  \A c \in Callers :
    pc[c] = "refused" =>
      \/ Torn \in {artifact[Run(c)], record[Run(c)]} \/ ~Readable
      \/ \E q \in Requests : Clash(q, req[c])
      \/ \E run \in Recorded(Run(c)) : run.ledger # LedgerText

\* One caller at a time, the entries in the output root are a PredictionLog.
Log == INSTANCE PredictionLog WITH
  Predictions <- Prediction,
  Plans <- {q.plan : q \in Requests},
  log <- [i \in DOMAIN ledger |-> ledger[i].prediction],
  complete <- UNION {{run.request.plan : run \in Recorded(r)} : r \in RunIds}

ImplementsLog == Log!Spec

\* The first n entries are intact, each on a line of its own.
Undamaged(n) == Intact(SubSeq(ledger, 1, n)) /\ \A i \in DOMAIN cuts : cuts[i] >= n

\* Callers can break the ledger, two at once or one that dies in an append,
\* but the damage stays small: every later verification refuses, so that at
\* most one entry per caller is written after the first damage.
BreakContained ==
  \E n \in 0 .. Len(ledger) : Undamaged(n) /\ Len(ledger) - n <= Cardinality(Callers)

\* Claimed by docs/archive/cycle_42_local_api_gateway.md and by
\* docs/archive/cycle_41_prediction_service_core.md: a request that was
\* answered is answered again with the same content, never refused.
ReplayAccepted ==
  \A c \in Callers :
    pc[c] = "refused" => \A a \in answered : a.request # req[c]
=============================================================================
