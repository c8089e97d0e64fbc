----------------------------- MODULE ShadowIngest -----------------------------
(***************************************************************************)
(* Shadow ingestion of provider fixtures: scripts_run_local_shadow.py       *)
(* (script "loop") and scripts_run_ai_shadow_pipeline.py ("pipeline") with  *)
(* the OpenLigaDB client and its cache, OpenLigaDBShadowIngestor.run_once,   *)
(* the SQLite store, its backup and restore, and audit_ai_store.            *)
(*                                                                         *)
(* A step ends at each request and each committed transaction.  A response  *)
(* of the provider is what it says of kickoffs; it stands for its hash and   *)
(* for the manifest fingerprint.  There is one league, season and AI model. *)
(***************************************************************************)
EXTENDS ProviderSeason, Sequences

CONSTANTS
  Processes,     \* slots for running scripts, all on one database
  MaxTime,       \* bound: clock
  MaxRuns,       \* bound: calls of run_once
  MaxDeaths,     \* bound: scripts that die
  MaxChanges,    \* bound: changes at the provider
  MaxBackups     \* bound: backups taken, and backups restored

VARIABLES
  provider,    \* what a request would be answered now
  clock,
  \* processes
  pc,
  script,
  cache,       \* OpenLigaDBClient._cache: empty, or one response and its time
  asOf,        \* as_of_utc of the run
  batch,       \* the response last returned by fetch_league_season
  fetchedAt,   \* its fetched_at_utc
  cited,       \* ingest_result.manifest_fingerprint
  left,        \* matches the loop at hand has not come to
  inserted,
  \* files
  db,
  backup,      \* the backup file, if there is one
  \* history and bounds
  served,      \* responses given so far
  overlapped,  \* two scripts have been running at once
  runs, deaths, changes, backups, restores

processes == <<pc, script, cache, asOf, batch, fetchedAt, cited, left, inserted>>
environment == <<provider, clock, changes>>
operator == <<backup, backups, restores>>
vars == <<environment, processes, db, operator, served, overlapped, runs, deaths>>

\* A process that has not fetched anything.
NoResponse == <<>>

Fixture ==
  [match : Matches, kickoff : Nat, source : Responses, first_seen : Nat, last_seen : Nat]
IngestionRun == [as_of : Nat, manifest : Responses, accepted : Nat]
\* What the store keeps of an analysis, and, as history, the response it was
\* made from and captured_at_utc of its evidence.
Analysis ==
  [match : Matches, as_of : Nat, source : Responses, seen : Responses, captured : Nat]
Database ==
  [manifests : SUBSET Responses, fixtures : SUBSET Fixture, runs : SUBSET IngestionRun,
   audits : SUBSET (Nat \X Responses), analyses : SUBSET Analysis]

Empty == [manifests |-> {}, fixtures |-> {}, runs |-> {}, audits |-> {}, analyses |-> {}]

Init ==
  /\ provider \in Responses /\ clock = 0
  /\ pc = [p \in Processes |-> "off"]
  /\ script = [p \in Processes |-> "loop"]
  /\ cache = [p \in Processes |-> <<>>]
  /\ asOf = [p \in Processes |-> 0] /\ fetchedAt = asOf
  /\ batch = [p \in Processes |-> NoResponse] /\ cited = batch
  /\ left = [p \in Processes |-> {}]
  /\ inserted = [p \in Processes |-> 0]
  /\ db = Empty /\ backup = <<>>
  /\ served = {} /\ overlapped = FALSE
  /\ runs = 0 /\ deaths = 0 /\ changes = 0 /\ backups = 0 /\ restores = 0

GoTo(p, place) == pc' = [pc EXCEPT ![p] = place]

\* The process ends, and what it had in memory is gone.
Vanish(p) ==
  /\ GoTo(p, "off")
  /\ script' = [script EXCEPT ![p] = "loop"]
  /\ cache' = [cache EXCEPT ![p] = <<>>]
  /\ asOf' = [asOf EXCEPT ![p] = 0]
  /\ batch' = [batch EXCEPT ![p] = NoResponse]
  /\ fetchedAt' = [fetchedAt EXCEPT ![p] = 0]
  /\ cited' = [cited EXCEPT ![p] = NoResponse]
  /\ left' = [left EXCEPT ![p] = {}]
  /\ inserted' = [inserted EXCEPT ![p] = 0]

(***************************************************************************)
(* The client                                                              *)
(***************************************************************************)
\* Without a time to live an entry is fresh for ever.
CacheFresh(p) ==
  \E i \in DOMAIN cache[p] : script[p] = "loop" \/ clock < cache[p][i].at + Ttl

\* Matches of a response that start after t, in the order the batch has.
UpcomingFromNow(response, t) == {m \in DOMAIN response : response[m] >= t}

Upcoming(response, t) == {m \in DOMAIN response : response[m] > t}

Precedes(response, m, n) ==
  response[m] < response[n] \/ (response[m] = response[n] /\ m < n)

IsFirst(m, S, response) == m \in S /\ \A n \in S \ {m} : Precedes(response, m, n)

\* upcoming[: args.max_fixtures]
Selected(response, t) ==
  LET S == Upcoming(response, t)
  IN  {m \in S : Cardinality({n \in S : Precedes(response, n, m)}) < MaxFixtures}

\* What the caller of fetch_league_season goes on with.
Continue(p, response) ==
  /\ batch' = [batch EXCEPT ![p] = response]
  /\ fetchedAt' = [fetchedAt EXCEPT ![p] = clock]
  /\ \/ /\ pc[p] = "fetch"
        /\ left' = [left EXCEPT ![p] = Upcoming(response, asOf[p])]
        /\ GoTo(p, "manifest")
     \/ /\ pc[p] = "refetch"
        /\ left' = [left EXCEPT ![p] = Selected(response, asOf[p])]
        /\ GoTo(p, "analyze")

FetchCached(p) ==
  /\ pc[p] \in {"fetch", "refetch"}
  /\ CacheFresh(p)
  /\ \E i \in DOMAIN cache[p] : Continue(p, cache[p][i].response)
  /\ UNCHANGED <<environment, script, cache, asOf, cited, inserted, db, operator,
                 served, overlapped, runs, deaths>>

\* A request that fails ends the script: see Die.
FetchProvider(p) ==
  /\ pc[p] \in {"fetch", "refetch"}
  /\ ~CacheFresh(p)
  /\ cache' = [cache EXCEPT ![p] = <<[response |-> provider, at |-> clock]>>]
  /\ served' = served \union {provider}
  /\ Continue(p, provider)
  /\ UNCHANGED <<environment, script, asOf, cited, inserted, db, operator, overlapped,
                 runs, deaths>>

(***************************************************************************)
(* run_once                                                                *)
(***************************************************************************)
RecordManifest(p) ==
  /\ pc[p] = "manifest"
  /\ db' = [db EXCEPT !.manifests = @ \union {batch[p]}]
  /\ cited' = [cited EXCEPT ![p] = batch[p]]
  /\ GoTo(p, "fixtures")
  /\ UNCHANGED <<environment, script, cache, asOf, batch, fetchedAt, left, inserted,
                 operator, served, overlapped, runs, deaths>>

Known(m) == \E f \in db.fixtures : f.match = m

NewFixture(p, m) ==
  [match |-> m, kickoff |-> batch[p][m], source |-> batch[p],
   first_seen |-> asOf[p], last_seen |-> asOf[p]]

\* The kickoff of a known fixture stays as it is.
SeenAgain(p, m) ==
  {IF f.match = m THEN [f EXCEPT !.last_seen = asOf[p], !.source = batch[p]] ELSE f :
     f \in db.fixtures}

\* Mutant: a known fixture counts as accepted.
RecordFixtureCounting(p) ==
  /\ pc[p] = "fixtures"
  /\ \E m \in left[p] :
       /\ IsFirst(m, left[p], batch[p])
       /\ left' = [left EXCEPT ![p] = @ \ {m}]
       /\ db' = [db EXCEPT !.fixtures = IF Known(m) THEN SeenAgain(p, m)
                                        ELSE @ \union {NewFixture(p, m)}]
       /\ inserted' = [inserted EXCEPT ![p] = @ + 1]
  /\ UNCHANGED <<environment, pc, script, cache, asOf, batch, fetchedAt, cited,
                 operator, served, overlapped, runs, deaths>>

RecordFixture(p) ==
  /\ pc[p] = "fixtures"
  /\ \E m \in left[p] :
       /\ IsFirst(m, left[p], batch[p])
       /\ left' = [left EXCEPT ![p] = @ \ {m}]
       /\ \/ /\ ~Known(m)
             /\ db' = [db EXCEPT !.fixtures = @ \union {NewFixture(p, m)}]
             /\ inserted' = [inserted EXCEPT ![p] = @ + 1]
          \/ /\ Known(m)
             /\ db' = [db EXCEPT !.fixtures = SeenAgain(p, m)]
             /\ UNCHANGED inserted
  /\ UNCHANGED <<environment, pc, script, cache, asOf, batch, fetchedAt, cited,
                 operator, served, overlapped, runs, deaths>>

\* A run of the same time and manifest is replaced.
RecordRun(p) ==
  /\ pc[p] = "fixtures" /\ left[p] = {}
  /\ db' = [db EXCEPT !.runs =
       {r \in @ : r.as_of # asOf[p] \/ r.manifest # batch[p]}
         \union {[as_of |-> asOf[p], manifest |-> batch[p], accepted |-> inserted[p]]}]
  /\ GoTo(p, "audit")
  /\ UNCHANGED <<environment, script, cache, asOf, batch, fetchedAt, cited, left,
                 inserted, operator, served, overlapped, runs, deaths>>

RecordAudit(p) ==
  /\ pc[p] = "audit"
  /\ db' = [db EXCEPT !.audits = @ \union {<<asOf[p], batch[p]>>}]
  /\ inserted' = [inserted EXCEPT ![p] = 0]
  /\ GoTo(p, IF script[p] = "loop" THEN "waiting" ELSE "refetch")
  /\ UNCHANGED <<environment, script, cache, asOf, batch, fetchedAt, cited, left,
                 operator, served, overlapped, runs, deaths>>

(***************************************************************************)
(* The scripts                                                             *)
(***************************************************************************)
Launch(p) ==
  /\ pc[p] = "off" /\ runs < MaxRuns
  /\ runs' = runs + 1
  /\ \E s \in {"loop", "pipeline"} : script' = [script EXCEPT ![p] = s]
  /\ asOf' = [asOf EXCEPT ![p] = clock]
  /\ overlapped' = (overlapped \/ \E q \in Processes \ {p} : pc[q] # "off")
  /\ GoTo(p, "fetch")
  /\ UNCHANGED <<environment, cache, batch, fetchedAt, cited, left, inserted, db,
                 operator, served, deaths>>

NextIteration(p) ==
  /\ pc[p] = "waiting" /\ runs < MaxRuns
  /\ runs' = runs + 1
  /\ asOf' = [asOf EXCEPT ![p] = clock]
  /\ GoTo(p, "fetch")
  /\ UNCHANGED <<environment, script, cache, batch, fetchedAt, cited, left, inserted,
                 db, operator, served, overlapped, deaths>>

\* Mutant: the analysis is dated when it is stored.
NewAnalysisNow(p, m) ==
  [match |-> m, as_of |-> clock, source |-> cited[p], seen |-> batch[p],
   captured |-> fetchedAt[p]]

\* Mutant: the manifest of the response at hand is cited.
NewAnalysisOfBatch(p, m) ==
  [match |-> m, as_of |-> asOf[p], source |-> batch[p], seen |-> batch[p],
   captured |-> fetchedAt[p]]

NewAnalysis(p, m) ==
  [match |-> m, as_of |-> asOf[p], source |-> cited[p], seen |-> batch[p],
   captured |-> fetchedAt[p]]

\* record_ai_analysis: UNIQUE(match_id, as_of_utc, model_name)
Analyzed(p, m) == \E a \in db.analyses : a.match = m /\ a.as_of = NewAnalysis(p, m).as_of

\* validate_ai_output accepts the answer of the model.
StoreAnalysis(p) ==
  /\ pc[p] = "analyze"
  /\ \E m \in left[p] :
       /\ IsFirst(m, left[p], batch[p])
       /\ left' = [left EXCEPT ![p] = @ \ {m}]
       /\ db' = [db EXCEPT !.analyses = IF Analyzed(p, m) THEN @
                                        ELSE @ \union {NewAnalysis(p, m)}]
  /\ UNCHANGED <<environment, pc, script, cache, asOf, batch, fetchedAt, cited,
                 inserted, operator, served, overlapped, runs, deaths>>

\* AIAnalysisError; also what happens to every match without --allow-ai.
Quarantine(p) ==
  /\ pc[p] = "analyze"
  /\ \E m \in left[p] :
       /\ IsFirst(m, left[p], batch[p])
       /\ left' = [left EXCEPT ![p] = @ \ {m}]
  /\ UNCHANGED <<environment, pc, script, cache, asOf, batch, fetchedAt, cited,
                 inserted, db, operator, served, overlapped, runs, deaths>>

\* The last iteration, the stop file or a signal; or the last match.
Exit(p) ==
  /\ pc[p] = "waiting" \/ (pc[p] = "analyze" /\ left[p] = {})
  /\ Vanish(p)
  /\ UNCHANGED <<environment, db, operator, served, overlapped, runs, deaths>>

\* A kill, a request that fails, a locked database: nothing is caught.
Die(p) ==
  /\ pc[p] # "off" /\ deaths < MaxDeaths
  /\ deaths' = deaths + 1
  /\ Vanish(p)
  /\ UNCHANGED <<environment, db, operator, served, overlapped, runs>>

Script(p) ==
  \/ FetchCached(p) \/ FetchProvider(p) \/ RecordManifest(p) \/ RecordFixture(p)
  \/ RecordRun(p) \/ RecordAudit(p) \/ StoreAnalysis(p) \/ Quarantine(p) \/ Exit(p)

(***************************************************************************)
(* The operator and the world                                              *)
(***************************************************************************)
\* backup_to copies the database as of one moment to a temporary file and
\* moves it over the backup.
Backup ==
  /\ backups < MaxBackups
  /\ backups' = backups + 1
  /\ backup' = <<db>>
  /\ UNCHANGED <<environment, processes, db, served, overlapped, runs, deaths,
                 restores>>

\* restore_from, which the operator runs while no script is running.
Restore ==
  /\ \A p \in Processes : pc[p] = "off"
  /\ restores < MaxBackups
  /\ restores' = restores + 1
  /\ \E i \in DOMAIN backup : db' = backup[i]
  /\ UNCHANGED <<environment, processes, backup, backups, served, overlapped, runs,
                 deaths>>

Tick ==
  /\ clock < MaxTime
  /\ clock' = clock + 1
  /\ UNCHANGED <<provider, changes, processes, db, operator, served, overlapped, runs,
                 deaths>>

ProviderChanges ==
  /\ changes < MaxChanges
  /\ changes' = changes + 1
  /\ provider' \in Responses \ {provider}
  /\ UNCHANGED <<clock, processes, db, operator, served, overlapped, runs, deaths>>

\* No run is left to start.
Quiet == (\A p \in Processes : pc[p] = "off") /\ runs = MaxRuns /\ UNCHANGED vars

Next ==
  \/ \E p \in Processes : Launch(p) \/ NextIteration(p) \/ Script(p) \/ Die(p)
  \/ Backup \/ Restore \/ Tick \/ ProviderChanges \/ Quiet

Spec == Init /\ [][Next]_vars

(***************************************************************************)
(* Properties                                                              *)
(***************************************************************************)
Places ==
  {"off", "fetch", "manifest", "fixtures", "audit", "waiting", "refetch", "analyze"}

TypeOK ==
  /\ provider \in Responses /\ clock \in Nat
  /\ pc \in [Processes -> Places]
  /\ script \in [Processes -> {"loop", "pipeline"}]
  /\ cache \in [Processes -> Seq([response : Responses, at : Nat])]
  /\ asOf \in [Processes -> Nat] /\ fetchedAt \in [Processes -> Nat]
  /\ batch \in [Processes -> Responses \union {NoResponse}]
  /\ cited \in [Processes -> Responses \union {NoResponse}]
  /\ left \in [Processes -> SUBSET Matches]
  /\ \A p \in Processes : left[p] \subseteq DOMAIN batch[p]
  /\ inserted \in [Processes -> Nat]
  /\ db \in Database /\ backup \in Seq(Database)
  /\ served \subseteq Responses /\ overlapped \in BOOLEAN
  /\ runs \in Nat /\ deaths \in Nat /\ changes \in Nat
  /\ backups \in Nat /\ restores \in Nat

\* The schema declares no foreign key: that every reference of a row is to a
\* row that exists rests on the order of the transactions alone, through
\* deaths, concurrent scripts and a restored backup.
Linked(data) ==
  /\ \A f \in data.fixtures : f.source \in data.manifests
  /\ \A r \in data.runs : r.manifest \in data.manifests
  /\ \A a \in data.analyses : a.source \in data.manifests
  /\ \A e \in data.audits : \E r \in data.runs : e = <<r.as_of, r.manifest>>

RowsLinked == Linked(db) /\ \A i \in DOMAIN backup : Linked(backup[i])

\* A fixture was first seen before the kickoff it is stored with, last seen
\* before the kickoff its source now gives, and, if scripts never overlapped,
\* not last seen before it was first seen.
FixtureTimes ==
  \A f \in db.fixtures :
    /\ f.first_seen < f.kickoff
    /\ f.match \in DOMAIN f.source /\ f.last_seen < f.source[f.match]
    /\ ~overlapped => f.first_seen <= f.last_seen

\* The accepted rows that the runs claim are there: each run can be given as
\* many matches as it counted, first seen at its time, and no match is given to
\* two runs.  So no fixture is counted twice, and none that is gone.
CountsAccounted ==
  \E own \in [db.runs -> SUBSET Matches] :
    /\ \A r \in db.runs :
         /\ Cardinality(own[r]) = r.accepted
         /\ \A m \in own[r] : \E f \in db.fixtures : f.match = m /\ f.first_seen = r.as_of
    /\ \A r, s \in db.runs : r # s => own[r] \intersect own[s] = {}

\* all_analysis_sources_exist and all_analysis_cutoffs_precede_kickoff of
\* audit_ai_store, for one analysis
AuditPasses(a) ==
  /\ a.source \in db.manifests
  /\ \E f \in db.fixtures : f.match = a.match
  /\ \A f \in db.fixtures : f.match = a.match => a.as_of < f.kickoff

\* The provider has been inconsistent about a match.
Moved(m) ==
  \E r, s \in served :
    m \in DOMAIN r /\ (m \in DOMAIN s => r[m] # s[m])

\* audit_ai_store fails for an analysis only if the provider moved, added or
\* removed its match meanwhile.
AuditExplained == \A a \in db.analyses : AuditPasses(a) \/ Moved(a.match)

\* An analysis cites another response than the one it was made from only if
\* the time to live had passed since the run began.
CitationsExplained ==
  \A a \in db.analyses : a.source # a.seen => a.captured >= a.as_of + Ttl

\* What an analysis says of its own evidence, and what an audit makes of it, is
\* explained by the provider and the time to live, whatever scripts overlap or die.
AnalysesExplained == AuditExplained /\ CitationsExplained
=============================================================================
