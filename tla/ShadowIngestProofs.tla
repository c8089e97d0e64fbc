-------------------------- MODULE ShadowIngestProofs --------------------------
(***************************************************************************)
(* Theorems about ShadowIngest for any processes, matches, responses, time   *)
(* to live and bounds.                                                      *)
(***************************************************************************)
EXTENDS ShadowIngest, FiniteSetTheorems, TLAPS

(***************************************************************************)
(* Types                                                                   *)
(***************************************************************************)
LEMMA SequenceType ==
  ASSUME NEW S
  PROVE  /\ \A s \in Seq(S) : \A i \in DOMAIN s : s[i] \in S
         /\ \A x \in S : <<x>> \in Seq(S)
         /\ <<>> \in Seq(S)
OBVIOUS

\* A table replaced by rows of its type leaves a database.
LEMMA TablesType ==
  ASSUME NEW data \in Database
  PROVE  /\ \A S \in SUBSET Responses : [data EXCEPT !.manifests = S] \in Database
         /\ \A S \in SUBSET Fixture : [data EXCEPT !.fixtures = S] \in Database
         /\ \A S \in SUBSET IngestionRun : [data EXCEPT !.runs = S] \in Database
         /\ \A S \in SUBSET (Nat \X Responses) : [data EXCEPT !.audits = S] \in Database
         /\ \A S \in SUBSET Analysis : [data EXCEPT !.analyses = S] \in Database
BY DEF Database

LEMMA DatabaseParts ==
  ASSUME TypeOK
  PROVE  /\ db.manifests \subseteq Responses /\ db.fixtures \subseteq Fixture
         /\ db.runs \subseteq IngestionRun /\ db.audits \subseteq Nat \X Responses
         /\ db.analyses \subseteq Analysis
BY DEF TypeOK, Database

LEMMA CountersType ==
  ASSUME TypeOK
  PROVE  /\ clock + 1 \in Nat /\ runs + 1 \in Nat /\ deaths + 1 \in Nat /\ changes + 1 \in Nat
         /\ backups + 1 \in Nat /\ restores + 1 \in Nat
         /\ \A p \in Processes : inserted[p] + 1 \in Nat
BY DEF TypeOK

LEMMA CacheType ==
  ASSUME TypeOK, NEW p \in Processes, NEW i \in DOMAIN cache[p]
  PROVE  cache[p][i].response \in Responses /\ cache[p][i].at \in Nat
<1>1. cache[p] \in Seq([response : Responses, at : Nat])  BY DEF TypeOK
<1>2. cache[p][i] \in [response : Responses, at : Nat]  BY <1>1, SequenceType
<1>. QED  BY <1>2

\* While it works on matches, a process has a response they come from.
LEMMA WorkType ==
  ASSUME TypeOK, NEW p \in Processes, NEW m \in left[p]
  PROVE  m \in Matches /\ m \in DOMAIN batch[p] /\ batch[p] \in Responses /\ batch[p][m] \in Nat
<1>1. m \in DOMAIN batch[p] /\ m \in Matches  BY DEF TypeOK
<1>2. batch[p] # NoResponse
  <2>1. DOMAIN NoResponse = {}  BY DEF NoResponse
  <2>. QED  BY <1>1, <2>1
<1>3. batch[p] \in Responses  BY <1>2 DEF TypeOK
<1>. QED  BY <1>1, <1>3, SeasonAssumption

\* From its first response on, a process has one, and then a citation.
Fetched ==
  \A p \in Processes :
    /\ pc[p] \in {"manifest", "fixtures", "audit", "refetch", "analyze"} => batch[p] \in Responses
    /\ pc[p] \in {"fixtures", "audit", "refetch", "analyze"} => cited[p] \in Responses

TypeInv == TypeOK /\ Fetched

LEMMA InitType == Init => TypeInv
<1>. SUFFICES ASSUME Init PROVE TypeInv  OBVIOUS
<1>1. db \in Database /\ backup \in Seq(Database)  BY DEF Init, Empty, Database
<1>2. cache \in [Processes -> Seq([response : Responses, at : Nat])]  BY DEF Init
<1>3. DOMAIN NoResponse = {}  BY DEF NoResponse
<1>. QED  BY <1>1, <1>2, <1>3 DEF Init, TypeInv, TypeOK, Fetched, Places

LEMMA SelectedType ==
  ASSUME NEW response \in Responses, NEW t
  PROVE  /\ Upcoming(response, t) \subseteq DOMAIN response
         /\ Selected(response, t) \subseteq DOMAIN response
         /\ DOMAIN response \subseteq Matches
BY SeasonAssumption DEF Upcoming, Selected

\* Both ways to fetch hand a response on.
LEMMA ContinueType ==
  ASSUME TypeInv, NEW p \in Processes, NEW response \in Responses, Continue(p, response),
         cited' = cited
  PROVE  /\ pc' \in [Processes -> Places]
         /\ batch' \in [Processes -> Responses \union {NoResponse}]
         /\ left' \in [Processes -> SUBSET Matches]
         /\ \A q \in Processes : left'[q] \subseteq DOMAIN batch'[q]
         /\ fetchedAt' \in [Processes -> Nat]
         /\ Fetched'
<1>. USE DEF TypeInv, TypeOK, Places
<1>1. batch' = [batch EXCEPT ![p] = response] /\ batch'[p] = response  BY DEF Continue
<1>2. batch' \in [Processes -> Responses \union {NoResponse}]  BY <1>1
<1>3. fetchedAt' \in [Processes -> Nat]  BY DEF Continue
<1>4. ASSUME NEW S \in SUBSET DOMAIN response, left' = [left EXCEPT ![p] = S]
      PROVE  /\ left' \in [Processes -> SUBSET Matches]
             /\ \A q \in Processes : left'[q] \subseteq DOMAIN batch'[q]
  <2>1. DOMAIN response \subseteq Matches  BY SelectedType
  <2>2. left'[p] = S /\ \A q \in Processes \ {p} : left'[q] = left[q] /\ batch'[q] = batch[q]
    BY <1>1, <1>4
  <2>. QED  BY <1>1, <1>4, <2>1, <2>2
<1>5. CASE pc[p] = "fetch" /\ left' = [left EXCEPT ![p] = Upcoming(response, asOf[p])]
           /\ GoTo(p, "manifest")
  <2>1. Upcoming(response, asOf[p]) \in SUBSET DOMAIN response  BY SelectedType
  <2>2. pc' \in [Processes -> Places]  BY <1>5 DEF GoTo
  <2>3. Fetched'  BY <1>1, <1>5 DEF GoTo, Fetched
  <2>. QED  BY <1>2, <1>4, <1>5, <1>3, <2>1, <2>2, <2>3
<1>6. CASE pc[p] = "refetch" /\ left' = [left EXCEPT ![p] = Selected(response, asOf[p])]
           /\ GoTo(p, "analyze")
  <2>1. Selected(response, asOf[p]) \in SUBSET DOMAIN response  BY SelectedType
  <2>2. pc' \in [Processes -> Places]  BY <1>6 DEF GoTo
  <2>3. Fetched'  BY <1>1, <1>6 DEF GoTo, Fetched
  <2>. QED  BY <1>2, <1>4, <1>6, <1>3, <2>1, <2>2, <2>3
<1>. QED  BY <1>5, <1>6 DEF Continue

LEMMA NextType == TypeInv /\ [Next]_vars => TypeInv'
<1>. SUFFICES ASSUME TypeInv, [Next]_vars PROVE TypeInv'  OBVIOUS
<1>. USE DEF TypeInv, TypeOK, Fetched, Places, environment, processes, operator
<1>0. DOMAIN NoResponse = {}  BY DEF NoResponse
<1>1. CASE UNCHANGED vars  BY <1>1 DEF vars
<1>2. ASSUME NEW p \in Processes, Launch(p) PROVE TypeInv'
  BY <1>2, CountersType DEF Launch, GoTo
<1>3. ASSUME NEW p \in Processes, NextIteration(p) PROVE TypeInv'
  BY <1>3, CountersType DEF NextIteration, GoTo
<1>4. ASSUME NEW p \in Processes, FetchCached(p) PROVE TypeInv'
  <2>1. PICK i \in DOMAIN cache[p] : Continue(p, cache[p][i].response)  BY <1>4 DEF FetchCached
  <2>2. cache[p][i].response \in Responses  BY CacheType
  <2>3. cited' = cited  BY <1>4 DEF FetchCached
  <2>. HIDE DEF Fetched
  <2>. QED  BY <1>4, <2>1, <2>2, <2>3, ContinueType DEF FetchCached
<1>5. ASSUME NEW p \in Processes, FetchProvider(p) PROVE TypeInv'
  <2>1. Continue(p, provider) /\ cited' = cited  BY <1>5 DEF FetchProvider
  <2>2. cache' \in [Processes -> Seq([response : Responses, at : Nat])]
    <3>1. [response |-> provider, at |-> clock] \in [response : Responses, at : Nat]  OBVIOUS
    <3>2. <<[response |-> provider, at |-> clock]>> \in Seq([response : Responses, at : Nat])
      BY <3>1, SequenceType
    <3>. QED  BY <1>5, <3>2 DEF FetchProvider
  <2>. HIDE DEF Fetched
  <2>. QED  BY <1>5, <2>1, <2>2, ContinueType DEF FetchProvider
<1>6. ASSUME NEW p \in Processes, RecordManifest(p) PROVE TypeInv'
  <2>1. db' \in Database  BY <1>6, TablesType, DatabaseParts DEF RecordManifest
  <2>. QED  BY <1>6, <2>1 DEF RecordManifest, GoTo
<1>7. ASSUME NEW p \in Processes, RecordFixture(p) PROVE TypeInv'
  <2>1. PICK m \in left[p] :
          /\ left' = [left EXCEPT ![p] = @ \ {m}]
          /\ \/ /\ db' = [db EXCEPT !.fixtures = @ \union {NewFixture(p, m)}]
                /\ inserted' = [inserted EXCEPT ![p] = @ + 1]
             \/ /\ db' = [db EXCEPT !.fixtures = SeenAgain(p, m)]
                /\ UNCHANGED inserted
    BY <1>7 DEF RecordFixture
  <2>2. NewFixture(p, m) \in Fixture  BY WorkType DEF NewFixture, Fixture
  <2>3. SeenAgain(p, m) \subseteq Fixture
    <3>1. \A f \in db.fixtures : f \in Fixture  BY DatabaseParts
    <3>2. asOf[p] \in Nat /\ batch[p] \in Responses  BY WorkType
    <3>3. \A f \in db.fixtures : [f EXCEPT !.last_seen = asOf[p], !.source = batch[p]] \in Fixture
      BY <3>1, <3>2 DEF Fixture
    <3>. QED  BY <3>1, <3>3 DEF SeenAgain
  <2>4. db' \in Database
    <3>1. db.fixtures \union {NewFixture(p, m)} \in SUBSET Fixture  BY <2>2, DatabaseParts
    <3>2. db \in Database  OBVIOUS
    <3>3. \A S \in SUBSET Fixture : [db EXCEPT !.fixtures = S] \in Database
      BY <3>2, TablesType
    <3>4. [db EXCEPT !.fixtures = db.fixtures \union {NewFixture(p, m)}] \in Database
      BY <3>1, <3>3
    <3>5. [db EXCEPT !.fixtures = SeenAgain(p, m)] \in Database  BY <2>3, <3>3
    <3>. QED  BY <2>1, <3>4, <3>5
  <2>5. inserted[p] + 1 \in Nat  BY CountersType
  <2>6. inserted' \in [Processes -> Nat]  BY <2>1, <2>5
  <2>. QED  BY <1>7, <2>1, <2>4, <2>6 DEF RecordFixture
<1>8. ASSUME NEW p \in Processes, RecordRun(p) PROVE TypeInv'
  <2>1. [as_of |-> asOf[p], manifest |-> batch[p], accepted |-> inserted[p]] \in IngestionRun
    BY <1>8 DEF RecordRun, IngestionRun
  <2>2. db' \in Database  BY <1>8, <2>1, TablesType, DatabaseParts DEF RecordRun
  <2>. QED  BY <1>8, <2>2 DEF RecordRun, GoTo
<1>9. ASSUME NEW p \in Processes, RecordAudit(p) PROVE TypeInv'
  <2>1. <<asOf[p], batch[p]>> \in Nat \X Responses  BY <1>9 DEF RecordAudit
  <2>2. db.audits \union {<<asOf[p], batch[p]>>} \in SUBSET (Nat \X Responses)
    BY <2>1, DatabaseParts
  <2>3. db' \in Database
    <3>1. \A S \in SUBSET (Nat \X Responses) : [db EXCEPT !.audits = S] \in Database
      BY TablesType
    <3>. QED  BY <1>9, <2>2, <3>1 DEF RecordAudit
  <2>. QED  BY <1>9, <2>3 DEF RecordAudit, GoTo
<1>10. ASSUME NEW p \in Processes, StoreAnalysis(p) PROVE TypeInv'
  <2>1. PICK m \in left[p] :
          /\ left' = [left EXCEPT ![p] = @ \ {m}]
          /\ db' = [db EXCEPT !.analyses = IF Analyzed(p, m) THEN @
                                           ELSE @ \union {NewAnalysis(p, m)}]
    BY <1>10 DEF StoreAnalysis
  <2>2. NewAnalysis(p, m) \in Analysis
    BY <1>10, WorkType DEF NewAnalysis, Analysis, StoreAnalysis
  <2>3. db' \in Database  BY <2>1, <2>2, TablesType, DatabaseParts
  <2>. QED  BY <1>10, <2>1, <2>3 DEF StoreAnalysis
<1>11. ASSUME NEW p \in Processes, Quarantine(p) PROVE TypeInv'
  <2>1. PICK m \in left[p] : left' = [left EXCEPT ![p] = @ \ {m}]  BY <1>11 DEF Quarantine
  <2>2. left' \in [Processes -> SUBSET Matches] /\ batch' = batch
    BY <1>11, <2>1 DEF Quarantine
  <2>3. \A q \in Processes : left'[q] \subseteq DOMAIN batch'[q]  BY <2>1, <2>2
  <2>. QED  BY <1>11, <2>2, <2>3 DEF Quarantine
<1>12. ASSUME NEW p \in Processes, Vanish(p), UNCHANGED <<environment, db, operator, served, overlapped, runs>>,
              deaths' \in Nat
       PROVE  TypeInv'
  <2>1. cache' \in [Processes -> Seq([response : Responses, at : Nat])]
    BY <1>12, SequenceType DEF Vanish
  <2>. QED  BY <1>0, <1>12, <2>1 DEF Vanish, GoTo
<1>13. ASSUME NEW p \in Processes, Exit(p) PROVE TypeInv'
  BY <1>12, <1>13 DEF Exit
<1>14. ASSUME NEW p \in Processes, Die(p) PROVE TypeInv'
  <2>1. deaths' \in Nat  BY <1>14, CountersType DEF Die
  <2>. QED  BY <1>12, <1>14, <2>1 DEF Die
<1>15. CASE Backup
  BY <1>15, CountersType, SequenceType DEF Backup
<1>16. CASE Restore
  <2>1. db' \in Database  BY <1>16, SequenceType DEF Restore
  <2>. QED  BY <1>16, <2>1, CountersType DEF Restore
<1>17. CASE Tick  BY <1>17, CountersType DEF Tick
<1>18. CASE ProviderChanges  BY <1>18, CountersType DEF ProviderChanges
<1>19. CASE Quiet  BY <1>1, <1>19 DEF Quiet
<1>. QED
  BY <1>1, <1>2, <1>3, <1>4, <1>5, <1>6, <1>7, <1>8, <1>9, <1>10, <1>11, <1>13, <1>14, <1>15,
     <1>16, <1>17, <1>18, <1>19 DEF Next, Script

\* Every row of every table, of the backup too, has the type of its table,
\* and every list of matches comes from the response at hand.
THEOREM TypeOKCorrect == Spec => []TypeOK
<1>1. TypeInv => TypeOK  BY DEF TypeInv
<1>. QED  BY <1>1, InitType, NextType, PTL DEF Spec

(***************************************************************************)
(* Rows refer to rows that exist                                           *)
(***************************************************************************)
HasRun(data, t, response) == \E r \in data.runs : r.as_of = t /\ r.manifest = response

\* The manifest a process cites is in the database before anything cites it,
\* and its run before the audit event.
ProcessLinked(p) ==
  /\ pc[p] \in {"fixtures", "audit"} => batch[p] = cited[p]
  /\ pc[p] \in {"fixtures", "audit", "refetch", "analyze"} => cited[p] \in db.manifests
  /\ pc[p] = "audit" => HasRun(db, asOf[p], batch[p])

LinkInv == RowsLinked /\ \A p \in Processes : ProcessLinked(p)

\* No transaction takes a manifest or the last run of its time away.
Grows ==
  /\ db.manifests \subseteq db'.manifests
  /\ \A t, response : HasRun(db, t, response) => HasRun(db', t, response)

Same(q) == pc'[q] = pc[q] /\ batch'[q] = batch[q] /\ cited'[q] = cited[q] /\ asOf'[q] = asOf[q]

LEMMA SameLinked ==
  ASSUME Grows, NEW q \in Processes, ProcessLinked(q), Same(q)
  PROVE  ProcessLinked(q)'
BY DEF Grows, Same, ProcessLinked

\* A step of one process that leaves the backup alone.
LEMMA StepLinked ==
  ASSUME LinkInv, Grows, backup' = backup, NEW p \in Processes,
         \A q \in Processes \ {p} : Same(q),
         Linked(db'), ProcessLinked(p)'
  PROVE  LinkInv'
<1>1. \A q \in Processes \ {p} : ProcessLinked(q)'  BY SameLinked DEF LinkInv
<1>2. RowsLinked'
  <2>1. \A i \in DOMAIN backup' : Linked(backup'[i])  BY DEF LinkInv, RowsLinked
  <2>. QED  BY <2>1 DEF RowsLinked
<1>. QED  BY <1>1, <1>2 DEF LinkInv

LEMMA GrowsSame == db' = db => Grows
BY DEF Grows

LEMMA InitLinked == Init => LinkInv
BY DEF Init, LinkInv, RowsLinked, Linked, ProcessLinked, Empty

LEMMA NextLinked == TypeInv /\ LinkInv /\ [Next]_vars => LinkInv'
<1>. SUFFICES ASSUME TypeInv, LinkInv, [Next]_vars PROVE LinkInv'  OBVIOUS
<1>. USE DEF environment, processes, operator
<1>a. /\ pc \in [Processes -> Places] /\ batch \in [Processes -> Responses \union {NoResponse}]
      /\ cited \in [Processes -> Responses \union {NoResponse}] /\ asOf \in [Processes -> Nat]
      /\ db \in Database
  BY DEF TypeInv, TypeOK
<1>b. Linked(db)  BY DEF LinkInv, RowsLinked
<1>c. \A p \in Processes : ProcessLinked(p)  BY DEF LinkInv
<1>1. CASE UNCHANGED vars
  <2>1. UNCHANGED <<pc, batch, cited, asOf, db, backup>>  BY <1>1 DEF vars
  <2>. QED  BY <2>1 DEF LinkInv, RowsLinked, Linked, ProcessLinked, HasRun
<1>2. ASSUME NEW p \in Processes, db' = db, backup' = backup,
             \A q \in Processes \ {p} : Same(q), ProcessLinked(p)'
      PROVE  LinkInv'
  BY <1>2, <1>b, GrowsSame, StepLinked
<1>3. ASSUME NEW p \in Processes, Launch(p) \/ NextIteration(p) PROVE LinkInv'
  <2>1. db' = db /\ backup' = backup /\ \A q \in Processes \ {p} : Same(q)
    BY <1>3, <1>a DEF Launch, NextIteration, GoTo, Same
  <2>2. pc'[p] = "fetch"  BY <1>3, <1>a DEF Launch, NextIteration, GoTo
  <2>3. ProcessLinked(p)'  BY <2>2 DEF ProcessLinked
  <2>. QED  BY <1>2, <2>1, <2>3
<1>4. ASSUME NEW p \in Processes, NEW response, Continue(p, response), db' = db, backup' = backup,
             cited' = cited, asOf' = asOf
      PROVE  LinkInv'
  <2>1. \A q \in Processes \ {p} : Same(q)  BY <1>4, <1>a DEF Continue, GoTo, Same
  <2>2. pc'[p] = "manifest" \/ (pc[p] = "refetch" /\ pc'[p] = "analyze")
    BY <1>4, <1>a DEF Continue, GoTo
  <2>3. ProcessLinked(p)'  BY <2>2, <1>c, <1>4 DEF ProcessLinked
  <2>. QED  BY <1>2, <1>4, <2>1, <2>3
<1>5. ASSUME NEW p \in Processes, FetchCached(p) \/ FetchProvider(p) PROVE LinkInv'
  BY <1>4, <1>5 DEF FetchCached, FetchProvider
<1>6. ASSUME NEW p \in Processes, RecordManifest(p) PROVE LinkInv'
  <2>1. db' = [db EXCEPT !.manifests = @ \union {batch[p]}] /\ backup' = backup
    BY <1>6 DEF RecordManifest
  <2>2. Grows  BY <2>1, <1>a DEF Grows, HasRun, Database
  <2>3. Linked(db')  BY <2>1, <1>a, <1>b DEF Linked, Database
  <2>4. \A q \in Processes \ {p} : Same(q)  BY <1>6, <1>a DEF RecordManifest, GoTo, Same
  <2>5. pc'[p] = "fixtures" /\ cited'[p] = batch[p] /\ batch'[p] = batch[p]
    BY <1>6, <1>a DEF RecordManifest, GoTo
  <2>6. batch[p] \in db'.manifests  BY <2>1, <1>a DEF Database
  <2>7. ProcessLinked(p)'  BY <2>5, <2>6 DEF ProcessLinked
  <2>. QED  BY <2>1, <2>2, <2>3, <2>4, <2>7, StepLinked
<1>7. ASSUME NEW p \in Processes, RecordFixture(p) PROVE LinkInv'
  <2>1. PICK m \in left[p] :
          \/ db' = [db EXCEPT !.fixtures = @ \union {NewFixture(p, m)}]
          \/ db' = [db EXCEPT !.fixtures = SeenAgain(p, m)]
    BY <1>7 DEF RecordFixture
  <2>2. pc[p] = "fixtures" /\ batch[p] \in db.manifests
    BY <1>7, <1>c DEF RecordFixture, ProcessLinked
  <2>3. /\ db'.manifests = db.manifests /\ db'.runs = db.runs /\ db'.analyses = db.analyses
        /\ db'.audits = db.audits
        /\ db'.fixtures \in {db.fixtures \union {NewFixture(p, m)}, SeenAgain(p, m)}
    BY <2>1, <1>a DEF Database
  <2>4. \A f \in db.fixtures \union {NewFixture(p, m)} : f.source \in db.manifests
    BY <1>b, <2>2 DEF NewFixture, Linked
  <2>5. \A f \in SeenAgain(p, m) : f.source \in db.manifests
    <3>1. \A f \in db.fixtures : f \in Fixture  BY <1>a DEF Database
    <3>2. \A f \in db.fixtures : [f EXCEPT !.last_seen = asOf[p], !.source = batch[p]].source = batch[p]
      BY <3>1 DEF Fixture
    <3>. QED  BY <3>2, <1>b, <2>2 DEF SeenAgain, Linked
  <2>6. Linked(db')  BY <2>3, <2>4, <2>5, <1>b DEF Linked
  <2>7. Grows  BY <2>3 DEF Grows, HasRun
  <2>8. \A q \in Processes : Same(q)  BY <1>7 DEF RecordFixture, Same
  <2>9. backup' = backup  BY <1>7 DEF RecordFixture
  <2>10. ProcessLinked(p)'  BY <2>7, <2>8, <1>c, SameLinked
  <2>. QED  BY <2>6, <2>7, <2>8, <2>9, <2>10, StepLinked
<1>8. ASSUME NEW p \in Processes, RecordRun(p) PROVE LinkInv'
  <2>. DEFINE new == [as_of |-> asOf[p], manifest |-> batch[p], accepted |-> inserted[p]]
              kept == {r \in db.runs : r.as_of # asOf[p] \/ r.manifest # batch[p]}
  <2>1. db' = [db EXCEPT !.runs = kept \union {new}] /\ backup' = backup  BY <1>8 DEF RecordRun
  <2>2. pc[p] = "fixtures" /\ batch[p] \in db.manifests
    BY <1>8, <1>c DEF RecordRun, ProcessLinked
  <2>3. /\ db'.manifests = db.manifests /\ db'.fixtures = db.fixtures
        /\ db'.analyses = db.analyses /\ db'.audits = db.audits /\ db'.runs = kept \union {new}
    BY <2>1, <1>a DEF Database
  <2>4. new.as_of = asOf[p] /\ new.manifest = batch[p]  OBVIOUS
  <2>. HIDE DEF new
  <2>5. \A t, response : HasRun(db, t, response) => HasRun(db', t, response)
    BY <2>3, <2>4 DEF HasRun
  <2>6. HasRun(db', asOf[p], batch[p])  BY <2>3, <2>4 DEF HasRun
  <2>7. Grows  BY <2>3, <2>5 DEF Grows
  <2>8. Linked(db')
    <3>1. \A r \in db'.runs : r.manifest \in db'.manifests  BY <2>2, <2>3, <2>4, <1>b DEF Linked
    <3>2. \A e \in db'.audits : \E r \in db'.runs : e = <<r.as_of, r.manifest>>
      <4>1. SUFFICES ASSUME NEW e \in db.audits PROVE \E r \in db'.runs : e = <<r.as_of, r.manifest>>
        BY <2>3
      <4>2. PICK r \in db.runs : e = <<r.as_of, r.manifest>>  BY <1>b DEF Linked
      <4>3. HasRun(db', r.as_of, r.manifest)  BY <2>5 DEF HasRun
      <4>. QED  BY <4>2, <4>3 DEF HasRun
    <3>. QED  BY <2>3, <3>1, <3>2, <1>b DEF Linked
  <2>9. \A q \in Processes \ {p} : Same(q)  BY <1>8, <1>a DEF RecordRun, GoTo, Same
  <2>10. /\ pc'[p] = "audit" /\ batch'[p] = batch[p] /\ cited'[p] = cited[p] /\ asOf'[p] = asOf[p]
    BY <1>8, <1>a DEF RecordRun, GoTo
  <2>11. ProcessLinked(p)'  BY <2>2, <2>3, <2>6, <2>10, <1>c DEF ProcessLinked
  <2>. QED  BY <2>1, <2>7, <2>8, <2>9, <2>11, StepLinked
<1>9. ASSUME NEW p \in Processes, RecordAudit(p) PROVE LinkInv'
  <2>1. db' = [db EXCEPT !.audits = @ \union {<<asOf[p], batch[p]>>}] /\ backup' = backup
    BY <1>9 DEF RecordAudit
  <2>2. HasRun(db, asOf[p], batch[p])  BY <1>9, <1>c DEF RecordAudit, ProcessLinked
  <2>3. /\ db'.manifests = db.manifests /\ db'.fixtures = db.fixtures /\ db'.runs = db.runs
        /\ db'.analyses = db.analyses /\ db'.audits = db.audits \union {<<asOf[p], batch[p]>>}
    BY <2>1, <1>a DEF Database
  <2>4. Linked(db')  BY <2>2, <2>3, <1>b DEF Linked, HasRun
  <2>5. Grows  BY <2>3 DEF Grows, HasRun
  <2>6. \A q \in Processes \ {p} : Same(q)  BY <1>9, <1>a DEF RecordAudit, GoTo, Same
  <2>7. pc[p] = "audit" /\ pc'[p] \in {"waiting", "refetch"} /\ cited'[p] = cited[p]
    BY <1>9, <1>a DEF RecordAudit, GoTo
  <2>8. ProcessLinked(p)'  BY <2>3, <2>7, <1>c DEF ProcessLinked
  <2>. QED  BY <2>1, <2>4, <2>5, <2>6, <2>8, StepLinked
<1>10. ASSUME NEW p \in Processes, StoreAnalysis(p) PROVE LinkInv'
  <2>1. PICK m \in left[p] :
          db' = [db EXCEPT !.analyses = IF Analyzed(p, m) THEN @ ELSE @ \union {NewAnalysis(p, m)}]
    BY <1>10 DEF StoreAnalysis
  <2>2. pc[p] = "analyze" /\ cited[p] \in db.manifests
    BY <1>10, <1>c DEF StoreAnalysis, ProcessLinked
  <2>3. /\ db'.manifests = db.manifests /\ db'.fixtures = db.fixtures /\ db'.runs = db.runs
        /\ db'.audits = db.audits
        /\ db'.analyses \subseteq db.analyses \union {NewAnalysis(p, m)}
    BY <2>1, <1>a DEF Database
  <2>4. Linked(db')  BY <2>2, <2>3, <1>b DEF Linked, NewAnalysis
  <2>5. Grows  BY <2>3 DEF Grows, HasRun
  <2>6. \A q \in Processes : Same(q)  BY <1>10 DEF StoreAnalysis, Same
  <2>7. ProcessLinked(p)'  BY <2>5, <2>6, <1>c, SameLinked
  <2>8. backup' = backup  BY <1>10 DEF StoreAnalysis
  <2>. QED  BY <2>4, <2>5, <2>6, <2>7, <2>8, StepLinked
<1>11. ASSUME NEW p \in Processes, Quarantine(p) PROVE LinkInv'
  <2>1. db' = db /\ backup' = backup /\ \A q \in Processes : Same(q)
    BY <1>11 DEF Quarantine, Same
  <2>2. ProcessLinked(p)'  BY <2>1, <1>c, GrowsSame, SameLinked
  <2>. QED  BY <1>2, <2>1, <2>2
<1>12. ASSUME NEW p \in Processes, Exit(p) \/ Die(p) PROVE LinkInv'
  <2>1. db' = db /\ backup' = backup /\ Vanish(p)  BY <1>12 DEF Exit, Die
  <2>2. pc'[p] = "off" /\ \A q \in Processes \ {p} : Same(q)
    BY <2>1, <1>a DEF Vanish, GoTo, Same
  <2>3. ProcessLinked(p)'  BY <2>2 DEF ProcessLinked
  <2>. QED  BY <1>2, <2>1, <2>2, <2>3
<1>13. CASE Backup
  <2>1. backup' = <<db>> /\ UNCHANGED <<pc, batch, cited, asOf, db>>  BY <1>13 DEF Backup
  <2>2. \A i \in DOMAIN backup' : backup'[i] = db  BY <2>1
  <2>3. RowsLinked'  BY <2>1, <2>2, <1>b DEF RowsLinked
  <2>4. \A q \in Processes : ProcessLinked(q)'  BY <2>1, <1>c DEF ProcessLinked, HasRun
  <2>. QED  BY <2>3, <2>4 DEF LinkInv
<1>14. CASE Restore
  <2>1. backup' = backup /\ pc' = pc /\ \A p \in Processes : pc[p] = "off"  BY <1>14 DEF Restore
  <2>2. PICK i \in DOMAIN backup : db' = backup[i]  BY <1>14 DEF Restore
  <2>3. RowsLinked'
    <3>1. Linked(db')  BY <2>2 DEF LinkInv, RowsLinked
    <3>2. \A j \in DOMAIN backup' : Linked(backup'[j])  BY <2>1 DEF LinkInv, RowsLinked
    <3>. QED  BY <3>1, <3>2 DEF RowsLinked
  <2>4. \A q \in Processes : ProcessLinked(q)'  BY <2>1 DEF ProcessLinked
  <2>. QED  BY <2>3, <2>4 DEF LinkInv
<1>15. CASE Tick \/ ProviderChanges
  <2>1. UNCHANGED <<pc, batch, cited, asOf, db, backup>>  BY <1>15 DEF Tick, ProviderChanges
  <2>. QED  BY <2>1 DEF LinkInv, RowsLinked, Linked, ProcessLinked, HasRun
<1>16. CASE Quiet  BY <1>1, <1>16 DEF Quiet
<1>. QED
  BY <1>1, <1>3, <1>5, <1>6, <1>7, <1>8, <1>9, <1>10, <1>11, <1>12, <1>13, <1>14, <1>15, <1>16
  DEF Next, Script

\* Without foreign keys, every row of the database and of its backup refers
\* to rows that exist, whatever scripts overlap, die or are rolled back.
THEOREM RowsLinkedHolds == Spec => []RowsLinked
<1>1. LinkInv => RowsLinked  BY DEF LinkInv
<1>. QED  BY <1>1, InitType, NextType, InitLinked, NextLinked, PTL DEF Spec

(***************************************************************************)
(* Times of fixtures                                                       *)
(***************************************************************************)
Timed(data) ==
  \A f \in data.fixtures :
    /\ f.first_seen < f.kickoff
    /\ f.match \in DOMAIN f.source /\ f.last_seen < f.source[f.match]
Ordered(data) == \A f \in data.fixtures : f.first_seen <= f.last_seen
SeenBy(data, t) == \A f \in data.fixtures : f.first_seen <= t

GoodTimes(data) ==
  Timed(data) /\ SeenBy(data, clock) /\ (~overlapped => Ordered(data))

\* A script works on matches that start after the time of its run.
ProcessTimed(p) ==
  /\ asOf[p] <= clock
  /\ pc[p] \in {"manifest", "fixtures"} => left[p] \subseteq Upcoming(batch[p], asOf[p])

\* A script no other has overlapped runs later than all it finds.
Alone(p) ==
  (~overlapped /\ pc[p] # "off") =>
    SeenBy(db, asOf[p]) /\ \A q \in Processes \ {p} : pc[q] = "off"

TimeInv ==
  /\ GoodTimes(db) /\ \A i \in DOMAIN backup : GoodTimes(backup[i])
  /\ \A p \in Processes : ProcessTimed(p) /\ Alone(p)

SameTimes(q) ==
  pc'[q] = pc[q] /\ batch'[q] = batch[q] /\ left'[q] = left[q] /\ asOf'[q] = asOf[q]

LEMMA InitTimes == Init => TimeInv
BY DEF Init, TimeInv, GoodTimes, Timed, SeenBy, Ordered, Empty, ProcessTimed, Alone

\* A step of a running script that writes no fixture.
LEMMA StepTimes ==
  ASSUME TimeInv, NEW p \in Processes, pc[p] # "off",
         db'.fixtures = db.fixtures, backup' = backup, clock' = clock, overlapped' = overlapped,
         \A q \in Processes \ {p} : SameTimes(q),
         pc'[p] = "off" \/ asOf'[p] = asOf[p],
         ProcessTimed(p)'
  PROVE  TimeInv'
<1>1. GoodTimes(db)' /\ \A i \in DOMAIN backup' : GoodTimes(backup[i])'
  BY DEF TimeInv, GoodTimes, Timed, SeenBy, Ordered
<1>2. \A q \in Processes \ {p} : ProcessTimed(q)'
  BY DEF TimeInv, ProcessTimed, SameTimes
<1>3. Alone(p)'
  <2>1. Alone(p)  BY DEF TimeInv
  <2>2. \A q \in Processes \ {p} : pc'[q] = pc[q]  BY DEF SameTimes
  <2>. QED  BY <2>1, <2>2 DEF Alone, SeenBy
<1>4. ASSUME NEW q \in Processes \ {p} PROVE Alone(q)'
  <2>1. overlapped \/ pc[q] = "off"  BY DEF TimeInv, Alone
  <2>2. pc'[q] = pc[q]  BY DEF SameTimes
  <2>. QED  BY <2>1, <2>2 DEF Alone
<1>. QED  BY <1>1, <1>2, <1>3, <1>4 DEF TimeInv

\* A run starts: it is later than every fixture.
LEMMA StartTimes ==
  ASSUME TypeInv, TimeInv, NEW p \in Processes, db' = db, backup' = backup, clock' = clock,
         asOf' = [asOf EXCEPT ![p] = clock], GoTo(p, "fetch"), batch' = batch, left' = left,
         overlapped => overlapped',
         ~overlapped' => \A q \in Processes \ {p} : pc[q] = "off"
  PROVE  TimeInv'
<1>. USE DEF TypeInv, TypeOK
<1>1. GoodTimes(db)' /\ \A i \in DOMAIN backup' : GoodTimes(backup[i])'
  BY DEF TimeInv, GoodTimes, Timed, SeenBy, Ordered
<1>2. pc'[p] = "fetch" /\ asOf'[p] = clock /\ \A q \in Processes \ {p} : SameTimes(q)
  BY DEF GoTo, SameTimes
<1>3. \A q \in Processes : ProcessTimed(q)'
  BY <1>2 DEF TimeInv, ProcessTimed, SameTimes
<1>4. \A q \in Processes : Alone(q)'
  <2>1. SeenBy(db, clock)  BY DEF TimeInv, GoodTimes
  <2>2. SeenBy(db', asOf'[p])  BY <1>2, <2>1 DEF SeenBy
  <2>. QED  BY <1>2, <2>2 DEF Alone, SameTimes
<1>. QED  BY <1>1, <1>3, <1>4 DEF TimeInv

\* The transaction of one fixture keeps the times of every row.
LEMMA FixtureStored ==
  ASSUME TypeInv, TimeInv, NEW p \in Processes, pc[p] = "fixtures", NEW m \in left[p],
         NEW f, f = NewFixture(p, m) \/ f \in SeenAgain(p, m)
  PROVE  /\ f.first_seen < f.kickoff
         /\ f.match \in DOMAIN f.source /\ f.last_seen < f.source[f.match]
         /\ f.first_seen <= clock
         /\ ~overlapped => f.first_seen <= f.last_seen /\ f.first_seen <= asOf[p]
<1>1. /\ asOf[p] \in Nat /\ clock \in Nat /\ asOf[p] <= clock
      /\ m \in DOMAIN batch[p] /\ batch[p][m] \in Nat /\ batch[p][m] > asOf[p]
  BY WorkType DEF TypeInv, TypeOK, TimeInv, ProcessTimed, Upcoming
<1>2. CASE f = NewFixture(p, m)
  BY <1>1, <1>2 DEF NewFixture
<1>3. CASE f \in SeenAgain(p, m)
  <2>1. PICK g \in db.fixtures :
          f = IF g.match = m THEN [g EXCEPT !.last_seen = asOf[p], !.source = batch[p]] ELSE g
    BY <1>3 DEF SeenAgain
  <2>2. g \in Fixture  BY DatabaseParts DEF TypeInv
  <2>3. /\ g.first_seen < g.kickoff /\ g.match \in DOMAIN g.source
        /\ g.last_seen < g.source[g.match] /\ g.first_seen <= clock
        /\ ~overlapped => g.first_seen <= g.last_seen /\ g.first_seen <= asOf[p]
    BY DEF TimeInv, GoodTimes, Timed, Ordered, SeenBy, Alone
  <2>4. CASE g.match # m  BY <2>1, <2>3, <2>4
  <2>5. CASE g.match = m
    <3>1. /\ f.match = m /\ f.source = batch[p] /\ f.last_seen = asOf[p]
          /\ f.first_seen = g.first_seen /\ f.kickoff = g.kickoff
      BY <2>1, <2>2, <2>5 DEF Fixture
    <3>. QED  BY <1>1, <2>3, <3>1
  <2>. QED  BY <2>4, <2>5
<1>. QED  BY <1>2, <1>3

LEMMA FixtureTimesStep ==
  ASSUME TypeInv, TimeInv, NEW p \in Processes, RecordFixture(p)
  PROVE  TimeInv'
<1>. USE DEF environment, operator
<1>1. PICK m \in left[p] :
        /\ left' = [left EXCEPT ![p] = @ \ {m}]
        /\ \/ db' = [db EXCEPT !.fixtures = @ \union {NewFixture(p, m)}]
           \/ db' = [db EXCEPT !.fixtures = SeenAgain(p, m)]
  BY DEF RecordFixture
<1>2. pc[p] = "fixtures" /\ UNCHANGED <<clock, pc, batch, asOf, overlapped, backup>>
  BY DEF RecordFixture
<1>3. \A f \in db'.fixtures : f \in db.fixtures \/ f = NewFixture(p, m) \/ f \in SeenAgain(p, m)
  BY <1>1 DEF TypeInv, TypeOK, Database
<1>4. GoodTimes(db) /\ (~overlapped => SeenBy(db, asOf[p]))
  BY <1>2 DEF TimeInv, Alone
<1>5. \A f \in db'.fixtures :
        /\ f.first_seen < f.kickoff
        /\ f.match \in DOMAIN f.source /\ f.last_seen < f.source[f.match]
        /\ f.first_seen <= clock
        /\ ~overlapped => f.first_seen <= f.last_seen /\ f.first_seen <= asOf[p]
  BY <1>2, <1>3, <1>4, FixtureStored DEF GoodTimes, Timed, SeenBy, Ordered
<1>6. GoodTimes(db)'  BY <1>2, <1>5 DEF GoodTimes, Timed, SeenBy, Ordered
<1>7. \A i \in DOMAIN backup' : GoodTimes(backup[i])'
  BY <1>2 DEF TimeInv, GoodTimes, Timed, SeenBy, Ordered
<1>8. \A q \in Processes : left'[q] \subseteq left[q]  BY <1>1 DEF TypeInv, TypeOK
<1>9. \A q \in Processes : ProcessTimed(q)'
  BY <1>2, <1>8 DEF TimeInv, ProcessTimed
<1>10. \A q \in Processes : Alone(q)'
  <2>1. ~overlapped => \A q \in Processes \ {p} : pc[q] = "off"  BY <1>2 DEF TimeInv, Alone
  <2>2. ~overlapped => SeenBy(db', asOf[p])  BY <1>5 DEF SeenBy
  <2>. QED  BY <1>2, <2>1, <2>2 DEF Alone
<1>. QED  BY <1>6, <1>7, <1>9, <1>10 DEF TimeInv

LEMMA NextTimes == TypeInv /\ TimeInv /\ [Next]_vars => TimeInv'
<1>. SUFFICES ASSUME TypeInv, TimeInv, [Next]_vars PROVE TimeInv'  OBVIOUS
<1>. USE DEF environment, processes, operator
<1>a. /\ pc \in [Processes -> Places] /\ asOf \in [Processes -> Nat]
      /\ left \in [Processes -> SUBSET Matches]
      /\ batch \in [Processes -> Responses \union {NoResponse}]
      /\ db \in Database /\ clock \in Nat
  BY DEF TypeInv, TypeOK
<1>b. /\ GoodTimes(db) /\ \A i \in DOMAIN backup : GoodTimes(backup[i])
      /\ \A p \in Processes : ProcessTimed(p) /\ Alone(p)
  BY DEF TimeInv
<1>1. CASE UNCHANGED vars
  BY <1>1, <1>b DEF vars, TimeInv, GoodTimes, Timed, SeenBy, Ordered, ProcessTimed, Alone
<1>2. ASSUME NEW p \in Processes, Launch(p) \/ NextIteration(p) PROVE TimeInv'
  <2>1. ~overlapped' => \A q \in Processes \ {p} : pc[q] = "off"
    <3>1. CASE Launch(p)  BY <3>1 DEF Launch
    <3>2. CASE NextIteration(p)
      <4>1. pc[p] # "off" /\ overlapped' = overlapped  BY <3>2 DEF NextIteration
      <4>. QED  BY <4>1, <1>b DEF Alone
    <3>. QED  BY <1>2, <3>1, <3>2
  <2>2. overlapped => overlapped'  BY <1>2 DEF Launch, NextIteration
  <2>. QED  BY <1>2, <2>1, <2>2, StartTimes DEF Launch, NextIteration
<1>3. ASSUME NEW p \in Processes, NEW response, Continue(p, response),
             db' = db, backup' = backup, clock' = clock, overlapped' = overlapped, asOf' = asOf
      PROVE  TimeInv'
  <2>1. \A q \in Processes \ {p} : SameTimes(q)  BY <1>3, <1>a DEF Continue, GoTo, SameTimes
  <2>2. pc[p] # "off"  BY <1>3 DEF Continue
  <2>3. \/ pc'[p] = "analyze"
        \/ left'[p] = Upcoming(batch'[p], asOf'[p])
    BY <1>3, <1>a DEF Continue, GoTo
  <2>4. pc'[p] = "analyze" \/ left'[p] \subseteq Upcoming(batch'[p], asOf'[p])  BY <2>3
  <2>5. ProcessTimed(p)'  BY <1>3, <1>b, <2>4 DEF ProcessTimed
  <2>. QED  BY <1>3, <2>1, <2>2, <2>5, StepTimes
<1>4. ASSUME NEW p \in Processes, FetchCached(p) \/ FetchProvider(p) PROVE TimeInv'
  BY <1>3, <1>4 DEF FetchCached, FetchProvider
<1>5. ASSUME NEW p \in Processes, pc[p] # "off", db'.fixtures = db.fixtures,
             UNCHANGED <<backup, clock, overlapped, asOf, batch, left>>,
             NEW place, GoTo(p, place), pc[p] \in {"manifest", "fixtures"} \/ place \notin {"manifest", "fixtures"}
      PROVE  TimeInv'
  <2>1. pc'[p] = place /\ \A q \in Processes \ {p} : SameTimes(q)
    BY <1>5, <1>a DEF GoTo, SameTimes
  <2>2. ProcessTimed(p)'  BY <1>5, <1>b, <2>1 DEF ProcessTimed
  <2>. QED  BY <1>5, <2>1, <2>2, StepTimes
<1>6. ASSUME NEW p \in Processes, RecordManifest(p) PROVE TimeInv'
  <2>1. db'.fixtures = db.fixtures  BY <1>6, <1>a DEF RecordManifest, Database
  <2>. QED  BY <1>5, <1>6, <2>1 DEF RecordManifest
<1>7. ASSUME NEW p \in Processes, RecordFixture(p) PROVE TimeInv'
  BY <1>7, FixtureTimesStep
<1>8. ASSUME NEW p \in Processes, RecordRun(p) PROVE TimeInv'
  <2>1. db'.fixtures = db.fixtures  BY <1>8, <1>a DEF RecordRun, Database
  <2>. QED  BY <1>5, <1>8, <2>1 DEF RecordRun
<1>9. ASSUME NEW p \in Processes, RecordAudit(p) PROVE TimeInv'
  <2>1. db'.fixtures = db.fixtures  BY <1>9, <1>a DEF RecordAudit, Database
  <2>2. PICK place \in {"waiting", "refetch"} : GoTo(p, place)  BY <1>9 DEF RecordAudit
  <2>. QED  BY <1>5, <1>9, <2>1, <2>2 DEF RecordAudit
<1>10. ASSUME NEW p \in Processes, StoreAnalysis(p) \/ Quarantine(p) PROVE TimeInv'
  <2>1. PICK m \in left[p] : left' = [left EXCEPT ![p] = @ \ {m}]
    BY <1>10 DEF StoreAnalysis, Quarantine
  <2>2. db'.fixtures = db.fixtures  BY <1>10, <1>a DEF StoreAnalysis, Quarantine, Database
  <2>3. pc[p] = "analyze" /\ UNCHANGED <<pc, batch, asOf, backup, clock, overlapped>>
    BY <1>10 DEF StoreAnalysis, Quarantine
  <2>4. \A q \in Processes \ {p} : SameTimes(q)  BY <2>1, <2>3, <1>a DEF SameTimes
  <2>5. ProcessTimed(p)'  BY <2>3, <1>b DEF ProcessTimed
  <2>. QED  BY <2>2, <2>3, <2>4, <2>5, StepTimes
<1>11. ASSUME NEW p \in Processes, Exit(p) \/ Die(p) PROVE TimeInv'
  <2>1. Vanish(p) /\ UNCHANGED <<db, backup, clock, overlapped>> /\ pc[p] # "off"
    BY <1>11 DEF Exit, Die
  <2>2. pc'[p] = "off" /\ asOf'[p] = 0 /\ \A q \in Processes \ {p} : SameTimes(q)
    BY <2>1, <1>a DEF Vanish, GoTo, SameTimes
  <2>3. ProcessTimed(p)'  BY <2>1, <2>2, <1>a DEF ProcessTimed
  <2>. QED  BY <2>1, <2>2, <2>3, StepTimes
<1>12. CASE Backup
  <2>1. backup' = <<db>> /\ UNCHANGED <<clock, pc, batch, left, asOf, db, overlapped>>
    BY <1>12 DEF Backup
  <2>2. \A i \in DOMAIN backup' : backup'[i] = db  BY <2>1
  <2>3. GoodTimes(db)'  BY <2>1, <1>b DEF GoodTimes, Timed, SeenBy, Ordered
  <2>4. \A i \in DOMAIN backup' : GoodTimes(backup[i])'
    BY <2>1, <2>2, <1>b DEF GoodTimes, Timed, SeenBy, Ordered
  <2>5. \A p \in Processes : ProcessTimed(p)' /\ Alone(p)'
    BY <2>1, <1>b DEF ProcessTimed, Alone, SeenBy
  <2>. QED  BY <2>3, <2>4, <2>5 DEF TimeInv
<1>13. CASE Restore
  <2>1. UNCHANGED <<clock, pc, batch, left, asOf, backup, overlapped>>  BY <1>13 DEF Restore
  <2>2. PICK i \in DOMAIN backup : db' = backup[i]  BY <1>13 DEF Restore
  <2>3. GoodTimes(db)'  BY <2>1, <2>2, <1>b DEF GoodTimes, Timed, SeenBy, Ordered
  <2>4. \A j \in DOMAIN backup' : GoodTimes(backup[j])'
    BY <2>1, <1>b DEF GoodTimes, Timed, SeenBy, Ordered
  <2>5. \A p \in Processes : ProcessTimed(p)' /\ Alone(p)'
    BY <2>1, <1>13, <1>b DEF ProcessTimed, Alone, Restore
  <2>. QED  BY <2>3, <2>4, <2>5 DEF TimeInv
<1>14. CASE Tick \/ ProviderChanges
  <2>1. UNCHANGED <<pc, batch, left, asOf, db, backup, overlapped>>
    BY <1>14 DEF Tick, ProviderChanges
  <2>2. clock' = clock \/ clock' = clock + 1  BY <1>14 DEF Tick, ProviderChanges
  <2>3. ASSUME NEW data \in Database, SeenBy(data, clock) PROVE SeenBy(data, clock')
    <3>1. \A f \in data.fixtures : f.first_seen \in Nat  BY DEF Database, Fixture
    <3>. QED  BY <2>2, <2>3, <3>1, <1>a DEF SeenBy
  <2>4. \A i \in DOMAIN backup : backup[i] \in Database  BY SequenceType DEF TypeInv, TypeOK
  <2>5. GoodTimes(db)'  BY <2>1, <2>3, <1>a, <1>b DEF GoodTimes, Timed, Ordered
  <2>6. \A i \in DOMAIN backup' : GoodTimes(backup[i])'
    BY <2>1, <2>3, <2>4, <1>b DEF GoodTimes, Timed, Ordered
  <2>7. \A p \in Processes : ProcessTimed(p)' /\ Alone(p)'
    BY <2>1, <2>2, <1>a, <1>b DEF ProcessTimed, Alone, SeenBy
  <2>. QED  BY <2>5, <2>6, <2>7 DEF TimeInv
<1>15. CASE Quiet  BY <1>1, <1>15 DEF Quiet
<1>. QED
  BY <1>1, <1>2, <1>4, <1>6, <1>7, <1>8, <1>9, <1>10, <1>11, <1>12, <1>13, <1>14, <1>15
  DEF Next, Script

\* A stored fixture was first seen before its stored kickoff and last seen
\* before the kickoff its source gives; last_seen is not before first_seen
\* while scripts have not overlapped, whatever is restored.
THEOREM FixtureTimesHolds == Spec => []FixtureTimes
<1>1. TimeInv => FixtureTimes
  BY DEF TimeInv, GoodTimes, Timed, Ordered, FixtureTimes
<1>. QED  BY <1>1, InitType, NextType, InitTimes, NextTimes, PTL DEF Spec

(***************************************************************************)
(* What an analysis says of its evidence                                   *)
(***************************************************************************)
Stored(data, m) == \E f \in data.fixtures : f.match = m

\* A match in a response that starts after t.
StartsAfter(response, m, t) == m \in DOMAIN response /\ t < response[m]

\* Kickoffs come from responses; an analysis is of a match that the response it
\* was made from has ahead, whose fixture is stored if the cited one has it ahead.
Explained(data) ==
  /\ \A f \in data.fixtures :
       \E r \in served : f.match \in DOMAIN r /\ r[f.match] = f.kickoff
  /\ \A a \in data.analyses :
       /\ {a.seen, a.source} \subseteq served
       /\ StartsAfter(a.seen, a.match, a.as_of)
       /\ StartsAfter(a.source, a.match, a.as_of) => Stored(data, a.match)
       /\ a.source # a.seen => a.captured >= a.as_of + Ttl

\* The pipeline asks the provider once, then answers from its cache while that
\* is fresh: what it cites is what it recorded the fixtures of.
Cites(p) ==
  /\ asOf[p] \in Nat /\ asOf[p] <= clock
  /\ pc[p] \in {"manifest", "fixtures", "audit", "refetch", "analyze"} => batch[p] \in served
  /\ pc[p] \in {"fixtures", "audit", "refetch", "analyze"} => cited[p] \in served
  /\ pc[p] \in {"fixtures", "audit", "refetch"} => cited[p] = batch[p]
  /\ pc[p] = "manifest" => left[p] = Upcoming(batch[p], asOf[p])
  /\ pc[p] = "fixtures" => \A m \in Upcoming(cited[p], asOf[p]) \ left[p] : Stored(db, m)
  /\ pc[p] \in {"audit", "refetch", "analyze"} =>
       \A m \in Upcoming(cited[p], asOf[p]) : Stored(db, m)
  /\ pc[p] = "analyze" =>
       /\ left[p] \subseteq Upcoming(batch[p], asOf[p])
       /\ batch[p] # cited[p] => fetchedAt[p] >= asOf[p] + Ttl

CacheSound(p) ==
  /\ \A i \in DOMAIN cache[p] : cache[p][i].response \in served
  /\ pc[p] = "off" => cache[p] = <<>>
  /\ pc[p] = "waiting" => script[p] = "loop"
  /\ pc[p] \in {"refetch", "analyze"} => script[p] = "pipeline"
  /\ script[p] = "pipeline" /\ pc[p] = "fetch" => cache[p] = <<>>
  /\ script[p] = "pipeline" /\ pc[p] \in {"manifest", "fixtures", "audit", "refetch"} =>
       \E t \in Nat : asOf[p] <= t /\ cache[p] = <<[response |-> batch[p], at |-> t]>>

AnalysisInv ==
  /\ Explained(db) /\ \A i \in DOMAIN backup : Explained(backup[i])
  /\ \A p \in Processes : Cites(p) /\ CacheSound(p)

LEMMA AnalysisInit == Init => AnalysisInv
BY DEF Init, AnalysisInv, Explained, Empty, Cites, CacheSound

\* More responses served explain as much.
LEMMA ExplainedKept ==
  ASSUME NEW data, Explained(data), served \subseteq served'
  PROVE  Explained(data)'
BY DEF Explained

SameWork(q) ==
  /\ pc'[q] = pc[q] /\ script'[q] = script[q] /\ cache'[q] = cache[q] /\ asOf'[q] = asOf[q]
  /\ batch'[q] = batch[q] /\ cited'[q] = cited[q] /\ left'[q] = left[q]
  /\ fetchedAt'[q] = fetchedAt[q]

\* What holds of a process holds as long as no match is taken away.
LEMMA SameCites ==
  ASSUME NEW q \in Processes, Cites(q), CacheSound(q), SameWork(q), served \subseteq served',
         clock' = clock, \A m : Stored(db, m) => Stored(db', m)
  PROVE  Cites(q)' /\ CacheSound(q)'
<1>1. Cites(q)'
  BY DEF SameWork, Cites
<1>2. CacheSound(q)'
  BY DEF SameWork, CacheSound
<1>. QED
  BY <1>1, <1>2

\* A step of one process.
LEMMA StepAnalysis ==
  ASSUME AnalysisInv, NEW p \in Processes, served \subseteq served', clock' = clock,
         backup' = backup, \A m : Stored(db, m) => Stored(db', m),
         \A q \in Processes \ {p} : SameWork(q), Explained(db)', Cites(p)', CacheSound(p)'
  PROVE  AnalysisInv'
<1>1. \A i \in DOMAIN backup' : Explained(backup[i])'
  <2>. SUFFICES ASSUME NEW i \in DOMAIN backup PROVE Explained(backup[i])'
    OBVIOUS
  <2>1. PICK data : data = backup[i]
    OBVIOUS
  <2>2. Explained(data)
    BY <2>1 DEF AnalysisInv
  <2>3. Explained(data)'
    BY <2>2, ExplainedKept
  <2>. QED
    BY <2>1, <2>3
<1>2. \A q \in Processes \ {p} : Cites(q)' /\ CacheSound(q)'
  BY SameCites DEF AnalysisInv
<1>. QED
  BY <1>1, <1>2 DEF AnalysisInv

\* A step of one process that leaves the database alone.
LEMMA StepOutside ==
  ASSUME AnalysisInv, NEW p \in Processes, served \subseteq served', clock' = clock,
         backup' = backup, db' = db, \A q \in Processes \ {p} : SameWork(q),
         Cites(p)', CacheSound(p)'
  PROVE  AnalysisInv'
<1>1. PICK data : data = db
  OBVIOUS
<1>2. Explained(data)'
  BY <1>1, ExplainedKept DEF AnalysisInv
<1>. QED
  BY <1>1, <1>2, StepAnalysis

\* A step that stores no analysis and no other kickoff.
LEMMA StoreExplained ==
  ASSUME Explained(db), served' = served, db'.analyses = db.analyses,
         \A m : Stored(db, m) => Stored(db', m),
         \A f \in db'.fixtures :
           \/ \E g \in db.fixtures : g.match = f.match /\ g.kickoff = f.kickoff
           \/ \E r \in served : f.match \in DOMAIN r /\ r[f.match] = f.kickoff
  PROVE  Explained(db)'
<1>1. \A f \in db'.fixtures : \E r \in served : f.match \in DOMAIN r /\ r[f.match] = f.kickoff
  BY DEF Explained
<1>2. \A a \in db'.analyses :
        /\ {a.seen, a.source} \subseteq served
        /\ StartsAfter(a.seen, a.match, a.as_of)
        /\ StartsAfter(a.source, a.match, a.as_of) => Stored(db', a.match)
        /\ a.source # a.seen => a.captured >= a.as_of + Ttl
  BY DEF Explained
<1>. QED
  BY <1>1, <1>2 DEF Explained

LEMMA CacheBound ==
  ASSUME NEW t, NEW response
  PROVE  LET c == <<[response |-> response, at |-> t]>>
         IN  DOMAIN c = {1} /\ c[1].response = response /\ c[1].at = t /\ c # <<>>
OBVIOUS

LEMMA FetchAnalysis ==
  ASSUME TypeInv, AnalysisInv, NEW p \in Processes, FetchCached(p) \/ FetchProvider(p)
  PROVE  AnalysisInv'
<1>. USE DEF environment, operator
<1>a. /\ pc \in [Processes -> Places] /\ asOf \in [Processes -> Nat] /\ clock \in Nat
      /\ left \in [Processes -> SUBSET Matches]
      /\ batch \in [Processes -> Responses \union {NoResponse}]
      /\ fetchedAt \in [Processes -> Nat] /\ Ttl \in Nat
      /\ cache \in [Processes -> Seq([response : Responses, at : Nat])]
  BY SeasonAssumption DEF TypeInv, TypeOK
<1>b. Cites(p) /\ CacheSound(p)
  BY DEF AnalysisInv
<1>1. /\ UNCHANGED <<script, asOf, cited, db, backup, clock>>
      /\ pc[p] \in {"fetch", "refetch"} /\ served \subseteq served'
  BY DEF FetchCached, FetchProvider
<1>2. PICK response :
        /\ Continue(p, response)
        /\ \/ /\ CacheFresh(p) /\ served' = served /\ cache' = cache
              /\ \E i \in DOMAIN cache[p] : response = cache[p][i].response
           \/ /\ ~CacheFresh(p) /\ response = provider /\ served' = served \union {provider}
              /\ cache' = [cache EXCEPT ![p] = <<[response |-> provider, at |-> clock]>>]
  BY DEF FetchCached, FetchProvider
<1>3. /\ batch'[p] = response /\ fetchedAt'[p] = clock /\ response \in served'
      /\ \A q \in Processes \ {p} : SameWork(q)
  <2>1. response \in served'
    BY <1>2, <1>b DEF CacheSound
  <2>2. \A q \in Processes \ {p} : cache'[q] = cache[q]
    BY <1>2, <1>a
  <2>. QED
    BY <1>1, <1>2, <1>a, <2>1, <2>2 DEF Continue, GoTo, SameWork
<1>4. \A i \in DOMAIN cache'[p] : cache'[p][i].response \in served'
  BY <1>2, <1>a, <1>b, CacheBound DEF CacheSound
<1>5. CASE pc[p] = "fetch"
  <2>1. pc'[p] = "manifest" /\ left'[p] = Upcoming(batch'[p], asOf'[p])
    BY <1>1, <1>2, <1>3, <1>5, <1>a DEF Continue, GoTo
  <2>2. Cites(p)'
    BY <1>1, <1>3, <2>1, <1>b DEF Cites
  <2>3. script[p] = "pipeline" => cache'[p] = <<[response |-> batch'[p], at |-> clock]>>
    <3>1. script[p] = "pipeline" => ~CacheFresh(p)
      BY <1>5, <1>b DEF CacheSound, CacheFresh
    <3>. QED
      BY <1>2, <1>3, <1>a, <3>1
  <2>4. CacheSound(p)'
    BY <1>1, <1>4, <1>a, <1>b, <2>1, <2>3 DEF CacheSound, Cites
  <2>. QED
    BY <1>1, <1>3, <2>2, <2>4, StepOutside
<1>6. CASE pc[p] = "refetch"
  <2>1. pc'[p] = "analyze" /\ left'[p] = Selected(response, asOf[p])
    BY <1>1, <1>2, <1>3, <1>6, <1>a DEF Continue, GoTo
  <2>2. left'[p] \subseteq Upcoming(batch'[p], asOf'[p])
    BY <1>1, <1>3, <2>1 DEF Selected
  <2>3. PICK t \in Nat : asOf[p] <= t /\ cache[p] = <<[response |-> batch[p], at |-> t]>>
    BY <1>6, <1>b DEF CacheSound
  <2>4. DOMAIN cache[p] = {1} /\ cache[p][1].response = batch[p] /\ cache[p][1].at = t
    BY <2>3, CacheBound
  <2>5. response # batch[p] => clock >= asOf[p] + Ttl
    <3>1. response # batch[p] => ~CacheFresh(p)
      BY <1>2, <2>4
    <3>2. ~CacheFresh(p) => ~(clock < t + Ttl)
      BY <2>4 DEF CacheFresh
    <3>. QED
      BY <1>a, <2>3, <3>1, <3>2
  <2>6. Cites(p)'
    BY <1>1, <1>3, <1>6, <1>b, <2>1, <2>2, <2>5 DEF Cites
  <2>7. CacheSound(p)'
    BY <1>1, <1>4, <1>6, <1>b, <2>1 DEF CacheSound
  <2>. QED
    BY <1>1, <1>3, <2>6, <2>7, StepOutside
<1>. QED
  BY <1>1, <1>5, <1>6

LEMMA FixtureAnalysis ==
  ASSUME TypeInv, AnalysisInv, NEW p \in Processes, RecordFixture(p)
  PROVE  AnalysisInv'
<1>. USE DEF environment, operator
<1>1. PICK m \in left[p] :
        /\ left' = [left EXCEPT ![p] = @ \ {m}]
        /\ \/ db' = [db EXCEPT !.fixtures = @ \union {NewFixture(p, m)}]
           \/ Known(m) /\ db' = [db EXCEPT !.fixtures = SeenAgain(p, m)]
  BY DEF RecordFixture
<1>2. /\ pc[p] = "fixtures"
      /\ UNCHANGED <<clock, pc, script, cache, asOf, batch, fetchedAt, cited, backup, served>>
  BY DEF RecordFixture
<1>3. Cites(p) /\ CacheSound(p) /\ Explained(db)
  BY DEF AnalysisInv
<1>4. /\ db'.analyses = db.analyses
      /\ \/ db'.fixtures = db.fixtures \union {NewFixture(p, m)}
         \/ Known(m) /\ db'.fixtures = SeenAgain(p, m)
  BY <1>1 DEF TypeInv, TypeOK, Database
<1>5. \A f \in db.fixtures :
        LET g == [f EXCEPT !.last_seen = asOf[p], !.source = batch[p]]
        IN  g.match = f.match /\ g.kickoff = f.kickoff
  BY DatabaseParts DEF Fixture, TypeInv
<1>6. \A f \in SeenAgain(p, m) : \E g \in db.fixtures : g.match = f.match /\ g.kickoff = f.kickoff
  BY <1>5 DEF SeenAgain
<1>7. \A g \in db.fixtures : \E f \in SeenAgain(p, m) : f.match = g.match
  BY <1>5 DEF SeenAgain
<1>8. \A n : Stored(db, n) => Stored(db', n)
  BY <1>4, <1>7 DEF Stored
<1>9. Stored(db', m)
  BY <1>4, <1>8 DEF Stored, Known, NewFixture
<1>10. batch[p] \in served /\ m \in DOMAIN batch[p]
  BY <1>2, <1>3 DEF Cites, TypeInv, TypeOK
<1>11. \A f \in db'.fixtures :
         \/ \E g \in db.fixtures : g.match = f.match /\ g.kickoff = f.kickoff
         \/ \E r \in served : f.match \in DOMAIN r /\ r[f.match] = f.kickoff
  BY <1>4, <1>6, <1>10 DEF NewFixture
<1>12. Explained(db)'
  BY <1>2, <1>3, <1>4, <1>8, <1>11, StoreExplained
<1>13. left'[p] = left[p] \ {m} /\ \A q \in Processes \ {p} : SameWork(q)
  BY <1>1, <1>2 DEF SameWork, TypeInv, TypeOK
<1>14. Cites(p)'
  BY <1>2, <1>3, <1>8, <1>9, <1>13 DEF Cites
<1>15. CacheSound(p)'
  BY <1>2, <1>3 DEF CacheSound
<1>. QED
  BY <1>2, <1>8, <1>12, <1>13, <1>14, <1>15, StepAnalysis

LEMMA StoreAnalysisSound ==
  ASSUME TypeInv, AnalysisInv, NEW p \in Processes, StoreAnalysis(p)
  PROVE  AnalysisInv'
<1>. USE DEF environment, operator
<1>1. PICK m \in left[p] :
        /\ left' = [left EXCEPT ![p] = @ \ {m}]
        /\ db' = [db EXCEPT !.analyses = IF Analyzed(p, m) THEN @ ELSE @ \union {NewAnalysis(p, m)}]
  BY DEF StoreAnalysis
<1>2. /\ pc[p] = "analyze"
      /\ UNCHANGED <<clock, pc, script, cache, asOf, batch, fetchedAt, cited, backup, served>>
  BY DEF StoreAnalysis
<1>3. Cites(p) /\ CacheSound(p) /\ Explained(db)
  BY DEF AnalysisInv
<1>4. db'.fixtures = db.fixtures /\ db'.analyses \subseteq db.analyses \union {NewAnalysis(p, m)}
  BY <1>1 DEF TypeInv, TypeOK, Database
<1>5. \A n : Stored(db', n) <=> Stored(db, n)
  BY <1>4 DEF Stored
<1>. DEFINE new == NewAnalysis(p, m)
<1>6. /\ new.match = m /\ new.as_of = asOf[p] /\ new.source = cited[p] /\ new.seen = batch[p]
      /\ new.captured = fetchedAt[p]
  BY DEF NewAnalysis
<1>. HIDE DEF new
<1>7. /\ {new.seen, new.source} \subseteq served
      /\ StartsAfter(new.seen, new.match, new.as_of)
      /\ StartsAfter(new.source, new.match, new.as_of) => Stored(db, new.match)
      /\ new.source # new.seen => new.captured >= new.as_of + Ttl
  BY <1>2, <1>3, <1>6 DEF Cites, StartsAfter, Upcoming
<1>8. \A a \in db'.analyses :
        /\ {a.seen, a.source} \subseteq served
        /\ StartsAfter(a.seen, a.match, a.as_of)
        /\ StartsAfter(a.source, a.match, a.as_of) => Stored(db', a.match)
        /\ a.source # a.seen => a.captured >= a.as_of + Ttl
  <2>. SUFFICES ASSUME NEW a \in db'.analyses, a \in db.analyses \/ a = new
                PROVE  /\ {a.seen, a.source} \subseteq served
                       /\ StartsAfter(a.seen, a.match, a.as_of)
                       /\ StartsAfter(a.source, a.match, a.as_of) => Stored(db', a.match)
                       /\ a.source # a.seen => a.captured >= a.as_of + Ttl
    BY <1>4 DEF new
  <2>1. CASE a \in db.analyses
    BY <1>3, <1>5, <2>1 DEF Explained
  <2>2. CASE a = new
    BY <1>5, <1>7, <2>2
  <2>. QED
    BY <2>1, <2>2
<1>9. Explained(db)'
  BY <1>2, <1>3, <1>4, <1>8 DEF Explained
<1>10. left'[p] \subseteq left[p] /\ \A q \in Processes \ {p} : SameWork(q)
  BY <1>1, <1>2 DEF SameWork, TypeInv, TypeOK
<1>11. Cites(p)'
  BY <1>2, <1>3, <1>5, <1>10 DEF Cites
<1>12. CacheSound(p)'
  BY <1>2, <1>3 DEF CacheSound
<1>. QED
  BY <1>2, <1>5, <1>9, <1>10, <1>11, <1>12, StepAnalysis

LEMMA NextAnalysis == TypeInv /\ AnalysisInv /\ [Next]_vars => AnalysisInv'
<1>. SUFFICES ASSUME TypeInv, AnalysisInv, [Next]_vars PROVE AnalysisInv'
  OBVIOUS
<1>. USE DEF environment, processes, operator
<1>a. /\ pc \in [Processes -> Places] /\ asOf \in [Processes -> Nat] /\ clock \in Nat
      /\ script \in [Processes -> {"loop", "pipeline"}]
      /\ cache \in [Processes -> Seq([response : Responses, at : Nat])]
      /\ left \in [Processes -> SUBSET Matches] /\ fetchedAt \in [Processes -> Nat]
      /\ batch \in [Processes -> Responses \union {NoResponse}]
      /\ cited \in [Processes -> Responses \union {NoResponse}]
      /\ db \in Database
  BY DEF TypeInv, TypeOK
<1>b. \A p \in Processes : Cites(p) /\ CacheSound(p)
  BY DEF AnalysisInv
<1>c. Explained(db) /\ \A i \in DOMAIN backup : Explained(backup[i])
  BY DEF AnalysisInv
<1>1. CASE UNCHANGED vars
  <2>1. UNCHANGED <<clock, pc, script, cache, asOf, batch, fetchedAt, cited, left, db, backup, served>>
    BY <1>1 DEF vars
  <2>2. Explained(db)' /\ \A i \in DOMAIN backup' : Explained(backup[i])'
    BY <1>c, <2>1 DEF Explained, Stored
  <2>3. \A p \in Processes : Cites(p)' /\ CacheSound(p)'
    BY <1>b, <2>1, SameCites DEF SameWork
  <2>. QED
    BY <2>2, <2>3 DEF AnalysisInv
<1>2. ASSUME NEW p \in Processes, Launch(p) \/ NextIteration(p) PROVE AnalysisInv'
  <2>1. /\ pc'[p] = "fetch" /\ asOf'[p] = clock /\ cache'[p] = cache[p]
        /\ UNCHANGED <<db, backup, clock, served>> /\ \A q \in Processes \ {p} : SameWork(q)
    BY <1>2, <1>a DEF Launch, NextIteration, GoTo, SameWork
  <2>2. Cites(p)'
    BY <2>1, <1>a DEF Cites
  <2>3. script'[p] = "pipeline" => cache[p] = <<>>
    BY <1>2, <1>b DEF Launch, NextIteration, CacheSound
  <2>4. CacheSound(p)'
    BY <2>1, <2>3, <1>b DEF CacheSound
  <2>. QED
    BY <2>1, <2>2, <2>4, StepOutside
<1>3. ASSUME NEW p \in Processes, RecordManifest(p) PROVE AnalysisInv'
  <2>1. /\ pc[p] = "manifest" /\ pc'[p] = "fixtures" /\ cited'[p] = batch[p]
        /\ UNCHANGED <<clock, script, cache, asOf, batch, fetchedAt, left, backup, served>>
        /\ \A q \in Processes \ {p} : SameWork(q)
    BY <1>3, <1>a DEF RecordManifest, GoTo, SameWork
  <2>2. db'.fixtures = db.fixtures /\ db'.analyses = db.analyses
    BY <1>3, <1>a DEF RecordManifest, Database
  <2>3. \A m : Stored(db, m) => Stored(db', m)
    BY <2>2 DEF Stored
  <2>4. Explained(db)'
    BY <1>c, <2>1, <2>2, <2>3, StoreExplained
  <2>5. Cites(p)'
    BY <2>1, <1>b DEF Cites
  <2>6. CacheSound(p)'
    BY <2>1, <1>b DEF CacheSound
  <2>. QED
    BY <2>1, <2>3, <2>4, <2>5, <2>6, StepAnalysis
<1>4. ASSUME NEW p \in Processes, RecordRun(p) \/ RecordAudit(p) PROVE AnalysisInv'
  <2>1. /\ \/ pc[p] = "fixtures" /\ left[p] = {} /\ pc'[p] = "audit"
           \/ pc[p] = "audit" /\ pc'[p] = "waiting" /\ script[p] = "loop"
           \/ pc[p] = "audit" /\ pc'[p] = "refetch" /\ script[p] = "pipeline"
        /\ UNCHANGED <<clock, script, cache, asOf, batch, cited, fetchedAt, left, backup, served>>
        /\ \A q \in Processes \ {p} : SameWork(q)
    BY <1>4, <1>a DEF RecordRun, RecordAudit, GoTo, SameWork
  <2>2. db'.fixtures = db.fixtures /\ db'.analyses = db.analyses
    BY <1>4, <1>a DEF RecordRun, RecordAudit, Database
  <2>3. \A m : Stored(db, m) => Stored(db', m)
    BY <2>2 DEF Stored
  <2>4. Explained(db)'
    BY <1>c, <2>1, <2>2, <2>3, StoreExplained
  <2>5. Cites(p)'
    BY <2>1, <2>3, <1>b DEF Cites
  <2>6. CacheSound(p)'
    BY <2>1, <1>b DEF CacheSound
  <2>. QED
    BY <2>1, <2>3, <2>4, <2>5, <2>6, StepAnalysis
<1>5. ASSUME NEW p \in Processes, Quarantine(p) PROVE AnalysisInv'
  <2>1. /\ pc[p] = "analyze" /\ left'[p] \subseteq left[p]
        /\ UNCHANGED <<clock, pc, script, cache, asOf, batch, cited, fetchedAt, db, backup, served>>
        /\ \A q \in Processes \ {p} : SameWork(q)
    BY <1>5, <1>a DEF Quarantine, SameWork
  <2>2. Cites(p)'
    BY <2>1, <1>b DEF Cites
  <2>3. CacheSound(p)'
    BY <2>1, <1>b DEF CacheSound
  <2>. QED
    BY <2>1, <2>2, <2>3, StepOutside
<1>6. ASSUME NEW p \in Processes, Exit(p) \/ Die(p) PROVE AnalysisInv'
  <2>1. Vanish(p) /\ UNCHANGED <<db, backup, clock, served>>
    BY <1>6 DEF Exit, Die
  <2>2. /\ pc'[p] = "off" /\ asOf'[p] = 0 /\ cache'[p] = <<>> /\ \A q \in Processes \ {p} : SameWork(q)
    BY <2>1, <1>a DEF Vanish, GoTo, SameWork
  <2>3. Cites(p)'
    BY <2>1, <2>2, <1>a DEF Cites
  <2>4. CacheSound(p)'
    BY <2>2 DEF CacheSound
  <2>. QED
    BY <2>1, <2>2, <2>3, <2>4, StepOutside
<1>7. CASE Backup
  <2>1. backup' = <<db>> /\ UNCHANGED <<clock, pc, script, cache, asOf, batch, fetchedAt, cited, left, db, served>>
    BY <1>7 DEF Backup
  <2>2. \A i \in DOMAIN backup' : backup'[i] = db
    BY <2>1
  <2>3. Explained(db)' /\ \A i \in DOMAIN backup' : Explained(backup[i])'
    BY <1>c, <2>1, <2>2 DEF Explained
  <2>4. \A p \in Processes : Cites(p)' /\ CacheSound(p)'
    BY <1>b, <2>1, SameCites DEF SameWork
  <2>. QED
    BY <2>3, <2>4 DEF AnalysisInv
<1>8. CASE Restore
  <2>1. /\ UNCHANGED <<clock, pc, script, cache, asOf, batch, fetchedAt, cited, left, backup, served>>
        /\ \A p \in Processes : pc[p] = "off"
    BY <1>8 DEF Restore
  <2>2. PICK i \in DOMAIN backup : db' = backup[i]
    BY <1>8 DEF Restore
  <2>3. Explained(db)' /\ \A j \in DOMAIN backup' : Explained(backup[j])'
    BY <1>c, <2>1, <2>2 DEF Explained
  <2>4. \A p \in Processes : Cites(p)' /\ CacheSound(p)'
    BY <1>b, <2>1 DEF Cites, CacheSound
  <2>. QED
    BY <2>3, <2>4 DEF AnalysisInv
<1>9. CASE Tick \/ ProviderChanges
  <2>1. /\ UNCHANGED <<pc, script, cache, asOf, batch, fetchedAt, cited, left, db, backup, served>>
        /\ clock <= clock'
    BY <1>9, <1>a DEF Tick, ProviderChanges
  <2>2. Explained(db)' /\ \A i \in DOMAIN backup' : Explained(backup[i])'
    BY <1>c, <2>1 DEF Explained
  <2>3. \A p \in Processes : Cites(p)'
    <3>1. clock' \in Nat
      BY <1>9, <1>a DEF Tick, ProviderChanges
    <3>. QED
      BY <1>a, <1>b, <2>1, <3>1 DEF Cites
  <2>4. \A p \in Processes : CacheSound(p)'
    BY <1>b, <2>1 DEF CacheSound
  <2>. QED
    BY <2>2, <2>3, <2>4 DEF AnalysisInv
<1>10. CASE Quiet
  BY <1>1, <1>10 DEF Quiet
<1>. QED
  BY <1>1, <1>2, <1>3, <1>4, <1>5, <1>6, <1>7, <1>8, <1>9, <1>10, FetchAnalysis, FixtureAnalysis,
     StoreAnalysisSound DEF Next, Script

\* An analysis fails the audit only if the provider moved its match, and cites
\* another response than it was made from only after the time to live.
THEOREM AnalysesExplainedHolds == Spec => []AnalysesExplained
<1>1. RowsLinked /\ TypeInv /\ AnalysisInv => AnalysesExplained
  <2>. SUFFICES ASSUME RowsLinked, TypeInv, AnalysisInv, NEW a \in db.analyses
                PROVE  /\ AuditPasses(a) \/ Moved(a.match)
                       /\ a.source # a.seen => a.captured >= a.as_of + Ttl
    BY DEF AnalysesExplained, AuditExplained, CitationsExplained
  <2>1. /\ {a.seen, a.source} \subseteq served
        /\ StartsAfter(a.seen, a.match, a.as_of)
        /\ StartsAfter(a.source, a.match, a.as_of) => Stored(db, a.match)
        /\ a.source # a.seen => a.captured >= a.as_of + Ttl
    BY DEF AnalysisInv, Explained
  <2>2. ASSUME ~Moved(a.match) PROVE AuditPasses(a)
    <3>1. \A s \in served : a.match \in DOMAIN s /\ s[a.match] = a.seen[a.match]
      BY <2>1, <2>2 DEF Moved, StartsAfter
    <3>2. Stored(db, a.match)
      BY <2>1, <3>1 DEF StartsAfter
    <3>3. ASSUME NEW f \in db.fixtures, f.match = a.match PROVE a.as_of < f.kickoff
      <4>1. PICK r \in served : f.match \in DOMAIN r /\ r[f.match] = f.kickoff
        BY DEF AnalysisInv, Explained
      <4>. QED
        BY <2>1, <3>1, <3>3, <4>1 DEF StartsAfter
    <3>4. a.source \in db.manifests
      BY DEF RowsLinked, Linked
    <3>. QED
      BY <3>2, <3>3, <3>4 DEF AuditPasses, Stored
  <2>. QED
    BY <2>1, <2>2
<1>. QED
  BY <1>1, InitType, NextType, AnalysisInit, NextAnalysis, RowsLinkedHolds, PTL DEF Spec

(***************************************************************************)
(* The accepted rows of the runs.  Each match has at most one owner: the run *)
(* that counted it, or the process that has inserted it and not yet stored   *)
(* its run.                                                                *)
(***************************************************************************)
OwnedBy(own, x) == {m \in Matches : own[m] = x}

FirstSeen(data, m, t) == \E f \in data.fixtures : f.match = m /\ f.first_seen = t

\* x owns n matches, all of them first seen at t.
Owns(own, x, n, t, data) ==
  /\ Cardinality(OwnedBy(own, x)) = n
  /\ \A m \in OwnedBy(own, x) : FirstSeen(data, m, t)

Claims(data, own) == \A r \in data.runs : Owns(own, <<"run", r>>, r.accepted, r.as_of, data)

Working(p, own) ==
  IF pc[p] = "fixtures" THEN Owns(own, <<"process", p>>, inserted[p], asOf[p], db)
                        ELSE OwnedBy(own, <<"process", p>>) = {}

CountInv ==
  /\ \E own : Claims(db, own) /\ \A p \in Processes : Working(p, own)
  /\ \A i \in DOMAIN backup : \E own : Claims(backup[i], own)
  /\ \A p \in Processes : pc[p] \notin {"fixtures", "audit"} => inserted[p] = 0

LEMMA OwnerTags ==
  /\ \A x, y : <<"run", x>> # <<"process", y>> /\ <<"run", x>> # <<>> /\ <<"process", y>> # <<>>
  /\ \A x, y : <<"run", x>> = <<"run", y>> => x = y
  /\ \A x, y : <<"process", x>> = <<"process", y>> => x = y
OBVIOUS

LEMMA NothingOwned ==
  ASSUME NEW own, NEW x, NEW t, NEW data, OwnedBy(own, x) = {}
  PROVE  Owns(own, x, 0, t, data)
BY FS_EmptySet DEF Owns

\* The same matches, in a database that has the same first sightings.
LEMMA OwnsKept ==
  ASSUME NEW own, NEW other, NEW x, NEW y, NEW n, NEW t, NEW data, NEW next,
         Owns(own, x, n, t, data), OwnedBy(other, y) = OwnedBy(own, x),
         \A m : FirstSeen(data, m, t) => FirstSeen(next, m, t)
  PROVE  Owns(other, y, n, t, next)
BY DEF Owns

LEMMA CountInit == Init => CountInv
<1>. SUFFICES ASSUME Init PROVE CountInv
  OBVIOUS
<1>. DEFINE none == [m \in Matches |-> <<>>]
<1>1. \A p \in Processes : OwnedBy(none, <<"process", p>>) = {}
  BY OwnerTags DEF OwnedBy
<1>2. Claims(db, none) /\ \A p \in Processes : Working(p, none)
  BY <1>1 DEF Init, Empty, Claims, Working
<1>. QED
  BY <1>2 DEF Init, CountInv

\* A step that leaves runs and fixtures alone, and in which a process comes to
\* the fixtures with nothing inserted, or leaves them with nothing to claim.
LEMMA StepCount ==
  ASSUME CountInv, db'.runs = db.runs, db'.fixtures = db.fixtures, backup' = backup,
         \A p \in Processes :
           /\ pc'[p] = "fixtures" /\ pc[p] = "fixtures" =>
                inserted'[p] = inserted[p] /\ asOf'[p] = asOf[p]
           /\ pc'[p] = "fixtures" /\ pc[p] # "fixtures" => inserted'[p] = 0
           /\ pc'[p] \notin {"fixtures", "audit"} => inserted'[p] = 0
  PROVE  CountInv'
<1>1. PICK own : Claims(db, own) /\ \A p \in Processes : Working(p, own)
  BY DEF CountInv
<1>. DEFINE Gone(m) == \E p \in Processes : own[m] = <<"process", p>> /\ pc'[p] # "fixtures"
<1>2. PICK now, later : now = db /\ later = db'
  OBVIOUS
<1>3. \A m, t : FirstSeen(now, m, t) => FirstSeen(later, m, t)
  BY <1>2 DEF FirstSeen
<1>0. PICK next : next = [m \in Matches |-> IF Gone(m) THEN <<>> ELSE own[m]]
  OBVIOUS
<1>4. \A r : OwnedBy(next, <<"run", r>>) = OwnedBy(own, <<"run", r>>)
  BY <1>0, OwnerTags DEF OwnedBy
<1>5. ASSUME NEW p \in Processes
      PROVE  /\ pc'[p] = "fixtures" =>
                  OwnedBy(next, <<"process", p>>) = OwnedBy(own, <<"process", p>>)
             /\ pc'[p] # "fixtures" => OwnedBy(next, <<"process", p>>) = {}
  <2>1. \A m \in Matches : own[m] = <<"process", p>> => (Gone(m) <=> pc'[p] # "fixtures")
    BY OwnerTags
  <2>2. \A m \in Matches : ~Gone(m) => next[m] = own[m]
    BY <1>0
  <2>3. \A m \in Matches : Gone(m) => next[m] = <<>>
    BY <1>0
  <2>. HIDE DEF Gone
  <2>4. \A m \in Matches : next[m] = <<"process", p>> <=> (own[m] = <<"process", p>> /\ ~Gone(m))
    BY <2>2, <2>3, OwnerTags
  <2>. QED
    BY <2>1, <2>4 DEF OwnedBy
<1>6. Claims(later, next)
  BY <1>1, <1>2, <1>3, <1>4, OwnsKept DEF Claims
<1>7. ASSUME NEW p \in Processes PROVE Working(p, next)'
  <2>1. CASE pc'[p] = "fixtures" /\ pc[p] = "fixtures"
    <3>1. Owns(own, <<"process", p>>, inserted[p], asOf[p], now)
      BY <1>1, <1>2, <2>1 DEF Working
    <3>2. Owns(next, <<"process", p>>, inserted[p], asOf[p], later)
      BY <1>3, <1>5, <2>1, <3>1, OwnsKept
    <3>3. Owns(next, <<"process", p>>, inserted'[p], asOf'[p], db')
      BY <1>2, <2>1, <3>2
    <3>. QED
      BY <2>1, <3>3 DEF Working, Owns, FirstSeen
  <2>2. CASE pc'[p] = "fixtures" /\ pc[p] # "fixtures"
    <3>1. OwnedBy(next, <<"process", p>>) = {}
      BY <1>1, <1>5, <2>2 DEF Working
    <3>2. Owns(next, <<"process", p>>, inserted'[p], asOf'[p], db')
      BY <2>2, <3>1, NothingOwned
    <3>. QED
      BY <2>2, <3>2 DEF Working, Owns, FirstSeen
  <2>3. CASE pc'[p] # "fixtures"
    BY <1>5, <2>3 DEF Working
  <2>. QED
    BY <2>1, <2>2, <2>3
<1>8. Claims(db, next)'
  BY <1>2, <1>6 DEF Claims, Owns, FirstSeen
<1>9. \A i \in DOMAIN backup' : \E o : Claims(backup[i], o)'
  BY DEF CountInv, Claims, Owns, FirstSeen
<1>. QED
  BY <1>7, <1>8, <1>9 DEF CountInv

LEMMA FixtureCount ==
  ASSUME TypeInv, CountInv, NEW p \in Processes, RecordFixture(p)
  PROVE  CountInv'
<1>. USE DEF environment, operator
<1>1. PICK m \in left[p] :
        \/ /\ ~Known(m)
           /\ db' = [db EXCEPT !.fixtures = @ \union {NewFixture(p, m)}]
           /\ inserted' = [inserted EXCEPT ![p] = @ + 1]
        \/ /\ Known(m)
           /\ db' = [db EXCEPT !.fixtures = SeenAgain(p, m)]
           /\ inserted' = inserted
  BY DEF RecordFixture
<1>2. /\ pc[p] = "fixtures" /\ UNCHANGED <<pc, asOf, backup>>
  BY DEF RecordFixture
<1>3. PICK own : Claims(db, own) /\ \A q \in Processes : Working(q, own)
  BY DEF CountInv
<1>4. PICK now, later : now = db /\ later = db'
  OBVIOUS
<1>5. /\ m \in Matches /\ inserted \in [Processes -> Nat]
      /\ db'.runs = db.runs
      /\ ~Known(m) => db'.fixtures = db.fixtures \union {NewFixture(p, m)}
      /\ Known(m) => db'.fixtures = SeenAgain(p, m)
  BY <1>1 DEF TypeInv, TypeOK, Database
<1>6. \A n, t : FirstSeen(now, n, t) => FirstSeen(later, n, t)
  <2>1. \A f \in db.fixtures :
          LET g == [f EXCEPT !.last_seen = asOf[p], !.source = batch[p]]
          IN  g.match = f.match /\ g.first_seen = f.first_seen
    BY DatabaseParts DEF Fixture, TypeInv
  <2>2. \A f \in db.fixtures : \E g \in SeenAgain(p, m) :
          g.match = f.match /\ g.first_seen = f.first_seen
    BY <2>1 DEF SeenAgain
  <2>. QED
    BY <1>4, <1>5, <2>2 DEF FirstSeen
<1>7. \A i \in DOMAIN backup' : \E o : Claims(backup[i], o)'
  BY <1>2 DEF CountInv, Claims, Owns, FirstSeen
<1>8. \A q \in Processes : pc'[q] \notin {"fixtures", "audit"} => inserted'[q] = 0
  BY <1>1, <1>2, <1>5 DEF CountInv
<1>9. ASSUME NEW q \in Processes, inserted'[q] = inserted[q], NEW next,
             OwnedBy(next, <<"process", q>>) = OwnedBy(own, <<"process", q>>)
      PROVE  Working(q, next)'
  <2>1. CASE pc[q] = "fixtures"
    <3>1. Owns(own, <<"process", q>>, inserted[q], asOf[q], now)
      BY <1>3, <1>4, <2>1 DEF Working
    <3>2. Owns(next, <<"process", q>>, inserted[q], asOf[q], later)
      BY <1>6, <1>9, <3>1, OwnsKept
    <3>3. Owns(next, <<"process", q>>, inserted'[q], asOf'[q], db')
      BY <1>2, <1>4, <1>9, <3>2
    <3>. QED
      BY <1>2, <2>1, <3>3 DEF Working, Owns, FirstSeen
  <2>2. CASE pc[q] # "fixtures"
    BY <1>2, <1>3, <1>9, <2>2 DEF Working
  <2>. QED
    BY <2>1, <2>2
<1>10. ASSUME NEW next, \A r \in db.runs : OwnedBy(next, <<"run", r>>) = OwnedBy(own, <<"run", r>>)
       PROVE  Claims(db, next)'
  <2>1. Claims(later, next)
    BY <1>3, <1>4, <1>5, <1>6, <1>10, OwnsKept DEF Claims
  <2>. QED
    BY <1>4, <2>1 DEF Claims, Owns, FirstSeen
<1>11. CASE Known(m)
  <2>1. inserted' = inserted
    BY <1>1, <1>11
  <2>. QED
    BY <1>7, <1>8, <1>9, <1>10, <2>1 DEF CountInv
<1>12. CASE ~Known(m)
  <2>. DEFINE next == [n \in Matches |-> IF n = m THEN <<"process", p>> ELSE own[n]]
  <2>1. \A t : ~FirstSeen(now, m, t)
    BY <1>4, <1>12 DEF FirstSeen, Known
  <2>2. \A r \in db.runs : m \notin OwnedBy(own, <<"run", r>>)
    BY <1>3, <1>4, <2>1 DEF Claims, Owns
  <2>3. \A q \in Processes : m \notin OwnedBy(own, <<"process", q>>)
    BY <1>3, <1>4, <2>1 DEF Working, Owns
  <2>4. \A r \in db.runs : OwnedBy(next, <<"run", r>>) = OwnedBy(own, <<"run", r>>)
    BY <1>5, <2>2, OwnerTags DEF OwnedBy
  <2>5. \A q \in Processes \ {p} : OwnedBy(next, <<"process", q>>) = OwnedBy(own, <<"process", q>>)
    BY <1>5, <2>3, OwnerTags DEF OwnedBy
  <2>6. OwnedBy(next, <<"process", p>>) = OwnedBy(own, <<"process", p>>) \union {m}
    BY <1>5, <2>3 DEF OwnedBy
  <2>. HIDE DEF next
  <2>7. FirstSeen(later, m, asOf[p])
    <3>1. NewFixture(p, m) \in later.fixtures
      BY <1>4, <1>5, <1>12
    <3>2. NewFixture(p, m).match = m /\ NewFixture(p, m).first_seen = asOf[p]
      BY DEF NewFixture
    <3>. QED
      BY <3>1, <3>2 DEF FirstSeen
  <2>8. Owns(own, <<"process", p>>, inserted[p], asOf[p], now)
    BY <1>2, <1>3, <1>4 DEF Working
  <2>9. Owns(next, <<"process", p>>, inserted[p] + 1, asOf[p], later)
    <3>1. IsFiniteSet(OwnedBy(own, <<"process", p>>))
      BY FS_Subset, SeasonAssumption DEF OwnedBy
    <3>2. Cardinality(OwnedBy(own, <<"process", p>>) \union {m}) = inserted[p] + 1
      BY <2>3, <2>8, <3>1, FS_AddElement DEF Owns
    <3>. QED
      BY <1>6, <2>6, <2>7, <2>8, <3>2 DEF Owns
  <2>10. Working(p, next)'
    <3>1. Owns(next, <<"process", p>>, inserted'[p], asOf'[p], db')
      BY <1>1, <1>2, <1>4, <1>5, <1>12, <2>9
    <3>. QED
      BY <1>2, <3>1 DEF Working, Owns, FirstSeen
  <2>11. \A q \in Processes \ {p} : Working(q, next)'
    BY <1>1, <1>5, <1>9, <1>12, <2>5
  <2>12. Claims(db, next)'
    BY <1>10, <2>4
  <2>. QED
    BY <1>7, <1>8, <2>10, <2>11, <2>12 DEF CountInv
<1>. QED
  BY <1>11, <1>12

\* The matches of the process become those of the run that is stored; a run it
\* replaces gives its own away.
LEMMA RunCount ==
  ASSUME TypeInv, CountInv, NEW p \in Processes, RecordRun(p)
  PROVE  CountInv'
<1>. USE DEF environment, operator
<1>1. /\ pc[p] = "fixtures" /\ pc' = [pc EXCEPT ![p] = "audit"]
      /\ UNCHANGED <<asOf, backup, inserted>>
  BY DEF RecordRun, GoTo
<1>2. PICK run : run = [as_of |-> asOf[p], manifest |-> batch[p], accepted |-> inserted[p]]
  OBVIOUS
<1>3. /\ \A r \in db'.runs : r = run \/ (r \in db.runs /\ r # run)
      /\ db'.fixtures = db.fixtures /\ pc \in [Processes -> Places]
  BY <1>2 DEF RecordRun, TypeInv, TypeOK, Database
<1>4. PICK own : Claims(db, own) /\ \A q \in Processes : Working(q, own)
  BY DEF CountInv
<1>5. PICK now, later : now = db /\ later = db'
  OBVIOUS
<1>6. \A n, t : FirstSeen(now, n, t) => FirstSeen(later, n, t)
  BY <1>3, <1>5 DEF FirstSeen
<1>. DEFINE next == [m \in Matches |-> IF own[m] = <<"process", p>> THEN <<"run", run>>
                                      ELSE IF own[m] = <<"run", run>> THEN <<>> ELSE own[m]]
<1>7. /\ OwnedBy(next, <<"run", run>>) = OwnedBy(own, <<"process", p>>)
      /\ OwnedBy(next, <<"process", p>>) = {}
  BY OwnerTags DEF OwnedBy
<1>8. /\ \A r : r # run => OwnedBy(next, <<"run", r>>) = OwnedBy(own, <<"run", r>>)
      /\ \A q : q # p => OwnedBy(next, <<"process", q>>) = OwnedBy(own, <<"process", q>>)
  BY OwnerTags DEF OwnedBy
<1>. HIDE DEF next
<1>9. Owns(own, <<"process", p>>, run.accepted, run.as_of, now)
  BY <1>1, <1>2, <1>4, <1>5 DEF Working
<1>10. Owns(next, <<"run", run>>, run.accepted, run.as_of, later)
  BY <1>6, <1>7, <1>9, OwnsKept
<1>11. \A r \in db'.runs : Owns(next, <<"run", r>>, r.accepted, r.as_of, later)
  <2>. SUFFICES ASSUME NEW r \in db'.runs, r # run
                PROVE  Owns(next, <<"run", r>>, r.accepted, r.as_of, later)
    BY <1>10
  <2>1. Owns(own, <<"run", r>>, r.accepted, r.as_of, now)
    BY <1>3, <1>4, <1>5 DEF Claims
  <2>. QED
    BY <1>6, <1>8, <2>1, OwnsKept
<1>12. Claims(db, next)'
  BY <1>5, <1>11 DEF Claims, Owns, FirstSeen
<1>13. ASSUME NEW q \in Processes PROVE Working(q, next)'
  <2>1. CASE q = p
    BY <1>1, <1>3, <1>7, <2>1 DEF Working
  <2>2. CASE q # p /\ pc[q] = "fixtures"
    <3>1. Owns(own, <<"process", q>>, inserted[q], asOf[q], now)
      BY <1>4, <1>5, <2>2 DEF Working
    <3>2. Owns(next, <<"process", q>>, inserted[q], asOf[q], later)
      BY <1>6, <1>8, <2>2, <3>1, OwnsKept
    <3>3. Owns(next, <<"process", q>>, inserted'[q], asOf'[q], db')
      BY <1>1, <1>5, <3>2
    <3>. QED
      BY <1>1, <1>3, <2>2, <3>3 DEF Working, Owns, FirstSeen
  <2>3. CASE q # p /\ pc[q] # "fixtures"
    BY <1>1, <1>3, <1>4, <1>8, <2>3 DEF Working
  <2>. QED
    BY <2>1, <2>2, <2>3
<1>14. \A i \in DOMAIN backup' : \E o : Claims(backup[i], o)'
  BY <1>1 DEF CountInv, Claims, Owns, FirstSeen
<1>15. \A q \in Processes : pc'[q] \notin {"fixtures", "audit"} => inserted'[q] = 0
  BY <1>1, <1>3 DEF CountInv
<1>. QED
  BY <1>12, <1>13, <1>14, <1>15 DEF CountInv

LEMMA RestoreCount ==
  ASSUME TypeInv, CountInv, Restore
  PROVE  CountInv'
<1>. USE DEF environment, processes
<1>1. PICK i \in DOMAIN backup : db' = backup[i]
  BY DEF Restore
<1>2. PICK own : Claims(backup[i], own)
  BY DEF CountInv
<1>3. PICK later : later = db'
  OBVIOUS
<1>. DEFINE next == [m \in Matches |-> IF \E r \in later.runs : own[m] = <<"run", r>>
                                      THEN own[m] ELSE <<>>]
<1>4. \A r \in later.runs : OwnedBy(next, <<"run", r>>) = OwnedBy(own, <<"run", r>>)
  BY OwnerTags DEF OwnedBy
<1>5. \A p \in Processes : OwnedBy(next, <<"process", p>>) = {}
  BY OwnerTags DEF OwnedBy
<1>. HIDE DEF next
<1>6. Claims(later, next)
  BY <1>1, <1>2, <1>3, <1>4, OwnsKept DEF Claims
<1>7. Claims(db, next)'
  BY <1>3, <1>6 DEF Claims, Owns, FirstSeen
<1>8. \A p \in Processes : Working(p, next)'
  BY <1>5 DEF Restore, Working
<1>9. \A j \in DOMAIN backup' : \E o : Claims(backup[j], o)'
  <2>1. backup' = backup
    BY DEF Restore
  <2>. QED
    BY <2>1 DEF CountInv, Claims, Owns, FirstSeen
<1>. QED
  BY <1>7, <1>8, <1>9 DEF CountInv, Restore

LEMMA NextCount == TypeInv /\ CountInv /\ [Next]_vars => CountInv'
<1>. SUFFICES ASSUME TypeInv, CountInv, [Next]_vars PROVE CountInv'
  OBVIOUS
<1>. USE DEF environment, operator, processes
<1>a. /\ pc \in [Processes -> Places] /\ inserted \in [Processes -> Nat]
      /\ asOf \in [Processes -> Nat] /\ db \in Database
  BY DEF TypeInv, TypeOK
<1>1. CASE UNCHANGED vars
  BY <1>1, StepCount DEF vars, CountInv
<1>2. ASSUME NEW p \in Processes, Launch(p) \/ NextIteration(p) PROVE CountInv'
  <2>1. \A q \in Processes : inserted'[q] = inserted[q] /\ pc'[q] = (IF q = p THEN "fetch" ELSE pc[q])
          /\ (q # p => asOf'[q] = asOf[q])
    BY <1>2, <1>a DEF Launch, NextIteration, GoTo
  <2>2. UNCHANGED <<db, backup>> /\ inserted[p] = 0
    BY <1>2 DEF Launch, NextIteration, CountInv
  <2>. QED
    BY <2>1, <2>2, StepCount DEF CountInv
<1>3. ASSUME NEW p \in Processes,
             FetchCached(p) \/ FetchProvider(p) \/ RecordManifest(p) \/ StoreAnalysis(p) \/ Quarantine(p)
      PROVE  CountInv'
  <2>1. UNCHANGED <<inserted, asOf, backup>> /\ db'.runs = db.runs /\ db'.fixtures = db.fixtures
    BY <1>3, <1>a DEF FetchCached, FetchProvider, RecordManifest, StoreAnalysis, Quarantine, Database
  <2>2. /\ \A q \in Processes \ {p} : pc'[q] = pc[q]
        /\ pc'[p] = pc[p] \/ (pc[p] \notin {"fixtures", "audit"} /\ pc'[p] # "audit")
    BY <1>3, <1>a
       DEF FetchCached, FetchProvider, Continue, RecordManifest, StoreAnalysis, Quarantine, GoTo
  <2>. QED
    BY <2>1, <2>2, StepCount DEF CountInv
<1>4. ASSUME NEW p \in Processes, RecordAudit(p) PROVE CountInv'
  <2>1. UNCHANGED <<asOf, backup>> /\ db'.runs = db.runs /\ db'.fixtures = db.fixtures
    BY <1>4, <1>a DEF RecordAudit, Database
  <2>2. /\ pc'[p] # "fixtures" /\ inserted'[p] = 0
        /\ \A q \in Processes \ {p} : pc'[q] = pc[q] /\ inserted'[q] = inserted[q]
    BY <1>4, <1>a DEF RecordAudit, GoTo
  <2>. QED
    BY <2>1, <2>2, StepCount DEF CountInv
<1>5. ASSUME NEW p \in Processes, Exit(p) \/ Die(p) PROVE CountInv'
  <2>1. UNCHANGED <<db, backup>>
    BY <1>5 DEF Exit, Die
  <2>2. /\ pc'[p] = "off" /\ inserted'[p] = 0
        /\ \A q \in Processes \ {p} :
             pc'[q] = pc[q] /\ inserted'[q] = inserted[q] /\ asOf'[q] = asOf[q]
    BY <1>5, <1>a DEF Exit, Die, Vanish, GoTo
  <2>. QED
    BY <2>1, <2>2, StepCount DEF CountInv
<1>6. CASE Backup
  <2>1. PICK own : Claims(db, own) /\ \A p \in Processes : Working(p, own)
    BY DEF CountInv
  <2>2. UNCHANGED <<db, pc, inserted, asOf>> /\ backup' = <<db>>
    BY <1>6 DEF Backup
  <2>3. Claims(db, own)' /\ \A p \in Processes : Working(p, own)'
    BY <2>1, <2>2 DEF Claims, Working, Owns, FirstSeen
  <2>4. \A i \in DOMAIN backup' : backup'[i] = db'
    BY <2>2
  <2>5. \A i \in DOMAIN backup' : Claims(backup[i], own)'
    BY <2>3, <2>4 DEF Claims, Owns, FirstSeen
  <2>. QED
    BY <2>2, <2>3, <2>5 DEF CountInv
<1>7. CASE Restore
  BY <1>7, RestoreCount
<1>8. CASE Tick \/ ProviderChanges
  BY <1>8, StepCount DEF Tick, ProviderChanges, CountInv
<1>9. CASE Quiet
  BY <1>1, <1>9 DEF Quiet
<1>. QED
  BY <1>1, <1>2, <1>3, <1>4, <1>5, <1>6, <1>7, <1>8, <1>9, FixtureCount, RunCount DEF Next, Script

\* No fixture is counted by two runs, and none that is gone: a run is replaced,
\* a script dies or a backup is restored without a row being claimed twice.
THEOREM CountsAccountedHolds == Spec => []CountsAccounted
<1>1. CountInv => CountsAccounted
  <2>. SUFFICES ASSUME CountInv PROVE CountsAccounted
    OBVIOUS
  <2>1. PICK own : Claims(db, own)
    BY DEF CountInv
  <2>. DEFINE share == [r \in db.runs |-> OwnedBy(own, <<"run", r>>)]
  <2>2. share \in [db.runs -> SUBSET Matches]
    BY DEF OwnedBy
  <2>3. \A r \in db.runs :
          /\ Cardinality(share[r]) = r.accepted
          /\ \A m \in share[r] : \E f \in db.fixtures : f.match = m /\ f.first_seen = r.as_of
    BY <2>1 DEF Claims, Owns, FirstSeen
  <2>4. \A r, s \in db.runs : r # s => share[r] \intersect share[s] = {}
    BY OwnerTags DEF OwnedBy
  <2>. QED
    BY <2>2, <2>3, <2>4 DEF CountsAccounted
<1>. QED
  BY <1>1, InitType, NextType, CountInit, NextCount, PTL DEF Spec
=============================================================================
