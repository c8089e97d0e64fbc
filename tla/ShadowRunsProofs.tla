-------------------------- MODULE ShadowRunsProofs --------------------------
(***************************************************************************)
(* Theorems about ShadowRuns, for any callers, requests and bounds.        *)
(*                                                                         *)
(* TypeInv is the type invariant with the range of `next'.  CoverInv says  *)
(* how far a caller has got: what it has passed is in the ledger, and the  *)
(* ledger it hashed holds its whole plan.  BreakInv counts the callers     *)
(* that may still append behind a break.  ChainInv and SerialInv are for   *)
(* one caller: what it read of the ledger, the artifact and the run record *)
(* is still so.                                                            *)
(***************************************************************************)
EXTENDS ShadowRuns, FiniteSetTheorems, TLAPS

Appending == {"verify", "look", "link", "append"}

\* The type invariant, and a caller that appends has a prediction to append.
TypeInv ==
  /\ TypeOK
  /\ \A c \in Callers : pc[c] \in Appending => next[c] \in 1 .. Len(Plan(c))

LEMMA RequestType ==
  ASSUME TypeOK, NEW c \in Callers
  PROVE  /\ req[c] \in Requests
         /\ Plan(c) \in Seq(Prediction) /\ Run(c) \in RunIds
BY RequestAssumption DEF TypeOK, Request, Plan, Run

LEMMA WantedType ==
  ASSUME TypeOK, NEW c \in Callers, next[c] \in 1 .. Len(Plan(c))
  PROVE  Wanted(c) \in Prediction
BY RequestType DEF Wanted

LEMMA HashType == \A e \in Entry : Hash(e) \in Seq(Prediction)
BY DEF Entry, Hash

LEMMA LastHashType == \A l \in Seq(Entry) : LastHash(l) \in Seq(Prediction)
<1>. SUFFICES ASSUME NEW l \in Seq(Entry), l # <<>> PROVE Hash(l[Len(l)]) \in Seq(Prediction)
  BY DEF LastHash
<1>1. l[Len(l)] \in Entry
  OBVIOUS
<1>. QED
  BY <1>1, HashType

LEMMA WholeType ==
  ASSUME NEW S, NEW x \in S
  PROVE  Whole(x) \in File(S) /\ Torn \in File(S) /\ Absent \in File(S)
BY DEF Whole, File, Torn, Absent

LEMMA TextType == TypeOK => LedgerText \in Text
BY DEF TypeOK, LedgerText, Text

LEMMA CutsType ==
  ASSUME TypeOK
  PROVE  CutsWritten \in Seq(Nat) /\ Append(cuts, Len(ledger)) \in Seq(Nat)
<1>1. cuts \in Seq(Nat) /\ Len(ledger) \in Nat
  BY DEF TypeOK
<1>. QED
  BY <1>1 DEF CutsWritten

LEMMA TypeInit == Init => TypeInv
<1>1. Absent \in File(Seq(Prediction)) /\ Absent \in File(RunRecord)
  BY DEF Absent, File
<1>2. Init => LedgerText \in Text
  BY DEF Init, LedgerText, Text
<1>3. Init => seen \in [Callers -> Text]
  BY <1>2 DEF Init
<1>4. Init => ledger \in Seq(Entry) /\ cuts \in Seq(Nat)
  BY DEF Init
<1>5. Init => unended \in BOOLEAN
  <2>1. Init => unended = FALSE
    BY DEF Init
  <2>. QED
    BY <2>1
<1>6. Init => next \in [Callers -> Nat]
  BY DEF Init
<1>7. Init => pc \in [Callers -> Places] /\ \A c \in Callers : pc[c] \notin Appending
  BY DEF Init, Places, Appending
<1>8. Init => /\ prev \in [Callers -> Seq(Prediction)]
              /\ output \in [Callers -> Seq(Seq(Prediction))]
              /\ artifact \in [RunIds -> File(Seq(Prediction))]
              /\ record \in [RunIds -> File(RunRecord)]
  BY <1>1 DEF Init
<1>. QED
  BY <1>3, <1>4, <1>5, <1>6, <1>7, <1>8 DEF Init, TypeInv, TypeOK

\* A step that only moves a caller, or also reads a file into its own state.
LEMMA MoveType ==
  ASSUME TypeInv, NEW c \in Callers, NEW to \in Places \ Appending,
         pc' = [pc EXCEPT ![c] = to],
         UNCHANGED <<files, req, next, prev, output, seen, answered, calls, crashes>>
  PROVE  TypeInv'
BY DEF TypeInv, TypeOK, files, Plan

LEMMA ArtifactType ==
  ASSUME TypeInv, NEW c \in Callers, Artifact(c)
  PROVE  TypeInv'
<1>. USE DEF TypeInv, TypeOK
<1>1. Plan(c) \in Seq(Prediction) /\ Run(c) \in RunIds
  BY RequestType
<1>2. CASE ArtifactConflict(c)
  BY <1>2, MoveType DEF ArtifactConflict, Refuse, GoTo, Places, Appending
<1>3. CASE ArtifactAcceptable(c)
  BY <1>3, MoveType DEF ArtifactAcceptable, GoTo, Places, Appending
<1>4. CASE FindArtifact(c)
  BY <1>4, MoveType DEF FindArtifact, GoTo, Places, Appending
<1>5. CASE OpenArtifact(c)
  BY <1>1, <1>5, WholeType DEF OpenArtifact, GoTo, Places, Appending, Plan
<1>6. CASE WriteArtifact(c)
  <2>1. Whole(Plan(c)) \in File(Seq(Prediction))
    BY <1>1, WholeType
  <2>. QED
    BY <1>1, <1>6, <2>1 DEF WriteArtifact, GoTo, Places, Appending, Plan
<1>7. CASE HashArtifact(c)
  <2>1. artifact[Run(c)].text \in Seq(Seq(Prediction))
    BY <1>1 DEF File
  <2>2. Plan(c) # <<>> => 1 \in 1 .. Len(Plan(c))
    BY <1>1
  <2>. QED
    BY <1>7, <2>1, <2>2 DEF HashArtifact, GoTo, Places, Appending, Plan, files
<1>. QED
  BY <1>2, <1>3, <1>4, <1>5, <1>6, <1>7 DEF Artifact

\* Advancing leads to the next prediction or to the final verification.
LEMMA AdvanceType ==
  ASSUME TypeInv, NEW c \in Callers, pc[c] \in Appending, Advance(c), req' = req
  PROVE  /\ next' \in [Callers -> Nat] /\ pc' \in [Callers -> Places]
         /\ \A d \in Callers : pc'[d] \in Appending => next'[d] \in 1 .. Len(Plan(d)')
<1>. USE DEF TypeInv, TypeOK
<1>1. Plan(c) \in Seq(Prediction) /\ next[c] \in 1 .. Len(Plan(c))
  BY RequestType
<1>2. Plan(c)' = Plan(c) /\ \A d \in Callers : Plan(d)' = Plan(d)
  BY DEF Plan
<1>3. next[c] + 1 \in Nat /\ (next[c] < Len(Plan(c)) => next[c] + 1 \in 1 .. Len(Plan(c)))
  BY <1>1
<1>. QED
  BY <1>2, <1>3 DEF Advance, GoTo, Places, Appending

LEMMA LedgerType ==
  ASSUME TypeInv, NEW c \in Callers, Ledger(c)
  PROVE  TypeInv'
<1>. USE DEF TypeInv, TypeOK
<1>1. CASE LedgerUnreadable(c) \/ LedgerBroken(c)
  BY <1>1, MoveType DEF LedgerUnreadable, LedgerBroken, Refuse, GoTo, Places, Appending
<1>2. CASE LedgerVerified(c)
  BY <1>2 DEF LedgerVerified, GoTo, Places, Appending, Plan, files
<1>3. CASE AlreadyIssued(c)
  BY <1>3, AdvanceType DEF AlreadyIssued, files, Appending
<1>4. CASE IdConflict(c)
  BY <1>4, MoveType DEF IdConflict, Refuse, GoTo, Places, Appending
<1>5. CASE NotIssued(c)
  BY <1>5 DEF NotIssued, GoTo, Places, Appending, Plan, files
<1>6. CASE Link(c)
  <2>1. LastHash(ledger) \in Seq(Prediction)
    BY LastHashType
  <2>. QED
    BY <1>6, <2>1 DEF Link, GoTo, Places, Appending, Plan, files
<1>7. CASE AppendEntry(c)
  <2>1. Wanted(c) \in Prediction
    BY <1>7, WantedType DEF AppendEntry, Appending
  <2>2. ledger' \in Seq(Entry)
    BY <1>7, <2>1 DEF AppendEntry, NewEntry, Entry
  <2>3. cuts' \in Seq(Nat) /\ unended' \in BOOLEAN
    BY <1>7, CutsType DEF AppendEntry
  <2>. QED
    BY <1>7, <2>2, <2>3, AdvanceType DEF AppendEntry, Appending
<1>8. CASE HashLedger(c)
  BY <1>8, TextType DEF HashLedger, GoTo, Places, Appending, Plan, files
<1>9. CASE CutAppend(c)
  <2>1. NewEntry(c) \in Entry
    BY <1>9, WantedType DEF CutAppend, Appending, NewEntry, Entry
  <2>2. ledger' \in Seq(Entry) /\ cuts' \in Seq(Nat) /\ unended' \in BOOLEAN
    <3>1. ledger' \in {ledger, Append(ledger, NewEntry(c))}
      BY <1>9 DEF CutAppend
    <3>2. cuts' \in {CutsWritten, Append(cuts, Len(ledger))} /\ unended' \in BOOLEAN
      BY <1>9 DEF CutAppend
    <3>. QED
      <4>1. CutsWritten \in Seq(Nat) /\ Append(cuts, Len(ledger)) \in Seq(Nat)
        BY CutsType
      <4>2. ledger' \in Seq(Entry)
        <5>1. ledger \in Seq(Entry)
          OBVIOUS
        <5>2. Append(ledger, NewEntry(c)) \in Seq(Entry)
          BY <2>1, <5>1
        <5>. QED
          BY <3>1, <5>1, <5>2
      <4>. QED
        BY <3>2, <4>1, <4>2
  <2>3. crashes + 1 \in Nat
    OBVIOUS
  <2>. QED
    BY <1>9, <2>2, <2>3 DEF CutAppend, GoTo, Places, Appending, Plan
<1>. QED
  BY <1>1, <1>2, <1>3, <1>4, <1>5, <1>6, <1>7, <1>8, <1>9 DEF Ledger

LEMMA RecordType ==
  ASSUME TypeInv, NEW c \in Callers, Record(c)
  PROVE  TypeInv'
<1>. USE DEF TypeInv, TypeOK
<1>1. CASE FindRecord(c)
  BY <1>1, MoveType DEF FindRecord, GoTo, Places, Appending
<1>2. CASE RecordConflict(c)
  BY <1>2, MoveType DEF RecordConflict, Refuse, GoTo, Places, Appending
<1>3. CASE RecordAgrees(c)
  BY <1>3, MoveType DEF RecordAgrees, GoTo, Places, Appending
<1>4. CASE OpenRecord(c)
  <2>1. Torn \in File(RunRecord)
    BY DEF Torn, File
  <2>. QED
    BY <1>4, <2>1 DEF OpenRecord, GoTo, Places, Appending, Plan
<1>5. CASE WriteRecord(c)
  <2>1. NewRecord(c) \in RunRecord
    BY RequestType DEF NewRecord, RunRecord
  <2>2. Whole(NewRecord(c)) \in File(RunRecord)
    BY <2>1, WholeType
  <2>. QED
    BY <1>5, <2>2 DEF WriteRecord, GoTo, Places, Appending, Plan
<1>6. CASE CountLedger(c)
  BY <1>6, TextType DEF CountLedger, GoTo, Places, Appending, Plan, files
<1>. QED
  BY <1>1, <1>2, <1>3, <1>4, <1>5, <1>6 DEF Record

LEMMA TypeStep == TypeInv /\ [Next]_vars => TypeInv'
<1>. SUFFICES ASSUME TypeInv, [Next]_vars PROVE TypeInv'
  OBVIOUS
<1>. USE DEF TypeInv, TypeOK
<1>1. ASSUME NEW c \in Callers, Start(c) PROVE TypeInv'
  <2>1. calls + 1 \in Nat
    OBVIOUS
  <2>2. PICK q \in Requests : req' = [req EXCEPT ![c] = q]
    BY <1>1 DEF Start
  <2>. QED
    BY <1>1, <2>1, <2>2 DEF Start, GoTo, Places, Appending, Plan, files
<1>2. ASSUME NEW c \in Callers, Answer(c) PROVE TypeInv'
  <2>1. [request |-> req[c], count |-> Len(seen[c].entries), ledger |-> LedgerText]
          \in [request : Requests, count : Nat, ledger : Text]
    BY RequestType, TextType DEF Text
  <2>. QED
    BY <1>2, <2>1 DEF Answer, GoTo, Places, Appending, Plan, files
<1>3. ASSUME NEW c \in Callers, Return(c) PROVE TypeInv'
  BY <1>3, MoveType DEF Return, GoTo, Places, Appending
<1>4. ASSUME NEW c \in Callers, Crash(c) PROVE TypeInv'
  <2>1. crashes + 1 \in Nat
    OBVIOUS
  <2>. QED
    BY <1>4, <2>1 DEF Crash, GoTo, Places, Appending, Plan, files
<1>5. CASE UNCHANGED vars
  BY <1>5 DEF vars, caller, files, Plan
<1>. QED
  BY <1>1, <1>2, <1>3, <1>4, <1>5, ArtifactType, LedgerType, RecordType DEF Next, Quiet

THEOREM TypeCorrect == Spec => []TypeInv
BY TypeInit, TypeStep, PTL DEF Spec

\* The files, callers and answers keep their types.
THEOREM TypeOKCorrect == Spec => []TypeOK
<1>1. TypeInv => TypeOK
  BY DEF TypeInv
<1>. QED
  BY <1>1, TypeCorrect, PTL

(***************************************************************************)
(* A recorded run's predictions are in the ledger                          *)
(***************************************************************************)
Covers(l, plan) == \A i \in DOMAIN plan : Issued(l, plan[i])

\* What a caller has passed is in the ledger; what it is about to record is
\* in the ledger it hashed.
CallerCovered(c) ==
  /\ pc[c] \in Appending => \A i \in 1 .. next[c] - 1 : Issued(ledger, Plan(c)[i])
  /\ pc[c] \in {"final", "sha"} => Covers(ledger, Plan(c))
  /\ pc[c] \in {"record", "openrecord", "writerecord"} => Covers(seen[c].entries, Plan(c))

CoverInv ==
  /\ \A c \in Callers : CallerCovered(c)
  /\ RecordCoversPlan

\* An append keeps what was issued and issues its own prediction.
LEMMA AppendIssues ==
  ASSUME NEW l \in Seq(Entry), NEW e \in Entry
  PROVE  /\ \A p : Issued(l, p) => Issued(Append(l, e), p)
         /\ Issued(Append(l, e), e.prediction)
<1>1. /\ Append(l, e) \in Seq(Entry) /\ Len(Append(l, e)) = Len(l) + 1
      /\ \A i \in 1 .. Len(l) : Append(l, e)[i] = l[i]
      /\ Append(l, e)[Len(l) + 1] = e
  OBVIOUS
<1>. QED
  BY <1>1 DEF Issued

\* The callers that did not move stay covered, whether or not the ledger grew.
LEMMA OthersCovered ==
  ASSUME TypeInv, CoverInv, NEW c \in Callers, NEW d \in Callers \ {c},
         ledger' = ledger \/ \E e \in Entry : ledger' = Append(ledger, e),
         pc'[d] = pc[d], req'[d] = req[d], next'[d] = next[d], seen'[d] = seen[d]
  PROVE  CallerCovered(d)'
<1>1. \A p : Issued(ledger, p) => Issued(ledger, p)'
  <2>1. CASE ledger' = ledger
    BY <2>1 DEF Issued
  <2>2. ASSUME NEW e \in Entry, ledger' = Append(ledger, e)
        PROVE  \A p : Issued(ledger, p) => Issued(ledger, p)'
    <3>1. \A p : Issued(ledger, p) => Issued(Append(ledger, e), p)
      BY AppendIssues DEF TypeInv, TypeOK
    <3>. QED
      BY <2>2, <3>1 DEF Issued
  <2>. QED
    BY <2>1, <2>2
<1>2. Plan(d)' = Plan(d)
  BY DEF Plan
<1>. QED
  BY <1>1, <1>2 DEF CoverInv, CallerCovered, Covers

LEMMA CoverInit == Init => CoverInv
BY DEF Init, CoverInv, CallerCovered, RecordCoversPlan, Recorded, Contents, Absent, Appending

\* A step of one caller that changes neither ledger nor records.
LEMMA CoverMove ==
  ASSUME TypeInv, CoverInv, NEW c \in Callers, NEW to, CallerCovered(c)',
         UNCHANGED <<ledger, record>>,
         pc' = [pc EXCEPT ![c] = to],
         \A d \in Callers \ {c} : req'[d] = req[d] /\ next'[d] = next[d] /\ seen'[d] = seen[d]
  PROVE  CoverInv'
<1>1. \A d \in Callers \ {c} : pc'[d] = pc[d]
  BY DEF TypeInv, TypeOK
<1>2. \A d \in Callers \ {c} : CallerCovered(d)'
  BY <1>1, OthersCovered
<1>3. RecordCoversPlan'
  BY DEF CoverInv, RecordCoversPlan, Recorded, Contents
<1>. QED
  BY <1>2, <1>3 DEF CoverInv

\* Stepping to a place where nothing is owed.
LEMMA Uncommitted ==
  ASSUME NEW c \in Callers,
         pc'[c] \notin Appending \union {"final", "sha", "record", "openrecord", "writerecord"}
  PROVE  CallerCovered(c)'
BY DEF CallerCovered

LEMMA ArtifactCover ==
  ASSUME TypeInv, CoverInv, NEW c \in Callers, Artifact(c)
  PROVE  CoverInv'
<1>. USE DEF TypeInv, TypeOK
<1>1. CASE HashArtifact(c)
  <2>1. CallerCovered(c)'
    BY <1>1, RequestType DEF HashArtifact, GoTo, CallerCovered, Covers, Appending, Plan
  <2>. QED
    BY <1>1, <2>1, CoverMove DEF HashArtifact, GoTo, files
<1>2. CASE ~HashArtifact(c)
  <2>1. CallerCovered(c)'
    BY <1>2, Uncommitted DEF Artifact, ArtifactConflict, ArtifactAcceptable, FindArtifact,
       OpenArtifact, WriteArtifact, Refuse, GoTo, Appending
  <2>2. PICK to : pc' = [pc EXCEPT ![c] = to]
    BY <1>2 DEF Artifact, ArtifactConflict, ArtifactAcceptable, FindArtifact,
       OpenArtifact, WriteArtifact, Refuse, GoTo
  <2>3. UNCHANGED <<ledger, record, req, next, seen>>
    BY <1>2 DEF Artifact, ArtifactConflict, ArtifactAcceptable, FindArtifact,
       OpenArtifact, WriteArtifact, Refuse, files
  <2>. QED
    BY <2>1, <2>2, <2>3, CoverMove
<1>. QED
  BY <1>1, <1>2

\* Once its prediction is in the ledger a caller may advance.
LEMMA AdvanceCovered ==
  ASSUME TypeInv, CoverInv, NEW c \in Callers, pc[c] \in Appending, Advance(c),
         req' = req, Issued(ledger', Wanted(c)),
         \A p : Issued(ledger, p) => Issued(ledger', p)
  PROVE  CallerCovered(c)'
<1>. USE DEF TypeInv, TypeOK
<1>1. Plan(c)' = Plan(c) /\ Plan(c) \in Seq(Prediction) /\ next[c] \in 1 .. Len(Plan(c))
  BY RequestType DEF Plan
<1>2. \A i \in 1 .. next[c] : Issued(ledger', Plan(c)[i])
  BY <1>1 DEF CoverInv, CallerCovered, Wanted
<1>3. next'[c] = next[c] + 1 /\ pc'[c] = IF next[c] < Len(Plan(c)) THEN "verify" ELSE "final"
  BY DEF Advance, GoTo
<1>4. CASE next[c] < Len(Plan(c))
  BY <1>1, <1>2, <1>3, <1>4 DEF CallerCovered, Appending, Issued
<1>5. CASE ~(next[c] < Len(Plan(c)))
  <2>0. Len(Plan(c)) = next[c] /\ DOMAIN Plan(c) = 1 .. Len(Plan(c))
    BY <1>1, <1>5
  <2>1. \A i \in DOMAIN Plan(c) : Issued(ledger', Plan(c)[i])
    BY <1>2, <2>0
  <2>. QED
    BY <1>1, <1>3, <1>5, <2>1 DEF CallerCovered, Appending, Covers, Issued
<1>. QED
  BY <1>4, <1>5

LEMMA LedgerCover ==
  ASSUME TypeInv, CoverInv, NEW c \in Callers, Ledger(c)
  PROVE  CoverInv'
<1>. USE DEF TypeInv, TypeOK
<1>0. Plan(c) \in Seq(Prediction)
  BY RequestType
<1>1. CASE LedgerUnreadable(c) \/ LedgerBroken(c)
  BY <1>1, Uncommitted, CoverMove DEF LedgerUnreadable, LedgerBroken, Refuse, GoTo, Appending, files
<1>2. CASE LedgerVerified(c)
  <2>1. CallerCovered(c)'
    BY <1>2 DEF LedgerVerified, GoTo, CoverInv, CallerCovered, Covers, Appending, Plan, Issued, files
  <2>. QED
    BY <1>2, <2>1, CoverMove DEF LedgerVerified, GoTo, files
<1>3. CASE AlreadyIssued(c)
  <2>1. Issued(ledger, Wanted(c))
    BY <1>3 DEF AlreadyIssued, Existing, Lines, Issued
  <2>2. CallerCovered(c)'
    BY <1>3, <2>1, AdvanceCovered DEF AlreadyIssued, files, Appending
  <2>. QED
    BY <1>3, <2>2, CoverMove DEF AlreadyIssued, Advance, GoTo, files
<1>4. CASE IdConflict(c)
  BY <1>4, Uncommitted, CoverMove DEF IdConflict, Refuse, GoTo, Appending, files
<1>5. CASE NotIssued(c)
  <2>1. CallerCovered(c)'
    BY <1>5 DEF NotIssued, GoTo, CoverInv, CallerCovered, Appending, Plan, Issued, files
  <2>. QED
    BY <1>5, <2>1, CoverMove DEF NotIssued, GoTo, files
<1>6. CASE Link(c)
  <2>1. CallerCovered(c)'
    BY <1>6 DEF Link, GoTo, CoverInv, CallerCovered, Appending, Plan, Issued, files
  <2>. QED
    BY <1>6, <2>1, CoverMove DEF Link, GoTo, files
<1>7. CASE AppendEntry(c)
  <2>1. PICK e \in Entry : e.prediction = Wanted(c) /\ ledger' = Append(ledger, e)
    <3>1. Wanted(c) \in Prediction
      BY <1>7, WantedType DEF AppendEntry, Appending
    <3>. QED
      BY <1>7, <3>1 DEF AppendEntry, NewEntry, Entry
  <2>2. /\ Issued(ledger', Wanted(c))
        /\ \A p : Issued(ledger, p) => Issued(ledger', p)
    BY <2>1, AppendIssues
  <2>3. CallerCovered(c)'
    BY <1>7, <2>2, AdvanceCovered DEF AppendEntry, Appending
  <2>4. \A d \in Callers \ {c} : CallerCovered(d)'
    BY <1>7, <2>1, OthersCovered DEF AppendEntry, Advance, GoTo
  <2>5. RecordCoversPlan'
    BY <1>7 DEF AppendEntry, CoverInv, RecordCoversPlan, Recorded, Contents
  <2>. QED
    BY <2>3, <2>4, <2>5 DEF CoverInv
<1>8. CASE HashLedger(c)
  <2>1. CallerCovered(c)'
    BY <1>8 DEF HashLedger, GoTo, CoverInv, CallerCovered, Covers, Appending, Plan, files, LedgerText
  <2>. QED
    BY <1>8, <2>1, CoverMove DEF HashLedger, GoTo, files
<1>9. CASE CutAppend(c)
  <2>1. NewEntry(c) \in Entry
    BY <1>9, WantedType DEF CutAppend, Appending, NewEntry, Entry
  <2>2. ledger' = ledger \/ \E e \in Entry : ledger' = Append(ledger, e)
    BY <1>9, <2>1 DEF CutAppend
  <2>3. CallerCovered(c)'
    BY <1>9, Uncommitted DEF CutAppend, GoTo, Appending
  <2>4. \A d \in Callers \ {c} : CallerCovered(d)'
    BY <1>9, <2>2, OthersCovered DEF CutAppend, GoTo
  <2>5. RecordCoversPlan'
    BY <1>9 DEF CutAppend, CoverInv, RecordCoversPlan, Recorded, Contents
  <2>. QED
    BY <2>3, <2>4, <2>5 DEF CoverInv
<1>. QED
  BY <1>1, <1>2, <1>3, <1>4, <1>5, <1>6, <1>7, <1>8, <1>9 DEF Ledger

LEMMA RecordCover ==
  ASSUME TypeInv, CoverInv, NEW c \in Callers, Record(c)
  PROVE  CoverInv'
<1>. USE DEF TypeInv, TypeOK
<1>1. CASE FindRecord(c)
  <2>1. CallerCovered(c)'
    BY <1>1 DEF FindRecord, GoTo, CoverInv, CallerCovered, Covers, Appending, Plan, files
  <2>. QED
    BY <1>1, <2>1, CoverMove DEF FindRecord, GoTo, files
<1>2. CASE RecordConflict(c)
  BY <1>2, Uncommitted, CoverMove DEF RecordConflict, Refuse, GoTo, Appending, files
<1>3. CASE RecordAgrees(c)
  BY <1>3, Uncommitted, CoverMove DEF RecordAgrees, GoTo, Appending, files
<1>4. CASE OpenRecord(c)
  <2>1. CallerCovered(c)'
    BY <1>4 DEF OpenRecord, GoTo, CoverInv, CallerCovered, Covers, Appending, Plan
  <2>2. \A d \in Callers \ {c} : CallerCovered(d)'
    BY <1>4, OthersCovered DEF OpenRecord, GoTo
  <2>3. RecordCoversPlan'
    <3>1. \A r \in RunIds : Recorded(r)' = Recorded(r) \/ Recorded(r)' = {}
      BY <1>4, RequestType DEF OpenRecord, Recorded, Contents, Torn
    <3>. QED
      BY <3>1 DEF CoverInv, RecordCoversPlan
  <2>. QED
    BY <2>1, <2>2, <2>3 DEF CoverInv
<1>5. CASE WriteRecord(c)
  <2>1. CallerCovered(c)'
    BY <1>5, Uncommitted DEF WriteRecord, GoTo, Appending
  <2>2. \A d \in Callers \ {c} : CallerCovered(d)'
    BY <1>5, OthersCovered DEF WriteRecord, GoTo
  <2>3. RecordCoversPlan'
    <3>1. \A r \in RunIds : Recorded(r)' = Recorded(r) \/ Recorded(r)' = {NewRecord(c)}
      BY <1>5, RequestType DEF WriteRecord, Recorded, Contents, Whole
    <3>2. Covers(seen[c].entries, Plan(c))
      BY <1>5 DEF WriteRecord, CoverInv, CallerCovered
    <3>3. NewRecord(c).request.plan = Plan(c) /\ NewRecord(c).ledger = seen[c]
      BY DEF NewRecord, Plan
    <3>. QED
      BY <3>1, <3>2, <3>3 DEF CoverInv, RecordCoversPlan, Covers
  <2>. QED
    BY <2>1, <2>2, <2>3 DEF CoverInv
<1>6. CASE CountLedger(c)
  BY <1>6, Uncommitted, CoverMove DEF CountLedger, GoTo, Appending, files
<1>. QED
  BY <1>1, <1>2, <1>3, <1>4, <1>5, <1>6 DEF Record

LEMMA CoverStep == TypeInv /\ CoverInv /\ [Next]_vars => CoverInv'
<1>. SUFFICES ASSUME TypeInv, CoverInv, [Next]_vars PROVE CoverInv'
  OBVIOUS
<1>. USE DEF TypeInv, TypeOK, GoTo, Appending, files
<1>1. ASSUME NEW c \in Callers, Start(c) PROVE CoverInv'
  <2>1. PICK q \in Requests : req' = [req EXCEPT ![c] = q]
    BY <1>1 DEF Start
  <2>2. CallerCovered(c)'
    BY <1>1, Uncommitted DEF Start
  <2>3. \A d \in Callers \ {c} : req'[d] = req[d]
    BY <2>1
  <2>. QED
    BY <1>1, <2>2, <2>3, CoverMove DEF Start
<1>2. ASSUME NEW c \in Callers, Answer(c) PROVE CoverInv'
  BY <1>2, Uncommitted, CoverMove DEF Answer
<1>3. ASSUME NEW c \in Callers, Return(c) PROVE CoverInv'
  BY <1>3, Uncommitted, CoverMove DEF Return
<1>4. ASSUME NEW c \in Callers, Crash(c) PROVE CoverInv'
  BY <1>4, Uncommitted, CoverMove DEF Crash
<1>5. CASE UNCHANGED vars
  BY <1>5 DEF vars, caller, CoverInv, CallerCovered, Covers, RecordCoversPlan, Recorded, Contents, Plan, Issued
<1>. QED
  BY <1>1, <1>2, <1>3, <1>4, <1>5, ArtifactCover, LedgerCover, RecordCover DEF Next, Quiet

\* Whatever the callers' steps interleave to, and whoever dies on the way, a
\* run is recorded only over a ledger that holds all it issues.
THEOREM RecordCoversPlanHolds == Spec => []RecordCoversPlan
<1>1. Spec => []CoverInv
  BY TypeCorrect, CoverInit, CoverStep, PTL DEF Spec
<1>2. CoverInv => RecordCoversPlan
  BY DEF CoverInv
<1>. QED
  BY <1>1, <1>2, PTL

(***************************************************************************)
(* One caller keeps the chain                                              *)
(***************************************************************************)
OneCaller == \A c, d \in Callers : c = d

\* pc values at which the caller has read a whole ledger.
Informed ==
  {"look", "link", "append", "sha", "record", "compare", "openrecord", "writerecord",
   "count", "answer"}

\* Nothing is written once a line is cut.
CutLast == \A i \in DOMAIN cuts : cuts[i] >= Len(ledger) - 1

\* Between reading the ledger and appending to it, nothing was appended or cut.
ChainInv ==
  /\ Intact(ledger)
  /\ CutLast
  /\ \A c \in Callers : pc[c] \in Informed => cuts = <<>>
  /\ \A c \in Callers :
       /\ pc[c] \in {"link", "append"} => Lines(Wanted(c).id) = {}
       /\ pc[c] = "append" => prev[c] = LastHash(ledger)

\* A line with a fresh id, linked to the last one, extends an intact ledger.
LEMMA IntactAppend ==
  ASSUME NEW l \in Seq(Entry), Intact(l), NEW p \in Prediction,
         \A i \in DOMAIN l : l[i].prediction.id # p.id
  PROVE  Intact(Append(l, [prediction |-> p, prev |-> LastHash(l)]))
<1>. DEFINE e == [prediction |-> p, prev |-> LastHash(l)]
            m == Append(l, e)
<1>1. LastHash(l) \in Seq(Prediction)
  BY LastHashType
<1>2. e \in Entry
  BY <1>1 DEF Entry
<1>. HIDE DEF e
<1>3. /\ m \in Seq(Entry) /\ Len(m) = Len(l) + 1 /\ DOMAIN m = 1 .. Len(l) + 1
      /\ \A i \in 1 .. Len(l) : m[i] = l[i]
      /\ m[Len(l) + 1] = e
  BY <1>2
<1>. HIDE DEF m
<1>4. e.prediction = p /\ e.prev = LastHash(l)
  BY DEF e
<1>5. Len(l) \in Nat /\ DOMAIN l = 1 .. Len(l)
  OBVIOUS
<1>6. Linked(m)
  <2>. SUFFICES ASSUME NEW i \in DOMAIN m
                PROVE  m[i].prev = IF i = 1 THEN <<>> ELSE Hash(m[i - 1])
    BY DEF Linked
  <2>1. CASE i \in 1 .. Len(l)
    <3>1. m[i] = l[i] /\ (i # 1 => m[i - 1] = l[i - 1])
      BY <1>3, <1>5, <2>1
    <3>2. l[i].prev = IF i = 1 THEN <<>> ELSE Hash(l[i - 1])
      BY <1>5, <2>1 DEF Intact, Linked
    <3>. QED
      BY <3>1, <3>2
  <2>2. CASE i = Len(l) + 1
    <3>1. m[i].prev = LastHash(l)
      BY <1>3, <1>4, <2>2
    <3>2. l = <<>> <=> Len(l) = 0
      OBVIOUS
    <3>3. Len(l) # 0 => m[i - 1] = l[Len(l)]
      BY <1>3, <1>5, <2>2
    <3>. QED
      BY <1>5, <2>2, <3>1, <3>2, <3>3 DEF LastHash
  <2>. QED
    BY <1>3, <1>5, <2>1, <2>2
<1>7. Unique(m)
  <2>1. \A i \in 1 .. Len(l) : m[i].prediction.id # m[Len(l) + 1].prediction.id
    BY <1>3, <1>4, <1>5
  <2>2. \A i, j \in 1 .. Len(l) : m[i].prediction.id = m[j].prediction.id => i = j
    BY <1>3, <1>5 DEF Intact, Unique
  <2>3. \A i \in DOMAIN m : i \in 1 .. Len(l) \/ i = Len(l) + 1
    BY <1>3, <1>5
  <2>. QED
    BY <2>1, <2>2, <2>3 DEF Unique
<1>. QED
  BY <1>6, <1>7 DEF Intact, m, e

LEMMA ChainInit == Init => ChainInv
BY DEF Init, ChainInv, Intact, Linked, Unique, CutLast, Informed

\* A caller that is not between look and append owes the chain nothing.
LEMMA ChainMove ==
  ASSUME OneCaller, ChainInv, NEW c \in Callers, ledger' = ledger, cuts' = cuts,
         pc'[c] \notin {"link", "append"},
         pc'[c] \in Informed => cuts = <<>>
  PROVE  ChainInv'
BY DEF OneCaller, ChainInv, Intact, Linked, Unique, CutLast

\* One caller that passed the verification still reads a whole ledger.
LEMMA InformedReads ==
  ASSUME ChainInv, NEW c \in Callers, pc[c] \in Informed
  PROVE  Readable
BY DEF ChainInv, Readable

\* An entry is added at the end of a ledger without cut lines.
LEMMA EntryChain ==
  ASSUME OneCaller, TypeInv, ChainInv, NEW c \in Callers, pc[c] = "append",
         ledger' = Append(ledger, NewEntry(c)), cuts' = CutsWritten,
         pc'[c] \notin Informed
  PROVE  ChainInv'
<1>. USE DEF TypeInv, TypeOK
<1>1. Wanted(c) \in Prediction
  BY WantedType DEF Appending
<1>2. ledger' = Append(ledger, [prediction |-> Wanted(c), prev |-> LastHash(ledger)])
  BY DEF NewEntry, ChainInv
<1>3. \A i \in DOMAIN ledger : ledger[i].prediction.id # Wanted(c).id
  BY DEF ChainInv, Lines
<1>4. Intact(ledger)'
  BY <1>1, <1>2, <1>3, IntactAppend DEF ChainInv
<1>5. CutLast'
  <2>1. cuts = <<>>
    BY DEF ChainInv, Informed
  <2>2. cuts' = <<>> \/ cuts' = <<Len(ledger)>>
    BY <2>1 DEF CutsWritten
  <2>3. NewEntry(c) \in Entry /\ Len(ledger) \in Nat
    BY <1>1 DEF NewEntry, Entry
  <2>4. Len(ledger') = Len(ledger) + 1
    BY <2>3
  <2>. QED
    BY <2>2, <2>3, <2>4 DEF CutLast
<1>. QED
  BY <1>4, <1>5 DEF ChainInv, OneCaller, Informed

LEMMA LedgerChain ==
  ASSUME OneCaller, TypeInv, ChainInv, NEW c \in Callers, Ledger(c)
  PROVE  ChainInv'
<1>. USE DEF TypeInv, TypeOK, GoTo, files
<1>0. \A d \in Callers : d = c
  BY DEF OneCaller
<1>1. CASE LedgerUnreadable(c) \/ LedgerBroken(c)
  BY <1>1, ChainMove DEF LedgerUnreadable, LedgerBroken, Refuse, Informed
<1>2. CASE LedgerVerified(c)
  BY <1>2, ChainMove DEF LedgerVerified, Readable
<1>3. CASE AlreadyIssued(c)
  BY <1>3, ChainMove DEF AlreadyIssued, Advance, Informed
<1>4. CASE IdConflict(c)
  BY <1>4, ChainMove DEF IdConflict, Refuse, Informed
<1>5. CASE NotIssued(c)
  <2>1. Lines(Wanted(c).id)' = {} /\ pc'[c] = "link"
    BY <1>5 DEF NotIssued, Lines, Wanted, Plan
  <2>2. Intact(ledger)' /\ CutLast' /\ cuts' = <<>>
    BY <1>5 DEF NotIssued, ChainInv, CutLast, Readable
  <2>. QED
    BY <1>0, <2>1, <2>2 DEF ChainInv
<1>6. CASE Link(c)
  <2>1. /\ Lines(Wanted(c).id)' = {} /\ pc'[c] = "append"
        /\ prev'[c] = LastHash(ledger)'
    BY <1>6 DEF Link, ChainInv, Lines, Wanted, Plan
  <2>2. Intact(ledger)' /\ CutLast' /\ cuts' = <<>>
    BY <1>6 DEF Link, ChainInv, CutLast, Readable
  <2>. QED
    BY <1>0, <2>1, <2>2 DEF ChainInv
<1>7. CASE AppendEntry(c)
  <2>1. pc'[c] \in {"verify", "final"}
    BY <1>7 DEF AppendEntry, Advance
  <2>. QED
    BY <1>7, <2>1, EntryChain DEF AppendEntry, Informed
<1>8. CASE HashLedger(c)
  BY <1>8, ChainMove DEF HashLedger, ChainInv, Informed
<1>9. CASE CutAppend(c)
  <2>1. pc'[c] = "idle" /\ cuts = <<>> /\ Len(ledger) \in Nat
    BY <1>9 DEF CutAppend, ChainInv, Informed
  <2>2. CASE ledger' = ledger /\ cuts' = Append(cuts, Len(ledger))
    <3>1. cuts' = <<Len(ledger)>>
      BY <2>1, <2>2
    <3>2. CutLast'
      BY <2>1, <2>2, <3>1 DEF CutLast
    <3>. QED
      BY <1>0, <2>1, <2>2, <3>2 DEF ChainInv, Informed
  <2>3. CASE ledger' = Append(ledger, NewEntry(c)) /\ cuts' = CutsWritten
    BY <1>9, <2>1, <2>3, EntryChain DEF CutAppend, Informed
  <2>. QED
    BY <1>9, <2>2, <2>3 DEF CutAppend
<1>. QED
  BY <1>1, <1>2, <1>3, <1>4, <1>5, <1>6, <1>7, <1>8, <1>9 DEF Ledger

LEMMA ChainStep == OneCaller /\ TypeInv /\ ChainInv /\ [Next]_vars => ChainInv'
<1>. SUFFICES ASSUME OneCaller, TypeInv, ChainInv, [Next]_vars PROVE ChainInv'
  OBVIOUS
<1>. USE DEF TypeInv, TypeOK, GoTo, files
<1>1. ASSUME NEW c \in Callers, Artifact(c) PROVE ChainInv'
  BY <1>1, ChainMove DEF Artifact, ArtifactConflict, ArtifactAcceptable, FindArtifact,
     OpenArtifact, WriteArtifact, HashArtifact, Refuse, Informed
<1>2. ASSUME NEW c \in Callers, Record(c) PROVE ChainInv'
  <2>1. CASE RecordConflict(c)
    BY <2>1, ChainMove DEF RecordConflict, Refuse, Informed
  <2>2. CASE ~RecordConflict(c)
    <3>1. pc[c] \in Informed
      BY <1>2, <2>2 DEF Record, FindRecord, RecordAgrees, OpenRecord, WriteRecord,
         CountLedger, Informed
    <3>2. ledger' = ledger /\ cuts' = cuts /\ pc'[c] \notin {"link", "append"}
      BY <1>2, <2>2 DEF Record, FindRecord, RecordAgrees, OpenRecord, WriteRecord, CountLedger
    <3>. QED
      BY <3>1, <3>2, ChainMove DEF ChainInv
  <2>. QED
    BY <2>1, <2>2
<1>3. ASSUME NEW c \in Callers, Start(c) \/ Answer(c) \/ Return(c) \/ Crash(c)
      PROVE  ChainInv'
  BY <1>3, ChainMove DEF Start, Answer, Return, Crash, Informed
<1>4. CASE UNCHANGED vars
  BY <1>4 DEF vars, caller, ChainInv, Intact, Linked, Unique, Lines, Wanted, Plan, CutLast
<1>. QED
  BY <1>1, <1>2, <1>3, <1>4, LedgerChain DEF Next, Quiet

\* With one caller at a time the entries of the ledger are one chain with no
\* id issued twice, whatever dies, inside an append too, and whatever is
\* replayed; a line that a death cut is at the end, with at most one entry
\* run together with the last one behind it.
THEOREM OneCallerChainIntact == OneCaller => (Spec => []ChainIntact)
<1>1. OneCaller /\ TypeInv /\ ChainInv /\ [Next]_vars => ChainInv'
  BY ChainStep
<1>2. ChainInv => ChainIntact
  BY DEF ChainInv, ChainIntact, CutLast
<1>3. ASSUME OneCaller PROVE Spec => []ChainIntact
  <2>1. TypeInv /\ ChainInv /\ [Next]_vars => ChainInv'
    BY <1>1, <1>3
  <2>. QED
    BY <2>1, <1>2, TypeCorrect, ChainInit, PTL DEF Spec
<1>. QED
  BY <1>3

(***************************************************************************)
(* One caller: artifact, record, ledger and answers agree                  *)
(***************************************************************************)
\* pc values at which the artifact of the run is written.
Written ==
  {"hash", "verify", "look", "link", "append", "final", "sha", "record", "compare",
   "openrecord", "writerecord", "count", "answer"}

\* pc values at which the caller has hashed the ledger as it is.
Hashed == {"record", "compare", "openrecord", "writerecord", "count", "answer"}

\* An artifact is that of a request with this run id.
ArtifactSound(r) ==
  \/ artifact[r] \in {Absent, Torn}
  \/ \E q \in Requests : q.run = r /\ artifact[r] = Whole(q.plan)

\* A run record is that of a request with this run id, and of the artifact.
RecordSound(r) ==
  \/ record[r] \in {Absent, Torn}
  \/ \E x \in RunRecord :
       /\ record[r] = Whole(x) /\ x.request.run = r
       /\ x.output = <<x.request.plan>> /\ artifact[r] = Whole(x.request.plan)

\* Every line of the ledger comes from a request.
LinesRequested ==
  \A i \in DOMAIN ledger : \E q \in Requests : \E j \in DOMAIN q.plan :
    q.plan[j] = ledger[i].prediction

\* The run record keeps the ledger that was answered.
AnswerRecorded(a) ==
  /\ a.count = Len(a.ledger.entries)
  /\ \E x \in RunRecord :
       record[a.request.run] = Whole(x) /\ x.request = a.request /\ x.ledger = a.ledger

\* Why a request may be refused.
Refusable(c) ==
  \/ Torn \in {artifact[Run(c)], record[Run(c)]} \/ ~Readable
  \/ \E q \in Requests : Clash(q, req[c])
  \/ \E run \in Recorded(Run(c)) : run.ledger # LedgerText

\* What a caller knows of the files at each place.
CallerSound(c) ==
  /\ pc[c] = "exists" => artifact[Run(c)] \in {Absent, Whole(Plan(c))}
  /\ pc[c] = "open" => artifact[Run(c)] = Absent
  /\ pc[c] = "write" => artifact[Run(c)] = Torn
  /\ pc[c] \in Written => artifact[Run(c)] = Whole(Plan(c))
  /\ pc[c] \in Written \ {"hash"} => output[c] = <<Plan(c)>>
  /\ pc[c] \in Hashed => seen[c] = LedgerText
  /\ pc[c] = "compare" => record[Run(c)] # Absent
  /\ pc[c] = "openrecord" => record[Run(c)] = Absent
  /\ pc[c] = "writerecord" => record[Run(c)] = Torn
  /\ pc[c] \in {"count", "answer"} => record[Run(c)] = Whole(NewRecord(c))
  /\ pc[c] = "refused" => Refusable(c)

SerialInv ==
  /\ \A r \in RunIds : ArtifactSound(r) /\ RecordSound(r)
  /\ LinesRequested
  /\ \A a \in answered : AnswerRecorded(a)
  /\ \A c \in Callers : CallerSound(c)

LEMMA FileFacts ==
  /\ Torn # Absent /\ Torn.exists /\ ~Absent.exists
  /\ Contents(Torn) = {} /\ Contents(Absent) = {}
  /\ \A x : /\ Whole(x) # Torn /\ Whole(x) # Absent /\ Whole(x).exists
            /\ Whole(x).text = <<x>> /\ Contents(Whole(x)) = {x}
  /\ \A x, y : Whole(x) = Whole(y) => x = y
<1>1. ASSUME NEW x PROVE /\ Whole(x) # Torn /\ Whole(x) # Absent /\ Whole(x).exists
                         /\ Whole(x).text = <<x>> /\ Contents(Whole(x)) = {x}
  BY DEF Whole, Torn, Absent, Contents
<1>2. ASSUME NEW x, NEW y, Whole(x) = Whole(y) PROVE x = y
  BY <1>2 DEF Whole
<1>3. Torn # Absent /\ Torn.exists /\ ~Absent.exists
      /\ Contents(Torn) = {} /\ Contents(Absent) = {}
  BY DEF Torn, Absent, Contents
<1>. QED
  BY <1>1, <1>2, <1>3

LEMMA SerialInit == Init => SerialInv
BY DEF Init, SerialInv, ArtifactSound, RecordSound, LinesRequested, CallerSound, Written, Hashed

\* A step that changes no file and answers nothing owes only its caller's part.
LEMMA SerialReads ==
  ASSUME OneCaller, SerialInv, NEW c \in Callers, UNCHANGED <<files, answered>>, CallerSound(c)'
  PROVE  SerialInv'
<1>1. \A d \in Callers : d = c
  BY DEF OneCaller
<1>2. \A r \in RunIds : ArtifactSound(r)' /\ RecordSound(r)'
  BY DEF SerialInv, ArtifactSound, RecordSound, files
<1>3. LinesRequested'
  BY DEF SerialInv, LinesRequested, files
<1>4. \A a \in answered' : AnswerRecorded(a)'
  BY DEF SerialInv, AnswerRecorded, files
<1>. QED
  BY <1>1, <1>2, <1>3, <1>4 DEF SerialInv

\* A refusal is explained in the state that is left behind.
LEMMA RefuseSound ==
  ASSUME NEW c \in Callers, Refuse(c), Refusable(c), TypeInv
  PROVE  CallerSound(c)'
<1>1. pc'[c] = "refused"
  BY DEF Refuse, GoTo, TypeInv, TypeOK
<1>2. Refusable(c)'
  BY DEF Refuse, Refusable, Recorded, Run, files, Readable, LedgerText
<1>. QED
  BY <1>1, <1>2 DEF CallerSound, Written, Hashed

\* A step on the files of one run leaves those of the others as they were.
LEMMA FilesElsewhere ==
  ASSUME SerialInv, NEW r \in RunIds,
         \A s \in RunIds \ {r} : artifact'[s] = artifact[s] /\ record'[s] = record[s],
         ArtifactSound(r)', RecordSound(r)'
  PROVE  \A s \in RunIds : ArtifactSound(s)' /\ RecordSound(s)'
<1>1. ASSUME NEW s \in RunIds, s # r PROVE ArtifactSound(s)' /\ RecordSound(s)'
  <2>1. ArtifactSound(s) /\ RecordSound(s)
    BY DEF SerialInv
  <2>2. artifact'[s] = artifact[s] /\ record'[s] = record[s]
    BY <1>1
  <2>. QED
    BY <2>1, <2>2 DEF ArtifactSound, RecordSound
<1>. QED
  BY <1>1

\* An answer keeps its run record when the record it has is not rewritten.
LEMMA AnswerKept ==
  ASSUME NEW a \in answered, AnswerRecorded(a), record'[a.request.run] = record[a.request.run]
  PROVE  AnswerRecorded(a)'
BY DEF AnswerRecorded

LEMMA ArtifactSerial ==
  ASSUME OneCaller, TypeInv, SerialInv, NEW c \in Callers, Artifact(c)
  PROVE  SerialInv'
<1>1. /\ Run(c) \in RunIds /\ req[c] \in Requests /\ CallerSound(c)
      /\ ArtifactSound(Run(c)) /\ RecordSound(Run(c))
  BY RequestType DEF TypeInv, SerialInv
<1>2. \A d \in Callers : d = c
  BY DEF OneCaller
<1>r. PICK r \in RunIds : r = Run(c)
  BY <1>1
<1>. USE DEF TypeInv, TypeOK, GoTo
<1>3. CASE ArtifactConflict(c)
  <2>1. Refusable(c)
    <3>1. CASE artifact[Run(c)] = Torn
      BY <3>1 DEF Refusable
    <3>2. ASSUME NEW q \in Requests, q.run = Run(c), artifact[Run(c)] = Whole(q.plan)
          PROVE  Refusable(c)
      <4>1. q # req[c]
        BY <1>3, <3>2 DEF ArtifactConflict, Plan
      <4>. QED
        BY <3>2, <4>1 DEF Refusable, Clash, Run
    <3>. QED
      BY <1>1, <1>3, <3>1, <3>2 DEF ArtifactConflict, ArtifactSound
  <2>. QED
    BY <1>3, <2>1, RefuseSound, SerialReads DEF ArtifactConflict, Refuse
<1>4. CASE ArtifactAcceptable(c)
  <2>1. CallerSound(c)'
    BY <1>4 DEF ArtifactAcceptable, CallerSound, Written, Hashed, Run, Plan, files
  <2>. QED
    BY <1>4, <2>1, SerialReads DEF ArtifactAcceptable
<1>5. CASE FindArtifact(c)
  <2>1. CallerSound(c)'
    BY <1>1, <1>5, FileFacts DEF FindArtifact, CallerSound, Written, Hashed, Run, Plan, files
  <2>. QED
    BY <1>5, <2>1, SerialReads DEF FindArtifact
<1>6. CASE OpenArtifact(c)
  <2>1. artifact[Run(c)] = Absent /\ artifact' = [artifact EXCEPT ![Run(c)] = Torn]
    BY <1>1, <1>6 DEF OpenArtifact, CallerSound
  <2>2. record[Run(c)] \in {Absent, Torn}
    BY <1>1, <2>1, FileFacts DEF RecordSound
  <2>3. \A q \in RunIds : ArtifactSound(q)' /\ RecordSound(q)'
    <3>1. ArtifactSound(r)'
      BY <1>r, <1>1, <2>1 DEF ArtifactSound
    <3>2. RecordSound(r)'
      BY <1>r, <1>6, <2>2 DEF OpenArtifact, RecordSound
    <3>3. \A s \in RunIds \ {r} : artifact'[s] = artifact[s] /\ record'[s] = record[s]
      BY <1>r, <1>6, <2>1 DEF OpenArtifact
    <3>. QED
      BY <1>r, <1>1, <3>1, <3>2, <3>3, FilesElsewhere
  <2>4. CallerSound(c)'
    BY <1>1, <1>6, <2>1 DEF OpenArtifact, CallerSound, Written, Hashed, Run
  <2>5. LinesRequested' /\ \A a \in answered' : AnswerRecorded(a)'
    BY <1>6 DEF OpenArtifact, SerialInv, LinesRequested, AnswerRecorded
  <2>. QED
    BY <1>2, <2>3, <2>4, <2>5 DEF SerialInv
<1>7. CASE WriteArtifact(c)
  <2>1. artifact[Run(c)] = Torn /\ artifact' = [artifact EXCEPT ![Run(c)] = Whole(Plan(c))]
    BY <1>1, <1>7 DEF WriteArtifact, CallerSound
  <2>2. record[Run(c)] \in {Absent, Torn}
    BY <1>1, <2>1, FileFacts DEF RecordSound
  <2>3. ArtifactSound(r)'
    <3>1. artifact'[Run(c)] = Whole(Plan(c))
      BY <1>1, <2>1
    <3>2. Plan(c) = req[c].plan /\ req[c].run = Run(c)
      BY DEF Plan, Run
    <3>. QED
      BY <1>r, <1>1, <3>1, <3>2 DEF ArtifactSound
  <2>4. \A q \in RunIds : ArtifactSound(q)' /\ RecordSound(q)'
    <3>1. RecordSound(r)'
      BY <1>r, <1>7, <2>2 DEF WriteArtifact, RecordSound
    <3>2. \A s \in RunIds \ {r} : artifact'[s] = artifact[s] /\ record'[s] = record[s]
      BY <1>r, <1>7, <2>1 DEF WriteArtifact
    <3>. QED
      BY <1>r, <1>1, <2>3, <3>1, <3>2, FilesElsewhere
  <2>5. CallerSound(c)'
    BY <1>1, <1>7, <2>1 DEF WriteArtifact, CallerSound, Written, Hashed, Run, Plan
  <2>6. LinesRequested' /\ \A a \in answered' : AnswerRecorded(a)'
    BY <1>7 DEF WriteArtifact, SerialInv, LinesRequested, AnswerRecorded
  <2>. QED
    BY <1>2, <2>4, <2>5, <2>6 DEF SerialInv
<1>8. CASE HashArtifact(c)
  <2>1. CallerSound(c)'
    BY <1>1, <1>8, FileFacts DEF HashArtifact, CallerSound, Written, Hashed, Run, Plan, files
  <2>. QED
    BY <1>8, <2>1, SerialReads DEF HashArtifact
<1>. QED
  BY <1>3, <1>4, <1>5, <1>6, <1>7, <1>8 DEF Artifact

\* A line with the id of the wanted prediction, but not that prediction, clashes.
LEMMA ConflictClashes ==
  ASSUME TypeInv, SerialInv, ChainInv, NEW c \in Callers, IdConflict(c)
  PROVE  Refusable(c)
<1>1. next[c] \in 1 .. Len(Plan(c)) /\ Plan(c) \in Seq(Prediction) /\ req[c] \in Requests
  BY RequestType DEF IdConflict, TypeInv, Appending
<1>2. PICK i \in DOMAIN ledger : ledger[i].prediction.id = Wanted(c).id
  BY DEF IdConflict, Lines
<1>3. \A j \in Lines(Wanted(c).id) : j = i
  BY <1>2 DEF Lines, ChainInv, Intact, Unique
<1>4. ledger[i].prediction # Wanted(c)
  <2>1. i \in Lines(Wanted(c).id) /\ i \in Nat
    BY <1>2 DEF Lines, TypeInv, TypeOK
  <2>. QED
    BY <1>3, <2>1 DEF IdConflict, Existing
<1>5. PICK q \in Requests : \E j \in DOMAIN q.plan : q.plan[j] = ledger[i].prediction
  BY DEF SerialInv, LinesRequested
<1>6. next[c] \in DOMAIN req[c].plan /\ Wanted(c) = req[c].plan[next[c]]
  BY <1>1 DEF Wanted, Plan
<1>7. Clash(q, req[c])
  BY <1>2, <1>4, <1>5, <1>6 DEF Clash
<1>. QED
  BY <1>7 DEF Refusable

\* An entry that is written comes from the request of its caller.
LEMMA EntryRequested ==
  ASSUME TypeInv, SerialInv, NEW c \in Callers, pc[c] = "append",
         ledger' = Append(ledger, NewEntry(c))
  PROVE  LinesRequested'
<1>. USE DEF TypeInv, TypeOK
<1>1. next[c] \in 1 .. Len(Plan(c)) /\ Plan(c) \in Seq(Prediction) /\ req[c] \in Requests
  BY RequestType DEF Appending
<1>2. NewEntry(c) \in Entry /\ NewEntry(c).prediction = Wanted(c)
  BY <1>1, WantedType DEF NewEntry, Entry
<1>3. \A i \in DOMAIN ledger' : \/ i \in DOMAIN ledger /\ ledger'[i] = ledger[i]
                                \/ ledger'[i].prediction = Wanted(c)
  BY <1>2
<1>4. next[c] \in DOMAIN req[c].plan /\ Wanted(c) = req[c].plan[next[c]]
  BY <1>1 DEF Wanted, Plan
<1>. QED
  BY <1>1, <1>3, <1>4 DEF SerialInv, LinesRequested

LEMMA LedgerSerial ==
  ASSUME OneCaller, TypeInv, SerialInv, ChainInv, NEW c \in Callers, Ledger(c)
  PROVE  SerialInv'
<1>1. Run(c) \in RunIds /\ req[c] \in Requests /\ CallerSound(c)
  BY RequestType DEF TypeInv, SerialInv
<1>2. \A d \in Callers : d = c
  BY DEF OneCaller
<1>. USE DEF TypeInv, TypeOK, GoTo
<1>3. CASE LedgerUnreadable(c) \/ LedgerBroken(c)
  <2>1. LedgerUnreadable(c)
    BY <1>3 DEF LedgerBroken, ChainInv
  <2>2. Refusable(c)
    BY <2>1 DEF LedgerUnreadable, Refusable
  <2>. QED
    BY <2>1, <2>2, RefuseSound, SerialReads DEF LedgerUnreadable, Refuse
<1>4. CASE LedgerVerified(c)
  <2>1. CallerSound(c)'
    BY <1>1, <1>4 DEF LedgerVerified, CallerSound, Written, Hashed, Run, Plan, files
  <2>. QED
    BY <1>4, <2>1, SerialReads DEF LedgerVerified
<1>5. CASE AlreadyIssued(c)
  <2>1. CallerSound(c)'
    BY <1>1, <1>5 DEF AlreadyIssued, Advance, CallerSound, Written, Hashed, Run, Plan, files
  <2>. QED
    BY <1>5, <2>1, SerialReads DEF AlreadyIssued
<1>6. CASE IdConflict(c)
  BY <1>6, ConflictClashes, RefuseSound, SerialReads DEF IdConflict, Refuse
<1>7. CASE NotIssued(c)
  <2>1. CallerSound(c)'
    BY <1>1, <1>7 DEF NotIssued, CallerSound, Written, Hashed, Run, Plan, files
  <2>. QED
    BY <1>7, <2>1, SerialReads DEF NotIssued
<1>8. CASE Link(c)
  <2>1. CallerSound(c)'
    BY <1>1, <1>8 DEF Link, CallerSound, Written, Hashed, Run, Plan, files
  <2>. QED
    BY <1>8, <2>1, SerialReads DEF Link
<1>9. CASE AppendEntry(c)
  <2>1. LinesRequested'
    BY <1>9, EntryRequested DEF AppendEntry
  <2>2. CallerSound(c)'
    BY <1>1, <1>9 DEF AppendEntry, Advance, CallerSound, Written, Hashed, Run, Plan
  <2>3. /\ \A r \in RunIds : ArtifactSound(r)' /\ RecordSound(r)'
        /\ \A a \in answered' : AnswerRecorded(a)'
    BY <1>9 DEF AppendEntry, SerialInv, ArtifactSound, RecordSound, AnswerRecorded
  <2>. QED
    BY <1>2, <2>1, <2>2, <2>3 DEF SerialInv
<1>11. CASE CutAppend(c)
  <2>1. LinesRequested'
    BY <1>11, EntryRequested DEF CutAppend, SerialInv, LinesRequested
  <2>2. CallerSound(c)'
    BY <1>11 DEF CutAppend, CallerSound, Written, Hashed
  <2>3. /\ \A r \in RunIds : ArtifactSound(r)' /\ RecordSound(r)'
        /\ \A a \in answered' : AnswerRecorded(a)'
    BY <1>11 DEF CutAppend, SerialInv, ArtifactSound, RecordSound, AnswerRecorded
  <2>. QED
    BY <1>2, <2>1, <2>2, <2>3 DEF SerialInv
<1>10. CASE HashLedger(c)
  <2>1. CallerSound(c)'
    BY <1>1, <1>10 DEF HashLedger, CallerSound, Written, Hashed, Run, Plan, files, LedgerText
  <2>. QED
    BY <1>10, <2>1, SerialReads DEF HashLedger
<1>. QED
  BY <1>3, <1>4, <1>5, <1>6, <1>7, <1>8, <1>9, <1>10, <1>11 DEF Ledger

LEMMA RecordSerial ==
  ASSUME OneCaller, TypeInv, SerialInv, NEW c \in Callers, Record(c)
  PROVE  SerialInv'
<1>1. /\ Run(c) \in RunIds /\ req[c] \in Requests /\ CallerSound(c)
      /\ RecordSound(Run(c)) /\ NewRecord(c) \in RunRecord
  BY RequestType DEF TypeInv, TypeOK, SerialInv, NewRecord, RunRecord
<1>2. \A d \in Callers : d = c
  BY DEF OneCaller
<1>r. PICK r \in RunIds : r = Run(c)
  BY <1>1
<1>3. /\ NewRecord(c).request = req[c] /\ NewRecord(c).output = output[c]
      /\ NewRecord(c).ledger = seen[c]
  BY DEF NewRecord
<1>. USE DEF TypeInv, TypeOK, GoTo
<1>4. CASE FindRecord(c)
  <2>1. record[Run(c)].exists <=> record[Run(c)] # Absent
    BY <1>1, FileFacts DEF RecordSound
  <2>2. CallerSound(c)'
    BY <1>1, <1>4, <2>1 DEF FindRecord, CallerSound, Written, Hashed, Run, Plan, files, LedgerText
  <2>. QED
    BY <1>4, <2>2, SerialReads DEF FindRecord
<1>5. CASE RecordConflict(c)
  <2>1. Refusable(c)
    <3>1. CASE record[Run(c)] = Torn
      BY <3>1 DEF Refusable
    <3>2. ASSUME NEW x \in RunRecord, record[Run(c)] = Whole(x), x.request.run = Run(c),
                 x.output = <<x.request.plan>>
          PROVE  Refusable(c)
      <4>1. CASE x.request # req[c]
        BY <3>2, <4>1 DEF Refusable, Clash, Run, RunRecord
      <4>2. CASE x.request = req[c]
        <5>1. x # NewRecord(c)
          BY <1>5, <3>2 DEF RecordConflict
        <5>2. output[c] = <<Plan(c)>> /\ seen[c] = LedgerText
          BY <1>1, <1>5 DEF RecordConflict, CallerSound, Written, Hashed
        <5>3. x.ledger # LedgerText
          BY <3>2, <4>2, <5>1, <5>2 DEF NewRecord, RunRecord, Plan
        <5>4. x \in Recorded(Run(c))
          BY <3>2, FileFacts DEF Recorded
        <5>. QED
          BY <5>3, <5>4 DEF Refusable
      <4>. QED
        BY <4>1, <4>2
    <3>. QED
      BY <1>1, <1>5, <3>1, <3>2 DEF RecordConflict, CallerSound, RecordSound
  <2>. QED
    BY <1>5, <2>1, RefuseSound, SerialReads DEF RecordConflict, Refuse
<1>6. CASE RecordAgrees(c)
  <2>1. CallerSound(c)'
    BY <1>1, <1>6 DEF RecordAgrees, CallerSound, Written, Hashed, Run, Plan, NewRecord, files, LedgerText
  <2>. QED
    BY <1>6, <2>1, SerialReads DEF RecordAgrees
<1>7. CASE OpenRecord(c)
  <2>1. record[Run(c)] = Absent /\ record' = [record EXCEPT ![Run(c)] = Torn]
    BY <1>1, <1>7 DEF OpenRecord, CallerSound
  <2>2. \A q \in RunIds : ArtifactSound(q)' /\ RecordSound(q)'
    <3>1. ArtifactSound(r)'
      BY <1>7 DEF OpenRecord, SerialInv, ArtifactSound
    <3>2. RecordSound(r)'
      BY <1>r, <1>1, <2>1 DEF RecordSound
    <3>3. \A s \in RunIds \ {r} : artifact'[s] = artifact[s] /\ record'[s] = record[s]
      BY <1>r, <1>7, <2>1 DEF OpenRecord
    <3>. QED
      BY <1>r, <1>1, <3>1, <3>2, <3>3, FilesElsewhere
  <2>3. CallerSound(c)'
    BY <1>1, <1>7, <2>1 DEF OpenRecord, CallerSound, Written, Hashed, Run, Plan, LedgerText
  <2>4. \A a \in answered' : AnswerRecorded(a)'
    <3>1. \A a \in answered : record[a.request.run] # Absent /\ a.request.run \in RunIds
      BY FileFacts, RequestAssumption DEF SerialInv, AnswerRecorded, Request
    <3>. QED
      <4>1. answered' = answered
        BY <1>7 DEF OpenRecord
      <4>2. ASSUME NEW a \in answered PROVE record'[a.request.run] = record[a.request.run]
        BY <2>1, <3>1
      <4>. QED
        BY <4>1, <4>2, AnswerKept DEF SerialInv
  <2>5. LinesRequested'
    BY <1>7 DEF OpenRecord, SerialInv, LinesRequested
  <2>. QED
    BY <1>2, <2>2, <2>3, <2>4, <2>5 DEF SerialInv
<1>8. CASE WriteRecord(c)
  <2>1. record[Run(c)] = Torn /\ record' = [record EXCEPT ![Run(c)] = Whole(NewRecord(c))]
    BY <1>1, <1>8 DEF WriteRecord, CallerSound
  <2>2. artifact[Run(c)] = Whole(Plan(c)) /\ output[c] = <<Plan(c)>>
    BY <1>1, <1>8 DEF WriteRecord, CallerSound, Written
  <2>3. RecordSound(r)'
    BY <1>r, <1>1, <1>3, <1>8, <2>1, <2>2 DEF WriteRecord, RecordSound, Run, Plan
  <2>4. \A q \in RunIds : ArtifactSound(q)' /\ RecordSound(q)'
    <3>1. ArtifactSound(r)'
      BY <1>8 DEF WriteRecord, SerialInv, ArtifactSound
    <3>2. \A s \in RunIds \ {r} : artifact'[s] = artifact[s] /\ record'[s] = record[s]
      BY <1>r, <1>8, <2>1 DEF WriteRecord
    <3>. QED
      BY <1>r, <1>1, <2>3, <3>1, <3>2, FilesElsewhere
  <2>5. CallerSound(c)'
    BY <1>1, <1>8, <2>1 DEF WriteRecord, CallerSound, Written, Hashed, Run, Plan, NewRecord, LedgerText
  <2>6. \A a \in answered' : AnswerRecorded(a)'
    <3>1. \A a \in answered : record[a.request.run] # Torn /\ a.request.run \in RunIds
      BY FileFacts, RequestAssumption DEF SerialInv, AnswerRecorded, Request
    <3>. QED
      <4>1. answered' = answered
        BY <1>8 DEF WriteRecord
      <4>2. ASSUME NEW a \in answered PROVE record'[a.request.run] = record[a.request.run]
        BY <2>1, <3>1
      <4>. QED
        BY <4>1, <4>2, AnswerKept DEF SerialInv
  <2>7. LinesRequested'
    BY <1>8 DEF WriteRecord, SerialInv, LinesRequested
  <2>. QED
    BY <1>2, <2>4, <2>5, <2>6, <2>7 DEF SerialInv
<1>9. CASE CountLedger(c)
  <2>1. seen[c] = LedgerText
    BY <1>1, <1>9 DEF CountLedger, CallerSound, Hashed
  <2>2. CallerSound(c)'
    BY <1>1, <1>9, <2>1 DEF CountLedger, CallerSound, Written, Hashed, Run, Plan, NewRecord, files, LedgerText
  <2>. QED
    BY <1>9, <2>2, SerialReads DEF CountLedger
<1>. QED
  BY <1>4, <1>5, <1>6, <1>7, <1>8, <1>9 DEF Record

LEMMA SerialStep == OneCaller /\ TypeInv /\ ChainInv /\ SerialInv /\ [Next]_vars => SerialInv'
<1>. SUFFICES ASSUME OneCaller, TypeInv, ChainInv, SerialInv, [Next]_vars PROVE SerialInv'
  OBVIOUS
<1>. USE DEF TypeInv, TypeOK, GoTo
<1>1. ASSUME NEW c \in Callers, Start(c) \/ Return(c) \/ Crash(c) PROVE SerialInv'
  <2>1. CallerSound(c)'
    BY <1>1 DEF Start, Return, Crash, CallerSound, Written, Hashed
  <2>. QED
    BY <1>1, <2>1, SerialReads DEF Start, Return, Crash
<1>2. ASSUME NEW c \in Callers, Answer(c) PROVE SerialInv'
  <2>. DEFINE new == [request |-> req[c], count |-> Len(seen[c].entries), ledger |-> LedgerText]
  <2>1. /\ seen[c] = LedgerText /\ record[Run(c)] = Whole(NewRecord(c)) /\ NewRecord(c) \in RunRecord
        /\ NewRecord(c).request = req[c] /\ NewRecord(c).ledger = seen[c]
    BY <1>2, RequestType DEF Answer, SerialInv, CallerSound, Hashed, NewRecord, RunRecord
  <2>2. AnswerRecorded(new)
    BY <2>1 DEF AnswerRecorded, Run
  <2>3. \A a \in answered' : AnswerRecorded(a)'
    BY <1>2, <2>2 DEF Answer, SerialInv, AnswerRecorded, files
  <2>4. CallerSound(c)'
    BY <1>2 DEF Answer, CallerSound, Written, Hashed
  <2>5. LinesRequested' /\ \A r \in RunIds : ArtifactSound(r)' /\ RecordSound(r)'
    <3>1. UNCHANGED files
      BY <1>2 DEF Answer
    <3>2. LinesRequested'
      BY <3>1 DEF files, SerialInv, LinesRequested
    <3>3. \A r \in RunIds : ArtifactSound(r)' /\ RecordSound(r)'
      BY <3>1 DEF files, SerialInv, ArtifactSound, RecordSound
    <3>. QED
      BY <3>2, <3>3
  <2>. QED
    BY <2>3, <2>4, <2>5 DEF SerialInv, OneCaller
<1>3. CASE UNCHANGED vars
  <2>1. ASSUME NEW c \in Callers PROVE CallerSound(c)'
    <3>1. CallerSound(c)
      BY DEF SerialInv
    <3>. QED
      BY <1>3, <3>1 DEF vars, files, caller, CallerSound, Refusable, Recorded, Run, Plan, NewRecord, Readable, LedgerText
  <2>2. \A r \in RunIds : ArtifactSound(r)' /\ RecordSound(r)'
    BY <1>3 DEF vars, files, SerialInv, ArtifactSound, RecordSound
  <2>3. LinesRequested' /\ \A a \in answered' : AnswerRecorded(a)'
    BY <1>3 DEF vars, files, SerialInv, LinesRequested, AnswerRecorded
  <2>. QED
    BY <2>1, <2>2, <2>3 DEF SerialInv
<1>. QED
  BY <1>1, <1>2, <1>3, ArtifactSerial, LedgerSerial, RecordSerial DEF Next, Quiet

LEMMA SerialCorrect ==
  ASSUME OneCaller
  PROVE  Spec => [](TypeInv /\ CoverInv /\ ChainInv /\ SerialInv)
<1>1. ChainInv /\ TypeInv /\ [Next]_vars => ChainInv'
  BY ChainStep
<1>2. SerialInv /\ ChainInv /\ TypeInv /\ [Next]_vars => SerialInv'
  BY SerialStep
<1>. QED
  BY <1>1, <1>2, TypeCorrect, CoverInit, CoverStep, ChainInit, SerialInit, PTL DEF Spec

\* With one caller at a time a run record always describes the whole artifact beside it.
THEOREM OneCallerRecordMatchesArtifact == OneCaller => (Spec => []RecordMatchesArtifact)
<1>. SUFFICES ASSUME OneCaller PROVE Spec => []RecordMatchesArtifact
  OBVIOUS
<1>1. SerialInv => RecordMatchesArtifact
  BY FileFacts DEF SerialInv, RecordSound, RecordMatchesArtifact, Recorded
<1>. QED
  BY <1>1, SerialCorrect, PTL

\* With one caller at a time a repeated request is answered as the first time.
THEOREM OneCallerAnswersAgree == OneCaller => (Spec => []AnswersAgree)
<1>. SUFFICES ASSUME OneCaller PROVE Spec => []AnswersAgree
  OBVIOUS
<1>1. TypeInv /\ SerialInv => AnswersAgree
  <2>. SUFFICES ASSUME TypeInv, SerialInv, NEW a \in answered, NEW b \in answered
                PROVE  a.count = Len(a.ledger.entries) /\ (a.request = b.request => a = b)
    BY DEF AnswersAgree
  <2>1. AnswerRecorded(a) /\ AnswerRecorded(b)
    BY DEF SerialInv
  <2>2. a.request = b.request => a.ledger = b.ledger
    BY <2>1, FileFacts DEF AnswerRecorded
  <2>3. /\ a = [request |-> a.request, count |-> a.count, ledger |-> a.ledger]
        /\ b = [request |-> b.request, count |-> b.count, ledger |-> b.ledger]
    BY DEF TypeInv, TypeOK
  <2>. QED
    BY <2>1, <2>2, <2>3 DEF AnswerRecorded
<1>. QED
  BY <1>1, SerialCorrect, PTL

\* With one caller at a time a request is refused only for a file a death left
\* empty, a line of the ledger a death cut, a request that clashes with it, or a ledger that grew since the run was recorded.
THEOREM OneCallerResumedUnlessTorn == OneCaller => (Spec => []ResumedUnlessTorn)
<1>. SUFFICES ASSUME OneCaller PROVE Spec => []ResumedUnlessTorn
  OBVIOUS
<1>1. SerialInv => ResumedUnlessTorn
  BY DEF SerialInv, CallerSound, Refusable, ResumedUnlessTorn
<1>. QED
  BY <1>1, SerialCorrect, PTL

(***************************************************************************)
(* Any number of callers: a break stays short                              *)
(***************************************************************************)
\* Callers that passed the verification and may still append a line.
Appenders == {c \in Callers : pc[c] \in {"look", "link", "append"}}

\* The longest intact prefix leaves room for the lines still to come.
BreakInv ==
  \E n \in 0 .. Len(ledger) :
    /\ Undamaged(n)
    /\ Len(ledger) - n + Cardinality(Appenders) <= Cardinality(Callers)

LEMMA AppendersFinite ==
  ASSUME IsFiniteSet(Callers)
  PROVE  /\ IsFiniteSet(Appenders) /\ Cardinality(Appenders) \in Nat
         /\ Cardinality(Callers) \in Nat /\ Cardinality(Appenders) <= Cardinality(Callers)
BY FS_Subset, FS_CardinalityType DEF Appenders

LEMMA BreakInit == IsFiniteSet(Callers) /\ Init => BreakInv
<1>. SUFFICES ASSUME IsFiniteSet(Callers), Init PROVE BreakInv
  OBVIOUS
<1>1. Len(ledger) = 0 /\ Undamaged(0)
  BY DEF Init, Undamaged, Intact, Linked, Unique
<1>. QED
  BY <1>1, AppendersFinite DEF BreakInv

\* Nothing is appended and nobody newly passes the verification.
LEMMA BreakMove ==
  ASSUME IsFiniteSet(Callers), TypeInv, BreakInv, NEW c \in Callers,
         ledger' = ledger, cuts' = cuts, \E p \in Places : pc' = [pc EXCEPT ![c] = p],
         pc'[c] \notin {"look", "link", "append"} \/ c \in Appenders
  PROVE  BreakInv'
<1>1. Appenders' \subseteq Appenders
  BY DEF Appenders, TypeInv, TypeOK
<1>2. Cardinality(Appenders') <= Cardinality(Appenders) /\ Cardinality(Appenders') \in Nat
  BY <1>1, AppendersFinite, FS_Subset, FS_CardinalityType
<1>3. PICK n \in 0 .. Len(ledger) :
        /\ Undamaged(n)
        /\ Len(ledger) - n + Cardinality(Appenders) <= Cardinality(Callers)
  BY DEF BreakInv
<1>4. Len(ledger) \in Nat
  BY DEF TypeInv, TypeOK
<1>5. Len(ledger) - n + Cardinality(Appenders') <= Cardinality(Callers)
  BY <1>2, <1>3, <1>4, AppendersFinite
<1>6. Undamaged(n)'
  BY <1>3 DEF Undamaged
<1>. QED
  BY <1>3, <1>5, <1>6 DEF BreakInv

\* A verification that passes finds no break at all.
LEMMA VerifiedBreak ==
  ASSUME IsFiniteSet(Callers), TypeInv, NEW c \in Callers, LedgerVerified(c)
  PROVE  BreakInv'
<1>1. ledger' = ledger /\ cuts' = <<>> /\ Intact(ledger) /\ Len(ledger) \in Nat
      /\ SubSeq(ledger, 1, Len(ledger)) = ledger
  BY DEF LedgerVerified, Readable, TypeInv, TypeOK, files
<1>2. Cardinality(Appenders') \in Nat /\ Cardinality(Appenders') <= Cardinality(Callers)
  BY FS_Subset, FS_CardinalityType DEF Appenders
<1>3. Cardinality(Callers) \in Nat
  BY FS_CardinalityType
<1>4. PICK n \in 0 .. Len(ledger) : n = Len(ledger)
  <2>1. Len(ledger) \in Nat
    BY <1>1
  <2>2. Len(ledger) \in 0 .. Len(ledger)
    BY <2>1
  <2>. QED
    BY <2>2
<1>5. Len(ledger') - n + Cardinality(Appenders') <= Cardinality(Callers)
  BY <1>1, <1>2, <1>3, <1>4
<1>6. n \in 0 .. Len(ledger') /\ Undamaged(n)'
  <2>1. n = Len(ledger) /\ DOMAIN cuts' = {}
    BY <1>1, <1>4
  <2>2. n \in 0 .. Len(ledger') /\ SubSeq(ledger', 1, n) = ledger
    BY <1>1, <2>1
  <2>. QED
    BY <1>1, <2>1, <2>2 DEF Undamaged
<1>. QED
  BY <1>5, <1>6 DEF BreakInv

\* The caller that appends or dies is one fewer that may.
LEMMA AppendBreak ==
  ASSUME IsFiniteSet(Callers), TypeInv, BreakInv, NEW c \in Callers,
         AppendEntry(c) \/ CutAppend(c)
  PROVE  BreakInv'
<1>1. PICK n \in 0 .. Len(ledger) :
        /\ Undamaged(n)
        /\ Len(ledger) - n + Cardinality(Appenders) <= Cardinality(Callers)
  BY DEF BreakInv
<1>2. ledger \in Seq(Entry) /\ Len(ledger) \in Nat /\ NewEntry(c) \in Entry
      /\ cuts \in Seq(Nat) /\ ledger' \in {ledger, Append(ledger, NewEntry(c))}
  <2>1. Wanted(c) \in Prediction
    BY WantedType DEF AppendEntry, CutAppend, Appending, TypeInv
  <2>2. ledger \in Seq(Entry) /\ cuts \in Seq(Nat) /\ prev[c] \in Seq(Prediction)
    BY DEF TypeInv, TypeOK
  <2>. QED
    BY <2>1, <2>2 DEF AppendEntry, CutAppend, NewEntry, Entry
<1>3. /\ Len(ledger') \in {Len(ledger), Len(ledger) + 1}
      /\ SubSeq(ledger', 1, n) = SubSeq(ledger, 1, n)
  <2>1. n \in Nat /\ n <= Len(ledger)
    BY <1>1, <1>2
  <2>2. CASE ledger' = ledger
    BY <2>2
  <2>3. CASE ledger' = Append(ledger, NewEntry(c))
    <3>1. Len(ledger') = Len(ledger) + 1
      BY <1>2, <2>3
    <3>2. SubSeq(ledger', 1, n) = SubSeq(ledger, 1, n)
      BY <1>2, <2>1, <2>3
    <3>. QED
      BY <3>1, <3>2
  <2>. QED
    BY <1>2, <2>2, <2>3
<1>4. c \in Appenders /\ Appenders' = Appenders \ {c}
  BY DEF AppendEntry, CutAppend, Advance, GoTo, Appenders, TypeInv, TypeOK
<1>5. Cardinality(Appenders') = Cardinality(Appenders) - 1
  BY <1>4, AppendersFinite, FS_RemoveElement
<1>6. Len(ledger') - n + Cardinality(Appenders') <= Cardinality(Callers)
  BY <1>1, <1>2, <1>3, <1>5, AppendersFinite
<1>7. n \in 0 .. Len(ledger')
  BY <1>1, <1>2, <1>3
<1>8. Undamaged(n)'
  <2>1. cuts' \in {cuts, Append(cuts, Len(ledger))}
    BY DEF AppendEntry, CutAppend, CutsWritten
  <2>2. \A i \in DOMAIN Append(cuts, Len(ledger)) :
          \/ i \in DOMAIN cuts /\ Append(cuts, Len(ledger))[i] = cuts[i]
          \/ Append(cuts, Len(ledger))[i] = Len(ledger)
    BY <1>2
  <2>3. Len(ledger) >= n
    BY <1>1, <1>2
  <2>4. \A i \in DOMAIN cuts' : cuts'[i] >= n
    BY <1>1, <2>1, <2>2, <2>3 DEF Undamaged
  <2>. QED
    BY <1>1, <1>3, <2>4 DEF Undamaged
<1>. QED
  BY <1>6, <1>7, <1>8 DEF BreakInv

LEMMA BreakStep ==
  IsFiniteSet(Callers) /\ TypeInv /\ BreakInv /\ [Next]_vars => BreakInv'
<1>. SUFFICES ASSUME IsFiniteSet(Callers), TypeInv, BreakInv, [Next]_vars PROVE BreakInv'
  OBVIOUS
<1>. USE DEF GoTo, files, Places
<1>1. ASSUME NEW c \in Callers, Artifact(c) PROVE BreakInv'
  BY <1>1, BreakMove DEF Artifact, ArtifactConflict, ArtifactAcceptable, FindArtifact,
     OpenArtifact, WriteArtifact, HashArtifact, Refuse, TypeInv, TypeOK
<1>2. ASSUME NEW c \in Callers, Record(c) PROVE BreakInv'
  BY <1>2, BreakMove DEF Record, FindRecord, RecordConflict, RecordAgrees,
     OpenRecord, WriteRecord, CountLedger, Refuse, TypeInv, TypeOK
<1>3. ASSUME NEW c \in Callers, Start(c) \/ Answer(c) \/ Return(c) \/ Crash(c)
      PROVE  BreakInv'
  BY <1>3, BreakMove DEF Start, Answer, Return, Crash, TypeInv, TypeOK
<1>4. ASSUME NEW c \in Callers,
             LedgerUnreadable(c) \/ LedgerBroken(c) \/ AlreadyIssued(c) \/ IdConflict(c) \/ HashLedger(c)
      PROVE  BreakInv'
  BY <1>4, BreakMove DEF LedgerUnreadable, LedgerBroken, AlreadyIssued, IdConflict, HashLedger, Advance, Refuse,
     TypeInv, TypeOK
<1>5. ASSUME NEW c \in Callers, NotIssued(c) \/ Link(c) PROVE BreakInv'
  <2>1. c \in Appenders
    BY <1>5 DEF NotIssued, Link, Appenders
  <2>2. ledger' = ledger /\ cuts' = cuts /\ \E p \in Places : pc' = [pc EXCEPT ![c] = p]
    BY <1>5 DEF NotIssued, Link
  <2>. QED
    BY <2>1, <2>2, BreakMove
<1>6. CASE UNCHANGED vars
  BY <1>6 DEF vars, caller, BreakInv, Appenders, Undamaged
<1>. QED
  BY <1>1, <1>2, <1>3, <1>4, <1>5, <1>6, VerifiedBreak, AppendBreak DEF Next, Quiet, Ledger

\* However many callers run at once and whoever dies in an append, no more
\* entries follow the undamaged part of the ledger than there are callers.
THEOREM BreakContainedHolds == IsFiniteSet(Callers) => (Spec => []BreakContained)
<1>. SUFFICES ASSUME IsFiniteSet(Callers) PROVE Spec => []BreakContained
  OBVIOUS
<1>1. Init => BreakInv
  BY BreakInit
<1>2. TypeInv /\ BreakInv /\ [Next]_vars => BreakInv'
  BY BreakStep
<1>3. TypeInv /\ BreakInv => BreakContained
  <2>. SUFFICES ASSUME TypeInv, BreakInv PROVE BreakContained
    OBVIOUS
  <2>1. PICK n \in 0 .. Len(ledger) :
          /\ Undamaged(n)
          /\ Len(ledger) - n + Cardinality(Appenders) <= Cardinality(Callers)
    BY DEF BreakInv
  <2>2. Len(ledger) - n <= Cardinality(Callers)
    BY <2>1, AppendersFinite DEF TypeInv, TypeOK
  <2>. QED
    BY <2>1, <2>2 DEF BreakContained
<1>. QED
  BY <1>1, <1>2, <1>3, TypeCorrect, PTL DEF Spec

(***************************************************************************)
(* One caller: the output root is a PredictionLog                          *)
(***************************************************************************)
Bar(l) == [i \in DOMAIN l |-> l[i].prediction]
Complete == UNION {{run.request.plan : run \in Recorded(r)} : r \in RunIds}

\* A fresh entry at the end issues its prediction.
LEMMA AppendIssue ==
  ASSUME TypeInv, ChainInv, NEW c \in Callers, pc[c] = "append",
         ledger' = Append(ledger, NewEntry(c)), record' = record
  PROVE  Log!Next
<1>. DEFINE e == NewEntry(c)
<1>1. ledger \in Seq(Entry) /\ e \in Entry /\ ledger' = Append(ledger, e) /\ record' = record
      /\ Wanted(c) \in Prediction /\ e.prediction = Wanted(c)
  <2>1. Wanted(c) \in Prediction
    BY WantedType DEF Appending, TypeInv
  <2>2. ledger \in Seq(Entry) /\ prev[c] \in Seq(Prediction)
    BY DEF TypeInv, TypeOK
  <2>. QED
    BY <2>1, <2>2 DEF NewEntry, Entry
<1>2. \A i \in DOMAIN ledger : ledger[i].prediction.id # Wanted(c).id
  BY DEF ChainInv, Lines
<1>3. Bar(ledger) \in Seq(Prediction) /\ Bar(ledger') = Append(Bar(ledger), Wanted(c))
  <2>1. Len(ledger) \in Nat /\ DOMAIN ledger = 1 .. Len(ledger)
        /\ \A i \in DOMAIN ledger : ledger[i].prediction \in Prediction
    <3>1. Len(ledger) \in Nat /\ DOMAIN ledger = 1 .. Len(ledger)
          /\ \A i \in DOMAIN ledger : ledger[i] \in Entry
      BY <1>1
    <3>. QED
      BY <3>1 DEF Entry
  <2>2. Bar(ledger) \in Seq(Prediction) /\ Len(Bar(ledger)) = Len(ledger)
    BY <2>1 DEF Bar
  <2>3. /\ DOMAIN ledger' = 1 .. Len(ledger) + 1
        /\ \A i \in 1 .. Len(ledger) : ledger'[i] = ledger[i]
        /\ ledger'[Len(ledger) + 1] = e
    BY <1>1, <2>1
  <2>. QED
    BY <1>1, <2>1, <2>2, <2>3 DEF Bar
<1>4. \A q \in Log!Logged : q.id # Wanted(c).id
  BY <1>2 DEF Log!Logged
<1>5. Log!Issue(Wanted(c))
  BY <1>1, <1>3, <1>4 DEF Log!Issue, Bar, Recorded
<1>. QED
  BY <1>1, <1>5 DEF Log!Next, Log!Issue

\* Writing a run record records a run whose predictions are all in the ledger.
LEMMA WriteCompletes ==
  ASSUME TypeInv, CoverInv, SerialInv, NEW c \in Callers, WriteRecord(c)
  PROVE  Log!Next
<1>1. /\ Run(c) \in RunIds /\ req[c] \in Requests /\ ledger' = ledger
      /\ record[Run(c)] = Torn /\ seen[c] = LedgerText
      /\ record' = [record EXCEPT ![Run(c)] = Whole(NewRecord(c))]
  BY RequestType DEF WriteRecord, TypeInv, SerialInv, CallerSound, Hashed
<1>2. \A i \in DOMAIN Plan(c) : Plan(c)[i] \in Log!Logged
  <2>1. Covers(ledger, Plan(c))
    BY <1>1 DEF WriteRecord, CoverInv, CallerCovered, LedgerText
  <2>. QED
    BY <2>1 DEF Covers, Issued, Log!Logged
<1>3. Complete' = Complete \union {Plan(c)}
  <2>1. PICK r \in RunIds : r = Run(c)
    BY <1>1
  <2>2. Recorded(r)' = {NewRecord(c)} /\ Recorded(r) = {}
    BY <1>1, <2>1, FileFacts DEF Recorded, TypeInv, TypeOK
  <2>3. \A s \in RunIds \ {r} : Recorded(s)' = Recorded(s)
    BY <1>1, <2>1 DEF Recorded, TypeInv, TypeOK
  <2>4. NewRecord(c).request.plan = Plan(c)
    BY DEF NewRecord, Plan
  <2>. QED
    BY <2>2, <2>3, <2>4 DEF Complete
<1>4. Log!CompleteRun(Plan(c))
  BY <1>1, <1>2, <1>3 DEF Log!CompleteRun, Complete
<1>5. Plan(c) \in {q.plan : q \in Requests}
  BY <1>1 DEF Plan
<1>. QED
  BY <1>4, <1>5 DEF Log!Next, Log!CompleteRun

LEMMA LogStep ==
  ASSUME TypeInv, CoverInv, ChainInv, SerialInv, [Next]_vars
  PROVE  [Log!Next]_(Log!vars)
<1>1. ASSUME ledger' = ledger, record' = record PROVE UNCHANGED Log!vars
  BY <1>1 DEF Log!vars, Recorded
<1>2. ASSUME NEW c \in Callers, OpenRecord(c) PROVE UNCHANGED Log!vars
  <2>1. Run(c) \in RunIds /\ record[Run(c)] = Absent /\ ledger' = ledger
        /\ record' = [record EXCEPT ![Run(c)] = Torn]
    BY <1>2, RequestType DEF OpenRecord, TypeInv, SerialInv, CallerSound
  <2>2. \A s \in RunIds : Recorded(s)' = Recorded(s)
    <3>1. PICK r \in RunIds : r = Run(c)
      BY <2>1
    <3>2. Recorded(r)' = Recorded(r)
      BY <2>1, <3>1, FileFacts DEF Recorded, TypeInv, TypeOK
    <3>3. \A s \in RunIds \ {r} : Recorded(s)' = Recorded(s)
      BY <2>1, <3>1 DEF Recorded, TypeInv, TypeOK
    <3>. QED
      BY <3>2, <3>3
  <2>3. Complete' = Complete
    BY <2>2 DEF Complete
  <2>. QED
    BY <2>1, <2>3 DEF Log!vars, Complete
<1>3. ASSUME NEW c \in Callers, Artifact(c) PROVE ledger' = ledger /\ record' = record
  BY <1>3 DEF Artifact, ArtifactConflict, ArtifactAcceptable, FindArtifact,
     OpenArtifact, WriteArtifact, HashArtifact, Refuse, files
<1>4. ASSUME NEW c \in Callers, Ledger(c), ~AppendEntry(c), ~CutAppend(c)
      PROVE  ledger' = ledger /\ record' = record
  BY <1>4 DEF Ledger, LedgerUnreadable, LedgerBroken, LedgerVerified, AlreadyIssued, IdConflict, NotIssued,
     Link, HashLedger, Refuse, files
<1>5. ASSUME NEW c \in Callers, Record(c), ~OpenRecord(c), ~WriteRecord(c)
      PROVE  ledger' = ledger /\ record' = record
  BY <1>5 DEF Record, FindRecord, RecordConflict, RecordAgrees, CountLedger, Refuse, files
<1>6. ASSUME NEW c \in Callers, Start(c) \/ Answer(c) \/ Return(c) \/ Crash(c)
      PROVE  ledger' = ledger /\ record' = record
  BY <1>6 DEF Start, Answer, Return, Crash, files
<1>7. CASE UNCHANGED vars
  BY <1>1, <1>7 DEF vars, files
<1>8. ASSUME NEW c \in Callers, AppendEntry(c) \/ CutAppend(c)
      PROVE  \/ ledger' = ledger /\ record' = record
             \/ Log!Next
  BY <1>8, AppendIssue DEF AppendEntry, CutAppend
<1>. QED
  BY <1>1, <1>2, <1>3, <1>4, <1>5, <1>6, <1>7, <1>8, WriteCompletes DEF Next, Quiet

\* With one caller at a time the ledger and the run records implement
\* PredictionLog: predictions are only added, each id once, and a run is
\* complete only when all it issues is there.
THEOREM OneCallerImplementsLog == OneCaller => (Spec => ImplementsLog)
<1>. SUFFICES ASSUME OneCaller PROVE Spec => ImplementsLog
  OBVIOUS
<1>1. Init => Log!Init
  BY FileFacts DEF Init, Log!Init, Recorded
<1>2. TypeInv /\ CoverInv /\ ChainInv /\ SerialInv /\ [Next]_vars => [Log!Next]_(Log!vars)
  BY LogStep
<1>. QED
  BY <1>1, <1>2, SerialCorrect, PTL DEF Spec, ImplementsLog, Log!Spec
=============================================================================
