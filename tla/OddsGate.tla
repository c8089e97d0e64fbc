------------------------------- MODULE OddsGate -------------------------------
(***************************************************************************)
(* Odds snapshots and the gate of one prediction (evaluation/):             *)
(* ingest_jsonl_snapshots reads the rows of a file, a source policy filters *)
(* them, audit_odds_snapshots selects one quote of each outcome, and the    *)
(* commercial gate compares the prediction with the pair, if it is one.     *)
(*                                                                         *)
(* One market of one source; prices are left out.  The protocol is          *)
(* latest_pre_match.                                                        *)
(***************************************************************************)
EXTENDS Naturals, Sequences, FiniteSets

\* Times of the source policy, of the prediction and of the kickoff
Declared == 1
Issued == 3
Kickoff == 4

CONSTANTS
  MaxRows,     \* bound: rows of the file
  MaxFlawed    \* bound: of them, those with a flaw

Row(id, selection, captured) ==
  [id |-> id, selection |-> selection, captured |-> captured,
   match |-> "m", type |-> "pre_match", flaw |-> "none"]

Sound == {Row(id, s, c) : id \in {1, 2}, s \in {"yes", "no"}, c \in Declared..(Issued - 1)}

Typical == Row(1, "yes", Declared)
Flawed ==
  {[Typical EXCEPT !.flaw = f] : f \in {"schema", "metadata", "definition", "kickoff"}} \union
  {[Typical EXCEPT !.match = m] : m \in {"protected", "other", "unknown"}} \union
  {[Typical EXCEPT !.captured = c] : c \in {0, Issued, Kickoff}} \union
  {[Typical EXCEPT !.type = t] : t \in {"opening", "closing"}}

VARIABLES
  reusable,   \* the licence of the source allows its use
  gate,       \* "plain", or "policy": gate_prediction_with_source_policy
  read,       \* rows read; of them flawed
  flawed,
  rejected,   \* reason -> rows rejected by the ingestion
  rows,       \* snapshots accepted by the ingestion, in the order of the file
  decision

vars == <<reusable, gate, read, flawed, rejected, rows, decision>>

Undecided == [kind |-> "none"]

Init ==
  /\ reusable \in BOOLEAN /\ gate \in {"plain", "policy"}
  /\ read = 0 /\ flawed = 0 /\ rows = <<>> /\ decision = Undecided
  /\ rejected = [r \in {"source_not_reusable", "protected_holdout_season", "invalid_row",
                       "source_metadata_mismatch"} |-> 0]

(***************************************************************************)
(* Ingestion                                                               *)
(***************************************************************************)
\* The checks of a line, in their order
Rejection(r) ==
  IF ~reusable THEN "source_not_reusable"
  ELSE IF r.match = "protected" THEN "protected_holdout_season"
  ELSE IF r.flaw = "schema" THEN "invalid_row"
  ELSE IF r.flaw = "metadata" THEN "source_metadata_mismatch"
  ELSE "none"

Ingest(r) ==
  /\ decision = Undecided /\ read < MaxRows
  /\ read' = read + 1
  /\ \/ Rejection(r) = "none" /\ rows' = Append(rows, r) /\ rejected' = rejected
     \/ Rejection(r) # "none" /\ rows' = rows /\ rejected' = [rejected EXCEPT ![Rejection(r)] = @ + 1]
  /\ UNCHANGED <<reusable, gate, decision>>

IngestSound == \E r \in Sound : Ingest(r) /\ flawed' = flawed

IngestFlawed == flawed < MaxFlawed /\ flawed' = flawed + 1 /\ \E r \in Flawed : Ingest(r)

(***************************************************************************)
(* Policy and audit                                                        *)
(***************************************************************************)
\* apply_source_selection_policy, on the snapshots of every match
InPolicy(r) == r.type = "pre_match" /\ r.captured < Kickoff /\ r.captured >= Declared

Offered ==
  IF gate = "policy" THEN {i \in DOMAIN rows : InPolicy(rows[i])} ELSE DOMAIN rows

\* By capture and id, then by place in the file
Sooner(i, j) ==
  \/ rows[i].captured < rows[j].captured
  \/ rows[i].captured = rows[j].captured /\ rows[i].id < rows[j].id
  \/ rows[i].captured = rows[j].captured /\ rows[i].id = rows[j].id /\ i < j

\* The policy sorts what it accepts.
Before(i, j) == IF gate = "policy" THEN Sooner(i, j) ELSE i < j

Admissible ==
  {i \in Offered :
    /\ rows[i].match = "m"
    /\ rows[i].flaw \notin {"kickoff", "definition"}
    /\ rows[i].type \in {"opening", "pre_match"}
    /\ rows[i].captured < Kickoff /\ rows[i].captured < Issued}

Outcome(i) == <<rows[i].id, rows[i].selection>>

\* canonical_snapshot_key, of one match, market and source
Key(i) == <<rows[i].selection, rows[i].type, rows[i].captured>>

Group(i) == <<rows[i].selection, rows[i].type>>

\* Of one outcome in one snapshot the first row counts; of rows with one key, none.
FirstOfOutcome(S) == {i \in S : \A j \in S : Outcome(j) = Outcome(i) => ~Before(j, i)}
Unrepeated(S) == {i \in S : \A j \in S : Key(j) = Key(i) => j = i}

\* Mutant: ordered by snapshot id.
LatestById(S) == {i \in S : \A j \in S : Group(j) = Group(i) => rows[j].id <= rows[i].id}

Latest(S) == {i \in S : \A j \in S : Group(j) = Group(i) => ~Sooner(i, j)}

Selected == Latest(Unrepeated(FirstOfOutcome(Admissible)))

(***************************************************************************)
(* The gate                                                                *)
(***************************************************************************)
\* remove_binary_overround_from_snapshots raises for any other two.
Pair(S) ==
  /\ {rows[i].selection : i \in S} = {"yes", "no"}
  /\ \A i, j \in S : rows[i].type = rows[j].type /\ rows[i].captured = rows[j].captured

Decided(kind, S, provenance) ==
  decision' = [kind |-> kind, selected |-> S, provenance |-> provenance]

Decline(S) == Cardinality(S) # 2 /\ Decided("declined", S, {})

Raise(S) == Cardinality(S) = 2 /\ ~Pair(S) /\ Decided("raised", {}, {})

\* build_selection_provenance names what the policy accepted.
Provenance == IF gate = "policy" THEN Offered ELSE {}

Accept(S) == Cardinality(S) = 2 /\ Pair(S) /\ Decided("accepted", S, Provenance)

\* What the prediction may be.  A match of a protected season and an empty definition are
\* looked at before any quote is; another market is refused by the policy, and without
\* one no quote is of it.
Predictions == {"plain", "protected", "undefined", "other_market"}

Bar(p) == p # "plain" /\ Decided("declined", {}, {})

Judge(p) == p = "plain" /\ \E S \in {Selected} : Decline(S) \/ Raise(S) \/ Accept(S)

Decide ==
  /\ decision = Undecided
  /\ \E p \in Predictions : Bar(p) \/ Judge(p)
  /\ UNCHANGED <<reusable, gate, read, flawed, rejected, rows>>

Next == IngestSound \/ IngestFlawed \/ Decide

Spec == Init /\ [][Next]_vars

(***************************************************************************)
(* Properties                                                              *)
(***************************************************************************)
Twice(j) == \E k \in Admissible \ {j} : Key(k) = Key(j) \/ Outcome(k) = Outcome(j)

\* A prediction is compared with one "yes" and one "no" of one moment before it was
\* issued, and with none of a later moment that could have been used: a later quote
\* was given twice, or under an id that was taken.  The provenance has the pair, and
\* nothing captured before the policy.
ComparisonSound ==
  decision.kind = "accepted" =>
    /\ reusable /\ Pair(decision.selected)
    /\ \A i \in decision.selected :
         /\ rows[i].match = "m" /\ rows[i].captured < Issued /\ rows[i].flaw = "none"
         /\ \A j \in Admissible : Group(j) = Group(i) /\ rows[j].captured > rows[i].captured => Twice(j)
    /\ gate = "policy" =>
         /\ decision.selected \subseteq decision.provenance
         /\ \A i \in decision.provenance : rows[i].captured >= Declared

(***************************************************************************)
(* An invariant from which it follows                                      *)
(***************************************************************************)
\* What the ingestion lets through
Quotes ==
  [id : {1, 2}, selection : {"yes", "no"}, captured : Nat,
   match : {"m", "other", "unknown"}, type : {"pre_match", "opening", "closing"},
   flaw : {"none", "kickoff", "definition"}]

RowsSound == rows \in Seq(Quotes) /\ (rows # <<>> => reusable)

GateInv == RowsSound /\ ComparisonSound
=============================================================================
