---------------------------- MODULE PredictionLedger ----------------------------
(***************************************************************************)
(* The hash-chained ledger of predictions and outcomes                      *)
(* (ledger/append_only.py) and the two scripts that fill it:                *)
(* scripts_write_predictions starts the file anew and appends predictions,  *)
(* scripts_reveal_and_evaluate appends their outcomes and evaluates them.   *)
(* Nothing keeps two of them from running at once.                          *)
(*                                                                         *)
(* A hash stands for what it hashes: the contents of the entries up to its  *)
(* own.  Probabilities are left out; version is the input of a write.       *)
(***************************************************************************)
EXTENDS Naturals, Sequences

CONSTANTS
  Matches,   \* the test rows, in order
  Proc,      \* processes
  MaxRuns    \* bound: scripts started

VARIABLES
  ledger,      \* the entries of the file
  generation,  \* how often the file was removed
  proc,        \* process -> what it runs, and its local state
  runs,
  errors       \* btts_errors.csv: the evaluated predictions

vars == <<ledger, generation, proc, runs, errors>>

Torn == [type |-> "torn"]
Idle == [script |-> "none", pc |-> "idle"]

Init ==
  /\ ledger = <<>> /\ generation = 0 /\ runs = 0 /\ errors = {}
  /\ proc = [p \in Proc |-> Idle]

(***************************************************************************)
(* PredictionLedger                                                        *)
(***************************************************************************)
Hash(e) == Append(e.prev, <<e.type, e.id, e.version>>)

LastHash(L) == IF L = <<>> THEN <<>> ELSE Hash(L[Len(L)])

\* records() parses every line: one that is cut short raises.
Readable(L) == \A i \in DOMAIN L : L[i].type # "torn"

Of(L, type) == {i \in DOMAIN L : L[i].type = type}

Verifies(L) ==
  /\ Readable(L)
  /\ \A i \in DOMAIN L : L[i].prev = LastHash(SubSeq(L, 1, i - 1))
  /\ \A i, j \in Of(L, "prediction") : L[i].id = L[j].id => i = j

Has(L, type, id) == \E i \in Of(L, type) : L[i].id = id

(***************************************************************************)
(* One append, by a script at the entry proc[p].todo begins with           *)
(***************************************************************************)
Type(p) == IF proc[p].script = "write" THEN "prediction" ELSE "outcome"
Id(p) == Head(proc[p].todo)

Goes(p, q) == proc' = [proc EXCEPT ![p] = q]
Fails(p) == Goes(p, Idle) /\ UNCHANGED <<ledger, generation, runs, errors>>
To(p, pc) == Goes(p, [proc[p] EXCEPT !.pc = pc]) /\ UNCHANGED <<ledger, generation, runs, errors>>

Verify(p) ==
  /\ proc[p].pc = "verify"
  /\ \/ ~Verifies(ledger) /\ Fails(p)
     \/ Verifies(ledger) /\ To(p, IF Type(p) = "prediction" THEN "look" ELSE "link")

\* _has_prediction: of a prediction it is an error, of an outcome a condition.
Look(p) ==
  /\ proc[p].pc = "look"
  /\ \/ /\ ~Readable(ledger) \/ (Has(ledger, "prediction", Id(p)) <=> Type(p) = "prediction")
        /\ Fails(p)
     \/ /\ Readable(ledger) /\ (Has(ledger, "prediction", Id(p)) <=> Type(p) = "outcome")
        /\ To(p, IF Type(p) = "prediction" THEN "link" ELSE "verify")

Link(p) ==
  /\ proc[p].pc = "link"
  /\ \/ ~Readable(ledger) /\ Fails(p)
     \/ /\ Readable(ledger)
        /\ Goes(p, [proc[p] EXCEPT !.pc = "append", !.prev = LastHash(ledger)])
        /\ UNCHANGED <<ledger, generation, runs, errors>>

Entry(p) ==
  [type |-> Type(p), id |-> Id(p), prev |-> proc[p].prev, checked |-> proc[p].checked,
   version |-> IF Type(p) = "prediction" THEN proc[p].version ELSE 0]

\* A line of its own, unless the last one was cut short
Written(L, e) == IF Readable(L) THEN Append(L, e) ELSE L

AppendEntry(p) ==
  /\ proc[p].pc = "append"
  /\ ledger' = Written(ledger, Entry(p))
  /\ Goes(p, [proc[p] EXCEPT !.pc = "next", !.todo = Tail(@)])
  /\ UNCHANGED <<generation, runs, errors>>

(***************************************************************************)
(* scripts_write_predictions                                               *)
(***************************************************************************)
Script(name, pc, todo) ==
  [script |-> name, pc |-> pc, todo |-> todo, prev |-> <<>>, checked |-> <<0, 0>>,
   version |-> runs + 1, predictions |-> {}]

\* The script removes the ledger.
StartWrite(p) ==
  /\ proc[p] = Idle /\ runs < MaxRuns
  /\ ledger' = <<>> /\ generation' = generation + 1 /\ runs' = runs + 1
  /\ Goes(p, Script("write", "next", Matches))
  /\ UNCHANGED errors

NextPrediction(p) ==
  /\ proc[p].pc = "next" /\ proc[p].script = "write"
  /\ \/ proc[p].todo # <<>> /\ To(p, "verify")
     \/ proc[p].todo = <<>> /\ Fails(p)

(***************************************************************************)
(* scripts_reveal_and_evaluate                                             *)
(***************************************************************************)
Predicted(L) == SelectSeq(L, LAMBDA e : e.type = "prediction")

StartReveal(p) ==
  /\ proc[p] = Idle /\ runs < MaxRuns /\ Readable(ledger)
  /\ runs' = runs + 1
  /\ Goes(p, Script("reveal", "next", [i \in DOMAIN Predicted(ledger) |-> Predicted(ledger)[i].id]))
  /\ UNCHANGED <<ledger, generation, errors>>

\* checked is not the program's: it says which file the outcome was missing from, and
\* how long that file was.
Searched(p) ==
  /\ Goes(p, [proc[p] EXCEPT !.pc = "look", !.checked = <<generation, Len(ledger)>>])
  /\ UNCHANGED <<ledger, generation, runs, errors>>

\* Mutant: appends an outcome whether or not it is there.
NextOutcomeAgain(p) ==
  /\ proc[p].pc = "next" /\ proc[p].script = "reveal"
  /\ \/ ~Readable(ledger) /\ Fails(p)
     \/ proc[p].todo # <<>> /\ Readable(ledger) /\ Searched(p)
     \/ proc[p].todo = <<>> /\ Readable(ledger) /\ To(p, "final")

\* An outcome that is there is passed over.
NextOutcome(p) ==
  /\ proc[p].pc = "next" /\ proc[p].script = "reveal"
  /\ \/ ~Readable(ledger) /\ Fails(p)
     \/ /\ proc[p].todo # <<>> /\ Readable(ledger)
        /\ \/ ~Has(ledger, "outcome", Id(p)) /\ Searched(p)
           \/ /\ Has(ledger, "outcome", Id(p))
              /\ Goes(p, [proc[p] EXCEPT !.todo = Tail(@)])
              /\ UNCHANGED <<ledger, generation, runs, errors>>
     \/ proc[p].todo = <<>> /\ Readable(ledger) /\ To(p, "final")

FinalVerify(p) ==
  /\ proc[p].pc = "final"
  /\ \/ ~Verifies(ledger) /\ Fails(p)
     \/ Verifies(ledger) /\ To(p, "predictions")

\* A dictionary: of two predictions with one id the later one
LastPredictions(L) ==
  {L[i] : i \in {k \in Of(L, "prediction") :
                   \A j \in Of(L, "prediction") : L[j].id = L[k].id => j <= k}}

ReadPredictions(p) ==
  /\ proc[p].pc = "predictions"
  /\ \/ ~Readable(ledger) /\ Fails(p)
     \/ /\ Readable(ledger)
        /\ Goes(p, [proc[p] EXCEPT !.pc = "outcomes",
                                   !.predictions = LastPredictions(ledger)])
        /\ UNCHANGED <<ledger, generation, runs, errors>>

\* A prediction without an outcome raises, and so does a frame without rows.
Joinable(S, L) == Readable(L) /\ S # {} /\ \A e \in S : Has(L, "outcome", e.id)

Evaluate(p) ==
  /\ proc[p].pc = "outcomes"
  /\ \/ ~Joinable(proc[p].predictions, ledger) /\ Fails(p)
     \/ /\ Joinable(proc[p].predictions, ledger)
        /\ errors' = {[id |-> e.id, version |-> e.version] : e \in proc[p].predictions}
        /\ Goes(p, Idle) /\ UNCHANGED <<ledger, generation, runs>>

\* A process dies, between two lines or in one.
Die(p) ==
  /\ proc[p] # Idle /\ Goes(p, Idle)
  /\ \/ ledger' = ledger
     \/ proc[p].pc = "append" /\ Readable(ledger) /\ ledger' = Append(ledger, Torn)
  /\ UNCHANGED <<generation, runs, errors>>

Step(p) ==
  \/ StartWrite(p) \/ StartReveal(p)
  \/ NextPrediction(p) \/ NextOutcome(p)
  \/ Verify(p) \/ Look(p) \/ Link(p) \/ AppendEntry(p)
  \/ FinalVerify(p) \/ ReadPredictions(p) \/ Evaluate(p) \/ Die(p)

Next == \E p \in Proc : Step(p)

Spec == Init /\ [][Next]_vars

(***************************************************************************)
(* Properties                                                              *)
(***************************************************************************)
Earlier(i, type) == {j \in 1..(i - 1) : ledger[j].type = type /\ ledger[j].id = ledger[i].id}

\* In a ledger that verifies, an outcome comes after its prediction, and twice only if the
\* first one was appended after it was found missing.  It has no prediction before it only
\* if the file was removed and begun anew since then: a write that overlaps with a reveal
\* leaves such ledgers, and they verify.
LedgerHonest ==
  Verifies(ledger) =>
    \A i \in Of(ledger, "outcome") :
      \/ /\ Earlier(i, "prediction") # {}
         /\ \A j \in Earlier(i, "outcome") : j > ledger[i].checked[2]
      \/ ledger[i].checked[1] < generation

\* Claimed by append_outcome: "outcome cannot be recorded before its prediction".
OutcomeAfterPrediction ==
  Verifies(ledger) => \A i \in Of(ledger, "outcome") : Earlier(i, "prediction") # {}

(***************************************************************************)
(* An invariant from which it follows, whether or not the ledger verifies  *)
(***************************************************************************)
IsSequence(L) == L \in Seq({L[i] : i \in DOMAIN L})

IsScript(q) ==
  /\ q.script \in {"write", "reveal"}
  /\ q = [script |-> q.script, pc |-> q.pc, todo |-> q.todo, prev |-> q.prev,
          checked |-> q.checked, version |-> q.version, predictions |-> q.predictions]

TypeOK ==
  /\ IsSequence(ledger) /\ generation \in Nat
  /\ proc = [p \in Proc |-> proc[p]]
  /\ \A p \in Proc : proc[p] = Idle \/ IsScript(proc[p])

OutcomeSound(i) ==
  /\ ledger[i].checked \in Nat \X Nat /\ ledger[i].checked[1] <= generation
  /\ ledger[i].checked[1] = generation =>
       /\ Earlier(i, "prediction") # {}
       /\ \A j \in Earlier(i, "outcome") : j > ledger[i].checked[2]

\* A process that has looked for the outcome of a match: the file has grown since then,
\* or was removed.
SearchSound(q) ==
  q.script = "reveal" /\ q.pc \in {"look", "verify", "link", "append"} =>
    /\ q.checked \in Nat \X Nat /\ q.checked[1] <= generation
    /\ q.checked[1] = generation =>
         /\ q.checked[2] <= Len(ledger)
         /\ \A j \in Of(ledger, "outcome") : ledger[j].id = Head(q.todo) => j > q.checked[2]
         /\ q.pc # "look" => Has(ledger, "prediction", Head(q.todo))

LedgerInv ==
  /\ TypeOK
  /\ \A i \in Of(ledger, "outcome") : OutcomeSound(i)
  /\ \A p \in Proc : proc[p] # Idle => SearchSound(proc[p])
=============================================================================
