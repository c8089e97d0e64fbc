------------------------------ MODULE WinInference ------------------------------
(***************************************************************************)
(* estimate_win_probability (services/ollama_inference.py): asynchronous    *)
(* tasks that estimate one match from data of their own, each with calls of *)
(* three models over HTTP and one SQLite cache, whose key is the match.     *)
(* An estimate is told by the task whose data it was made from.             *)
(***************************************************************************)
EXTENDS Naturals, Sequences

CONSTANTS
  Tasks,
  Tries,        \* of one call of a model, 3 in the source
  MaxFaults     \* bound: failed calls, reads and writes, of all tasks together

None == [from |-> 0, model |-> "none"]

VARIABLES
  task,     \* task -> where it is, its flag, what failed, and its answer
  cache,    \* the row of the match
  stored,   \* what the row has been, oldest first
  faults

vars == <<task, cache, stored, faults>>

Calls == {"news", "primary", "backup"}

\* began is not the program's: the length of stored when the task looked into the cache.
Init ==
  /\ task \in [Tasks -> [pc : {"new"}, reuse : BOOLEAN, tried : {0}, missed : {{}},
                         answer : {None}, began : {0}]]
  /\ cache = None /\ stored = <<>> /\ faults = 0

Does(t, q) == task' = [task EXCEPT ![t] = q]
Keeps == UNCHANGED <<cache, stored, faults>>

(***************************************************************************)
(* The cache                                                               *)
(***************************************************************************)
Fault(t, failed) ==
  /\ faults < MaxFaults /\ faults' = faults + 1
  /\ Does(t, failed) /\ UNCHANGED <<cache, stored>>

\* Without snippets of news the first model is not asked.
Begin(t, missed) ==
  {[task[t] EXCEPT !.pc = first, !.began = Len(stored), !.missed = missed] :
     first \in {"news", "primary"}}

Found(t) == [task[t] EXCEPT !.pc = "answered", !.answer = cache, !.began = Len(stored)]

\* Mutant: looks into the cache whatever the caller asked for.
LookupAlways(t) ==
  /\ task[t].pc = "new" /\ Keeps
  /\ \/ cache # None /\ Does(t, Found(t))
     \/ cache = None /\ \E q \in Begin(t, {}) : Does(t, q)

Lookup(t) ==
  /\ task[t].pc = "new" /\ Keeps
  /\ \/ task[t].reuse /\ cache # None /\ Does(t, Found(t))
     \/ (~task[t].reuse \/ cache = None) /\ \E q \in Begin(t, {}) : Does(t, q)

\* The table cannot be made, or the row cannot be read.
LookupFails(t) ==
  /\ task[t].pc = "new"
  /\ \/ Fault(t, [task[t] EXCEPT !.pc = "unavailable"])
     \/ task[t].reuse /\ \E q \in Begin(t, {"cache"}) : Fault(t, q)

\* A write that fails is logged, and the estimate is returned all the same.
Store(t) ==
  /\ task[t].pc = "store"
  /\ \/ /\ Does(t, [task[t] EXCEPT !.pc = "answered"])
        /\ cache' = task[t].answer /\ stored' = Append(stored, cache') /\ faults' = faults
     \/ Fault(t, [task[t] EXCEPT !.pc = "answered"])

(***************************************************************************)
(* The models                                                              *)
(***************************************************************************)
\* Where a task goes when a call has given nothing it can use
AfterFailure(call) ==
  CASE call = "news" -> "primary" [] call = "primary" -> "backup" [] call = "backup" -> "raised"

Missed(t, call) ==
  [task[t] EXCEPT !.pc = AfterFailure(call), !.tried = 0, !.missed = @ \union {call}]

\* _call_ollama tries again, at once after a timeout and later after another error.
CallFails(t) ==
  /\ task[t].pc \in Calls
  /\ \/ task[t].tried + 1 < Tries /\ Fault(t, [task[t] EXCEPT !.tried = @ + 1])
     \/ task[t].tried + 1 = Tries /\ Fault(t, Missed(t, task[t].pc))

\* A body without the JSON object asked for, or out of range, whatever the HTTP status
AnswerInvalid(t) == task[t].pc \in Calls /\ Fault(t, Missed(t, task[t].pc))

NewsSummed(t) ==
  /\ task[t].pc = "news"
  /\ Does(t, [task[t] EXCEPT !.pc = "primary", !.tried = 0])
  /\ Keeps

Estimated(t) ==
  /\ task[t].pc \in {"primary", "backup"}
  /\ Does(t, [task[t] EXCEPT !.pc = "store", !.tried = 0,
                             !.answer = [from |-> t, model |-> task[t].pc]])
  /\ Keeps

Next ==
  \E t \in Tasks :
    \/ Lookup(t) \/ LookupFails(t) \/ Store(t)
    \/ CallFails(t) \/ AnswerInvalid(t) \/ NewsSummed(t) \/ Estimated(t)

Spec == Init /\ [][Next]_vars

(***************************************************************************)
(* Properties                                                              *)
(***************************************************************************)
\* An answer is of the task's own data, or the one in the cache when the task began, and
\* that only if the task allows it, and always if it does and the cache can be read: of
\* other data, then.  The backup answers for a primary that did not, and a task raises
\* only after both have failed.
EstimatesExplained ==
  \A t \in Tasks :
    /\ task[t].pc = "answered" =>
         LET a == task[t].answer  own == a.from = t IN
         /\ ~own => task[t].reuse /\ task[t].began > 0 /\ a = stored[task[t].began]
         /\ own /\ task[t].reuse => task[t].began = 0 \/ "cache" \in task[t].missed
         /\ own => (a.model = "backup" <=> "primary" \in task[t].missed)
    /\ task[t].pc = "raised" => {"primary", "backup"} \subseteq task[t].missed

(***************************************************************************)
(* An invariant from which it follows                                      *)
(***************************************************************************)
Estimate == [from : Tasks, model : {"primary", "backup"}]

Task ==
  [pc : Calls \union {"new", "store", "answered", "raised", "unavailable"}, reuse : BOOLEAN,
   tried : Nat, missed : SUBSET (Calls \union {"cache"}), answer : Estimate \union {None},
   began : Nat]

TypeOK ==
  /\ task \in [Tasks -> Task]
  /\ stored \in Seq(Estimate)
  /\ cache = IF stored = <<>> THEN None ELSE stored[Len(stored)]
  /\ faults \in Nat

\* Where a task is tells which models have failed, and whose estimate it has.
Explains(t, q) ==
  /\ q.began <= Len(stored)
  /\ q.pc # "answered" => \A i \in DOMAIN stored : stored[i].from # t
  /\ q.pc = "new" => q.missed = {}
  /\ q.pc \in Calls \union {"store"} /\ q.reuse => q.began = 0 \/ "cache" \in q.missed
  /\ q.pc \in {"news", "primary"} => "primary" \notin q.missed
  /\ q.pc = "backup" => "primary" \in q.missed
  /\ q.pc = "store" => q.answer \in Estimate /\ q.answer.from = t
  /\ q.pc = "store" \/ (q.pc = "answered" /\ q.answer.from = t) =>
       (q.answer.model = "backup" <=> "primary" \in q.missed)
  /\ q.pc = "answered" /\ q.answer.from = t /\ q.reuse => q.began = 0 \/ "cache" \in q.missed
  /\ q.pc = "answered" /\ q.answer.from # t => q.reuse /\ q.began > 0 /\ q.answer = stored[q.began]
  /\ q.pc = "raised" => {"primary", "backup"} \subseteq q.missed

EstimatesInv == TypeOK /\ \A t \in Tasks : Explains(t, task[t])
=============================================================================
