---------------------------- MODULE HoldoutPolicy ----------------------------
(***************************************************************************)
(* The scripts of cycle 35, which freezes predictions of the protected       *)
(* season under a policy lock and evaluates them, and of cycle 36, which     *)
(* chooses the policy of the next season.  A file is modelled by what its   *)
(* content is made from, so two files are equal when their hashes are.       *)
(* It is one market and its data sets: the other is read, frozen and scored *)
(* likewise, between the same steps, and goes into the same outputs.        *)
(*                                                                         *)
(* The lock, the report of cycle 34 and the data sets are replaced from     *)
(* outside at any time, a script dies at any time and is started again.     *)
(***************************************************************************)
EXTENDS Naturals, Sequences

CONSTANTS
  MaxEdits,     \* bound: files replaced from outside
  MaxStarts     \* bound: scripts started

Locks == {"lock", "same variant", "other variant"}
Data == {"data", "corrected", "other matches"}
Modes == {"constant_train_rate", "expanded"}
Variant(l) == IF l = "other variant" THEN "expanded" ELSE "constant_train_rate"
Matches(d) == IF d = "other matches" THEN "other" ELSE "same"

None == [kind |-> "none"]

Outputs == {"selection", "predictions", "metrics", "evaluation", "policy36", "metrics36", "report36"}

\* What each manifest names as the inputs of its output, in the order they are written
Manifests35 == <<"lock", "selection", "predictions", "evaluation", "metrics">>
Manifests36 == <<"report36", "metrics36", "policy36">>
Inputs ==
  [lock |-> {"nested"}, selection |-> {"nested", "lock"}, predictions |-> {"data", "lock"},
   evaluation |-> {"predictions", "lock"}, metrics |-> {"evaluation"},
   report36 |-> {"data"}, metrics36 |-> {"report36"}, policy36 |-> {"report36"}]

VARIABLES
  outside,    \* the lock, the modal variant of the cycle 34 report, the data sets
  disk,       \* the written outputs
  manifests,
  pc,
  mem,        \* what the running script has read
  disturbed,  \* inputs replaced since it was started
  edits, starts

vars == <<outside, disk, manifests, pc, mem, disturbed, edits, starts>>

Content(f) == IF f \in DOMAIN outside THEN outside[f] ELSE disk[f]

Init ==
  /\ outside = [lock |-> "lock", nested |-> "constant_train_rate", data |-> "data"]
  /\ disk = [f \in Outputs |-> None]
  /\ manifests = [f \in DOMAIN Inputs |-> None]
  /\ pc = "idle" /\ mem = None /\ disturbed = {} /\ edits = 0 /\ starts = 0

Replace ==
  /\ edits < MaxEdits /\ edits' = edits + 1
  /\ \/ \E l \in Locks \ {outside.lock} : outside' = [outside EXCEPT !.lock = l]
     \/ \E m \in Modes \ {outside.nested} : outside' = [outside EXCEPT !.nested = m]
     \/ \E d \in Data \ {outside.data} : outside' = [outside EXCEPT !.data = d]
  /\ disturbed' = disturbed \union {f \in DOMAIN outside : outside'[f] # outside[f]}
  /\ UNCHANGED <<disk, manifests, pc, mem, starts>>

Step(from, to) == pc = from /\ pc' = to /\ UNCHANGED <<outside, disturbed, edits, starts>>

Learns(fact) ==
  mem' = [k \in DOMAIN mem \union DOMAIN fact |-> IF k \in DOMAIN fact THEN fact[k] ELSE mem[k]]

Reads(from, to, fact) == Step(from, to) /\ Learns(fact) /\ UNCHANGED <<disk, manifests>>

Writes(from, to, f, content) ==
  /\ Step(from, to)
  /\ disk' = [disk EXCEPT ![f] = content]
  /\ UNCHANGED <<mem, manifests>>

\* An exception or the end
Stops(from) ==
  /\ Step(from, "idle")
  /\ mem' = None
  /\ UNCHANGED <<disk, manifests>>

Start(script) ==
  /\ pc = "idle" /\ starts < MaxStarts
  /\ starts' = starts + 1 /\ pc' = script /\ mem' = [kind |-> "run"] /\ disturbed' = {}
  /\ UNCHANGED <<outside, disk, manifests, edits>>

Die ==
  /\ pc # "idle"
  /\ pc' = "idle" /\ mem' = None
  /\ UNCHANGED <<outside, disk, manifests, disturbed, edits, starts>>

(***************************************************************************)
(* Cycle 35                                                                *)
(***************************************************************************)
\* The lock is read and validated, and then read again to be hashed.
LoadLock == Reads("cycle35", "hash", [lock |-> outside.lock])
HashLock == Reads("hash", "select", [lockHash |-> outside.lock])

Select ==
  /\ pc = "select"
  /\ \/ outside.nested = Variant(mem.lock) /\ Reads("select", "select done", [nested |-> outside.nested])
     \/ outside.nested # Variant(mem.lock) /\ Stops("select")

WriteSelection ==
  Writes("select done", "hash data", "selection", [lockHash |-> mem.lockHash, nested |-> mem.nested])

HashData == Reads("hash data", "read data", [dataHash |-> outside.data])

\* Only the constant is permitted.
ReadData ==
  /\ pc = "read data"
  /\ \/ Variant(mem.lock) = "constant_train_rate" /\ Reads("read data", "freeze", [data |-> outside.data])
     \/ Variant(mem.lock) # "constant_train_rate" /\ Stops("read data")

Predictions ==
  [madeUnder |-> mem.lock, lockHash |-> mem.lockHash, madeFrom |-> mem.data, dataHash |-> mem.dataHash]

\* Mutant: predictions of an earlier run are frozen for good.
FreezeOnce ==
  Writes("freeze", "recheck", "predictions",
         IF disk.predictions = None THEN Predictions ELSE disk.predictions)

Freeze == Writes("freeze", "recheck", "predictions", Predictions)

Recheck ==
  /\ pc = "recheck"
  /\ \/ outside.lock = mem.lockHash /\ Reads("recheck", "labels", [predictions |-> disk.predictions])
     \/ outside.lock # mem.lockHash /\ Stops("recheck")

\* The labels are joined with the predictions one to one.
ReadLabels ==
  /\ pc = "labels"
  /\ \/ Matches(outside.data) = Matches(mem.data) /\ Reads("labels", "metrics", [labels |-> outside.data])
     \/ Matches(outside.data) # Matches(mem.data) /\ Stops("labels")

Scores == [madeUnder |-> mem.lock, madeFrom |-> mem.data, labels |-> mem.labels]

WriteMetrics == Writes("metrics", "evaluation", "metrics", Scores)

Evaluation == [lockHash |-> mem.lockHash, predictions |-> mem.predictions, scores |-> Scores]

WriteEvaluation == Writes("evaluation", "manifest of lock", "evaluation", Evaluation)

(***************************************************************************)
(* Cycle 36                                                                *)
(***************************************************************************)
Develop == Reads("cycle36", "hash development", [data |-> outside.data])
HashDevelopment == Reads("hash development", "policy36", [dataHash |-> outside.data])

Policy36 == [chosenFrom |-> mem.data, dataHash |-> mem.dataHash]

WritePolicy36 == Writes("policy36", "metrics36", "policy36", Policy36)
WriteMetrics36 == Writes("metrics36", "report36", "metrics36", [madeFrom |-> mem.data])
WriteReport36 == Writes("report36", "manifest of report36", "report36",
                        [policy |-> Policy36, madeFrom |-> mem.data])

(***************************************************************************)
(* The manifests                                                           *)
(***************************************************************************)
Writing ==
  [lock |-> "manifest of lock", selection |-> "manifest of selection",
   predictions |-> "manifest of predictions", evaluation |-> "manifest of evaluation",
   metrics |-> "manifest of metrics", report36 |-> "manifest of report36",
   metrics36 |-> "manifest of metrics36", policy36 |-> "manifest of policy36"]

WriteManifest(f, to) ==
  /\ Step(Writing[f], to)
  /\ manifests' = [manifests EXCEPT ![f] =
       [output |-> Content(f), inputs |-> [i \in Inputs[f] |-> Content(i)], disturbed |-> disturbed]]
  /\ UNCHANGED <<disk, mem>>

WriteManifests(order) ==
  \E i \in DOMAIN order :
    WriteManifest(order[i], IF i = Len(order) THEN "done" ELSE Writing[order[i + 1]])

Cycle35 ==
  \/ LoadLock \/ HashLock \/ Select \/ WriteSelection \/ HashData \/ ReadData \/ Freeze
  \/ Recheck \/ ReadLabels \/ WriteMetrics \/ WriteEvaluation \/ WriteManifests(Manifests35)

Cycle36 ==
  \/ Develop \/ HashDevelopment \/ WritePolicy36 \/ WriteMetrics36 \/ WriteReport36
  \/ WriteManifests(Manifests36)

Next ==
  \/ Replace \/ Die \/ Stops("done") \/ Cycle35 \/ Cycle36
  \/ \E script \in {"cycle35", "cycle36"} : Start(script)

Spec == Init /\ [][Next]_vars

(***************************************************************************)
(* Properties                                                              *)
(***************************************************************************)
\* A reader checks the hashes of a manifest against the files.
Verifies(f) ==
  /\ manifests[f] # None
  /\ manifests[f].output = Content(f)
  /\ \A i \in Inputs[f] : manifests[f].inputs[i] = Content(i)

Undisturbed(f, input) == input \notin manifests[f].disturbed

\* Whatever died in between: an evaluation whose manifest verifies scored the
\* predictions on disk; if nobody replaced the lock during the run they were frozen
\* under the lock on disk, and if nobody replaced the data they were made from, and
\* scored with, the data they quote.  A verified policy is the one in its report.
PublishedAgree ==
  /\ Verifies("evaluation") =>
       LET e == disk.evaluation
           p == disk.predictions
       IN  /\ e.predictions = p /\ p.lockHash = e.lockHash
           /\ Undisturbed("evaluation", "lock") => p.madeUnder = outside.lock /\ e.lockHash = outside.lock
           /\ Undisturbed("evaluation", "data") => p.madeFrom = p.dataHash /\ e.scores.labels = p.dataHash
  /\ Verifies("policy36") => disk.report36.policy = disk.policy36

(***************************************************************************)
(* An invariant from which it follows                                      *)
(***************************************************************************)
TypeOK ==
  /\ outside \in [lock : Locks, nested : Modes, data : Data]
  /\ disk = [f \in Outputs |-> disk[f]]
  /\ manifests = [f \in DOMAIN Inputs |-> manifests[f]]

Places35 ==
  {"manifest of lock", "manifest of selection", "manifest of predictions",
   "manifest of evaluation", "manifest of metrics"}
Places36 == {"manifest of report36", "manifest of metrics36", "manifest of policy36"}

\* What a script has read by the time it is at a place
Read35 == {"kind", "lock", "lockHash", "nested", "dataHash", "data"}

MemorySound ==
  /\ pc \in {"idle", "cycle35", "cycle36"} => DOMAIN mem = {"kind"}
  /\ pc = "hash" => DOMAIN mem = {"kind", "lock"}
  /\ pc = "select" => DOMAIN mem = {"kind", "lock", "lockHash"}
  /\ pc \in {"select done", "hash data"} => DOMAIN mem = {"kind", "lock", "lockHash", "nested"}
  /\ pc = "read data" => DOMAIN mem = {"kind", "lock", "lockHash", "nested", "dataHash"}
  /\ pc \in {"freeze", "recheck"} => DOMAIN mem = Read35
  /\ pc = "labels" => DOMAIN mem = Read35 \union {"predictions"}
  /\ pc \in {"metrics", "evaluation"} \union Places35 =>
       DOMAIN mem = Read35 \union {"predictions", "labels"}
  /\ pc = "hash development" => DOMAIN mem = {"kind", "data"}
  /\ pc \in {"policy36", "metrics36", "report36"} \union Places36 =>
       DOMAIN mem = {"kind", "data", "dataHash"}

\* What was read is what is there, unless it was replaced since the script was started.
StillThere ==
  /\ "lock" \notin disturbed =>
       \A k \in {"lock", "lockHash"} \intersect DOMAIN mem : mem[k] = outside.lock
  /\ "data" \notin disturbed =>
       \A k \in {"data", "dataHash", "labels"} \intersect DOMAIN mem : mem[k] = outside.data

\* What the script at a place has written
OutputSound ==
  /\ pc \in {"recheck", "labels", "metrics", "evaluation"} \union Places35 =>
       disk.predictions = Predictions
  /\ pc \in {"labels", "metrics", "evaluation"} \union Places35 =>
       mem.predictions = disk.predictions
  /\ pc \in Places35 => disk.evaluation = Evaluation
  /\ pc \in {"metrics36", "report36"} \union Places36 => disk.policy36 = Policy36
  /\ pc \in Places36 => disk.report36.policy = Policy36

\* A manifest says of the contents it names what PublishedAgree says of the files.
ManifestSound ==
  /\ LET n == manifests.evaluation IN
     n # None =>
       /\ n.output.predictions = n.inputs.predictions
       /\ n.inputs.predictions.lockHash = n.output.lockHash
       /\ "lock" \notin n.disturbed =>
            n.inputs.predictions.madeUnder = n.inputs.lock /\ n.output.lockHash = n.inputs.lock
       /\ "data" \notin n.disturbed =>
            /\ n.inputs.predictions.madeFrom = n.inputs.predictions.dataHash
            /\ n.output.scores.labels = n.inputs.predictions.dataHash
  /\ LET n == manifests.policy36 IN n # None => n.inputs.report36.policy = n.output

PolicyInv == TypeOK /\ MemorySound /\ StillThere /\ OutputSound /\ ManifestSound
=============================================================================
