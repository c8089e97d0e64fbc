------------------------------ MODULE ApiGateway ------------------------------
(***************************************************************************)
(* The local API (service/local_api.py, transport.py, application.py): its  *)
(* threads dispatch requests, have predictions issued by shadow runs on one *)
(* shared ledger, audit every answer and then send it.                      *)
(*                                                                         *)
(* Module ShadowRuns has the artifacts and records of a run; here a run has *)
(* what it does to the ledger, which it reads and appends to without a      *)
(* lock, and fails at any step.  A request stands for the first check it    *)
(* does not pass, or for what it has issued.                                *)
(***************************************************************************)
EXTENDS Naturals, Sequences, FiniteSets

CONSTANTS
  Threads,        \* handler threads of the server
  MaxRequests,    \* bound: requests received
  MaxDeaths       \* bound: deaths of the API and appends cut short

\* dispatch, in the order of its checks
Refused ==
  [large |-> "payload_too_large", elsewhere |-> "not_found", get |-> "method_not_allowed",
   form |-> "unsupported_media_type", garbled |-> "invalid_request"]

\* _validate_request, _verified_manifest, _preflight_timing, and the contract of
\* the request before them
Rejected ==
  [incomplete |-> "invalid_request", mismatch |-> "contract_mismatch",
   unverified |-> "blocked_provenance", outside |-> "manifest_path_rejected",
   late |-> "invalid_request"]

\* Predictions of a request that passes: those of both markets, whichever it asks
\* for; the skipped rows of "marked" hold a text the contract of the response forbids.
Plan == [btts |-> <<"a", "b">>, cards |-> <<"a", "b">>, marked |-> <<"c">>]

Status(code) ==
  CASE code \in {"invalid_request", "manifest_path_rejected"} -> 400
    [] code = "contract_mismatch" -> 409
    [] code = "payload_too_large" -> 413
    [] code = "not_found" -> 404
    [] code = "method_not_allowed" -> 405
    [] code = "unsupported_media_type" -> 415
    [] OTHER -> 503

\* "read" stands for the paths that answer a GET: health, readiness, version, schema.
Requests == {"read"} \union DOMAIN Refused \union DOMAIN Rejected \union DOMAIN Plan

VARIABLES
  ledger,      \* its lines: a prediction, and the number of the line it is linked to
  cut,         \* a line of it is part of an entry, or two run together
  unended,     \* its last line has no newline
  audit,       \* lines of the audit file
  pc, req, answer,    \* of a thread
  mem,         \* what a thread has read, and as history what happened meanwhile
  sent,        \* answers sent
  served, deaths

vars == <<ledger, cut, unended, audit, pc, req, mem, answer, sent, served, deaths>>
file == <<ledger, cut, unended>>

NoAnswer == [status |-> 0, code |-> "none"]
NoMemory == [next |-> 1, last |-> 0, count |-> 0, torn |-> FALSE, forked |-> FALSE]

Init ==
  /\ ledger = <<>> /\ cut = FALSE /\ unended = FALSE /\ audit = {}
  /\ pc = [t \in Threads |-> "idle"] /\ req = [t \in Threads |-> "read"]
  /\ mem = [t \in Threads |-> NoMemory] /\ answer = [t \in Threads |-> NoAnswer]
  /\ sent = {} /\ served = 0 /\ deaths = 0

Text == [lines |-> ledger, cut |-> cut]

Occurs(p) == \E i \in DOMAIN ledger : ledger[i].id = p

\* verify: every line is linked to the one before, and no id comes twice.  The hash
\* of a line stands for its number: in a chain that is intact no two are equal.
Intact(lines) ==
  /\ \A i \in DOMAIN lines : lines[i].last = i - 1
  /\ \A i, j \in DOMAIN lines : lines[i].id = lines[j].id => i = j

Go(t, from, to) == pc[t] = from /\ pc' = [pc EXCEPT ![t] = to]

others == <<audit, sent, served, deaths>>

Ready(t, result) ==
  /\ answer' = [answer EXCEPT ![t] = result]
  /\ UNCHANGED <<req, mem, others>>

Failure(code) == [status |-> Status(code), code |-> code]

(***************************************************************************)
(* Dispatch                                                                *)
(***************************************************************************)
Receive(t, r) ==
  /\ Go(t, "idle", "dispatch") /\ served < MaxRequests
  /\ served' = served + 1
  /\ req' = [req EXCEPT ![t] = r]
  /\ UNCHANGED <<file, audit, mem, answer, sent, deaths>>

Dispatch(t) ==
  /\ Go(t, "dispatch", "finish") /\ UNCHANGED file
  /\ \/ req[t] = "read" /\ Ready(t, [status |-> 200, code |-> "read"])
     \/ req[t] \in DOMAIN Refused /\ Ready(t, Failure(Refused[req[t]]))
     \/ req[t] \in DOMAIN Rejected /\ Ready(t, Failure(Rejected[req[t]]))

(***************************************************************************)
(* The shadow run of a request that is accepted                            *)
(***************************************************************************)
Admit(t) ==
  /\ Go(t, "dispatch", "verify") /\ req[t] \in DOMAIN Plan
  /\ UNCHANGED <<file, req, mem, answer, others>>

Left(t) == mem[t].next <= Len(Plan[req[t]])
Wanted(t) == Plan[req[t]][mem[t].next]

\* verify() before each prediction
Verify(t) ==
  /\ Go(t, "verify", "look") /\ Left(t)
  /\ ~cut /\ Intact(ledger)
  /\ UNCHANGED <<file, req, mem, answer, others>>

\* verify() after the last one
VerifyLast(t) ==
  /\ Go(t, "verify", "count") /\ ~Left(t)
  /\ ~cut /\ Intact(ledger)
  /\ UNCHANGED <<file, req, mem, answer, others>>

\* records(): the prediction is there already
Found(t) ==
  /\ Go(t, "look", "verify")
  /\ ~cut /\ Occurs(Wanted(t))
  /\ mem' = [mem EXCEPT ![t].next = @ + 1]
  /\ UNCHANGED <<file, req, answer, others>>

Missing(t) ==
  /\ Go(t, "look", "link")
  /\ ~cut /\ ~Occurs(Wanted(t))
  /\ UNCHANGED <<file, req, mem, answer, others>>

\* records() again: the line to link to
Link(t) ==
  /\ Go(t, "link", "append") /\ ~cut
  /\ mem' = [mem EXCEPT ![t].last = Len(ledger)]
  /\ UNCHANGED <<file, req, answer, others>>

NewLine(t) == [id |-> Wanted(t), last |-> mem[t].last]

\* The line continues an intact chain.
Follows(t) == mem[t].last = Len(ledger) /\ ~Occurs(Wanted(t))

\* What an append means to the answers others are making
Noted(t) ==
  [u \in Threads |-> [mem[u] EXCEPT !.torn = @ \/ pc[u] = "hash",
                                    !.forked = @ \/ (pc[u] \in {"count", "hash"} /\ ~Follows(t)),
                                    !.next = IF u = t THEN @ + 1 ELSE @]]

\* What is written after a line without newline runs together with it.
AppendLine(t) ==
  /\ Go(t, "append", "verify")
  /\ ledger' = Append(ledger, NewLine(t)) /\ cut' = (cut \/ unended) /\ unended' = FALSE
  /\ mem' = Noted(t)
  /\ UNCHANGED <<req, answer, others>>

RunSteps == {"verify", "look", "link", "append", "count"}

\* A run fails at any of its steps: a conflict, a ledger it cannot read or that is
\* not intact, a failing file operation.
RunFails(t) ==
  /\ pc[t] \in RunSteps /\ pc' = [pc EXCEPT ![t] = "finish"]
  /\ Ready(t, Failure("blocked_provenance"))
  /\ UNCHANGED file

\* The write fails half way, on a full disk or, before Die, as the process dies: a
\* part of the line is in the file, or all of it but its newline.
CutAppend(t) ==
  /\ Go(t, "append", "finish") /\ deaths < MaxDeaths /\ deaths' = deaths + 1
  /\ \/ ledger' = ledger /\ cut' = TRUE /\ unended' = FALSE
     \/ ledger' = Append(ledger, NewLine(t)) /\ cut' = (cut \/ unended) /\ unended' = TRUE
  /\ mem' = Noted(t)
  /\ answer' = [answer EXCEPT ![t] = Failure("blocked_provenance")]
  /\ UNCHANGED <<req, audit, sent, served>>

(***************************************************************************)
(* The answer                                                              *)
(***************************************************************************)
\* Mutant: the predictions of the request are counted.
CountOwn(t) ==
  /\ Go(t, "count", "hash") /\ ~cut
  /\ mem' = [mem EXCEPT ![t].count = Len(Plan[req[t]])]
  /\ UNCHANGED <<file, req, answer, others>>

\* ledger.records() and ledger.sha256() read the file one after the other.
Count(t) ==
  /\ Go(t, "count", "hash") /\ ~cut
  /\ mem' = [mem EXCEPT ![t].count = Len(ledger)]
  /\ UNCHANGED <<file, req, answer, others>>

Forbidden(r) == r = "marked"

Response(t) ==
  [status |-> 200, code |-> "ok", count |-> mem[t].count, hash |-> Text,
   torn |-> mem[t].torn, forked |-> mem[t].forked]

Respond(t) ==
  /\ Go(t, "hash", "finish") /\ UNCHANGED file
  /\ \/ Forbidden(req[t]) /\ Ready(t, Failure("invalid_request"))
     \/ ~Forbidden(req[t]) /\ Ready(t, Response(t))

Line(t) == [request |-> req[t], status |-> answer[t].status, code |-> answer[t].code]

\* _finish: one line of the audit, under its lock
Audit(t) ==
  /\ Go(t, "finish", "send")
  /\ audit' = audit \union {Line(t)}
  /\ UNCHANGED <<file, req, mem, answer, sent, served, deaths>>

Send(t) ==
  /\ Go(t, "send", "idle")
  /\ sent' = sent \union {[line |-> Line(t), answer |-> answer[t]]}
  /\ req' = [req EXCEPT ![t] = "read"] /\ answer' = [answer EXCEPT ![t] = NoAnswer]
  /\ mem' = [mem EXCEPT ![t] = NoMemory]
  /\ UNCHANGED <<file, audit, served, deaths>>

\* The process of the API dies with its threads.
Die ==
  /\ deaths < MaxDeaths /\ deaths' = deaths + 1
  /\ \E t \in Threads : pc[t] # "idle"
  /\ pc' = [t \in Threads |-> "idle"] /\ mem' = [t \in Threads |-> NoMemory]
  /\ req' = [t \in Threads |-> "read"] /\ answer' = [t \in Threads |-> NoAnswer]
  /\ UNCHANGED <<file, audit, sent, served>>

Next ==
  \/ \E t \in Threads :
       \/ \E r \in Requests : Receive(t, r)
       \/ Dispatch(t) \/ Admit(t)
       \/ Verify(t) \/ VerifyLast(t) \/ Found(t) \/ Missing(t) \/ Link(t) \/ AppendLine(t)
       \/ RunFails(t) \/ CutAppend(t) \/ Count(t) \/ Respond(t) \/ Audit(t) \/ Send(t)
  \/ Die

Spec == Init /\ [][Next]_vars

(***************************************************************************)
(* Properties                                                              *)
(***************************************************************************)
Promised(r) == {Plan[r][i] : i \in DOMAIN Plan[r]}

\* validate_service_response, against the ledger as it is now
Validates(r, a) ==
  /\ ~cut /\ Intact(ledger)
  /\ a.count = Len(ledger) /\ a.hash = Text
  /\ Promised(r) \subseteq {ledger[i].id : i \in DOMAIN ledger}

\* Whatever threads and deaths do, an answer that was sent is in the audit with its
\* status; the predictions of an answered request are in the ledger; and a sent answer
\* validates until the ledger is written to again.  It never does if, since the last
\* verification of its run, another thread wrote between the count and the hash, or
\* appended a line that does not follow the one before.
AnswersAccountable ==
  \A s \in sent :
    /\ s.line \in audit /\ s.line.status = s.answer.status
    /\ s.answer.code = "ok" =>
         /\ \A p \in Promised(s.line.request) : Occurs(p)
         /\ Validates(s.line.request, s.answer) <=>
              s.answer.hash = Text /\ ~s.answer.torn /\ ~s.answer.forked

(***************************************************************************)
(* An invariant from which it follows                                      *)
(***************************************************************************)
Predictions == UNION {Promised(r) : r \in DOMAIN Plan}
Memory == [next : Nat \ {0}, last : Nat, count : Nat, torn : BOOLEAN, forked : BOOLEAN]

TypeOK ==
  /\ ledger \in Seq([id : Predictions, last : Nat])
  /\ cut \in BOOLEAN /\ unended \in BOOLEAN
  /\ pc \in [Threads -> RunSteps \union {"idle", "dispatch", "hash", "finish", "send"}]
  /\ req = [t \in Threads |-> req[t]] /\ answer = [t \in Threads |-> answer[t]]
  /\ mem \in [Threads -> Memory]

\* An answer has the predictions of its request; its count is that of the ledger it
\* hashed unless this was written to in between, and the ledger is intact unless it
\* forked since it was verified.
Accountable(line, a) ==
  /\ line.status = a.status
  /\ a.code = "ok" =>
       /\ line.request \in DOMAIN Plan /\ \A p \in Promised(line.request) : Occurs(p)
       /\ a.torn \in BOOLEAN /\ a.forked \in BOOLEAN
       /\ (a.count = Len(a.hash.lines) /\ ~a.hash.cut) <=> ~a.torn
       /\ ~a.torn => (Intact(a.hash.lines) <=> ~a.forked)

\* The predictions before the next one are in the ledger.
Progress(t) ==
  /\ req[t] \in DOMAIN Plan
  /\ \A i \in DOMAIN Plan[req[t]] : i < mem[t].next => Occurs(Plan[req[t]][i])

Answered(t) ==
  /\ pc[t] \in {"finish", "send"} => Accountable(Line(t), answer[t])
  /\ pc[t] = "send" => Line(t) \in audit

Running(t) ==
  /\ pc[t] \in RunSteps \union {"hash"} => Progress(t)
  /\ pc[t] \in {"look", "link", "append"} => Left(t)
  /\ pc[t] \in {"count", "hash"} => ~Left(t)
  /\ pc[t] \in {"idle", "dispatch", "verify", "look", "link", "append", "count"} => ~mem[t].torn
  /\ pc[t] \in {"idle", "dispatch", "verify", "look", "link", "append"} => ~mem[t].forked
  /\ pc[t] \in {"idle", "dispatch"} => mem[t].next = 1
  /\ pc[t] = "count" /\ ~cut => (Intact(ledger) <=> ~mem[t].forked)
  /\ pc[t] = "hash" =>
       /\ (mem[t].count = Len(ledger) /\ ~cut) <=> ~mem[t].torn
       /\ mem[t].count <= Len(ledger)
       /\ ~mem[t].torn => (Intact(ledger) <=> ~mem[t].forked)

AnswersInv ==
  /\ TypeOK
  /\ \A s \in sent : s.line \in audit /\ Accountable(s.line, s.answer)
  /\ \A t \in Threads : Answered(t) /\ Running(t)
=============================================================================
