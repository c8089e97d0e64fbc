------------------------------ MODULE DataSources ------------------------------
(***************************************************************************)
(* The clients of data_sources/: a cache in SQLite that all of them share,  *)
(* and, for football-data.org and API-Football, a rate limiter of the       *)
(* client object.  Tasks of one event loop call two objects of one source.  *)
(*                                                                         *)
(* A task runs until it waits: for the lock, in the sleep under the lock,   *)
(* or for the response.  One clock stands for both the monotonic clock of   *)
(* the limiter and the wall clock of the cache.                             *)
(***************************************************************************)
EXTENDS Naturals

CONSTANTS
  Callers,     \* each the calls of the tasks: of which object, for which key
  Interval,    \* period / calls of the limiter
  MaxAge,      \* max_age_seconds
  Timeout,     \* of a request
  MaxTime      \* bound: where the clock ends

Objects == {1, 2}
Tasks == UNION {DOMAIN calls : calls \in Callers}
Keys == {calls[t].key : calls \in Callers, t \in Tasks}
NoRow == [body |-> "none"]

VARIABLES
  source,    \* "limited"; "unkeyed": limited, without its key; "open": any other
  clock,
  limiter,   \* object -> whether its lock is held, and last_called
  task,      \* task -> where it is, its object and key; the end of its sleep, or its answer
  cache,     \* key -> row: body, fetched_at
  asked      \* the requests sent

vars == <<source, clock, limiter, task, cache, asked>>

Init ==
  /\ source \in {"limited", "unkeyed", "open"} /\ clock = Interval
  /\ limiter = [o \in Objects |-> [held |-> FALSE, last |-> 0]]
  /\ \E calls \in Callers :
       task = [t \in Tasks |-> [pc |-> "new", object |-> calls[t].object, key |-> calls[t].key, until |-> 0]]
  /\ cache = [k \in Keys |-> NoRow] /\ asked = {}

Moves(t, pc) == task' = [task EXCEPT ![t].pc = pc]

Answers(t, body) ==
  task' = [task EXCEPT ![t] = [pc |-> "answered", object |-> @.object, key |-> @.key,
                               body |-> body, at |-> clock]]

(***************************************************************************)
(* rate_limited                                                            *)
(***************************************************************************)
Limiter(t) == limiter[task[t].object]

Early(t) == clock < Limiter(t).last + Interval

Release(t) ==
  limiter' = [limiter EXCEPT ![task[t].object] = [held |-> FALSE, last |-> clock]]

Deadline(t) ==
  task' = [task EXCEPT ![t] = [pc |-> "asleep", object |-> @.object, key |-> @.key,
                               until |-> Limiter(t).last + Interval]]

\* Mutant: the lock is given back before the sleep.
SleepUnlocked(t) == Deadline(t) /\ limiter' = limiter

Sleep(t) == Deadline(t) /\ limiter' = [limiter EXCEPT ![task[t].object].held = TRUE]

(***************************************************************************)
(* _fetch_impl, as far as the request                                      *)
(***************************************************************************)
Fresh(row) == row # NoRow /\ clock <= row.fetched + MaxAge

Fetch(t) ==
  LET row == cache[task[t].key] IN
  \/ source = "unkeyed" /\ Moves(t, "failed") /\ asked' = asked
  \/ source # "unkeyed" /\ Fresh(row) /\ Answers(t, row.body) /\ asked' = asked
  \/ /\ source # "unkeyed" /\ ~Fresh(row)
     /\ Moves(t, "requesting")
     /\ asked' = asked \union {[task |-> t, object |-> task[t].object, at |-> clock]}

Call(t) ==
  /\ task[t].pc = "new"
  /\ \/ source = "open" /\ Fetch(t) /\ UNCHANGED limiter
     \/ /\ source # "open" /\ ~Limiter(t).held
        /\ \/ Early(t) /\ Sleep(t) /\ UNCHANGED asked
           \/ ~Early(t) /\ Release(t) /\ Fetch(t)
  /\ UNCHANGED <<source, clock, cache>>

\* The sleep ends when its time has passed, or later.
Wake(t) ==
  /\ task[t].pc = "asleep" /\ clock >= task[t].until
  /\ Release(t) /\ Fetch(t)
  /\ UNCHANGED <<source, clock, cache>>

(***************************************************************************)
(* The response                                                            *)
(***************************************************************************)
Sent(t) == CHOOSE r \in asked : r.task = t

\* Only the limited clients look at the status; the others keep the body of an
\* error, if it can be parsed.
Bodies(t) ==
  [key : {task[t].key}, served : Sent(t).at..clock, error : IF source = "open" THEN BOOLEAN ELSE {FALSE}]

Store(t, body) ==
  cache' = [cache EXCEPT ![task[t].key] = [body |-> body, fetched |-> clock]]

Respond(t) ==
  /\ task[t].pc = "requesting" /\ clock <= Sent(t).at + Timeout
  /\ \E body \in Bodies(t) : Store(t, body) /\ Answers(t, body)
  /\ UNCHANGED <<source, clock, limiter, asked>>

\* A refusal, a time-out, a body that cannot be parsed, a locked database when it is stored
Fail(t) ==
  /\ task[t].pc = "requesting"
  /\ Moves(t, "failed")
  /\ UNCHANGED <<source, clock, limiter, cache, asked>>

\* A cancelled sleep gives the lock back and leaves last_called as it was.
Cancel(t) ==
  /\ task[t].pc = "asleep"
  /\ limiter' = [limiter EXCEPT ![task[t].object].held = FALSE]
  /\ Moves(t, "failed")
  /\ UNCHANGED <<source, clock, cache, asked>>

Tick ==
  /\ clock < MaxTime /\ clock' = clock + 1
  /\ \E t \in Tasks : task[t].pc \in {"new", "asleep", "requesting"}
  /\ UNCHANGED <<source, limiter, task, cache, asked>>

Next == Tick \/ \E t \in Tasks : Call(t) \/ Wake(t) \/ Respond(t) \/ Fail(t) \/ Cancel(t)

Spec == Init /\ [][Next]_vars

(***************************************************************************)
(* Properties                                                              *)
(***************************************************************************)
\* However its tasks wait, sleep and are cancelled, a limited object sends its requests
\* at least Interval apart; an answer is about what was asked, and the provider gave it
\* no longer ago than a row may be old and a request may take, whichever of several
\* responses was stored last; and only a source without a limiter answers with an error.
FetchesSound ==
  /\ source # "open" =>
       \A r, s \in asked : r # s /\ r.object = s.object =>
         r.at + Interval <= s.at \/ s.at + Interval <= r.at
  /\ \A t \in Tasks : task[t].pc = "answered" =>
       /\ task[t].body.key = task[t].key
       /\ task[t].at <= task[t].body.served + MaxAge + Timeout
       /\ task[t].body.error => source = "open"

(***************************************************************************)
(* An invariant from which it follows                                      *)
(***************************************************************************)
Body == [key : Keys, served : Nat, error : BOOLEAN]
Row == [body : Body, fetched : Nat]
Request == [task : Tasks, object : Objects, at : Nat]
Waiting ==
  [pc : {"new", "asleep", "requesting", "failed"}, object : Objects, key : Keys, until : Nat]
Answered == [pc : {"answered"}, object : Objects, key : Keys, body : Body, at : Nat]

TypeOK ==
  /\ source \in {"limited", "unkeyed", "open"} /\ clock \in Nat
  /\ limiter \in [Objects -> [held : BOOLEAN, last : Nat]]
  /\ task \in [Tasks -> Waiting \union Answered]
  /\ cache \in [Keys -> Row \union {NoRow}]
  /\ asked \subseteq Request

\* No request is later than the last call its object has noted, and a task that
\* sleeps holds the lock of its object until the time of the next call.
Paced ==
  /\ \A o \in Objects : limiter[o].last <= clock
  /\ \A t \in Tasks : task[t].pc = "asleep" =>
       /\ limiter[task[t].object].held
       /\ task[t].until = limiter[task[t].object].last + Interval
  /\ \A t, u \in Tasks :
       task[t].pc = "asleep" /\ task[u].pc = "asleep" /\ task[t].object = task[u].object => t = u
  /\ source = "open" => \A t \in Tasks : task[t].pc # "asleep"
  /\ source # "open" =>
       /\ \A r \in asked : r.at <= limiter[r.object].last
       /\ \A r, s \in asked : r # s /\ r.object = s.object =>
            r.at + Interval <= s.at \/ s.at + Interval <= r.at

Genuine(body, key) == body.key = key /\ (body.error => source = "open")

\* A row was fetched while its response was no older than a request may take.
Current ==
  /\ \A r \in asked : r.at <= clock
  /\ \A t \in Tasks : task[t].pc = "requesting" => \E r \in asked : r.task = t
  /\ \A k \in Keys : cache[k] # NoRow =>
       /\ Genuine(cache[k].body, k)
       /\ cache[k].fetched <= cache[k].body.served + Timeout
  /\ \A t \in Tasks : task[t].pc = "answered" =>
       /\ Genuine(task[t].body, task[t].key)
       /\ task[t].at <= task[t].body.served + MaxAge + Timeout

FetchInv == TypeOK /\ Paced /\ Current
=============================================================================
