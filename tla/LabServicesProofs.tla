--------------------------- MODULE LabServicesProofs ---------------------------
(***************************************************************************)
(* Theorems about the parts of Lab that run concurrently, for every value   *)
(* of their constants.  Each part keeps its inductive invariant in its own  *)
(* module; here Src!X is the definition X of DataSources, with the slots    *)
(* v1, v2, ... in place of its variables, in the order of its declaration.  *)
(***************************************************************************)
EXTENDS Lab, SequenceTheorems, TLAPS

\* Steps of one part, and steps that leave it alone
LEMMA StepOfPart ==
  ASSUME [LabNext]_labvars
  PROVE  /\ lab' = lab
         /\ lab = "sources" => [Src!Next]_(Src!vars)
         /\ lab = "inference" => [Win!Next]_(Win!vars)
         /\ lab = "api" => [Api!Next]_(Api!vars)
         /\ lab = "predictions" => [Led!Next]_(Led!vars)
         /\ lab = "accumulators" => [Acca!Next]_(Acca!vars)
BY DEF LabNext, labvars, slots, Src!vars, Win!vars, Api!vars, Led!vars, Acca!vars

(***************************************************************************)
(* Data sources: v1 source, v2 clock, v3 limiter, v4 task, v5 cache, v6     *)
(* asked                                                                   *)
(***************************************************************************)
LEMMA SourcesInit == Src!Init => Src!FetchInv
<1>. SUFFICES ASSUME Src!Init PROVE Src!FetchInv
  OBVIOUS
<1>1. Src!TypeOK
  <2>1. v4 \in [Src!Tasks -> Src!Waiting]
    BY SourcesAssumption DEF Src!Init, Src!Waiting, Src!Tasks, Src!Keys, Src!Objects
  <2>. QED
    BY <2>1, SourcesAssumption DEF Src!Init, Src!TypeOK, Src!Objects
<1>2. \A t \in Src!Tasks : v4[t].pc = "new"
  BY DEF Src!Init
<1>. QED
  BY <1>1, <1>2, SourcesAssumption DEF Src!Init, Src!FetchInv, Src!Paced, Src!Current, Src!Objects

LEMMA WaitingTask ==
  ASSUME Src!TypeOK, NEW t \in Src!Tasks, v4[t].pc # "answered"
  PROVE  /\ v4[t] \in Src!Waiting
         /\ v4[t].object \in Src!Objects /\ v4[t].key \in Src!Keys /\ v4[t].until \in Nat
BY DEF Src!TypeOK, Src!Waiting, Src!Answered

\* A task that moves on keeps what it asks for, and the others what they have.
LEMMA TaskMoves ==
  ASSUME Src!TypeOK, NEW t \in Src!Tasks, v4[t].pc # "answered",
         NEW place \in {"requesting", "failed"}, Src!Moves(t, place)
  PROVE  /\ v4' \in [Src!Tasks -> Src!Waiting \union Src!Answered]
         /\ v4'[t].pc = place /\ v4'[t].object = v4[t].object /\ v4'[t].key = v4[t].key
         /\ \A u \in Src!Tasks \ {t} : v4'[u] = v4[u]
<1>1. v4[t] \in Src!Waiting
  BY WaitingTask
<1>2. v4' = [v4 EXCEPT ![t] = [v4[t] EXCEPT !.pc = place]]
  BY DEF Src!Moves
<1>3. [v4[t] EXCEPT !.pc = place] \in Src!Waiting
  BY <1>1 DEF Src!Waiting
<1>4. v4 \in [Src!Tasks -> Src!Waiting \union Src!Answered]
  BY DEF Src!TypeOK
<1>5. /\ [v4[t] EXCEPT !.pc = place].pc = place
      /\ [v4[t] EXCEPT !.pc = place].object = v4[t].object
      /\ [v4[t] EXCEPT !.pc = place].key = v4[t].key
  BY <1>1 DEF Src!Waiting
<1>. QED
  BY <1>2, <1>3, <1>4, <1>5

LEMMA TaskAnswers ==
  ASSUME Src!TypeOK, NEW t \in Src!Tasks, v4[t].pc # "answered",
         NEW body \in Src!Body, Src!Answers(t, body)
  PROVE  /\ v4' \in [Src!Tasks -> Src!Waiting \union Src!Answered]
         /\ v4'[t].pc = "answered" /\ v4'[t].object = v4[t].object /\ v4'[t].key = v4[t].key
         /\ v4'[t].body = body /\ v4'[t].at = v2
         /\ \A u \in Src!Tasks \ {t} : v4'[u] = v4[u]
<1>. DEFINE new == [pc |-> "answered", object |-> v4[t].object, key |-> v4[t].key,
                    body |-> body, at |-> v2]
<1>1. v4[t] \in Src!Waiting /\ v2 \in Nat
  BY WaitingTask DEF Src!TypeOK
<1>2. v4' = [v4 EXCEPT ![t] = new]
  BY DEF Src!Answers
<1>3. new \in Src!Answered
  BY <1>1 DEF Src!Waiting, Src!Answered
<1>4. v4 \in [Src!Tasks -> Src!Waiting \union Src!Answered]
  BY DEF Src!TypeOK
<1>5. /\ new.pc = "answered" /\ new.object = v4[t].object /\ new.key = v4[t].key
      /\ new.body = body /\ new.at = v2
  OBVIOUS
<1>. HIDE DEF new
<1>. QED
  BY <1>2, <1>3, <1>4, <1>5

\* A call fails, is answered from a fresh row, or sends a request now.
LEMMA Fetches ==
  ASSUME Src!FetchInv, NEW t \in Src!Tasks, v4[t].pc \in {"new", "asleep"}, Src!Fetch(t)
  PROVE  /\ v4' \in [Src!Tasks -> Src!Waiting \union Src!Answered]
         /\ v4'[t].pc \in {"requesting", "failed", "answered"}
         /\ \A u \in Src!Tasks \ {t} : v4'[u] = v4[u]
         /\ v6' \subseteq Src!Request
         /\ \A r \in v6' : r \in v6 \/ (r.object = v4[t].object /\ r.at = v2)
         /\ v6 \subseteq v6'
         /\ v4'[t].pc = "requesting" => \E r \in v6' : r.task = t
         /\ v4'[t].pc = "answered" =>
              /\ Src!Genuine(v4'[t].body, v4'[t].key)
              /\ v4'[t].at <= v4'[t].body.served + SourceMaxAge + SourceTimeout
<1>1. /\ Src!TypeOK /\ v4[t].pc # "answered" /\ v2 \in Nat
      /\ v4[t].object \in Src!Objects /\ v4[t].key \in Src!Keys
  BY WaitingTask DEF Src!FetchInv, Src!TypeOK
<1>. DEFINE row == v5[v4[t].key]
            sent == [task |-> t, object |-> v4[t].object, at |-> v2]
<1>2. CASE Src!Moves(t, "failed") /\ v6' = v6
  BY <1>1, <1>2, TaskMoves DEF Src!TypeOK
<1>3. CASE Src!Fresh(row) /\ Src!Answers(t, row.body) /\ v6' = v6
  <2>1. row \in Src!Row /\ row # Src!NoRow /\ v2 <= row.fetched + SourceMaxAge
    BY <1>1, <1>3 DEF Src!Fresh, Src!TypeOK
  <2>2. row.body \in Src!Body /\ row.fetched \in Nat /\ row.body.served \in Nat
    BY <2>1 DEF Src!Row, Src!Body
  <2>3. Src!Genuine(row.body, v4[t].key) /\ row.fetched <= row.body.served + SourceTimeout
    BY <1>1, <2>1 DEF Src!FetchInv, Src!Current
  <2>4. v2 <= row.body.served + SourceMaxAge + SourceTimeout
    BY <1>1, <2>1, <2>2, <2>3, SourcesAssumption
  <2>. HIDE DEF row
  <2>5. /\ v4' \in [Src!Tasks -> Src!Waiting \union Src!Answered]
        /\ v4'[t].pc = "answered" /\ v4'[t].key = v4[t].key
        /\ v4'[t].body = row.body /\ v4'[t].at = v2
        /\ \A u \in Src!Tasks \ {t} : v4'[u] = v4[u]
    BY <1>1, <1>3, <2>2, TaskAnswers
  <2>. QED
    BY <1>1, <1>3, <2>3, <2>4, <2>5 DEF Src!TypeOK
<1>4. CASE Src!Moves(t, "requesting") /\ v6' = v6 \union {sent}
  <2>1. sent \in Src!Request /\ sent.task = t /\ sent.object = v4[t].object /\ sent.at = v2
    BY <1>1 DEF Src!Request
  <2>. HIDE DEF sent
  <2>2. /\ v4' \in [Src!Tasks -> Src!Waiting \union Src!Answered]
        /\ v4'[t].pc = "requesting" /\ \A u \in Src!Tasks \ {t} : v4'[u] = v4[u]
    BY <1>1, <1>4, TaskMoves
  <2>. QED
    BY <1>1, <1>4, <2>1, <2>2 DEF Src!TypeOK
<1>. QED
  BY <1>2, <1>3, <1>4 DEF Src!Fetch

\* A call whose turn it is: of an open source, or Interval after the last one, while
\* nobody else sleeps.
LEMMA FetchKeeps ==
  ASSUME Src!FetchInv, NEW t \in Src!Tasks, v4[t].pc \in {"new", "asleep"}, Src!Fetch(t),
         UNCHANGED <<v1, v2, v5>>,
         \/ v1 = "open" /\ v3' = v3
         \/ /\ v1 # "open" /\ ~Src!Early(t) /\ Src!Release(t)
            /\ \A u \in Src!Tasks \ {t} : v4[u].pc = "asleep" => v4[u].object # v4[t].object
  PROVE  Src!FetchInv'
<1>. DEFINE o == v4[t].object
<1>1. /\ Src!TypeOK /\ o \in Src!Objects /\ v2 \in Nat /\ SourceInterval \in Nat
  BY WaitingTask, SourcesAssumption DEF Src!FetchInv, Src!TypeOK
<1>2. /\ v4' \in [Src!Tasks -> Src!Waiting \union Src!Answered]
      /\ v4'[t].pc \in {"requesting", "failed", "answered"}
      /\ \A u \in Src!Tasks \ {t} : v4'[u] = v4[u]
      /\ v6' \subseteq Src!Request
      /\ \A r \in v6' : r \in v6 \/ (r.object = o /\ r.at = v2)
      /\ v6 \subseteq v6'
      /\ v4'[t].pc = "requesting" => \E r \in v6' : r.task = t
      /\ v4'[t].pc = "answered" =>
           /\ Src!Genuine(v4'[t].body, v4'[t].key)
           /\ v4'[t].at <= v4'[t].body.served + SourceMaxAge + SourceTimeout
  BY Fetches
<1>. HIDE DEF o
<1>3. /\ v3' \in [Src!Objects -> [held : BOOLEAN, last : Nat]]
      /\ \A p \in Src!Objects \ {o} : v3'[p] = v3[p]
      /\ v1 # "open" => v3'[o].last = v2 /\ v3[o].last + SourceInterval <= v2
      /\ v1 = "open" => v3'[o] = v3[o]
  <2>1. v1 # "open" => v3' = [v3 EXCEPT ![o] = [held |-> FALSE, last |-> v2]]
    BY DEF Src!Release, o
  <2>2. v1 # "open" => ~(v2 < v3[o].last + SourceInterval)
    BY DEF Src!Early, Src!Limiter, o
  <2>3. v3[o].last \in Nat /\ v3 \in [Src!Objects -> [held : BOOLEAN, last : Nat]]
    BY <1>1 DEF Src!TypeOK
  <2>4. CASE v1 = "open"
    BY <2>3, <2>4
  <2>5. CASE v1 # "open"
    <3>1. PICK new : new = [held |-> FALSE, last |-> v2]
      OBVIOUS
    <3>2. new \in [held : BOOLEAN, last : Nat] /\ new.last = v2
      BY <1>1, <3>1
    <3>3. v3' = [v3 EXCEPT ![o] = new]
      BY <2>1, <2>5, <3>1
    <3>4. v3[o].last + SourceInterval <= v2
      BY <1>1, <2>2, <2>3, <2>5
    <3>. QED
      BY <1>1, <2>3, <2>5, <3>2, <3>3, <3>4
  <2>. QED
    BY <2>4, <2>5
<1>4. Src!TypeOK'
  BY <1>1, <1>2, <1>3 DEF Src!TypeOK
<1>5. \A p \in Src!Objects : v3[p].last \in Nat /\ v3[p].last <= v2
  BY <1>1 DEF Src!FetchInv, Src!Paced, Src!TypeOK
<1>6. \A r \in v6 : r.at \in Nat /\ r.object \in Src!Objects
  BY <1>1 DEF Src!TypeOK, Src!Request
<1>7. ASSUME NEW u \in Src!Tasks, v4'[u].pc = "asleep"
      PROVE  u # t /\ v4'[u] = v4[u] /\ v3'[v4[u].object] = v3[v4[u].object]
  <2>1. u # t /\ v4'[u] = v4[u]
    BY <1>2, <1>7
  <2>2. v4[u].object \in Src!Objects
    BY <1>1, <1>7, <2>1, WaitingTask
  <2>3. v1 # "open" => v4[u].object # o
    BY <1>7, <2>1 DEF o
  <2>. QED
    BY <1>3, <2>1, <2>2, <2>3
<1>8. Src!Paced'
  <2>1. \A p \in Src!Objects : v3'[p].last <= v2
    BY <1>1, <1>3, <1>5
  <2>2. \A u \in Src!Tasks : v4'[u].pc = "asleep" =>
          /\ v3'[v4'[u].object].held
          /\ v4'[u].until = v3'[v4'[u].object].last + SourceInterval
    BY <1>7 DEF Src!FetchInv, Src!Paced
  <2>3. \A u, w \in Src!Tasks :
          v4'[u].pc = "asleep" /\ v4'[w].pc = "asleep" /\ v4'[u].object = v4'[w].object => u = w
    BY <1>7 DEF Src!FetchInv, Src!Paced
  <2>4. ASSUME v1 # "open"
        PROVE  /\ \A r \in v6' : r.at <= v3'[r.object].last
               /\ \A r, s \in v6' : r # s /\ r.object = s.object =>
                    r.at + SourceInterval <= s.at \/ s.at + SourceInterval <= r.at
    <3>1. \A r \in v6 : r.at <= v3[r.object].last
      BY <2>4 DEF Src!FetchInv, Src!Paced
    <3>2. \A r \in v6 : r.object = o => r.at + SourceInterval <= v2
      BY <1>1, <1>3, <1>5, <1>6, <2>4, <3>1
    <3>3. \A r \in v6' : r.at <= v3'[r.object].last
      BY <1>1, <1>2, <1>3, <1>5, <1>6, <2>4, <3>1
    <3>4. ASSUME NEW r \in v6', NEW s \in v6', r # s, r.object = s.object
          PROVE  r.at + SourceInterval <= s.at \/ s.at + SourceInterval <= r.at
      <4>1. CASE r \in v6 /\ s \in v6
        BY <2>4, <3>4, <4>1 DEF Src!FetchInv, Src!Paced
      <4>2. CASE r \in v6 /\ s \notin v6
        BY <1>2, <3>2, <3>4, <4>2
      <4>3. CASE r \notin v6 /\ s \in v6
        BY <1>2, <3>2, <3>4, <4>3
      <4>4. CASE r \notin v6 /\ s \notin v6
        <5>1. PICK sent : v6' \subseteq v6 \union {sent}
          BY DEF Src!Fetch
        <5>. QED
          BY <3>4, <4>4, <5>1
      <4>. QED
        BY <4>1, <4>2, <4>3, <4>4
    <3>. QED
      BY <3>3, <3>4
  <2>5. v1 = "open" => \A u \in Src!Tasks : v4'[u].pc # "asleep"
    BY <1>7 DEF Src!FetchInv, Src!Paced
  <2>. QED
    BY <2>1, <2>2, <2>3, <2>4, <2>5 DEF Src!Paced
<1>9. Src!Current'
  <2>1. \A r \in v6' : r.at <= v2
    BY <1>1, <1>2 DEF Src!FetchInv, Src!Current
  <2>2. \A u \in Src!Tasks : v4'[u].pc = "requesting" => \E r \in v6' : r.task = u
    BY <1>2 DEF Src!FetchInv, Src!Current
  <2>3. \A u \in Src!Tasks : v4'[u].pc = "answered" =>
          /\ Src!Genuine(v4'[u].body, v4'[u].key)
          /\ v4'[u].at <= v4'[u].body.served + SourceMaxAge + SourceTimeout
    BY <1>2 DEF Src!FetchInv, Src!Current
  <2>. QED
    BY <2>1, <2>2, <2>3 DEF Src!FetchInv, Src!Current, Src!Genuine
<1>. QED
  BY <1>4, <1>8, <1>9 DEF Src!FetchInv

\* Steps in which a task neither starts to sleep nor sends, and no limiter is called
LEMMA TaskKeeps ==
  ASSUME Src!FetchInv, NEW t \in Src!Tasks, UNCHANGED <<v1, v2, v6>>, Src!TypeOK',
         \A u \in Src!Tasks \ {t} : v4'[u] = v4[u],
         v4'[t].pc \in {"failed", "answered"},
         \A p \in Src!Objects :
           \/ v3'[p] = v3[p]
           \/ v4[t].pc = "asleep" /\ p = v4[t].object /\ v3'[p].last = v3[p].last,
         Src!Current'
  PROVE  Src!FetchInv'
<1>1. ASSUME NEW u \in Src!Tasks, v4'[u].pc = "asleep"
      PROVE  v4'[u] = v4[u] /\ v3'[v4[u].object] = v3[v4[u].object]
  <2>1. u # t /\ v4'[u] = v4[u]
    BY <1>1
  <2>2. v4[u].object \in Src!Objects
    BY <1>1, <2>1, WaitingTask DEF Src!FetchInv
  <2>3. v4[t].pc = "asleep" => v4[u].object # v4[t].object
    BY <1>1, <2>1 DEF Src!FetchInv, Src!Paced
  <2>. QED
    BY <2>1, <2>2, <2>3
<1>2. \A p \in Src!Objects : v3'[p].last = v3[p].last
  OBVIOUS
<1>3. \A r \in v6 : r.object \in Src!Objects
  BY DEF Src!FetchInv, Src!TypeOK, Src!Request
<1>4. \A u \in Src!Tasks : v4'[u].pc = "asleep" =>
        /\ v3'[v4'[u].object].held
        /\ v4'[u].until = v3'[v4'[u].object].last + SourceInterval
  BY <1>1 DEF Src!FetchInv, Src!Paced
<1>5. \A u, w \in Src!Tasks :
        v4'[u].pc = "asleep" /\ v4'[w].pc = "asleep" /\ v4'[u].object = v4'[w].object => u = w
  BY <1>1 DEF Src!FetchInv, Src!Paced
<1>6. Src!Paced'
  BY <1>2, <1>3, <1>4, <1>5 DEF Src!FetchInv, Src!Paced
<1>. QED
  BY <1>6 DEF Src!FetchInv

LEMMA SleepKeeps ==
  ASSUME Src!FetchInv, NEW t \in Src!Tasks, v4[t].pc = "new", UNCHANGED <<v1, v2, v5, v6>>,
         v1 # "open", ~Src!Limiter(t).held, Src!Sleep(t)
  PROVE  Src!FetchInv'
<1>. DEFINE o == v4[t].object
            new == [pc |-> "asleep", object |-> o, key |-> v4[t].key,
                    until |-> v3[o].last + SourceInterval]
<1>1. /\ Src!TypeOK /\ o \in Src!Objects /\ v4[t].key \in Src!Keys
      /\ v3[o].last \in Nat /\ v3[o] \in [held : BOOLEAN, last : Nat]
      /\ v3 \in [Src!Objects -> [held : BOOLEAN, last : Nat]]
      /\ v4 \in [Src!Tasks -> Src!Waiting \union Src!Answered]
  BY WaitingTask DEF Src!FetchInv, Src!TypeOK
<1>2. v4' = [v4 EXCEPT ![t] = new] /\ v3' = [v3 EXCEPT ![o].held = TRUE]
  BY DEF Src!Sleep, Src!Deadline, Src!Limiter
<1>3. new \in Src!Waiting /\ new.pc = "asleep" /\ new.object = o /\ new.until = v3[o].last + SourceInterval
  BY <1>1, SourcesAssumption DEF Src!Waiting
<1>4. ~v3[o].held
  BY DEF Src!Limiter
<1>. HIDE DEF o, new
<1>5. /\ v3'[o].held /\ \A p \in Src!Objects : v3'[p].last = v3[p].last
      /\ \A p \in Src!Objects \ {o} : v3'[p] = v3[p]
      /\ v3' \in [Src!Objects -> [held : BOOLEAN, last : Nat]]
  BY <1>1, <1>2
<1>6. v4'[t] = new /\ \A u \in Src!Tasks \ {t} : v4'[u] = v4[u]
  BY <1>1, <1>2
<1>7. Src!TypeOK'
  BY <1>1, <1>2, <1>3, <1>5 DEF Src!TypeOK
<1>8. ASSUME NEW u \in Src!Tasks \ {t}, v4[u].pc = "asleep"
      PROVE  v4[u].object \in Src!Objects \ {o}
  BY <1>1, <1>4, <1>8, WaitingTask DEF Src!FetchInv, Src!Paced
<1>9. \A u \in Src!Tasks : v4'[u].pc = "asleep" =>
        /\ v3'[v4'[u].object].held
        /\ v4'[u].until = v3'[v4'[u].object].last + SourceInterval
  BY <1>1, <1>3, <1>5, <1>6, <1>8 DEF Src!FetchInv, Src!Paced
<1>10. \A u, w \in Src!Tasks :
         v4'[u].pc = "asleep" /\ v4'[w].pc = "asleep" /\ v4'[u].object = v4'[w].object => u = w
  BY <1>3, <1>6, <1>8 DEF Src!FetchInv, Src!Paced
<1>11. \A r \in v6 : r.object \in Src!Objects
  BY DEF Src!FetchInv, Src!TypeOK, Src!Request
<1>12. Src!Paced'
  BY <1>5, <1>9, <1>10, <1>11 DEF Src!FetchInv, Src!Paced
<1>13. Src!Current'
  <2>1. \A u \in Src!Tasks : v4'[u].pc \in {"requesting", "answered"} => v4'[u] = v4[u]
    BY <1>3, <1>6
  <2>. QED
    BY <2>1 DEF Src!FetchInv, Src!Current, Src!Genuine
<1>. QED
  BY <1>7, <1>12, <1>13 DEF Src!FetchInv

LEMMA RespondKeeps ==
  ASSUME Src!FetchInv, NEW t \in Src!Tasks, Src!Respond(t)
  PROVE  Src!FetchInv'
<1>1. /\ v4[t].pc = "requesting" /\ v2 <= Src!Sent(t).at + SourceTimeout
      /\ UNCHANGED <<v1, v2, v3, v6>>
  BY DEF Src!Respond
<1>2. PICK body \in Src!Bodies(t) : Src!Store(t, body) /\ Src!Answers(t, body)
  BY DEF Src!Respond
<1>3. /\ Src!TypeOK /\ v2 \in Nat /\ v4[t].key \in Src!Keys
      /\ v5 \in [Src!Keys -> Src!Row \union {Src!NoRow}]
  BY <1>1, WaitingTask DEF Src!FetchInv, Src!TypeOK
<1>4. Src!Sent(t) \in v6
  BY <1>1 DEF Src!FetchInv, Src!Current, Src!Sent
<1>5. Src!Sent(t).at \in Nat
  BY <1>3, <1>4 DEF Src!TypeOK, Src!Request
<1>6. /\ body \in Src!Body /\ Src!Genuine(body, v4[t].key)
      /\ body.served \in Nat /\ v2 <= body.served + SourceTimeout
  <2>1. PICK first \in Nat : first = Src!Sent(t).at
    BY <1>5
  <2>2. /\ body \in [key : {v4[t].key}, served : first..v2,
                     error : IF v1 = "open" THEN BOOLEAN ELSE {FALSE}]
    BY <2>1 DEF Src!Bodies
  <2>3. body.key = v4[t].key /\ body.served \in first..v2 /\ body.error \in BOOLEAN
    BY <2>2
  <2>4. body.error => v1 = "open"
    BY <2>2
  <2>5. body = [key |-> body.key, served |-> body.served, error |-> body.error]
    BY <2>2
  <2>6. body.served \in Nat /\ v2 <= body.served + SourceTimeout
    BY <1>1, <1>3, <2>1, <2>3, SourcesAssumption
  <2>7. body \in Src!Body
    BY <1>3, <2>3, <2>5, <2>6 DEF Src!Body
  <2>. QED
    BY <2>3, <2>4, <2>6, <2>7 DEF Src!Genuine
<1>. DEFINE row == [body |-> body, fetched |-> v2]
<1>7. row \in Src!Row /\ row.body = body /\ row.fetched = v2
  BY <1>3, <1>6 DEF Src!Row
<1>8. v5' = [v5 EXCEPT ![v4[t].key] = row]
  BY <1>2 DEF Src!Store
<1>. HIDE DEF row
<1>9. /\ v4' \in [Src!Tasks -> Src!Waiting \union Src!Answered]
      /\ v4'[t].pc = "answered" /\ v4'[t].key = v4[t].key
      /\ v4'[t].body = body /\ v4'[t].at = v2
      /\ \A u \in Src!Tasks \ {t} : v4'[u] = v4[u]
  BY <1>1, <1>2, <1>3, <1>6, TaskAnswers
<1>10. Src!TypeOK'
  BY <1>1, <1>3, <1>7, <1>8, <1>9 DEF Src!TypeOK
<1>11. Src!Current'
  <2>1. \A k \in Src!Keys : v5'[k] = IF k = v4[t].key THEN row ELSE v5[k]
    BY <1>3, <1>8
  <2>2. \A k \in Src!Keys : v5'[k] # Src!NoRow =>
          /\ Src!Genuine(v5'[k].body, k)
          /\ v5'[k].fetched <= v5'[k].body.served + SourceTimeout
    BY <1>6, <1>7, <2>1 DEF Src!FetchInv, Src!Current
  <2>3. v2 <= body.served + SourceMaxAge + SourceTimeout
    BY <1>3, <1>6, SourcesAssumption
  <2>4. \A u \in Src!Tasks : v4'[u].pc = "answered" =>
          /\ Src!Genuine(v4'[u].body, v4'[u].key)
          /\ v4'[u].at <= v4'[u].body.served + SourceMaxAge + SourceTimeout
    BY <1>6, <1>9, <2>3 DEF Src!FetchInv, Src!Current
  <2>5. \A u \in Src!Tasks : v4'[u].pc = "requesting" => \E r \in v6 : r.task = u
    BY <1>9 DEF Src!FetchInv, Src!Current
  <2>. QED
    BY <1>1, <2>2, <2>4, <2>5 DEF Src!FetchInv, Src!Current, Src!Genuine
<1>. QED
  BY <1>1, <1>9, <1>10, <1>11, TaskKeeps

LEMMA SourcesNext == Src!FetchInv /\ [Src!Next]_(Src!vars) => Src!FetchInv'
<1>. SUFFICES ASSUME Src!FetchInv, [Src!Next]_(Src!vars) PROVE Src!FetchInv'
  OBVIOUS
<1>a. /\ Src!TypeOK /\ Src!Paced /\ Src!Current
      /\ v3 \in [Src!Objects -> [held : BOOLEAN, last : Nat]]
      /\ v2 \in Nat /\ SourceInterval \in Nat
  BY SourcesAssumption DEF Src!FetchInv, Src!TypeOK
<1>1. CASE UNCHANGED Src!vars
  BY <1>1 DEF Src!vars, Src!FetchInv, Src!TypeOK, Src!Paced, Src!Current, Src!Genuine
<1>2. CASE Src!Tick
  <2>1. v2' = v2 + 1 /\ UNCHANGED <<v1, v3, v4, v5, v6>>
    BY <1>2 DEF Src!Tick
  <2>2. Src!TypeOK'
    BY <1>a, <2>1 DEF Src!TypeOK
  <2>3. Src!Paced'
    <3>1. \A o \in Src!Objects : v3'[o].last <= v2'
      BY <1>a, <2>1 DEF Src!Paced
    <3>. QED
      BY <1>a, <2>1, <3>1 DEF Src!Paced
  <2>4. Src!Current'
    <3>1. \A r \in v6 : r.at <= v2 + 1
      BY <1>a DEF Src!Current, Src!TypeOK, Src!Request
    <3>. QED
      BY <1>a, <2>1, <3>1 DEF Src!Current, Src!Genuine
  <2>. QED
    BY <2>2, <2>3, <2>4 DEF Src!FetchInv
<1>3. ASSUME NEW t \in Src!Tasks, Src!Call(t) PROVE Src!FetchInv'
  <2>1. v4[t].pc = "new" /\ UNCHANGED <<v1, v2, v5>>
    BY <1>3 DEF Src!Call
  <2>2. CASE v1 = "open" /\ Src!Fetch(t) /\ v3' = v3
    BY <2>1, <2>2, FetchKeeps
  <2>3. CASE v1 # "open" /\ ~Src!Limiter(t).held /\ Src!Early(t) /\ Src!Sleep(t) /\ v6' = v6
    BY <2>1, <2>3, SleepKeeps
  <2>4. CASE v1 # "open" /\ ~Src!Limiter(t).held /\ ~Src!Early(t) /\ Src!Release(t) /\ Src!Fetch(t)
    <3>1. \A u \in Src!Tasks \ {t} : v4[u].pc = "asleep" => v4[u].object # v4[t].object
      BY <1>a, <2>4 DEF Src!Paced, Src!Limiter
    <3>. QED
      BY <2>1, <2>4, <3>1, FetchKeeps
  <2>. QED
    BY <1>3, <2>2, <2>3, <2>4 DEF Src!Call
<1>4. ASSUME NEW t \in Src!Tasks, Src!Wake(t) PROVE Src!FetchInv'
  <2>1. /\ v4[t].pc = "asleep" /\ v2 >= v4[t].until /\ Src!Release(t) /\ Src!Fetch(t)
        /\ UNCHANGED <<v1, v2, v5>>
    BY <1>4 DEF Src!Wake
  <2>2. v3[v4[t].object].last \in Nat /\ v4[t].until = v3[v4[t].object].last + SourceInterval
    BY <1>a, <2>1, WaitingTask DEF Src!Paced
  <2>3. ~Src!Early(t)
    BY <1>a, <2>1, <2>2 DEF Src!Early, Src!Limiter
  <2>4. \A u \in Src!Tasks \ {t} : v4[u].pc = "asleep" => v4[u].object # v4[t].object
    BY <1>a, <2>1 DEF Src!Paced
  <2>5. v1 # "open"
    BY <1>a, <2>1 DEF Src!Paced
  <2>. QED
    BY <2>1, <2>3, <2>4, <2>5, FetchKeeps
<1>5. ASSUME NEW t \in Src!Tasks, Src!Fail(t) \/ Src!Cancel(t) PROVE Src!FetchInv'
  <2>1. /\ v4[t].pc \in {"requesting", "asleep"} /\ Src!Moves(t, "failed")
        /\ UNCHANGED <<v1, v2, v5, v6>>
        /\ \/ v3' = v3
           \/ v4[t].pc = "asleep" /\ v3' = [v3 EXCEPT ![v4[t].object].held = FALSE]
    BY <1>5 DEF Src!Fail, Src!Cancel
  <2>2. /\ v4' \in [Src!Tasks -> Src!Waiting \union Src!Answered] /\ v4'[t].pc = "failed"
        /\ \A u \in Src!Tasks \ {t} : v4'[u] = v4[u]
    BY <1>a, <2>1, TaskMoves
  <2>3. /\ v3' \in [Src!Objects -> [held : BOOLEAN, last : Nat]]
        /\ \A p \in Src!Objects :
             \/ v3'[p] = v3[p]
             \/ v4[t].pc = "asleep" /\ p = v4[t].object /\ v3'[p].last = v3[p].last
    <3>1. CASE v3' = v3
      BY <1>a, <3>1
    <3>2. CASE v4[t].pc = "asleep" /\ v3' = [v3 EXCEPT ![v4[t].object].held = FALSE]
      <4>1. PICK o \in Src!Objects : o = v4[t].object
        BY <1>a, <2>1, WaitingTask
      <4>2. /\ v3' = [v3 EXCEPT ![o] = [v3[o] EXCEPT !.held = FALSE]]
            /\ [v3[o] EXCEPT !.held = FALSE] \in [held : BOOLEAN, last : Nat]
            /\ [v3[o] EXCEPT !.held = FALSE].last = v3[o].last
        BY <1>a, <3>2, <4>1
      <4>. QED
        BY <1>a, <3>2, <4>1, <4>2
    <3>. QED
      BY <2>1, <3>1, <3>2
  <2>4. Src!TypeOK'
    BY <1>a, <2>1, <2>2, <2>3 DEF Src!TypeOK
  <2>5. Src!Current'
    <3>1. \A u \in Src!Tasks : v4'[u].pc \in {"requesting", "answered"} => v4'[u] = v4[u]
      BY <2>2
    <3>. QED
      BY <1>a, <2>1, <3>1 DEF Src!Current, Src!Genuine
  <2>. QED
    BY <2>1, <2>2, <2>3, <2>4, <2>5, TaskKeeps
<1>. QED
  BY <1>1, <1>2, <1>3, <1>4, <1>5, RespondKeeps DEF Src!Next

\* Requests of a limited source are Interval apart, and answers are about what was
\* asked, as recent as the cache and the time-out promise, and no errors.
THEOREM FetchesSoundHolds == LabSpec => []FetchesSound
<1>. DEFINE Inv == lab = "sources" => Src!FetchInv
<1>1. LabInit => Inv
  BY SourcesInit DEF LabInit
<1>2. Inv /\ [LabNext]_labvars => Inv'
  BY SourcesNext, StepOfPart
<1>3. Inv => FetchesSound
  BY DEF FetchesSound, Src!FetchesSound, Src!FetchInv, Src!Paced, Src!Current, Src!Genuine
<1>. QED
  BY <1>1, <1>2, <1>3, PTL DEF LabSpec

(***************************************************************************)
(* Win estimates: v1 task, v2 cache, v3 stored, v4 faults                    *)
(***************************************************************************)
LEMMA EstimatesInit == Win!Init => Win!EstimatesInv
<1>. SUFFICES ASSUME Win!Init PROVE Win!EstimatesInv
  OBVIOUS
<1>1. v1 \in [WinTasks -> Win!Task]
  BY DEF Win!Init, Win!Task, Win!Calls
<1>2. v3 = <<>> /\ v3 \in Seq(Win!Estimate) /\ Len(v3) = 0 /\ DOMAIN v3 = {}
  BY DEF Win!Init
<1>3. \A t \in WinTasks : v1[t].pc = "new" /\ v1[t].missed = {} /\ v1[t].began = 0
  BY DEF Win!Init
<1>. QED
  BY <1>1, <1>2, <1>3 DEF Win!Init, Win!EstimatesInv, Win!TypeOK, Win!Explains, Win!Calls

\* One task moves, and nothing is stored.
LEMMA EstimateMoves ==
  ASSUME Win!EstimatesInv, NEW t \in WinTasks, NEW q \in Win!Task, Win!Does(t, q),
         Win!Explains(t, q), UNCHANGED <<v2, v3>>, v4' \in Nat
  PROVE  Win!EstimatesInv'
<1>1. v1' = [v1 EXCEPT ![t] = q] /\ v1 \in [WinTasks -> Win!Task]
  BY DEF Win!Does, Win!EstimatesInv, Win!TypeOK
<1>2. Win!TypeOK'
  BY <1>1 DEF Win!EstimatesInv, Win!TypeOK
<1>3. \A u \in WinTasks : Win!Explains(u, v1'[u])
  BY <1>1 DEF Win!EstimatesInv
<1>4. \A u \in WinTasks : Win!Explains(u, v1[u])'
  BY <1>3 DEF Win!Explains
<1>. QED
  BY <1>2, <1>4 DEF Win!EstimatesInv

LEMMA LookupKeeps ==
  ASSUME Win!EstimatesInv, NEW t \in WinTasks, Win!Lookup(t) \/ Win!LookupFails(t)
  PROVE  Win!EstimatesInv'
<1>1. /\ v1[t].pc = "new" /\ v1[t] \in Win!Task /\ Win!Explains(t, v1[t])
      /\ v3 \in Seq(Win!Estimate) /\ Len(v3) \in Nat /\ v4 \in Nat
      /\ v2 = IF v3 = <<>> THEN Win!None ELSE v3[Len(v3)]
  BY DEF Win!EstimatesInv, Win!TypeOK, Win!Lookup, Win!LookupFails
<1>2. UNCHANGED <<v2, v3>> /\ v4' \in Nat
  BY <1>1 DEF Win!Lookup, Win!LookupFails, Win!Keeps, Win!Fault
<1>3. CASE v1[t].reuse /\ v2 # Win!None /\ Win!Does(t, Win!Found(t))
  <2>1. PICK q : q = Win!Found(t)
    OBVIOUS
  <2>2. v3 # <<>> /\ v2 = v3[Len(v3)] /\ Len(v3) > 0 /\ v2 \in Win!Estimate
        /\ Len(v3) \in DOMAIN v3
    BY <1>1, <1>3
  <2>3. /\ q \in Win!Task
        /\ q.pc = "answered" /\ q.answer = v2 /\ q.began = Len(v3) /\ q.reuse = v1[t].reuse
    BY <1>1, <2>1, <2>2 DEF Win!Found, Win!Task
  <2>4. v2.from # t
    BY <1>1, <2>2 DEF Win!Explains
  <2>5. Win!Explains(t, q)
    BY <1>1, <1>3, <2>2, <2>3, <2>4 DEF Win!Explains, Win!Calls
  <2>. QED
    BY <1>2, <1>3, <2>1, <2>3, <2>5, EstimateMoves
<1>4. ASSUME NEW missed \in SUBSET {"cache"}, NEW q \in Win!Begin(t, missed), Win!Does(t, q),
             ~v1[t].reuse \/ v2 = Win!None \/ "cache" \in missed
      PROVE  Win!EstimatesInv'
  <2>1. PICK first \in {"news", "primary"} :
          q = [v1[t] EXCEPT !.pc = first, !.began = Len(v3), !.missed = missed]
    BY DEF Win!Begin
  <2>2. /\ q \in Win!Task
        /\ q.pc = first /\ q.began = Len(v3) /\ q.missed = missed /\ q.reuse = v1[t].reuse
    BY <1>1, <2>1 DEF Win!Task, Win!Calls
  <2>3. v2 = Win!None => Len(v3) = 0
    <3>1. v3 # <<>> => v3[Len(v3)] \in Win!Estimate
      BY <1>1
    <3>2. \A e \in Win!Estimate : e.model # Win!None.model
      BY DEF Win!Estimate, Win!None
    <3>. QED
      BY <1>1, <3>1, <3>2
  <2>4. Win!Explains(t, q)
    BY <1>1, <1>4, <2>2, <2>3 DEF Win!Explains, Win!Calls
  <2>. QED
    BY <1>2, <1>4, <2>2, <2>4, EstimateMoves
<1>5. CASE Win!Fault(t, [v1[t] EXCEPT !.pc = "unavailable"])
  <2>1. PICK q : q = [v1[t] EXCEPT !.pc = "unavailable"]
    OBVIOUS
  <2>2. /\ q \in Win!Task /\ Win!Does(t, q)
        /\ q.pc = "unavailable" /\ q.began = v1[t].began
    BY <1>1, <1>5, <2>1 DEF Win!Task, Win!Fault
  <2>3. Win!Explains(t, q)
    BY <1>1, <2>2 DEF Win!Explains, Win!Calls
  <2>. QED
    BY <1>2, <2>2, <2>3, EstimateMoves
<1>. QED
  BY <1>3, <1>4, <1>5 DEF Win!Lookup, Win!LookupFails, Win!Fault

LEMMA StoreKeeps ==
  ASSUME Win!EstimatesInv, NEW t \in WinTasks, Win!Store(t)
  PROVE  Win!EstimatesInv'
<1>1. /\ v1[t].pc = "store" /\ v1[t] \in Win!Task /\ Win!Explains(t, v1[t])
      /\ v3 \in Seq(Win!Estimate) /\ Len(v3) \in Nat /\ v4 \in Nat
      /\ v1 \in [WinTasks -> Win!Task]
  BY DEF Win!EstimatesInv, Win!TypeOK, Win!Store
<1>2. PICK q : q = [v1[t] EXCEPT !.pc = "answered"]
  OBVIOUS
<1>3. /\ q \in Win!Task /\ q.pc = "answered" /\ q.began = v1[t].began /\ q.answer = v1[t].answer
      /\ q.missed = v1[t].missed /\ q.reuse = v1[t].reuse /\ q.answer.from = t
  BY <1>1, <1>2 DEF Win!Task, Win!Explains
<1>4. Win!Explains(t, q)
  BY <1>1, <1>3 DEF Win!Explains, Win!Calls
<1>5. CASE Win!Fault(t, [v1[t] EXCEPT !.pc = "answered"])
  BY <1>1, <1>2, <1>3, <1>4, <1>5, EstimateMoves DEF Win!Fault
<1>6. CASE /\ Win!Does(t, [v1[t] EXCEPT !.pc = "answered"])
           /\ v2' = v1[t].answer /\ v3' = Append(v3, v2') /\ v4' = v4
  <2>1. q.answer \in Win!Estimate
    BY <1>1, <1>3 DEF Win!Explains
  <2>2. /\ v3' = Append(v3, q.answer) /\ v2' = q.answer /\ v1' = [v1 EXCEPT ![t] = q]
    BY <1>2, <1>3, <1>6 DEF Win!Does
  <2>3. /\ v3' \in Seq(Win!Estimate) /\ Len(v3') = Len(v3) + 1 /\ v3'[Len(v3) + 1] = q.answer
        /\ \A i \in 1..Len(v3) : v3'[i] = v3[i]
        /\ DOMAIN v3' = 1..(Len(v3) + 1) /\ DOMAIN v3 = 1..Len(v3)
    BY <1>1, <2>1, <2>2
  <2>4. v3' # <<>>
    BY <1>1, <2>3
  <2>5. Win!TypeOK'
    BY <1>1, <1>3, <1>6, <2>2, <2>3, <2>4 DEF Win!TypeOK
  <2>6. \A u \in WinTasks : v1'[u] = IF u = t THEN q ELSE v1[u]
    BY <1>1, <2>2
  <2>7. ASSUME NEW u \in WinTasks PROVE Win!Explains(u, v1[u])'
    <3>1. PICK r : r = v1'[u]
      OBVIOUS
    <3>2. Win!Explains(u, r) /\ r \in Win!Task
      BY <1>1, <1>3, <1>4, <2>6, <3>1 DEF Win!EstimatesInv
    <3>3. u # t => (r.pc # "answered" => \A i \in DOMAIN v3' : v3'[i].from # u)
      <4>1. ASSUME u # t, r.pc # "answered", NEW i \in DOMAIN v3' PROVE v3'[i].from # u
        <5>1. CASE i = Len(v3) + 1
          BY <1>3, <2>3, <4>1, <5>1
        <5>2. CASE i \in DOMAIN v3
          BY <2>3, <3>2, <4>1, <5>2 DEF Win!Explains
        <5>. QED
          BY <1>1, <2>3, <5>1, <5>2
      <4>. QED
        BY <4>1
    <3>4. u = t => r.pc = "answered"
      BY <1>3, <2>6, <3>1
    <3>5. r.began \in Nat /\ r.began <= Len(v3) /\ r.began <= Len(v3')
      BY <1>1, <2>3, <3>2 DEF Win!Explains, Win!Task
    <3>6. r.began > 0 => v3'[r.began] = v3[r.began]
      BY <1>1, <2>3, <3>5
    <3>7. Win!Explains(u, r)'
      BY <3>2, <3>3, <3>4, <3>5, <3>6 DEF Win!Explains
    <3>. QED
      BY <3>1, <3>7
  <2>. QED
    BY <2>5, <2>7 DEF Win!EstimatesInv
<1>. QED
  BY <1>5, <1>6 DEF Win!Store

\* Calls of the models
LEMMA CallKeeps ==
  ASSUME Win!EstimatesInv, NEW t \in WinTasks,
         Win!CallFails(t) \/ Win!AnswerInvalid(t) \/ Win!NewsSummed(t) \/ Win!Estimated(t)
  PROVE  Win!EstimatesInv'
<1>1. /\ v1[t].pc \in Win!Calls /\ v1[t] \in Win!Task /\ Win!Explains(t, v1[t]) /\ v4 \in Nat
  BY DEF Win!EstimatesInv, Win!TypeOK, Win!CallFails, Win!AnswerInvalid, Win!NewsSummed,
         Win!Estimated, Win!Calls
<1>2. UNCHANGED <<v2, v3>> /\ v4' \in Nat
  BY <1>1 DEF Win!CallFails, Win!AnswerInvalid, Win!NewsSummed, Win!Estimated, Win!Keeps, Win!Fault
<1>3. CASE Win!Does(t, [v1[t] EXCEPT !.tried = @ + 1])
  <2>1. PICK q : q = [v1[t] EXCEPT !.tried = @ + 1]
    OBVIOUS
  <2>2. /\ q \in Win!Task /\ q.pc = v1[t].pc /\ q.began = v1[t].began
        /\ q.missed = v1[t].missed /\ q.reuse = v1[t].reuse
    BY <1>1, <2>1 DEF Win!Task
  <2>3. Win!Explains(t, q)
    BY <1>1, <2>2 DEF Win!Explains, Win!Calls
  <2>. QED
    BY <1>2, <1>3, <2>1, <2>2, <2>3, EstimateMoves
<1>4. CASE Win!Does(t, Win!Missed(t, v1[t].pc))
  <2>1. PICK q : q = Win!Missed(t, v1[t].pc)
    OBVIOUS
  <2>2. PICK next \in {"primary", "backup", "raised"} :
          /\ next = Win!AfterFailure(v1[t].pc)
          /\ v1[t].pc = "news" => next = "primary"
          /\ v1[t].pc = "primary" => next = "backup"
          /\ v1[t].pc = "backup" => next = "raised"
    BY <1>1 DEF Win!AfterFailure, Win!Calls
  <2>3. /\ q \in Win!Task /\ q.pc = next /\ q.began = v1[t].began
        /\ q.missed = v1[t].missed \union {v1[t].pc} /\ q.reuse = v1[t].reuse
    BY <1>1, <2>1, <2>2 DEF Win!Task, Win!Missed, Win!Calls
  <2>4. Win!Explains(t, q)
    BY <1>1, <2>2, <2>3 DEF Win!Explains, Win!Calls
  <2>. QED
    BY <1>2, <1>4, <2>1, <2>3, <2>4, EstimateMoves
<1>5. CASE Win!NewsSummed(t)
  <2>1. PICK q : q = [v1[t] EXCEPT !.pc = "primary", !.tried = 0]
    OBVIOUS
  <2>2. /\ q \in Win!Task /\ q.pc = "primary" /\ q.began = v1[t].began
        /\ q.missed = v1[t].missed /\ q.reuse = v1[t].reuse /\ Win!Does(t, q) /\ v1[t].pc = "news"
    BY <1>1, <1>5, <2>1 DEF Win!Task, Win!Calls, Win!NewsSummed
  <2>3. Win!Explains(t, q)
    BY <1>1, <2>2 DEF Win!Explains, Win!Calls
  <2>. QED
    BY <1>2, <2>2, <2>3, EstimateMoves
<1>6. CASE Win!Estimated(t)
  <2>1. PICK a : a = [from |-> t, model |-> v1[t].pc]
    OBVIOUS
  <2>2. PICK q : q = [v1[t] EXCEPT !.pc = "store", !.tried = 0, !.answer = a]
    OBVIOUS
  <2>3. a \in Win!Estimate /\ a.from = t /\ a.model = v1[t].pc /\ v1[t].pc \in {"primary", "backup"}
    BY <1>6, <2>1 DEF Win!Estimate, Win!Estimated
  <2>4. /\ q \in Win!Task /\ q.pc = "store" /\ q.began = v1[t].began /\ q.answer = a
        /\ q.missed = v1[t].missed /\ q.reuse = v1[t].reuse
    BY <1>1, <2>2, <2>3 DEF Win!Task, Win!Calls
  <2>5. Win!Does(t, q)
    BY <1>6, <2>1, <2>2 DEF Win!Estimated
  <2>6. Win!Explains(t, q)
    BY <1>1, <2>3, <2>4 DEF Win!Explains, Win!Calls
  <2>. QED
    BY <1>2, <2>4, <2>5, <2>6, EstimateMoves
<1>. QED
  BY <1>1, <1>3, <1>4, <1>5, <1>6 DEF Win!CallFails, Win!AnswerInvalid, Win!Fault

LEMMA EstimatesNext == Win!EstimatesInv /\ [Win!Next]_(Win!vars) => Win!EstimatesInv'
<1>1. Win!EstimatesInv /\ UNCHANGED Win!vars => Win!EstimatesInv'
  BY DEF Win!EstimatesInv, Win!TypeOK, Win!Explains, Win!vars
<1>. QED
  BY <1>1, LookupKeeps, StoreKeeps, CallKeeps DEF Win!Next

\* An answer is of the task's own data or the one it was allowed to take from the cache,
\* and the backup answers only for a primary that failed.
THEOREM EstimatesExplainedHolds == LabSpec => []EstimatesExplained
<1>. DEFINE Inv == lab = "inference" => Win!EstimatesInv
<1>1. LabInit => Inv
  BY EstimatesInit DEF LabInit
<1>2. Inv /\ [LabNext]_labvars => Inv'
  BY EstimatesNext, StepOfPart
<1>3. Inv => EstimatesExplained
  BY DEF EstimatesExplained, Win!EstimatesExplained, Win!EstimatesInv, Win!Explains
<1>. QED
  BY <1>1, <1>2, <1>3, PTL DEF LabSpec

\* What appending an element does to a sequence
LEMMA AppendFacts ==
  ASSUME NEW S, NEW L \in Seq(S), NEW e \in S
  PROVE  /\ Append(L, e) \in Seq(S) /\ Len(L) \in Nat /\ Len(Append(L, e)) = Len(L) + 1
         /\ DOMAIN L = 1..Len(L) /\ DOMAIN Append(L, e) = 1..(Len(L) + 1)
         /\ Append(L, e)[Len(L) + 1] = e
         /\ \A i \in 1..Len(L) : Append(L, e)[i] = L[i]
<1>1. /\ Append(L, e) \in Seq(S) /\ Len(L) \in Nat /\ Len(Append(L, e)) = Len(L) + 1
      /\ DOMAIN L = 1..Len(L)
  OBVIOUS
<1>2. DOMAIN Append(L, e) = 1..Len(Append(L, e))
  BY <1>1
<1>3. Append(L, e)[Len(L) + 1] = e /\ \A i \in 1..Len(L) : Append(L, e)[i] = L[i]
  BY <1>1
<1>. QED
  BY <1>1, <1>2, <1>3

(***************************************************************************)
(* The local API: v1 ledger, v2 cut, v3 unended, v4 audit, v5 pc, v6 req,   *)
(* v7 mem, v8 answer, v9 sent, v10 served, v11 deaths                       *)
(***************************************************************************)
LEMMA AnswersInit == Api!Init => Api!AnswersInv
<1>. SUFFICES ASSUME Api!Init PROVE Api!AnswersInv
  OBVIOUS
<1>1. Api!NoMemory \in Api!Memory /\ Api!NoMemory.next = 1 /\ ~Api!NoMemory.torn
      /\ ~Api!NoMemory.forked
  BY DEF Api!NoMemory, Api!Memory
<1>2. Api!TypeOK
  <2>1. v1 \in Seq([id : Api!Predictions, last : Nat])
    BY DEF Api!Init
  <2>a. v2 \in BOOLEAN /\ v3 \in BOOLEAN
    BY DEF Api!Init
  <2>2. v7 \in [ApiThreads -> Api!Memory]
    BY <1>1 DEF Api!Init
  <2>. QED
    BY <2>1, <2>a, <2>2 DEF Api!Init, Api!TypeOK
<1>3. ASSUME NEW t \in ApiThreads PROVE Api!Answered(t) /\ Api!Running(t)
  BY <1>1 DEF Api!Init, Api!Answered, Api!Running, Api!RunSteps
<1>. QED
  BY <1>2, <1>3 DEF Api!Init, Api!AnswersInv

\* A code that is not "ok" promises nothing of the ledger.
LEMMA FailureAccountable ==
  ASSUME NEW line, NEW a, line.status = a.status, a.code # "ok"
  PROVE  Api!Accountable(line, a)
BY DEF Api!Accountable

LEMMA CodesNotOk ==
  /\ \A r \in DOMAIN Api!Refused : Api!Refused[r] # "ok"
  /\ \A r \in DOMAIN Api!Rejected : Api!Rejected[r] # "ok"
  /\ \A code : Api!Failure(code).code = code
BY DEF Api!Refused, Api!Rejected, Api!Failure

LEMMA PlanFacts ==
  \A r \in DOMAIN Api!Plan :
    /\ Len(Api!Plan[r]) \in Nat /\ DOMAIN Api!Plan[r] = 1..Len(Api!Plan[r])
    /\ \A i \in DOMAIN Api!Plan[r] : Api!Plan[r][i] \in Api!Predictions
    /\ Api!Promised(r) = {Api!Plan[r][i] : i \in DOMAIN Api!Plan[r]}
<1>1. /\ DOMAIN <<"a", "b">> = 1..2 /\ Len(<<"a", "b">>) = 2
      /\ DOMAIN <<"c">> = 1..1 /\ Len(<<"c">>) = 1
  OBVIOUS
<1>2. ASSUME NEW r \in DOMAIN Api!Plan
      PROVE  Len(Api!Plan[r]) \in Nat /\ DOMAIN Api!Plan[r] = 1..Len(Api!Plan[r])
  <2>1. Api!Plan[r] = <<"a", "b">> \/ Api!Plan[r] = <<"c">>
    BY DEF Api!Plan
  <2>. QED
    BY <1>1, <2>1
<1>. QED
  BY <1>2 DEF Api!Predictions, Api!Promised

\* What replacing a part of a thread's memory does to the others
LEMMA MemoryChanges ==
  ASSUME NEW m \in Api!Memory, NEW n \in Nat, NEW a,
         \/ a = [m EXCEPT !.next = n] /\ n # 0
         \/ a = [m EXCEPT !.last = n]
         \/ a = [m EXCEPT !.count = n]
  PROVE  /\ a \in Api!Memory /\ a.torn = m.torn /\ a.forked = m.forked
         /\ a = [m EXCEPT !.next = n] => a.next = n
         /\ a = [m EXCEPT !.last = n] => a.next = m.next
         /\ a = [m EXCEPT !.count = n] => a.next = m.next /\ a.count = n
<1>1. \A f : f \in Api!Memory => f.next \in Nat \ {0}
  BY DEF Api!Memory
<1>2. CASE a = [m EXCEPT !.next = n] /\ n # 0
  BY <1>2 DEF Api!Memory
<1>3. CASE a = [m EXCEPT !.last = n]
  BY <1>3 DEF Api!Memory
<1>4. CASE a = [m EXCEPT !.count = n]
  BY <1>4 DEF Api!Memory
<1>. QED
  BY <1>2, <1>3, <1>4

\* A step of thread t that leaves the ledger alone
LEMMA ThreadStep ==
  ASSUME Api!AnswersInv, NEW t \in ApiThreads, v1' = v1, v2' = v2, Api!TypeOK', v4 \subseteq v4',
         \A u \in ApiThreads \ {t} :
           v5'[u] = v5[u] /\ v6'[u] = v6[u] /\ v7'[u] = v7[u] /\ v8'[u] = v8[u],
         Api!Answered(t)', Api!Running(t)',
         \A s \in v9' : s \in v9 \/ (s.line \in v4' /\ Api!Accountable(s.line, s.answer))
  PROVE  Api!AnswersInv'
<1>1. ASSUME NEW u \in ApiThreads \ {t} PROVE Api!Answered(u)'
  <2>1. PICK line, a : line = Api!Line(u) /\ a = v8[u]
    OBVIOUS
  <2>2. Api!Line(u)' = line /\ v8'[u] = a
    BY <2>1 DEF Api!Line
  <2>3. Api!Accountable(line, a) => Api!Accountable(line, a)'
    BY DEF Api!Accountable, Api!Occurs
  <2>4. Api!Answered(u)
    BY DEF Api!AnswersInv
  <2>5. v5'[u] \in {"finish", "send"} => Api!Accountable(line, a)'
    BY <2>1, <2>3, <2>4 DEF Api!Answered
  <2>6. v5'[u] \in {"finish", "send"} => Api!Accountable(Api!Line(u), v8[u])'
    BY <2>2, <2>5
  <2>7. v5'[u] = "send" => Api!Line(u)' \in v4'
    BY <2>1, <2>2, <2>4 DEF Api!Answered
  <2>. QED
    BY <2>6, <2>7 DEF Api!Answered
<1>2. ASSUME NEW u \in ApiThreads \ {t} PROVE Api!Running(u)'
  <2>1. Api!Running(u)
    BY DEF Api!AnswersInv
  <2>2. Api!Progress(u) => Api!Progress(u)'
    BY DEF Api!Progress, Api!Occurs
  <2>3. Api!Left(u)' <=> Api!Left(u)
    BY DEF Api!Left
  <2>. QED
    BY <2>1, <2>2, <2>3 DEF Api!Running, Api!Intact
<1>3. \A s \in v9' : s.line \in v4' /\ Api!Accountable(s.line, s.answer)
  BY DEF Api!AnswersInv
<1>4. \A s \in v9' : s.line \in v4' /\ Api!Accountable(s.line, s.answer)'
  BY <1>3 DEF Api!Accountable, Api!Occurs
<1>. QED
  BY <1>1, <1>2, <1>4 DEF Api!AnswersInv

(***************************************************************************)
(* Steps of a run that do not write                                        *)
(***************************************************************************)
\* Thread t is at step "from" of its run, or before it, and comes to another.
RunStep(t, from, to) ==
  /\ v5[t] = from /\ v5' = [v5 EXCEPT ![t] = to]
  /\ from \notin {"finish", "send"} /\ to \in Api!RunSteps \union {"dispatch", "hash"}
  /\ v7' = [v7 EXCEPT ![t] = v7'[t]] /\ v7'[t] \in Api!Memory
  /\ UNCHANGED <<v1, v2, v3, v4, v8, v9>>

LEMMA RunStepKeeps ==
  ASSUME Api!AnswersInv, NEW t \in ApiThreads, NEW from, NEW to, RunStep(t, from, to),
         NEW r, v6' = [v6 EXCEPT ![t] = r], Api!Running(t)'
  PROVE  Api!AnswersInv'
<1>1. Api!TypeOK
  BY DEF Api!AnswersInv
<1>2. Api!TypeOK'
  <2>1. v5' \in [ApiThreads -> Api!RunSteps \union {"idle", "dispatch", "hash", "finish", "send"}]
    BY <1>1 DEF Api!TypeOK, RunStep
  <2>2. v7' \in [ApiThreads -> Api!Memory]
    BY <1>1 DEF Api!TypeOK, RunStep
  <2>3. v6' = [u \in ApiThreads |-> v6'[u]]
    BY <1>1 DEF Api!TypeOK
  <2>. QED
    BY <1>1, <2>1, <2>2, <2>3 DEF Api!TypeOK, RunStep
<1>3. v5'[t] = to /\ \A u \in ApiThreads \ {t} : v5'[u] = v5[u] /\ v6'[u] = v6[u] /\ v7'[u] = v7[u]
  BY <1>1 DEF Api!TypeOK, RunStep
<1>4. Api!Answered(t)'
  BY <1>3 DEF Api!Answered, RunStep, Api!RunSteps
<1>. QED
  BY <1>2, <1>3, <1>4, ThreadStep DEF RunStep

LEMMA RequestKeeps ==
  ASSUME Api!AnswersInv, NEW t \in ApiThreads,
         (\E r \in Api!Requests : Api!Receive(t, r)) \/ Api!Admit(t)
  PROVE  Api!AnswersInv'
<1>a. Api!TypeOK /\ Api!Running(t) /\ v7[t] \in Api!Memory
  BY DEF Api!AnswersInv, Api!TypeOK
<1>1. CASE \E r \in Api!Requests : Api!Receive(t, r)
  <2>1. PICK r : /\ RunStep(t, "idle", "dispatch") /\ v6' = [v6 EXCEPT ![t] = r] /\ v7' = v7
    BY <1>1, <1>a DEF Api!Receive, Api!Go, Api!file, Api!RunSteps, Api!TypeOK, RunStep
  <2>2. Api!Running(t)'
    BY <1>a, <2>1 DEF Api!Running, Api!RunSteps, RunStep, Api!TypeOK
  <2>. QED
    BY <2>1, <2>2, RunStepKeeps
<1>2. CASE Api!Admit(t)
  <2>1. /\ RunStep(t, "dispatch", "verify") /\ v6' = [v6 EXCEPT ![t] = v6[t]] /\ v7' = v7
        /\ v6[t] \in DOMAIN Api!Plan /\ v6' = v6
    BY <1>2, <1>a DEF Api!Admit, Api!Go, Api!file, Api!others, Api!RunSteps, Api!TypeOK, RunStep
  <2>2. v7[t].next = 1 /\ ~v7[t].torn /\ ~v7[t].forked
    BY <1>a, <2>1 DEF Api!Running, RunStep
  <2>3. Api!Progress(t)'
    BY <2>1, <2>2, PlanFacts DEF Api!Progress
  <2>4. v5'[t] = "verify"
    BY <1>a, <2>1 DEF RunStep, Api!TypeOK
  <2>5. Api!Running(t)'
    BY <2>1, <2>2, <2>3, <2>4 DEF Api!Running, Api!RunSteps
  <2>. QED
    BY <2>1, <2>5, RunStepKeeps
<1>. QED
  BY <1>1, <1>2

LEMMA ReadKeeps ==
  ASSUME Api!AnswersInv, NEW t \in ApiThreads,
         \/ Api!Verify(t) \/ Api!VerifyLast(t) \/ Api!Found(t) \/ Api!Missing(t)
         \/ Api!Link(t) \/ Api!Count(t)
  PROVE  Api!AnswersInv'
<1>. USE DEF Api!Go, Api!file, Api!others
<1>a. Api!TypeOK /\ Api!Running(t) /\ v7[t] \in Api!Memory
  BY DEF Api!AnswersInv, Api!TypeOK
<1>b. v6' = v6 /\ v6' = [v6 EXCEPT ![t] = v6[t]] /\ v1' = v1 /\ v2' = v2 /\ Len(v1) \in Nat
  BY <1>a DEF Api!TypeOK, Api!Verify, Api!VerifyLast, Api!Found, Api!Missing, Api!Link, Api!Count
<1>c. v5[t] \in Api!RunSteps /\ Api!Progress(t) /\ ~v7[t].torn /\ v7[t].next \in Nat \ {0}
      /\ (v5[t] # "count" => ~v7[t].forked)
  BY <1>a DEF Api!Running, Api!RunSteps, Api!Memory, Api!Verify, Api!VerifyLast, Api!Found,
              Api!Missing, Api!Link, Api!Count
<1>d. ASSUME v7'[t].next = v7[t].next
      PROVE  /\ Api!Progress(t)' /\ (Api!Left(t)' <=> Api!Left(t))
  BY <1>b, <1>c, <1>d DEF Api!Progress, Api!Occurs, Api!Left
<1>1. CASE Api!Verify(t)
  <2>1. /\ RunStep(t, "verify", "look") /\ v7' = v7 /\ v5'[t] = "look" /\ Api!Left(t)
        /\ v5[t] = "verify"
    BY <1>1, <1>a DEF Api!Verify, Api!RunSteps, Api!TypeOK, RunStep
  <2>2. Api!Running(t)'
    BY <1>c, <1>d, <2>1 DEF Api!Running, Api!RunSteps
  <2>. QED
    BY <1>b, <2>1, <2>2, RunStepKeeps
<1>2. CASE Api!VerifyLast(t)
  <2>1. /\ RunStep(t, "verify", "count") /\ v7' = v7 /\ v5'[t] = "count" /\ ~Api!Left(t)
        /\ Api!Intact(v1) /\ v5[t] = "verify"
    BY <1>2, <1>a DEF Api!VerifyLast, Api!RunSteps, Api!TypeOK, RunStep
  <2>2. Api!Intact(v1)'
    BY <1>b, <2>1 DEF Api!Intact
  <2>3. Api!Running(t)'
    BY <1>c, <1>d, <2>1, <2>2 DEF Api!Running, Api!RunSteps
  <2>. QED
    BY <1>b, <2>1, <2>3, RunStepKeeps
<1>3. CASE Api!Found(t)
  <2>1. /\ v5[t] = "look" /\ v7' = [v7 EXCEPT ![t] = [v7[t] EXCEPT !.next = v7[t].next + 1]]
        /\ Api!Occurs(Api!Wanted(t))
    BY <1>3 DEF Api!Found
  <2>b. v7[t].next + 1 \in Nat /\ v7[t].next + 1 # 0
    BY <1>c
  <2>2. PICK m : m = [v7[t] EXCEPT !.next = v7[t].next + 1]
    OBVIOUS
  <2>a. /\ m \in Api!Memory
        /\ m.next = v7[t].next + 1 /\ m.torn = v7[t].torn /\ m.forked = v7[t].forked
    BY <1>a, <2>2, <2>b, MemoryChanges
  <2>3. v7' = [v7 EXCEPT ![t] = m] /\ v7'[t] = m
    BY <1>a, <2>1, <2>2 DEF Api!TypeOK
  <2>4. RunStep(t, "look", "verify") /\ v5'[t] = "verify"
    BY <1>3, <1>a, <2>a, <2>3 DEF Api!Found, Api!RunSteps, Api!TypeOK, RunStep
  <2>5. Api!Progress(t)'
    <3>1. v6[t] \in DOMAIN Api!Plan
          /\ \A i \in DOMAIN Api!Plan[v6[t]] : i < v7[t].next => Api!Occurs(Api!Plan[v6[t]][i])
      BY <1>c DEF Api!Progress
    <3>2. DOMAIN Api!Plan[v6[t]] \subseteq Nat
      BY <3>1, PlanFacts
    <3>3. \A i \in DOMAIN Api!Plan[v6[t]] :
            i < v7[t].next + 1 => Api!Occurs(Api!Plan[v6[t]][i])
      BY <1>c, <2>1, <3>1, <3>2 DEF Api!Wanted
    <3>. QED
      BY <1>b, <2>a, <2>3, <3>1, <3>3 DEF Api!Progress, Api!Occurs
  <2>6. Api!Running(t)'
    BY <1>c, <2>1, <2>a, <2>3, <2>4, <2>5 DEF Api!Running, Api!RunSteps
  <2>. QED
    BY <1>b, <2>4, <2>6, RunStepKeeps
<1>4. CASE Api!Missing(t)
  <2>1. /\ RunStep(t, "look", "link") /\ v7' = v7 /\ v5'[t] = "link" /\ v5[t] = "look"
    BY <1>4, <1>a DEF Api!Missing, Api!RunSteps, Api!TypeOK, RunStep
  <2>2. Api!Left(t)
    BY <1>a, <2>1 DEF Api!Running
  <2>3. Api!Running(t)'
    BY <1>c, <1>d, <2>1, <2>2 DEF Api!Running, Api!RunSteps
  <2>. QED
    BY <1>b, <2>1, <2>3, RunStepKeeps
<1>5. CASE Api!Link(t)
  <2>1. v5[t] = "link" /\ v7' = [v7 EXCEPT ![t] = [v7[t] EXCEPT !.last = Len(v1)]]
    BY <1>5 DEF Api!Link
  <2>2. PICK m : m = [v7[t] EXCEPT !.last = Len(v1)]
    OBVIOUS
  <2>a. /\ m \in Api!Memory
        /\ m.next = v7[t].next /\ m.torn = v7[t].torn /\ m.forked = v7[t].forked
    BY <1>a, <1>b, <1>c, <2>2, MemoryChanges
  <2>3. v7' = [v7 EXCEPT ![t] = m] /\ v7'[t] = m
    BY <1>a, <2>1, <2>2 DEF Api!TypeOK
  <2>4. RunStep(t, "link", "append") /\ v5'[t] = "append" /\ Api!Left(t)
    BY <1>5, <1>a, <2>a, <2>3 DEF Api!Link, Api!RunSteps, Api!TypeOK, RunStep, Api!Running
  <2>5. Api!Running(t)'
    BY <1>c, <1>d, <2>1, <2>a, <2>3, <2>4 DEF Api!Running, Api!RunSteps
  <2>. QED
    BY <1>b, <2>4, <2>5, RunStepKeeps
<1>6. CASE Api!Count(t)
  <2>1. v5[t] = "count" /\ ~v2 /\ v7' = [v7 EXCEPT ![t] = [v7[t] EXCEPT !.count = Len(v1)]]
    BY <1>6 DEF Api!Count
  <2>2. PICK m : m = [v7[t] EXCEPT !.count = Len(v1)]
    OBVIOUS
  <2>a. /\ m \in Api!Memory /\ m.count = Len(v1)
        /\ m.next = v7[t].next /\ m.torn = v7[t].torn /\ m.forked = v7[t].forked
    BY <1>a, <1>b, <1>c, <2>2, MemoryChanges
  <2>3. v7' = [v7 EXCEPT ![t] = m] /\ v7'[t] = m
    BY <1>a, <2>1, <2>2 DEF Api!TypeOK
  <2>4. RunStep(t, "count", "hash") /\ v5'[t] = "hash" /\ ~Api!Left(t)
    BY <1>6, <1>a, <2>a, <2>3 DEF Api!Count, Api!RunSteps, Api!TypeOK, RunStep, Api!Running
  <2>5. Api!Intact(v1) <=> ~v7[t].forked
    BY <1>a, <2>1 DEF Api!Running
  <2>6. Api!Intact(v1)' <=> Api!Intact(v1)
    BY <1>b DEF Api!Intact
  <2>7. /\ v7'[t].count = Len(v1') /\ ~v2' /\ ~v7'[t].torn /\ v7'[t].count <= Len(v1')
        /\ Api!Intact(v1)' <=> ~v7'[t].forked
    BY <1>b, <1>c, <2>1, <2>a, <2>3, <2>5, <2>6
  <2>8. Api!Progress(t)' /\ ~Api!Left(t)'
    BY <1>d, <1>c, <2>a, <2>3, <2>4
  <2>9. Api!Running(t)'
    BY <2>4, <2>7, <2>8 DEF Api!Running, Api!RunSteps
  <2>. QED
    BY <1>b, <2>4, <2>9, RunStepKeeps
<1>. QED
  BY <1>1, <1>2, <1>3, <1>4, <1>5, <1>6

(***************************************************************************)
(* Steps that write to the ledger                                          *)
(***************************************************************************)
\* One more line keeps an intact chain only if it follows.
LEMMA IntactAppend ==
  ASSUME NEW t \in ApiThreads, v1 \in Seq([id : Api!Predictions, last : Nat]),
         Api!NewLine(t) \in [id : Api!Predictions, last : Nat],
         v1' = Append(v1, Api!NewLine(t))
  PROVE  Api!Intact(v1)' <=> Api!Intact(v1) /\ Api!Follows(t)
<1>1. PICK e \in [id : Api!Predictions, last : Nat] : e = Api!NewLine(t)
  OBVIOUS
<1>2. e.id = Api!Wanted(t) /\ e.last = v7[t].last
  BY <1>1 DEF Api!NewLine
<1>3. /\ v1' \in Seq([id : Api!Predictions, last : Nat]) /\ Len(v1) \in Nat
      /\ DOMAIN v1 = 1..Len(v1) /\ DOMAIN v1' = 1..(Len(v1) + 1)
      /\ v1'[Len(v1) + 1] = e /\ \A i \in 1..Len(v1) : v1'[i] = v1[i]
  BY <1>1, AppendFacts
<1>4. Api!Follows(t) <=> e.last = Len(v1) /\ ~\E i \in DOMAIN v1 : v1[i].id = e.id
  BY <1>2 DEF Api!Follows, Api!Occurs
<1>5. ASSUME Api!Intact(v1)' PROVE Api!Intact(v1) /\ Api!Follows(t)
  <2>1. /\ \A i \in DOMAIN v1' : v1'[i].last = i - 1
        /\ \A i, j \in DOMAIN v1' : v1'[i].id = v1'[j].id => i = j
    BY <1>5 DEF Api!Intact
  <2>2. e.last = Len(v1)
    BY <1>3, <2>1
  <2>a. \A i \in DOMAIN v1 : i \in DOMAIN v1' /\ i # Len(v1) + 1 /\ v1'[i] = v1[i]
    BY <1>3
  <2>3. ~\E i \in DOMAIN v1 : v1[i].id = e.id
    <3>1. Len(v1) + 1 \in DOMAIN v1'
      BY <1>3
    <3>2. ASSUME NEW i \in DOMAIN v1, v1[i].id = e.id PROVE FALSE
      <4>1. v1'[i].id = v1'[Len(v1) + 1].id
        BY <1>3, <2>a, <3>2
      <4>. QED
        BY <2>1, <2>a, <3>1, <4>1
    <3>. QED
      BY <3>2
  <2>4. Api!Intact(v1)
    <3>1. \A i \in DOMAIN v1 : v1[i].last = i - 1
      BY <2>1, <2>a
    <3>2. \A i, j \in DOMAIN v1 : v1[i].id = v1[j].id => i = j
      BY <2>1, <2>a
    <3>. QED
      BY <3>1, <3>2 DEF Api!Intact
  <2>. QED
    BY <1>4, <2>2, <2>3, <2>4
<1>6. ASSUME Api!Intact(v1), Api!Follows(t) PROVE Api!Intact(v1)'
  <2>1. /\ \A i \in DOMAIN v1 : v1[i].last = i - 1
        /\ \A i, j \in DOMAIN v1 : v1[i].id = v1[j].id => i = j
    BY <1>6 DEF Api!Intact
  <2>2. \A i \in DOMAIN v1' : v1'[i].last = i - 1
    BY <1>3, <1>4, <1>6, <2>1
  <2>3. \A i, j \in DOMAIN v1' : v1'[i].id = v1'[j].id => i = j
    BY <1>3, <1>4, <1>6, <2>1
  <2>. QED
    BY <2>2, <2>3 DEF Api!Intact
<1>. QED
  BY <1>5, <1>6

\* What an append has written, and what it notes for the other threads
Written(t, to) ==
  /\ v5[t] = "append" /\ v5' = [v5 EXCEPT ![t] = to] /\ v6' = v6
  /\ \/ v1' = v1 /\ v2' = TRUE /\ to = "finish"
     \/ v1' = Append(v1, Api!NewLine(t)) /\ v2' = (v2 \/ v3)
  /\ v3' \in BOOLEAN /\ v7' = Api!Noted(t) /\ UNCHANGED <<v4, v9>>

\* The line to be written, in its type
LEMMA LineWritten ==
  ASSUME Api!AnswersInv, NEW t \in ApiThreads, v5[t] = "append"
  PROVE  /\ Api!NewLine(t) \in [id : Api!Predictions, last : Nat]
         /\ v6[t] \in DOMAIN Api!Plan /\ v7[t].next \in DOMAIN Api!Plan[v6[t]]
         /\ DOMAIN Api!Plan[v6[t]] \subseteq Nat
<1>1. v7[t] \in Api!Memory /\ Api!Running(t)
  BY DEF Api!AnswersInv, Api!TypeOK
<1>2. v6[t] \in DOMAIN Api!Plan /\ Api!Left(t)
  BY <1>1 DEF Api!Running, Api!RunSteps, Api!Progress
<1>3. v7[t].next \in Nat \ {0} /\ v7[t].last \in Nat
  BY <1>1 DEF Api!Memory
<1>4. /\ v7[t].next \in DOMAIN Api!Plan[v6[t]] /\ DOMAIN Api!Plan[v6[t]] \subseteq Nat
      /\ Api!Wanted(t) \in Api!Predictions
  BY <1>2, <1>3, PlanFacts DEF Api!Left, Api!Wanted
<1>. QED
  BY <1>2, <1>3, <1>4 DEF Api!NewLine

LEMMA NotedFields ==
  ASSUME Api!AnswersInv, NEW t \in ApiThreads, v7' = Api!Noted(t), NEW u \in ApiThreads
  PROVE  /\ v7' \in [ApiThreads -> Api!Memory]
         /\ v7'[u].count = v7[u].count
         /\ v7'[u].next = IF u = t THEN v7[u].next + 1 ELSE v7[u].next
         /\ v7'[u].torn <=> (v7[u].torn \/ v5[u] = "hash")
         /\ v7'[u].forked <=> (v7[u].forked \/ (v5[u] \in {"count", "hash"} /\ ~Api!Follows(t)))
<1>1. v7 \in [ApiThreads -> Api!Memory]
  BY DEF Api!AnswersInv, Api!TypeOK
<1>2. ASSUME NEW w \in ApiThreads
      PROVE  /\ v7'[w] \in Api!Memory
             /\ v7'[w].count = v7[w].count
             /\ v7'[w].next = IF w = t THEN v7[w].next + 1 ELSE v7[w].next
             /\ v7'[w].torn = (v7[w].torn \/ v5[w] = "hash")
             /\ v7'[w].forked = (v7[w].forked \/ (v5[w] \in {"count", "hash"} /\ ~Api!Follows(t)))
  <2>1. v7[w] \in Api!Memory
    BY <1>1
  <2>2. PICK a \in BOOLEAN : a = (v7[w].torn \/ v5[w] = "hash")
    OBVIOUS
  <2>3. PICK b \in BOOLEAN :
          b = (v7[w].forked \/ (v5[w] \in {"count", "hash"} /\ ~Api!Follows(t)))
    OBVIOUS
  <2>4. PICK n \in Nat \ {0} : n = IF w = t THEN v7[w].next + 1 ELSE v7[w].next
    BY <2>1 DEF Api!Memory
  <2>5. v7'[w] = [v7[w] EXCEPT !.torn = a, !.forked = b, !.next = n]
    BY <2>2, <2>3, <2>4 DEF Api!Noted
  <2>6. [v7[w] EXCEPT !.torn = a, !.forked = b, !.next = n] \in Api!Memory
    BY <2>1 DEF Api!Memory
  <2>7. /\ v7'[w].count = v7[w].count /\ v7'[w].next = n /\ v7'[w].torn = a
        /\ v7'[w].forked = b
    BY <2>1, <2>5 DEF Api!Memory
  <2>. QED
    BY <2>2, <2>3, <2>4, <2>5, <2>6, <2>7
<1>3. v7' \in [ApiThreads -> Api!Memory]
  BY <1>2 DEF Api!Noted
<1>. QED
  BY <1>2, <1>3

LEMMA WriteKeeps ==
  ASSUME Api!AnswersInv, NEW t \in ApiThreads, NEW to \in {"verify", "finish"}, Written(t, to),
         NEW r, v8' = [v8 EXCEPT ![t] = r], to = "finish" => r.code # "ok",
         to = "verify" => v8' = v8
  PROVE  Api!AnswersInv'
<1>a. Api!TypeOK /\ Api!Running(t)
  BY DEF Api!AnswersInv
<1>b. v5[t] = "append" /\ v6' = v6 /\ UNCHANGED <<v4, v9>> /\ v5' = [v5 EXCEPT ![t] = to]
  BY DEF Written
<1>c. v1 \in Seq([id : Api!Predictions, last : Nat])
  BY <1>a DEF Api!TypeOK
<1>d. Api!NewLine(t) \in [id : Api!Predictions, last : Nat]
  BY <1>b, LineWritten
<1>0. PICK p : p = Api!Wanted(t)
  OBVIOUS
<1>1. \/ v1' = v1 /\ v2' = TRUE /\ to = "finish"
      \/ /\ v1' = Append(v1, Api!NewLine(t)) /\ v2' = (v2 \/ v3)
         /\ Len(v1') = Len(v1) + 1 /\ Api!Occurs(p)'
         /\ Api!Intact(v1)' <=> Api!Intact(v1) /\ Api!Follows(t)
  <2>1. CASE v1' = Append(v1, Api!NewLine(t)) /\ v2' = (v2 \/ v3)
    <3>1. /\ Len(v1) \in Nat /\ Len(v1') = Len(v1) + 1 /\ DOMAIN v1' = 1..(Len(v1) + 1)
          /\ v1'[Len(v1) + 1] = Api!NewLine(t)
      BY <1>c, <1>d, <2>1, AppendFacts
    <3>3. v1'[Len(v1) + 1].id = p /\ Len(v1) + 1 \in DOMAIN v1'
      BY <1>0, <3>1 DEF Api!NewLine
    <3>4. Api!Occurs(p)'
      BY <3>3 DEF Api!Occurs
    <3>. QED
      BY <1>c, <1>d, <2>1, <3>1, <3>4, IntactAppend
  <2>. QED
    BY <2>1 DEF Written
<1>2. v1' \in Seq([id : Api!Predictions, last : Nat]) /\ v2' \in BOOLEAN /\ Len(v1) \in Nat
  <2>1. CASE v1' = Append(v1, Api!NewLine(t)) /\ v2' = (v2 \/ v3)
    BY <1>a, <1>c, <1>d, <2>1, AppendFacts DEF Api!TypeOK
  <2>2. CASE v1' = v1 /\ v2' = TRUE
    BY <1>c, <2>2
  <2>. QED
    BY <1>1, <2>1, <2>2
<1>3. \A q : Api!Occurs(q) => Api!Occurs(q)'
  <2>1. \A i \in DOMAIN v1 : i \in DOMAIN v1' /\ v1'[i] = v1[i]
    <3>1. CASE v1' = Append(v1, Api!NewLine(t))
      <4>1. /\ DOMAIN v1 = 1..Len(v1) /\ DOMAIN v1' = 1..(Len(v1) + 1) /\ Len(v1) \in Nat
            /\ \A i \in 1..Len(v1) : v1'[i] = v1[i]
        BY <1>c, <1>d, <3>1, AppendFacts
      <4>. QED
        BY <4>1
    <3>. QED
      BY <1>1, <3>1
  <2>. QED
    BY <2>1 DEF Api!Occurs
<1>4. \A line, a : Api!Accountable(line, a) => Api!Accountable(line, a)'
  BY <1>3 DEF Api!Accountable
<1>5. Api!TypeOK'
  <2>1. v3' \in BOOLEAN /\ v7' = Api!Noted(t)
    BY DEF Written
  <2>2. v7' \in [ApiThreads -> Api!Memory]
    BY <2>1, NotedFields
  <2>3. v5' \in [ApiThreads -> Api!RunSteps \union {"idle", "dispatch", "hash", "finish", "send"}]
    BY <1>a, <1>b DEF Api!TypeOK, Api!RunSteps
  <2>4. v6' = [u \in ApiThreads |-> v6'[u]] /\ v8' = [u \in ApiThreads |-> v8'[u]]
    BY <1>a, <1>b DEF Api!TypeOK
  <2>. QED
    BY <1>2, <2>1, <2>2, <2>3, <2>4 DEF Api!TypeOK
<1>6. ASSUME NEW u \in ApiThreads PROVE Api!Answered(u)'
  <2>1. PICK line, a : line = Api!Line(u)' /\ a = v8'[u]
    OBVIOUS
  <2>2. CASE u = t
    <3>1. v5'[u] = to
      BY <1>a, <1>b, <2>2 DEF Api!TypeOK
    <3>2. line.status = a.status
      BY <2>1 DEF Api!Line
    <3>3. to = "finish" => a = r
      BY <1>a, <2>1, <2>2 DEF Api!TypeOK
    <3>4. to = "finish" => Api!Accountable(line, a)'
      BY <3>2, <3>3 DEF Api!Accountable
    <3>5. to = "finish" => Api!Accountable(Api!Line(u), v8[u])'
      BY <2>1, <3>4
    <3>. QED
      BY <3>1, <3>5 DEF Api!Answered
  <2>3. CASE u # t
    <3>1. /\ v5'[u] = v5[u] /\ v8'[u] = v8[u] /\ Api!Line(u)' = Api!Line(u) /\ Api!Answered(u)
      BY <1>a, <1>b, <2>3 DEF Api!TypeOK, Api!Line, Api!AnswersInv
    <3>2. v5[u] \in {"finish", "send"} => Api!Accountable(line, a)'
      BY <1>4, <2>1, <3>1 DEF Api!Answered
    <3>3. v5'[u] \in {"finish", "send"} => Api!Accountable(Api!Line(u), v8[u])'
      BY <2>1, <3>1, <3>2
    <3>4. v5'[u] = "send" => Api!Line(u)' \in v4'
      BY <1>b, <3>1 DEF Api!Answered
    <3>. QED
      BY <3>3, <3>4 DEF Api!Answered
  <2>. QED
    BY <2>2, <2>3
<1>7. ASSUME NEW u \in ApiThreads PROVE Api!Running(u)'
  <2>1. /\ v7'[u].count = v7[u].count
        /\ v7'[u].next = IF u = t THEN v7[u].next + 1 ELSE v7[u].next
        /\ v7'[u].torn <=> (v7[u].torn \/ v5[u] = "hash")
        /\ v7'[u].forked <=> (v7[u].forked \/ (v5[u] \in {"count", "hash"} /\ ~Api!Follows(t)))
    <3>1. v7' = Api!Noted(t)
      BY DEF Written
    <3>. QED
      BY <3>1, NotedFields
  <2>2. v7[u] \in Api!Memory /\ Api!Running(u) /\ v7[u].count \in Nat /\ v7[u].next \in Nat
    BY <1>a DEF Api!AnswersInv, Api!TypeOK, Api!Memory
  <2>3. CASE u = t
    <3>1. v5'[u] = to /\ ~v7'[u].torn /\ ~v7'[u].forked
      BY <1>a, <1>b, <2>1, <2>3 DEF Api!TypeOK, Api!Running
    <3>2. to = "verify" => Api!Progress(u)'
      <4>. SUFFICES ASSUME to = "verify" PROVE Api!Progress(u)'
        OBVIOUS
      <4>1. Api!Progress(t)
        BY <1>a, <1>b DEF Api!Running, Api!RunSteps
      <4>2. v6[t] \in DOMAIN Api!Plan /\ DOMAIN Api!Plan[v6[t]] \subseteq Nat
        BY <1>b, LineWritten
      <4>3. Api!Occurs(p)'
        BY <1>1
      <4>. QED
        BY <1>3, <1>b, <2>1, <2>2, <2>3, <1>0, <4>1, <4>2, <4>3 DEF Api!Progress, Api!Wanted
    <3>. QED
      BY <3>1, <3>2 DEF Api!Running, Api!RunSteps
  <2>4. CASE u # t
    <3>1. v5'[u] = v5[u] /\ v6'[u] = v6[u] /\ v7'[u].next = v7[u].next
      BY <1>a, <1>b, <2>1, <2>4 DEF Api!TypeOK
    <3>2. Api!Progress(u) => Api!Progress(u)'
      BY <1>3, <3>1 DEF Api!Progress
    <3>3. Api!Left(u)' <=> Api!Left(u)
      BY <3>1 DEF Api!Left
    <3>4. v5'[u] = "count" /\ ~v2' => (Api!Intact(v1)' <=> ~v7'[u].forked)
      BY <1>1, <2>1, <2>2, <3>1 DEF Api!Running
    <3>5. v5'[u] = "hash" =>
            /\ ~(v7'[u].count = Len(v1') /\ ~v2') /\ v7'[u].torn
            /\ v7'[u].count <= Len(v1')
      BY <1>1, <1>2, <2>1, <2>2, <3>1 DEF Api!Running
    <3>. QED
      BY <2>1, <2>2, <3>1, <3>2, <3>3, <3>4, <3>5 DEF Api!Running
  <2>. QED
    BY <2>3, <2>4
<1>8. \A s \in v9' : s.line \in v4' /\ Api!Accountable(s.line, s.answer)'
  BY <1>4, <1>b DEF Api!AnswersInv
<1>. QED
  BY <1>5, <1>6, <1>7, <1>8 DEF Api!AnswersInv

LEMMA AppendKeeps ==
  ASSUME Api!AnswersInv, NEW t \in ApiThreads, Api!AppendLine(t) \/ Api!CutAppend(t)
  PROVE  Api!AnswersInv'
<1>. USE DEF Api!Go, Api!others
<1>1. v3' \in BOOLEAN
  BY DEF Api!AppendLine, Api!CutAppend
<1>2. v8 = [v8 EXCEPT ![t] = v8[t]]
  BY DEF Api!AnswersInv, Api!TypeOK
<1>3. CASE Api!AppendLine(t)
  <2>1. Written(t, "verify") /\ v8' = v8
    BY <1>1, <1>3 DEF Written, Api!AppendLine
  <2>. QED
    BY <1>2, <2>1, WriteKeeps
<1>4. CASE Api!CutAppend(t)
  <2>1. PICK r : r = Api!Failure("blocked_provenance")
    OBVIOUS
  <2>2. Written(t, "finish") /\ v8' = [v8 EXCEPT ![t] = r]
    BY <1>1, <1>4, <2>1 DEF Written, Api!CutAppend
  <2>3. r.code # "ok"
    BY <2>1, CodesNotOk
  <2>. QED
    BY <2>2, <2>3, WriteKeeps
<1>. QED
  BY <1>3, <1>4

(***************************************************************************)
(* Answers                                                                 *)
(***************************************************************************)
\* A thread that comes to its answer
LEMMA ReadyKeeps ==
  ASSUME Api!AnswersInv, NEW t \in ApiThreads, v5' = [v5 EXCEPT ![t] = "finish"],
         NEW result, Api!Ready(t, result), UNCHANGED <<v1, v2, v3>>,
         Api!Accountable([request |-> v6[t], status |-> result.status, code |-> result.code], result)
  PROVE  Api!AnswersInv'
<1>1. v8' = [v8 EXCEPT ![t] = result] /\ UNCHANGED <<v4, v6, v7, v9>>
  BY DEF Api!Ready, Api!others
<1>2. Api!TypeOK
  BY DEF Api!AnswersInv
<1>3. Api!TypeOK'
  BY <1>1, <1>2 DEF Api!TypeOK
<1>4. v5'[t] = "finish" /\ v8'[t] = result
  BY <1>1, <1>2 DEF Api!TypeOK
<1>5. Api!Answered(t)'
  BY <1>1, <1>4 DEF Api!Answered, Api!Line, Api!Accountable, Api!Occurs
<1>6. Api!Running(t)'
  BY <1>4 DEF Api!Running, Api!RunSteps
<1>7. \A u \in ApiThreads \ {t} : v5'[u] = v5[u] /\ v8'[u] = v8[u]
  BY <1>1, <1>2 DEF Api!TypeOK
<1>. QED
  BY <1>1, <1>3, <1>5, <1>6, <1>7, ThreadStep

LEMMA DispatchKeeps ==
  ASSUME Api!AnswersInv, NEW t \in ApiThreads, Api!Dispatch(t) \/ Api!RunFails(t)
  PROVE  Api!AnswersInv'
<1>1. PICK result : Api!Ready(t, result) /\ result.code # "ok"
  <2>1. \A code : Api!Failure(code).code = code
    BY CodesNotOk
  <2>2. PICK ok : ok = [status |-> 200, code |-> "read"]
    OBVIOUS
  <2>3. ok.code # "ok"
    BY <2>2
  <2>4. CASE Api!Ready(t, ok)
    BY <2>3, <2>4
  <2>5. CASE ~Api!Ready(t, ok)
    BY <2>1, <2>2, <2>5, CodesNotOk DEF Api!Dispatch, Api!RunFails
  <2>. QED
    BY <2>4, <2>5
<1>2. v5' = [v5 EXCEPT ![t] = "finish"] /\ UNCHANGED <<v1, v2, v3>>
  BY DEF Api!Dispatch, Api!RunFails, Api!Go, Api!file
<1>. QED
  BY <1>1, <1>2, FailureAccountable, ReadyKeeps

LEMMA RespondKeepsApi ==
  ASSUME Api!AnswersInv, NEW t \in ApiThreads, Api!Respond(t)
  PROVE  Api!AnswersInv'
<1>1. v5' = [v5 EXCEPT ![t] = "finish"] /\ UNCHANGED <<v1, v2, v3>> /\ v5[t] = "hash"
  BY DEF Api!Respond, Api!Go, Api!file
<1>2. Api!Running(t) /\ v7[t] \in Api!Memory /\ Len(v1) \in Nat
  BY DEF Api!AnswersInv, Api!TypeOK
<1>3. CASE Api!Ready(t, Api!Failure("invalid_request"))
  BY <1>1, <1>3, CodesNotOk, FailureAccountable, ReadyKeeps
<1>4. CASE Api!Ready(t, Api!Response(t))
  <2>1. PICK a : a = Api!Response(t)
    OBVIOUS
  <2>2. /\ a.count = v7[t].count /\ a.hash.lines = v1 /\ a.hash.cut = v2
        /\ a.torn = v7[t].torn /\ a.forked = v7[t].forked
    BY <2>1 DEF Api!Response, Api!Text
  <2>3. v7[t].torn \in BOOLEAN /\ v7[t].forked \in BOOLEAN /\ v7[t].next \in Nat \ {0}
    BY <1>2 DEF Api!Memory
  <2>4. v6[t] \in DOMAIN Api!Plan /\ \A p \in Api!Promised(v6[t]) : Api!Occurs(p)
    <3>1. Api!Progress(t) /\ ~Api!Left(t)
      BY <1>1, <1>2 DEF Api!Running, Api!RunSteps
    <3>2. v6[t] \in DOMAIN Api!Plan
          /\ \A i \in DOMAIN Api!Plan[v6[t]] : i < v7[t].next => Api!Occurs(Api!Plan[v6[t]][i])
      BY <3>1 DEF Api!Progress
    <3>3. \A i \in DOMAIN Api!Plan[v6[t]] : i < v7[t].next
      BY <2>3, <3>1, <3>2, PlanFacts DEF Api!Left
    <3>. QED
      BY <3>2, <3>3, PlanFacts
  <2>5. /\ (a.count = Len(a.hash.lines) /\ ~a.hash.cut) <=> ~a.torn
        /\ ~a.torn => (Api!Intact(a.hash.lines) <=> ~a.forked)
    BY <1>1, <1>2, <2>2 DEF Api!Running
  <2>6. PICK line : line = [request |-> v6[t], status |-> a.status, code |-> a.code]
    OBVIOUS
  <2>7. line.status = a.status /\ line.request = v6[t]
    BY <2>6
  <2>8. Api!Accountable(line, a)
    BY <2>2, <2>3, <2>4, <2>5, <2>7 DEF Api!Accountable
  <2>. QED
    BY <1>1, <1>4, <2>1, <2>6, <2>8, ReadyKeeps
<1>. QED
  BY <1>3, <1>4 DEF Api!Respond

LEMMA SendKeeps ==
  ASSUME Api!AnswersInv, NEW t \in ApiThreads, Api!Audit(t) \/ Api!Send(t)
  PROVE  Api!AnswersInv'
<1>. USE DEF Api!file
<1>a. Api!TypeOK /\ Api!Answered(t)
  BY DEF Api!AnswersInv
<1>1. CASE Api!Audit(t)
  <2>1. /\ v5[t] = "finish" /\ v5' = [v5 EXCEPT ![t] = "send"] /\ v4' = v4 \union {Api!Line(t)}
        /\ UNCHANGED <<v1, v2, v3, v6, v7, v8, v9>>
    BY <1>1 DEF Api!Audit, Api!Go
  <2>2. Api!TypeOK' /\ v5'[t] = "send" /\ \A u \in ApiThreads \ {t} : v5'[u] = v5[u]
    BY <1>a, <2>1 DEF Api!TypeOK
  <2>3. Api!Answered(t)'
    BY <1>a, <2>1, <2>2 DEF Api!Answered, Api!Line, Api!Accountable, Api!Occurs
  <2>4. Api!Running(t)'
    BY <2>2 DEF Api!Running, Api!RunSteps
  <2>. QED
    BY <2>1, <2>2, <2>3, <2>4, ThreadStep
<1>2. CASE Api!Send(t)
  <2>1. PICK s : s = [line |-> Api!Line(t), answer |-> v8[t]]
    OBVIOUS
  <2>2. /\ v5[t] = "send" /\ v5' = [v5 EXCEPT ![t] = "idle"]
        /\ v6' = [v6 EXCEPT ![t] = "read"] /\ v8' = [v8 EXCEPT ![t] = Api!NoAnswer]
        /\ v7' = [v7 EXCEPT ![t] = Api!NoMemory] /\ v9' = v9 \union {s}
        /\ UNCHANGED <<v1, v2, v3, v4>>
    BY <1>2, <2>1 DEF Api!Send, Api!Go
  <2>3. s.line = Api!Line(t) /\ s.answer = v8[t]
    BY <2>1
  <2>4. Api!NoMemory \in Api!Memory /\ ~Api!NoMemory.torn /\ ~Api!NoMemory.forked
        /\ Api!NoMemory.next = 1
    BY DEF Api!NoMemory, Api!Memory
  <2>5. Api!TypeOK' /\ v5'[t] = "idle" /\ v7'[t] = Api!NoMemory
        /\ \A u \in ApiThreads \ {t} :
             v5'[u] = v5[u] /\ v6'[u] = v6[u] /\ v7'[u] = v7[u] /\ v8'[u] = v8[u]
    BY <1>a, <2>2, <2>4 DEF Api!TypeOK
  <2>6. Api!Answered(t)' /\ Api!Running(t)'
    BY <2>4, <2>5 DEF Api!Answered, Api!Running, Api!RunSteps
  <2>7. s.line \in v4' /\ Api!Accountable(s.line, s.answer)
    BY <1>a, <2>2, <2>3 DEF Api!Answered
  <2>. QED
    BY <2>2, <2>5, <2>6, <2>7, ThreadStep
<1>. QED
  BY <1>1, <1>2

LEMMA AnswersNext == Api!AnswersInv /\ [Api!Next]_(Api!vars) => Api!AnswersInv'
<1>. SUFFICES ASSUME Api!AnswersInv, [Api!Next]_(Api!vars) PROVE Api!AnswersInv'
  OBVIOUS
<1>1. CASE UNCHANGED Api!vars
  BY <1>1 DEF Api!vars, Api!AnswersInv, Api!TypeOK, Api!Answered, Api!Running, Api!Line,
              Api!Accountable, Api!Occurs, Api!Progress, Api!Left
<1>2. CASE Api!Die
  <2>1. /\ v5' = [t \in ApiThreads |-> "idle"] /\ v7' = [t \in ApiThreads |-> Api!NoMemory]
        /\ v6' = [t \in ApiThreads |-> "read"] /\ v8' = [t \in ApiThreads |-> Api!NoAnswer]
        /\ UNCHANGED <<v1, v2, v3, v4, v9>>
    BY <1>2 DEF Api!Die, Api!file
  <2>2. Api!NoMemory \in Api!Memory /\ ~Api!NoMemory.torn /\ ~Api!NoMemory.forked
        /\ Api!NoMemory.next = 1
    BY DEF Api!NoMemory, Api!Memory
  <2>3. Api!TypeOK'
    BY <2>1, <2>2 DEF Api!AnswersInv, Api!TypeOK
  <2>4. \A t \in ApiThreads : Api!Answered(t)' /\ Api!Running(t)'
    BY <2>1, <2>2 DEF Api!Answered, Api!Running, Api!RunSteps
  <2>5. \A s \in v9' : s.line \in v4' /\ Api!Accountable(s.line, s.answer)'
    BY <2>1 DEF Api!AnswersInv, Api!Accountable, Api!Occurs
  <2>. QED
    BY <2>3, <2>4, <2>5 DEF Api!AnswersInv
<1>. QED
  BY <1>1, <1>2, RequestKeeps, ReadKeeps, AppendKeeps, DispatchKeeps, RespondKeepsApi, SendKeeps
  DEF Api!Next

\* An answer that was sent is in the audit; its predictions are in the ledger; and it
\* validates until the ledger is written to, unless since the last verification of its
\* run another thread tore its count from its hash, or forked the ledger.
THEOREM AnswersAccountableHolds == LabSpec => []AnswersAccountable
<1>. DEFINE Inv == lab = "api" => Api!AnswersInv
<1>1. LabInit => Inv
  BY AnswersInit DEF LabInit
<1>2. Inv /\ [LabNext]_labvars => Inv'
  BY AnswersNext, StepOfPart
<1>3. ASSUME Inv PROVE AnswersAccountable
  <2>. SUFFICES ASSUME Api!AnswersInv, NEW s \in v9, s.answer.code = "ok",
                       Api!Accountable(s.line, s.answer)
                PROVE  Api!Validates(s.line.request, s.answer) <=>
                         s.answer.hash = Api!Text /\ ~s.answer.torn /\ ~s.answer.forked
    BY <1>3 DEF AnswersAccountable, Api!AnswersAccountable, Api!AnswersInv, Api!Accountable
  <2>1. s.answer.hash = Api!Text => s.answer.hash.lines = v1 /\ (s.answer.hash.cut <=> v2)
    BY DEF Api!Text
  <2>2. Api!Promised(s.line.request) \subseteq {v1[i].id : i \in DOMAIN v1}
    BY DEF Api!Accountable, Api!Occurs
  <2>3. s.answer.hash = Api!Text =>
          /\ (s.answer.count = Len(v1) /\ ~v2) <=> ~s.answer.torn
          /\ ~s.answer.torn => (Api!Intact(v1) <=> ~s.answer.forked)
    BY <2>1 DEF Api!Accountable
  <2>. QED
    BY <2>2, <2>3 DEF Api!Validates
<1>. QED
  BY <1>1, <1>2, <1>3, PTL DEF LabSpec

(***************************************************************************)
(* The prediction ledger: v1 ledger, v2 generation, v3 proc, v4 runs,       *)
(* v5 errors                                                               *)
(***************************************************************************)
LEMMA SequenceGrows ==
  ASSUME NEW L, Led!IsSequence(L), NEW e, NEW M, M = Append(L, e)
  PROVE  /\ Led!IsSequence(M) /\ Len(L) \in Nat /\ Len(M) = Len(L) + 1 /\ M[Len(L) + 1] = e
         /\ DOMAIN L = 1..Len(L) /\ DOMAIN M = 1..(Len(L) + 1)
         /\ \A i \in 1..Len(L) : M[i] = L[i]
<1>. DEFINE S == {L[i] : i \in DOMAIN L}
            T == S \union {e}
<1>1. L \in Seq(S)
  BY DEF Led!IsSequence
<1>2. L \in Seq(T) /\ e \in T
  <2>1. DOMAIN L = 1..Len(L) /\ Len(L) \in Nat /\ \A i \in 1..Len(L) : L[i] \in S
    BY <1>1
  <2>. QED
    BY <1>1, <2>1
<1>3. /\ M \in Seq(T) /\ Len(M) = Len(L) + 1 /\ M[Len(L) + 1] = e /\ Len(L) \in Nat
      /\ DOMAIN L = 1..Len(L) /\ DOMAIN M = 1..(Len(L) + 1)
      /\ \A i \in 1..Len(L) : M[i] = L[i]
  <2>. HIDE DEF T
  <2>. QED
    BY <1>2, AppendFacts
<1>4. Led!IsSequence(M)
  <2>. DEFINE R == {M[i] : i \in DOMAIN M}
  <2>1. Len(M) \in Nat /\ DOMAIN M = 1..Len(M)
    BY <1>3
  <2>2. M = [i \in 1..Len(M) |-> M[i]]
    BY <1>3, <2>1, LenProperties
  <2>3. \A i \in 1..Len(M) : M[i] \in R
    BY <2>1
  <2>4. M \in Seq(R)
    <3>. HIDE DEF R
    <3>1. M \in [1..Len(M) -> R]
      BY <2>2, <2>3
    <3>. QED
      BY <2>1, <3>1, SeqDef
  <2>. QED
    BY <2>4 DEF Led!IsSequence
<1>. QED
  BY <1>3, <1>4

LEMMA LedgerInit == Led!Init => Led!LedgerInv
<1>. SUFFICES ASSUME Led!Init PROVE Led!LedgerInv
  OBVIOUS
<1>1. v1 = <<>> /\ DOMAIN v1 = {} /\ Led!IsSequence(v1)
  BY DEF Led!Init, Led!IsSequence
<1>. QED
  BY <1>1 DEF Led!Init, Led!LedgerInv, Led!TypeOK, Led!Of

\* A process that goes on without touching the ledger
LEMMA LocalStep ==
  ASSUME Led!LedgerInv, NEW p \in LedgerProcesses, NEW q, Led!Goes(p, q),
         UNCHANGED <<v1, v2>>, q = Led!Idle \/ (Led!IsScript(q) /\ Led!SearchSound(q))
  PROVE  Led!LedgerInv'
<1>1. v3' = [v3 EXCEPT ![p] = q] /\ v3 = [r \in LedgerProcesses |-> v3[r]]
  BY DEF Led!Goes, Led!LedgerInv, Led!TypeOK
<1>2. \A r \in LedgerProcesses : v3'[r] = IF r = p THEN q ELSE v3[r]
  BY <1>1
<1>3. Led!TypeOK'
  <2>1. v3' = [r \in LedgerProcesses |-> v3'[r]]
    BY <1>1
  <2>. QED
    BY <1>2, <2>1 DEF Led!LedgerInv, Led!TypeOK
<1>4. \A i \in Led!Of(v1, "outcome")' : Led!OutcomeSound(i)'
  BY DEF Led!LedgerInv, Led!Of, Led!OutcomeSound, Led!Earlier
<1>5. ASSUME NEW r \in LedgerProcesses, v3'[r] # Led!Idle PROVE Led!SearchSound(v3[r])'
  <2>1. PICK x : x = v3'[r]
    OBVIOUS
  <2>2. Led!SearchSound(x)
    BY <1>2, <1>5, <2>1 DEF Led!LedgerInv
  <2>3. Led!SearchSound(x)'
    BY <2>2 DEF Led!SearchSound, Led!Of, Led!Has
  <2>. QED
    BY <2>1, <2>3
<1>. QED
  BY <1>3, <1>4, <1>5 DEF Led!LedgerInv

\* An entry appended to the same file takes nothing from what was known of it.
LEMMA SearchGrows ==
  ASSUME Led!LedgerInv, NEW e, v1' = Append(v1, e), v2' = v2, NEW q, Led!SearchSound(q)
  PROVE  Led!SearchSound(q)'
<1>1. /\ Len(v1) \in Nat /\ Len(v1') = Len(v1) + 1
      /\ DOMAIN v1 = 1..Len(v1) /\ DOMAIN v1' = 1..(Len(v1) + 1)
      /\ \A i \in 1..Len(v1) : v1'[i] = v1[i]
  BY SequenceGrows DEF Led!LedgerInv, Led!TypeOK
<1>. SUFFICES ASSUME q.script = "reveal", q.pc \in {"look", "verify", "link", "append"},
                     q.checked \in Nat \X Nat, q.checked[1] <= v2, q.checked[1] = v2
              PROVE  /\ q.checked[2] <= Len(v1')
                     /\ \A j \in Led!Of(v1', "outcome") :
                          v1'[j].id = Head(q.todo) => j > q.checked[2]
                     /\ q.pc # "look" => Led!Has(v1', "prediction", Head(q.todo))
  BY DEF Led!SearchSound, Led!Of, Led!Has
<1>2. /\ q.checked[2] \in Nat /\ q.checked[2] <= Len(v1)
      /\ \A j \in Led!Of(v1, "outcome") : v1[j].id = Head(q.todo) => j > q.checked[2]
      /\ q.pc # "look" => Led!Has(v1, "prediction", Head(q.todo))
  BY DEF Led!SearchSound
<1>3. ASSUME NEW j \in Led!Of(v1', "outcome"), v1'[j].id = Head(q.todo) PROVE j > q.checked[2]
  <2>1. CASE j = Len(v1) + 1
    BY <1>1, <1>2, <2>1
  <2>2. CASE j \in 1..Len(v1)
    BY <1>1, <1>2, <1>3, <2>2 DEF Led!Of
  <2>. QED
    BY <1>1, <2>1, <2>2 DEF Led!Of
<1>4. ASSUME NEW id, Led!Has(v1, "prediction", id) PROVE Led!Has(v1', "prediction", id)
  BY <1>1, <1>4 DEF Led!Has, Led!Of
<1>5. q.checked[2] <= Len(v1')
  BY <1>1, <1>2
<1>. QED
  BY <1>2, <1>3, <1>4, <1>5

LEMMA OutcomesGrow ==
  ASSUME Led!LedgerInv, NEW e, v1' = Append(v1, e), v2' = v2,
         e.type = "outcome" =>
           /\ e.checked \in Nat \X Nat /\ e.checked[1] <= v2
           /\ e.checked[1] = v2 =>
                /\ Led!Has(v1, "prediction", e.id)
                /\ \A j \in Led!Of(v1, "outcome") : v1[j].id = e.id => j > e.checked[2]
  PROVE  \A i \in Led!Of(v1, "outcome")' : Led!OutcomeSound(i)'
<1>1. /\ Len(v1) \in Nat /\ v1'[Len(v1) + 1] = e
      /\ DOMAIN v1 = 1..Len(v1) /\ DOMAIN v1' = 1..(Len(v1) + 1)
      /\ \A i \in 1..Len(v1) : v1'[i] = v1[i]
  BY SequenceGrows DEF Led!LedgerInv, Led!TypeOK
<1>. SUFFICES ASSUME NEW i \in Led!Of(v1, "outcome")' PROVE Led!OutcomeSound(i)'
  OBVIOUS
<1>2. i \in 1..(Len(v1) + 1) /\ v1'[i].type = "outcome"
  BY <1>1 DEF Led!Of
<1>3. CASE i \in 1..Len(v1)
  <2>1. i \in Led!Of(v1, "outcome") /\ v1'[i] = v1[i] /\ Led!OutcomeSound(i)
    BY <1>1, <1>2, <1>3 DEF Led!LedgerInv, Led!Of
  <2>2. \A j \in 1..(i - 1) : j \in 1..Len(v1) /\ v1'[j] = v1[j]
    BY <1>1, <1>3
  <2>3. \A type : Led!Earlier(i, type)' = Led!Earlier(i, type)
    BY <2>1, <2>2 DEF Led!Earlier
  <2>. QED
    BY <2>1, <2>3 DEF Led!OutcomeSound
<1>4. CASE i = Len(v1) + 1
  <2>1. v1'[i] = e /\ e.type = "outcome"
    BY <1>1, <1>2, <1>4
  <2>2. \A j \in 1..(i - 1) : j \in DOMAIN v1 /\ v1'[j] = v1[j]
    BY <1>1, <1>4
  <2>3. \A type : Led!Earlier(i, type)' = {j \in Led!Of(v1, type) : v1[j].id = e.id}
    BY <1>1, <1>4, <2>1, <2>2 DEF Led!Earlier, Led!Of
  <2>4. Led!Has(v1, "prediction", e.id) => Led!Earlier(i, "prediction")' # {}
    BY <2>3 DEF Led!Has
  <2>. QED
    BY <2>1, <2>3, <2>4 DEF Led!OutcomeSound
<1>. QED
  BY <1>2, <1>3, <1>4

\* A step of p that may append an entry
LEMMA AppendStep ==
  ASSUME Led!LedgerInv, NEW p \in LedgerProcesses, NEW q, Led!Goes(p, q), v2' = v2,
         q = Led!Idle \/ (Led!IsScript(q) /\ q.pc = "next"), NEW e, v1' = Append(v1, e),
         e.type = "outcome" =>
           /\ e.checked \in Nat \X Nat /\ e.checked[1] <= v2
           /\ e.checked[1] = v2 =>
                /\ Led!Has(v1, "prediction", e.id)
                /\ \A j \in Led!Of(v1, "outcome") : v1[j].id = e.id => j > e.checked[2]
  PROVE  Led!LedgerInv'
<1>1. v3' = [v3 EXCEPT ![p] = q] /\ v3 = [r \in LedgerProcesses |-> v3[r]]
  BY DEF Led!Goes, Led!LedgerInv, Led!TypeOK
<1>2. \A r \in LedgerProcesses : v3'[r] = IF r = p THEN q ELSE v3[r]
  BY <1>1
<1>3. Led!TypeOK'
  <2>1. v3' = [r \in LedgerProcesses |-> v3'[r]]
    BY <1>1
  <2>2. Led!IsSequence(v1')
    BY SequenceGrows DEF Led!LedgerInv, Led!TypeOK
  <2>. QED
    BY <1>2, <2>1, <2>2 DEF Led!LedgerInv, Led!TypeOK, Led!IsSequence
<1>4. \A i \in Led!Of(v1, "outcome")' : Led!OutcomeSound(i)'
  BY OutcomesGrow
<1>5. ASSUME NEW r \in LedgerProcesses, v3'[r] # Led!Idle PROVE Led!SearchSound(v3[r])'
  <2>1. PICK x : x = v3'[r]
    OBVIOUS
  <2>2. Led!SearchSound(x)
    BY <1>2, <1>5, <2>1 DEF Led!LedgerInv, Led!SearchSound
  <2>3. Led!SearchSound(x)'
    BY <2>2, SearchGrows
  <2>. QED
    BY <2>1, <2>3
<1>. QED
  BY <1>3, <1>4, <1>5 DEF Led!LedgerInv

\* A file that was removed has no outcome, and no process has searched it.
LEMMA StartWriteKeeps ==
  ASSUME Led!LedgerInv, NEW p \in LedgerProcesses, Led!StartWrite(p)
  PROVE  Led!LedgerInv'
<1>1. PICK q : q = Led!Script("write", "next", LedgerMatches)
  OBVIOUS
<1>2. Led!IsScript(q) /\ q.script = "write"
  BY <1>1 DEF Led!Script, Led!IsScript
<1>3. /\ v1' = <<>> /\ v2' = v2 + 1 /\ v2 \in Nat
      /\ v3' = [v3 EXCEPT ![p] = q] /\ v3 = [r \in LedgerProcesses |-> v3[r]]
  BY <1>1 DEF Led!StartWrite, Led!Goes, Led!LedgerInv, Led!TypeOK
<1>4. DOMAIN v1' = {} /\ Led!IsSequence(v1')
  BY <1>3 DEF Led!IsSequence
<1>5. \A r \in LedgerProcesses : v3'[r] = IF r = p THEN q ELSE v3[r]
  BY <1>3
<1>6. Led!TypeOK'
  <2>1. v3' = [r \in LedgerProcesses |-> v3'[r]]
    BY <1>3
  <2>. QED
    BY <1>2, <1>3, <1>4, <1>5, <2>1 DEF Led!LedgerInv, Led!TypeOK, Led!IsSequence
<1>7. ASSUME NEW r \in LedgerProcesses, v3'[r] # Led!Idle PROVE Led!SearchSound(v3[r])'
  <2>1. PICK x : x = v3'[r]
    OBVIOUS
  <2>2. Led!SearchSound(x)
    BY <1>2, <1>5, <1>7, <2>1 DEF Led!LedgerInv, Led!SearchSound
  <2>3. ASSUME x.checked \in Nat \X Nat, x.checked[1] <= v2
        PROVE  x.checked[1] <= v2 + 1 /\ x.checked[1] # v2 + 1
    BY <1>3, <2>3
  <2>4. Led!SearchSound(x)'
    BY <1>3, <2>2, <2>3 DEF Led!SearchSound
  <2>. QED
    BY <2>1, <2>4
<1>. QED
  BY <1>4, <1>6, <1>7 DEF Led!LedgerInv, Led!Of

\* One field of a script's state changes and the others stay.
LEMMA ScriptChange ==
  ASSUME NEW s, Led!IsScript(s), NEW x, NEW q
  PROVE  /\ \/ q = [s EXCEPT !.pc = x] \/ q = [s EXCEPT !.todo = x]
            \/ q = [s EXCEPT !.prev = x] \/ q = [s EXCEPT !.checked = x]
            \/ q = [s EXCEPT !.predictions = x]
            => Led!IsScript(q) /\ q.script = s.script
         /\ q = [s EXCEPT !.pc = x] => q.pc = x /\ q.todo = s.todo /\ q.checked = s.checked
         /\ q = [s EXCEPT !.todo = x] => q.pc = s.pc /\ q.checked = s.checked
         /\ q = [s EXCEPT !.prev = x] => q.pc = s.pc /\ q.todo = s.todo /\ q.checked = s.checked
         /\ q = [s EXCEPT !.checked = x] => q.pc = s.pc /\ q.todo = s.todo /\ q.checked = x
         /\ q = [s EXCEPT !.predictions = x] =>
              q.pc = s.pc /\ q.todo = s.todo /\ q.checked = s.checked
<1>1. PICK f, c, t, pr, ch, v, pd :
         s = [script |-> f, pc |-> c, todo |-> t, prev |-> pr, checked |-> ch, version |-> v,
              predictions |-> pd]
  BY DEF Led!IsScript
<1>0. f \in {"write", "reveal"}
  BY <1>1 DEF Led!IsScript
<1>. DEFINE R(a1, a2, a3, a4, a5) ==
       [script |-> f, pc |-> a1, todo |-> a2, prev |-> a3, checked |-> a4, version |-> v,
        predictions |-> a5]
<1>2. /\ [s EXCEPT !.pc = x] = R(x, t, pr, ch, pd)
      /\ [s EXCEPT !.todo = x] = R(c, x, pr, ch, pd)
      /\ [s EXCEPT !.prev = x] = R(c, t, x, ch, pd)
      /\ [s EXCEPT !.checked = x] = R(c, t, pr, x, pd)
      /\ [s EXCEPT !.predictions = x] = R(c, t, pr, ch, x)
  BY <1>1
<1>3. \A a1, a2, a3, a4, a5 : LET r == R(a1, a2, a3, a4, a5) IN
        Led!IsScript(r) /\ r.script = f /\ r.pc = a1 /\ r.todo = a2 /\ r.checked = a4
  BY <1>0 DEF Led!IsScript
<1>4. s.script = f /\ s.pc = c /\ s.todo = t /\ s.checked = ch
  BY <1>1
<1>. HIDE DEF R
<1>. QED
  BY <1>2, <1>3, <1>4

LEMMA LedgerNext == Led!LedgerInv /\ [Led!Next]_(Led!vars) => Led!LedgerInv'
<1>. SUFFICES ASSUME Led!LedgerInv, [Led!Next]_(Led!vars) PROVE Led!LedgerInv'
  OBVIOUS
<1>1. CASE UNCHANGED Led!vars
  <2>1. v1' = v1 /\ v2' = v2 /\ v3' = v3
    BY <1>1 DEF Led!vars
  <2>2. Led!TypeOK'
    BY <2>1 DEF Led!LedgerInv, Led!TypeOK, Led!IsSequence, Led!IsScript
  <2>3. \A i \in Led!Of(v1, "outcome")' : Led!OutcomeSound(i)'
    BY <2>1 DEF Led!LedgerInv, Led!Of, Led!OutcomeSound, Led!Earlier
  <2>4. \A p \in LedgerProcesses : v3'[p] # Led!Idle => Led!SearchSound(v3[p])'
    BY <2>1 DEF Led!LedgerInv, Led!SearchSound, Led!Has, Led!Of
  <2>. QED
    BY <2>2, <2>3, <2>4 DEF Led!LedgerInv
<1>2. ASSUME NEW p \in LedgerProcesses, Led!Goes(p, Led!Idle), UNCHANGED <<v1, v2>>
      PROVE  Led!LedgerInv'
  BY <1>2, LocalStep
<1>a. \A p \in LedgerProcesses : v3[p].pc # "idle" =>
        v3[p] # Led!Idle /\ Led!IsScript(v3[p]) /\ Led!SearchSound(v3[p])
  BY DEF Led!LedgerInv, Led!TypeOK, Led!Idle
<1>3. ASSUME NEW p \in LedgerProcesses, v3[p].pc # "idle", NEW place, Led!To(p, place),
             \/ place \notin {"look", "verify", "link", "append"}
             \/ Led!Type(p) = "prediction"
             \/ place # "look" /\ v3[p].pc \in {"verify", "link"}
             \/ /\ place = "verify" /\ v3[p].pc = "look"
                /\ Led!Has(v1, "prediction", Led!Id(p))
      PROVE  Led!LedgerInv'
  <2>1. PICK q : q = [v3[p] EXCEPT !.pc = place]
    OBVIOUS
  <2>2. /\ Led!IsScript(q) /\ q.pc = place /\ q.script = v3[p].script /\ q.todo = v3[p].todo
        /\ q.checked = v3[p].checked
    <3>1. Led!IsScript(v3[p])
      BY <1>3, <1>a
    <3>. QED
      BY <2>1, <3>1, ScriptChange
  <2>3. Led!Type(p) = "prediction" => q.script = "write"
    BY <2>2 DEF Led!Type
  <2>4. Led!SearchSound(q)
    BY <1>3, <1>a, <2>2, <2>3 DEF Led!SearchSound, Led!Id
  <2>. QED
    BY <1>3, <2>1, <2>2, <2>4, LocalStep DEF Led!To
<1>4. ASSUME NEW p \in LedgerProcesses,
             Led!Verify(p) \/ Led!Look(p) \/ Led!NextPrediction(p) \/ Led!FinalVerify(p)
      PROVE  Led!LedgerInv'
  <2>1. CASE Led!Fails(p)
    BY <1>2, <2>1 DEF Led!Fails
  <2>2. CASE Led!Verify(p) /\ ~Led!Fails(p)
    <3>1. /\ v3[p].pc = "verify"
          /\ Led!To(p, IF Led!Type(p) = "prediction" THEN "look" ELSE "link")
      BY <2>2 DEF Led!Verify
    <3>2. CASE Led!Type(p) = "prediction"
      BY <1>3, <3>1, <3>2
    <3>3. CASE Led!Type(p) # "prediction"
      BY <1>3, <3>1, <3>3
    <3>. QED
      BY <3>2, <3>3
  <2>3. CASE Led!Look(p) /\ ~Led!Fails(p)
    <3>1. /\ v3[p].pc = "look"
          /\ Led!To(p, IF Led!Type(p) = "prediction" THEN "link" ELSE "verify")
          /\ Led!Has(v1, "prediction", Led!Id(p)) <=> Led!Type(p) = "outcome"
      BY <2>3 DEF Led!Look
    <3>2. CASE Led!Type(p) = "prediction"
      BY <1>3, <3>1, <3>2
    <3>3. CASE Led!Type(p) # "prediction"
      <4>1. Led!Type(p) = "outcome"
        BY <3>3 DEF Led!Type
      <4>. QED
        BY <1>3, <3>1, <3>3, <4>1
    <3>. QED
      BY <3>2, <3>3
  <2>4. CASE Led!NextPrediction(p) /\ ~Led!Fails(p)
    <3>1. v3[p].pc = "next" /\ Led!To(p, "verify") /\ Led!Type(p) = "prediction"
      BY <2>4 DEF Led!NextPrediction, Led!Type
    <3>. QED
      BY <1>3, <3>1
  <2>5. CASE Led!FinalVerify(p) /\ ~Led!Fails(p)
    <3>1. v3[p].pc = "final" /\ Led!To(p, "predictions")
      BY <2>5 DEF Led!FinalVerify
    <3>. QED
      BY <1>3, <3>1
  <2>. QED
    BY <1>4, <2>1, <2>2, <2>3, <2>4, <2>5
<1>5. ASSUME NEW p \in LedgerProcesses, Led!Link(p) PROVE Led!LedgerInv'
  <2>1. CASE Led!Fails(p)
    BY <1>2, <2>1 DEF Led!Fails
  <2>2. CASE ~Led!Fails(p)
    <3>1. PICK q : q = [v3[p] EXCEPT !.pc = "append", !.prev = Led!LastHash(v1)]
      OBVIOUS
    <3>2. v3[p].pc = "link" /\ Led!Goes(p, q) /\ UNCHANGED <<v1, v2>>
      BY <1>5, <2>2, <3>1 DEF Led!Link
    <3>3. /\ Led!IsScript(q) /\ q.pc = "append" /\ q.script = v3[p].script
          /\ q.todo = v3[p].todo /\ q.checked = v3[p].checked
      <4>1. PICK s : s = [v3[p] EXCEPT !.pc = "append"]
        OBVIOUS
      <4>2. q = [s EXCEPT !.prev = Led!LastHash(v1)]
        BY <3>1, <4>1
      <4>3. /\ Led!IsScript(s) /\ s.pc = "append" /\ s.script = v3[p].script
            /\ s.todo = v3[p].todo /\ s.checked = v3[p].checked
        <5>1. Led!IsScript(v3[p])
          BY <1>a, <3>2
        <5>. QED
          BY <4>1, <5>1, ScriptChange
      <4>. QED
        BY <4>2, <4>3, ScriptChange
    <3>4. Led!SearchSound(q)
      BY <1>a, <3>2, <3>3 DEF Led!SearchSound
    <3>. QED
      BY <3>2, <3>3, <3>4, LocalStep
  <2>. QED
    BY <2>1, <2>2
<1>6. ASSUME NEW p \in LedgerProcesses, Led!AppendEntry(p) PROVE Led!LedgerInv'
  <2>1. PICK q : q = [v3[p] EXCEPT !.pc = "next", !.todo = Tail(@)]
    OBVIOUS
  <2>2. PICK e : e = Led!Entry(p)
    OBVIOUS
  <2>3. v3[p].pc = "append" /\ Led!Goes(p, q) /\ v2' = v2 /\ v1' = Led!Written(v1, e)
    BY <1>6, <2>1, <2>2 DEF Led!AppendEntry
  <2>4. Led!IsScript(q) /\ q.pc = "next"
    <3>1. PICK s : s = [v3[p] EXCEPT !.pc = "next"]
      OBVIOUS
    <3>0. PICK t : t = Tail(v3[p].todo)
      OBVIOUS
    <3>2. q = [s EXCEPT !.todo = t]
      BY <2>1, <3>0, <3>1
    <3>3. Led!IsScript(s) /\ s.pc = "next"
      BY <1>a, <2>3, <3>1, ScriptChange
    <3>. QED
      BY <3>2, <3>3, ScriptChange
  <2>5. /\ e.type = Led!Type(p) /\ e.id = Head(v3[p].todo) /\ e.checked = v3[p].checked
    BY <2>2 DEF Led!Entry, Led!Id
  <2>6. CASE v1' = v1
    BY <2>3, <2>4, <2>6, LocalStep DEF Led!SearchSound
  <2>7. CASE v1' = Append(v1, e)
    <3>1. ASSUME e.type = "outcome", v3[p].script = "reveal"
          PROVE  /\ e.checked \in Nat \X Nat /\ e.checked[1] <= v2
                 /\ e.checked[1] = v2 =>
                      /\ Led!Has(v1, "prediction", e.id)
                      /\ \A j \in Led!Of(v1, "outcome") : v1[j].id = e.id => j > e.checked[2]
      BY <1>a, <2>3, <2>5, <3>1 DEF Led!SearchSound
    <3>2. e.type = "outcome" => v3[p].script = "reveal"
      BY <1>a, <2>3, <2>5 DEF Led!Type, Led!IsScript
    <3>. QED
      BY <2>3, <2>4, <2>7, <3>1, <3>2, AppendStep
  <2>. QED
    BY <2>3, <2>6, <2>7 DEF Led!Written
<1>7. ASSUME NEW p \in LedgerProcesses, Led!StartReveal(p) PROVE Led!LedgerInv'
  <2>1. PICK q : Led!Goes(p, q) /\ \E todo : q = Led!Script("reveal", "next", todo)
    BY <1>7 DEF Led!StartReveal
  <2>2. Led!IsScript(q) /\ q.pc = "next"
    BY <2>1 DEF Led!Script, Led!IsScript
  <2>3. UNCHANGED <<v1, v2>>
    BY <1>7 DEF Led!StartReveal
  <2>. QED
    BY <2>1, <2>2, <2>3, LocalStep DEF Led!SearchSound
<1>8. ASSUME NEW p \in LedgerProcesses, Led!NextOutcome(p) PROVE Led!LedgerInv'
  <2>a. v3[p].pc = "next" /\ Led!IsScript(v3[p])
    BY <1>8, <1>a DEF Led!NextOutcome
  <2>1. CASE Led!Fails(p)
    BY <1>2, <2>1 DEF Led!Fails
  <2>2. CASE ~Led!Has(v1, "outcome", Led!Id(p)) /\ Led!Searched(p)
    <3>1. PICK q : q = [v3[p] EXCEPT !.pc = "look", !.checked = <<v2, Len(v1)>>]
      OBVIOUS
    <3>2. Led!Goes(p, q) /\ UNCHANGED <<v1, v2>>
      BY <2>2, <3>1 DEF Led!Searched
    <3>3. /\ Led!IsScript(q) /\ q.pc = "look" /\ q.todo = v3[p].todo
          /\ q.checked = <<v2, Len(v1)>>
      <4>1. PICK s : s = [v3[p] EXCEPT !.pc = "look"]
        OBVIOUS
      <4>0. PICK c : c = <<v2, Len(v1)>>
        OBVIOUS
      <4>2. q = [s EXCEPT !.checked = c]
        BY <3>1, <4>0, <4>1
      <4>3. Led!IsScript(s) /\ s.pc = "look" /\ s.todo = v3[p].todo
        BY <2>a, <4>1, ScriptChange
      <4>4. Led!IsScript(q) /\ q.pc = s.pc /\ q.todo = s.todo /\ q.checked = c
        BY <4>2, <4>3, ScriptChange
      <4>. QED
        BY <4>0, <4>3, <4>4
    <3>4. v2 \in Nat /\ Len(v1) \in Nat
      BY DEF Led!LedgerInv, Led!TypeOK, Led!IsSequence
    <3>5. Led!SearchSound(q)
      BY <2>2, <3>3, <3>4 DEF Led!SearchSound, Led!Has, Led!Id
    <3>. QED
      BY <3>2, <3>3, <3>5, LocalStep
  <2>3. CASE Led!Goes(p, [v3[p] EXCEPT !.todo = Tail(@)]) /\ UNCHANGED <<v1, v2>>
    <3>1. PICK q : q = [v3[p] EXCEPT !.todo = Tail(@)]
      OBVIOUS
    <3>2. Led!IsScript(q) /\ q.pc = "next"
      <4>1. PICK t : t = Tail(v3[p].todo)
        OBVIOUS
      <4>2. q = [v3[p] EXCEPT !.todo = t]
        BY <3>1, <4>1
      <4>. QED
        BY <2>a, <4>2, ScriptChange
    <3>. QED
      BY <2>3, <3>1, <3>2, LocalStep DEF Led!SearchSound
  <2>4. CASE Led!To(p, "final")
    BY <1>3, <2>a, <2>4
  <2>. QED
    BY <1>8, <2>1, <2>2, <2>3, <2>4 DEF Led!NextOutcome
<1>9. ASSUME NEW p \in LedgerProcesses, Led!ReadPredictions(p) \/ Led!Evaluate(p)
      PROVE  Led!LedgerInv'
  <2>1. CASE Led!Goes(p, Led!Idle)
    <3>1. UNCHANGED <<v1, v2>>
      BY <1>9 DEF Led!ReadPredictions, Led!Evaluate, Led!Fails
    <3>. QED
      BY <1>2, <2>1, <3>1
  <2>2. CASE Led!ReadPredictions(p) /\ ~Led!Goes(p, Led!Idle)
    <3>1. PICK q : q = [v3[p] EXCEPT !.pc = "outcomes", !.predictions = Led!LastPredictions(v1)]
      OBVIOUS
    <3>2. v3[p].pc = "predictions" /\ Led!Goes(p, q) /\ UNCHANGED <<v1, v2>>
      BY <2>2, <3>1 DEF Led!ReadPredictions, Led!Fails
    <3>3. Led!IsScript(q) /\ q.pc = "outcomes"
      <4>1. PICK s : s = [v3[p] EXCEPT !.pc = "outcomes"]
        OBVIOUS
      <4>2. q = [s EXCEPT !.predictions = Led!LastPredictions(v1)]
        BY <3>1, <4>1
      <4>3. Led!IsScript(s) /\ s.pc = "outcomes"
        BY <1>a, <3>2, <4>1, ScriptChange
      <4>. QED
        BY <4>2, <4>3, ScriptChange
    <3>. QED
      BY <3>2, <3>3, LocalStep DEF Led!SearchSound
  <2>. QED
    BY <1>9, <2>1, <2>2 DEF Led!Evaluate, Led!Fails
<1>10. ASSUME NEW p \in LedgerProcesses, Led!Die(p) PROVE Led!LedgerInv'
  <2>1. Led!Goes(p, Led!Idle) /\ v2' = v2
    BY <1>10 DEF Led!Die
  <2>2. CASE v1' = v1
    BY <1>2, <2>1, <2>2
  <2>3. CASE v1' = Append(v1, Led!Torn)
    <3>1. Led!Torn.type # "outcome"
      BY DEF Led!Torn
    <3>. QED
      BY <2>1, <2>3, <3>1, AppendStep
  <2>. QED
    BY <1>10, <2>2, <2>3 DEF Led!Die
<1>. QED
  BY <1>1, <1>4, <1>5, <1>6, <1>7, <1>8, <1>9, <1>10, StartWriteKeeps DEF Led!Next, Led!Step

\* Whatever scripts overlap, die or start the file anew, an outcome comes after its
\* prediction, and a second time only if the first was appended since it was looked for;
\* or the file was removed and begun anew after the outcome was looked for.
THEOREM LedgerHonestHolds == LabSpec => []LedgerHonest
<1>. DEFINE Inv == lab = "predictions" => Led!LedgerInv
<1>1. LabInit => Inv
  BY LedgerInit DEF LabInit
<1>2. Inv /\ [LabNext]_labvars => Inv'
  BY LedgerNext, StepOfPart
<1>3. Led!LedgerInv => Led!LedgerHonest
  <2>. SUFFICES ASSUME Led!LedgerInv, NEW i \in Led!Of(v1, "outcome")
                PROVE  \/ /\ Led!Earlier(i, "prediction") # {}
                          /\ \A j \in Led!Earlier(i, "outcome") : j > v1[i].checked[2]
                       \/ v1[i].checked[1] < v2
    BY DEF Led!LedgerHonest
  <2>1. Led!OutcomeSound(i) /\ v2 \in Nat
    BY DEF Led!LedgerInv, Led!TypeOK
  <2>2. v1[i].checked[1] = v2 \/ v1[i].checked[1] < v2
    BY <2>1 DEF Led!OutcomeSound
  <2>. QED
    BY <2>1, <2>2 DEF Led!OutcomeSound
<1>4. Inv => LedgerHonest
  BY <1>3 DEF LedgerHonest
<1>. QED
  BY <1>1, <1>2, <1>4, PTL DEF LabSpec
==============================================================================
