------------------------------ MODULE Accumulators ------------------------------
(***************************************************************************)
(* The accumulator generators (services/accumulator_generator.py): a safe   *)
(* and a value accumulator, systems, and the history they are appended to.  *)
(*                                                                         *)
(* The scan that fills the pool of legs is not in the repository.  A leg is *)
(* its place in the order by edge and confidence; teams, odds (in tenths)   *)
(* and edges (in percent) are small tables.  The system is "2/4".           *)
(***************************************************************************)
EXTENDS Naturals, FiniteSets, Sequences, FiniteSetsExt

CONSTANTS
  MaxHistory,    \* entries the history keeps, 1000 in the source
  MaxAsked,      \* bound: days asked for
  MaxDeaths      \* bound: processes that die

Legs == 1..9
Teams == <<{"a", "b"}, {"c", "d"}, {"b", "c"}, {"e", "f"}, {"a", "b"}, {"f", "g"}, {"h", "i"},
           {"j", "k"}, {"l", "m"}>>
Odds == <<19, 18, 15, 14, 15, 13, 15, 20, 20>>
Edge == <<14, 13, 12, 12, 11, 10, 9, 9, 7>>
Safe == {3, 4, 5, 6, 7}       \* legs of the markets of each generator
Value == {1, 2, 3, 4, 6, 7, 8, 9}

MinEdge == 8
LegsNeeded == 4

VARIABLES
  pool,      \* the eligible legs
  pc, todo,  \* the generators still to run
  selected, pairs,  \* the system being selected, and the pairs left to check
  found,     \* mode -> legs, {} if there is none
  history,   \* the entries of acca_history.json, newest first, or torn
  loaded,
  answered,  \* what was found, newest first
  asked, deaths

vars == <<pool, pc, todo, selected, pairs, found, history, loaded, answered, asked, deaths>>

Torn == [mode |-> "torn"]
Nothing == [m \in {"safe", "value", "system"} |-> {}]

\* _eligible_legs_from_candidates
Eligible(S) == {i \in S : Edge[i] >= MinEdge}

Init ==
  /\ \E S \in SUBSET Legs : pool = Eligible(S)
  /\ pc = "idle" /\ todo = <<>> /\ selected = {} /\ pairs = {} /\ found = Nothing
  /\ history = <<>> /\ loaded = <<>> /\ answered = <<>> /\ asked = 0 /\ deaths = 0

(***************************************************************************)
(* Legs                                                                    *)
(***************************************************************************)
\* check_correlation: the same match, or a team in common
Correlated(i, j) == Teams[i] \intersect Teams[j] # {}

Apart(S) == \A i, j \in S : i # j => ~Correlated(i, j)

\* combinations(): the order of two sets of one size
Sooner(A, B) == A # B /\ Min((A \ B) \union (B \ A)) \in A

FirstOf(C) == CHOOSE S \in C : \A T \in C \ {S} : Sooner(S, T)

TotalOdds(S) == FoldSet(LAMBDA i, product : product * Odds[i], 1, S)
\* The sum of the edges, written out over the legs
Share(S, i) == IF i \in S THEN Edge[i] ELSE 0
CombinedEdge(S) ==
  Share(S, 1) + Share(S, 2) + Share(S, 3) + Share(S, 4) + Share(S, 5) + Share(S, 6) +
  Share(S, 7) + Share(S, 8) + Share(S, 9)

(***************************************************************************)
(* The generators                                                          *)
(***************************************************************************)
\* Combined odds of 2.0 to 3.0
SafeCombos(size) ==
  {S \in kSubset(size, Safe \intersect pool) :
    Apart(S) /\ TotalOdds(S) \in (2 * 10^size)..(3 * 10^size)}

SafeLegs ==
  CASE SafeCombos(2) # {} -> FirstOf(SafeCombos(2))
    [] SafeCombos(2) = {} /\ SafeCombos(3) # {} -> FirstOf(SafeCombos(3))
    [] OTHER -> {}

ValueCombos(size) ==
  {S \in kSubset(size, Value \intersect pool) : Apart(S) /\ CombinedEdge(S) > 15}

Best(C) == FirstOf({S \in C : \A T \in C : CombinedEdge(T) <= CombinedEdge(S)})

ValueLegs ==
  CASE ValueCombos(4) # {} -> Best(ValueCombos(4))
    [] ValueCombos(4) = {} /\ ValueCombos(3) # {} -> Best(ValueCombos(3))
    [] OTHER -> {}

\* generate_optimal_acca_for_day runs both, generate_system_bets is asked for by itself.
Ask ==
  /\ pc = "idle" /\ asked < MaxAsked /\ asked' = asked + 1 /\ pc' = "next"
  /\ todo' \in {<<"safe", "value">>, <<"system">>} /\ found' = Nothing
  /\ UNCHANGED <<pool, selected, pairs, history, loaded, answered, deaths>>

Finds(mode, S) ==
  /\ found' = [found EXCEPT ![mode] = S]
  /\ todo' = Tail(todo) /\ pc' = IF S = {} THEN "next" ELSE "load"

Generate ==
  /\ pc = "next" /\ todo # <<>>
  /\ \/ Head(todo) = "safe" /\ Finds("safe", SafeLegs)
     \/ Head(todo) = "value" /\ Finds("value", ValueLegs)
  /\ UNCHANGED <<pool, selected, pairs, history, loaded, answered, asked, deaths>>

Top == {i \in pool : Cardinality({j \in pool : j <= i}) <= LegsNeeded}

StartSystem ==
  /\ pc = "next" /\ todo # <<>> /\ Head(todo) = "system"
  /\ \/ Cardinality(pool) < LegsNeeded /\ Finds("system", {}) /\ UNCHANGED <<selected, pairs>>
     \/ /\ Cardinality(pool) >= LegsNeeded
        /\ selected' = Top /\ pairs' = {p \in Top \X Top : p[1] < p[2]}
        /\ pc' = "pairs" /\ UNCHANGED <<todo, found>>
  /\ UNCHANGED <<pool, history, loaded, answered, asked, deaths>>

\* The pairs are those of the first selection, whatever has been replaced since.
FirstPair == CHOOSE p \in pairs : \A q \in pairs : p[1] < q[1] \/ (p[1] = q[1] /\ p[2] <= q[2])

Replaced(b, alt) == (selected \ {b}) \union {alt}

\* Mutant: a replacement is compared with the one leg of the pair only.
AlternativesOfOne(p) == {alt \in pool \ (Top \union selected) : ~Correlated(p[1], alt)}

Alternatives(p) == {alt \in pool \ (Top \union selected) : Apart(Replaced(p[2], alt))}

CheckPair ==
  /\ pc = "pairs" /\ pairs # {}
  /\ \E p \in {FirstPair} :
       \/ /\ ~Correlated(p[1], p[2])
          /\ pairs' = pairs \ {p} /\ UNCHANGED <<selected, found, todo, pc>>
       \/ /\ Correlated(p[1], p[2]) /\ Alternatives(p) # {}
          /\ selected' = Replaced(p[2], Min(Alternatives(p)))
          /\ pairs' = pairs \ {p} /\ UNCHANGED <<found, todo, pc>>
       \/ /\ Correlated(p[1], p[2]) /\ Alternatives(p) = {}
          /\ Finds("system", {}) /\ UNCHANGED <<selected, pairs>>
  /\ UNCHANGED <<pool, history, loaded, answered, asked, deaths>>

FinishSystem ==
  /\ pc = "pairs" /\ pairs = {} /\ Finds("system", selected)
  /\ UNCHANGED <<pool, selected, pairs, history, loaded, answered, asked, deaths>>

(***************************************************************************)
(* _append_acca_history                                                    *)
(***************************************************************************)
Mode == CHOOSE m \in {"safe", "value", "system"} :
  found[m] # {} /\ (m = "safe" => found["value"] = {})

Entry == [mode |-> Mode, legs |-> found[Mode]]

\* A file that cannot be parsed is read as an empty history.
Load ==
  /\ pc = "load" /\ loaded' = (IF history = <<Torn>> THEN <<>> ELSE history) /\ pc' = "truncate"
  /\ UNCHANGED <<pool, todo, selected, pairs, found, history, answered, asked, deaths>>

Truncate ==
  /\ pc = "truncate" /\ history' = <<Torn>> /\ pc' = "write"
  /\ UNCHANGED <<pool, todo, selected, pairs, found, loaded, answered, asked, deaths>>

Newest(s) == SubSeq(s, 1, IF Len(s) < MaxHistory THEN Len(s) ELSE MaxHistory)

WriteHistory ==
  /\ pc = "write" /\ history' = Newest(<<Entry>> \o loaded)
  /\ answered' = <<Entry>> \o answered /\ pc' = "next"
  /\ UNCHANGED <<pool, todo, selected, pairs, found, loaded, asked, deaths>>

Return ==
  /\ pc = "next" /\ todo = <<>> /\ pc' = "idle"
  /\ UNCHANGED <<pool, todo, selected, pairs, found, history, loaded, answered, asked, deaths>>

Die ==
  /\ pc # "idle" /\ deaths < MaxDeaths /\ deaths' = deaths + 1
  /\ pc' = "idle" /\ todo' = <<>>
  /\ UNCHANGED <<pool, selected, pairs, found, history, loaded, answered, asked>>

Next ==
  \/ Ask \/ Generate \/ StartSystem \/ CheckPair \/ FinishSystem
  \/ Load \/ Truncate \/ WriteHistory \/ Return \/ Die

Spec == Init /\ [][Next]_vars

(***************************************************************************)
(* Properties                                                              *)
(***************************************************************************)
\* A leg correlated with two others of the first selection is replaced once for each of
\* them, and the second time there is nothing left to take away.
SystemSized(S) ==
  \/ Cardinality(S) = LegsNeeded
  \/ /\ Cardinality(S) = LegsNeeded + 1
     /\ \E b \in Top \ S : \E i, j \in Top \ {b} : i # j /\ Correlated(b, i) /\ Correlated(b, j)

\* Claimed by generate_system_bets: "pick top N legs (N = system legs)", four of a "2/4".
SystemOfFour ==
  \A k \in DOMAIN answered :
    answered[k].mode = "system" => Cardinality(answered[k].legs) = LegsNeeded

\* The legs of everything that was found are apart.  A system has its four legs, or five if
\* one of the first selection was replaced twice.  The history has what was found, newest
\* first, unless a process died on the way.
AccumulatorsSound ==
  /\ \A k \in DOMAIN answered :
       LET S == answered[k].legs IN
       Apart(S) /\ (answered[k].mode = "system" => SystemSized(S))
  /\ deaths = 0 /\ pc # "write" => history = Newest(answered)

(***************************************************************************)
(* An invariant from which it follows                                      *)
(***************************************************************************)
Modes == {"safe", "value", "system"}

\* The legs of the first selection that a leg met
Met(b) == {i \in Top : i < b /\ <<i, b>> \notin pairs /\ Correlated(i, b)}

\* As long as no leg was replaced, those that were checked are apart; then the others of
\* the first selection are, and only the leg that was replaced first is so again.
Untouched ==
  selected = Top /\ \A i, j \in Top : i < j /\ <<i, j>> \notin pairs => ~Correlated(i, j)

ReplacedFirst(b) ==
  /\ b \in Top \ selected
  /\ selected \subseteq pool /\ Apart(selected) /\ Apart(Top \ {b})
  /\ \A j \in Top \ {b} : j \notin selected => b < j /\ <<b, j>> \notin pairs
  /\ \/ Cardinality(selected) = LegsNeeded /\ \E i \in Top : Met(b) = {i}
     \/ /\ Cardinality(selected) = LegsNeeded + 1
        /\ \E i, j \in Top : i # j /\ Met(b) = {i, j}

SelectionSound ==
  pc = "pairs" =>
    /\ Cardinality(pool) >= LegsNeeded
    /\ pairs \subseteq {p \in Top \X Top : p[1] < p[2]}
    /\ Untouched \/ \E b \in Top : ReplacedFirst(b)

FoundSound ==
  /\ pool \subseteq Legs /\ deaths \in Nat
  /\ found \in [Modes -> SUBSET Legs] /\ \A m \in Modes : Apart(found[m])
  /\ found["system"] # {} => SystemSized(found["system"])
  /\ pc \in {"load", "truncate", "write"} => \E m \in Modes : found[m] # {}

HistorySound ==
  /\ answered \in Seq([mode : Modes, legs : SUBSET Legs])
  /\ deaths = 0 /\ pc \in {"truncate", "write"} => loaded = Newest(answered)

AccumulatorsInv == SelectionSound /\ FoundSound /\ HistorySound /\ AccumulatorsSound
=============================================================================
