--------------------------- MODULE PreMatchFeatures ---------------------------
(***************************************************************************)
(* The feature builders: build_pre_match_features, build_card_features and   *)
(* build_qualitative_features go through the matches in the order of their   *)
(* kickoffs, compute the features of a row from what the loop has gathered,  *)
(* and only then gather the row.  A feature is modelled by its basis: the    *)
(* matches, or events, its value is computed from.  The two statistics that  *)
(* a row may lack, shots on target and corners, are treated alike; one of    *)
(* them stands for both.                                                     *)
(***************************************************************************)
EXTENDS Naturals, Sequences, FiniteSets

CONSTANTS
  Matches,        \* match ids: the order that breaks ties of kickoffs
  Kickoffs,       \* days on which matches may kick off
  NextSeason,     \* the first of the second season
  Fixtures,       \* home and away team of a match
  RefereeOf,      \* match -> referee; a match without one has "unknown"
  Sparse,         \* match -> sides ("home", "away") whose statistic the input lacks
  EventTimes,     \* days on which the qualitative event may become available
  Windows, FatigueDays, RefereeWindow

Teams == UNION {{f[1], f[2]} : f \in Fixtures}

VARIABLES
  builder,    \* which of the three runs
  match,      \* the input rows: kickoff, home and away team
  event,      \* one qualitative event: its match, available_at_utc, provenance recorded
  pending,    \* rows the loop has not reached
  history,    \* team -> its last matches (deque)
  dates,      \* team -> kickoffs of its matches
  league,     \* matches in the running league aggregates
  standings,  \* season -> matches in the running points
  referees,   \* referee -> their last matches (deque)
  lacking,    \* match -> sides whose statistic is missing or not a number
  stored,     \* match -> side -> basis of the statistic gathered for it
  record      \* the bases of the rows built so far

vars == <<builder, match, event, pending, history, dates, league, standings, referees,
          record, lacking, stored>>
input == <<builder, match, event, lacking>>

Sides == {"home", "away"}
TeamAt(m, side) == IF side = "home" THEN match[m].home ELSE match[m].away
SideOf(t, m) == IF match[m].home = t THEN "home" ELSE "away"

Season(m) == IF match[m].kickoff < NextSeason THEN 1 ELSE 2
Plays(t, m) == t \in {match[m].home, match[m].away}

\* No team plays twice at the same time.
Legal(rows) ==
  \A m, n \in Matches : m # n /\ rows[m].kickoff = rows[n].kickoff =>
    {rows[m].home, rows[m].away} \intersect {rows[n].home, rows[n].away} = {}

Init ==
  /\ builder \in {"pre_match", "cards", "qualitative"}
  /\ \E k \in [Matches -> Kickoffs], f \in [Matches -> Fixtures] :
       match = [m \in Matches |-> [kickoff |-> k[m], home |-> f[m][1], away |-> f[m][2]]]
  /\ Legal(match)
  /\ \/ builder = "qualitative" /\ event \in [match : Matches, available : EventTimes, provenance : BOOLEAN]
     \/ builder # "qualitative" /\ event = [match |-> 1, available |-> 0, provenance |-> FALSE]
  /\ \/ builder = "pre_match" /\ lacking \in Sparse
     \/ builder # "pre_match" /\ lacking = [m \in Matches |-> {}]
  /\ pending = Matches
  /\ history = [t \in Teams |-> <<>>] /\ dates = [t \in Teams |-> <<>>]
  /\ league = {} /\ standings = [s \in {1, 2} |-> {}] /\ referees = [r \in {RefereeOf[m] : m \in Matches} |-> <<>>]
  /\ stored = <<>> /\ record = <<>>

\* sort_values(["kickoff_utc", "match_id"])
Before(m, n) ==
  \/ match[m].kickoff < match[n].kickoff
  \/ match[m].kickoff = match[n].kickoff /\ m < n

NextRow(m) == m \in pending /\ \A n \in pending \ {m} : Before(m, n)

Largest(S) == CHOOSE x \in S : \A y \in S : y <= x

\* deque(maxlen): the oldest entry makes room
Appended(deque, m, maxlen) ==
  LET longer == Append(deque, m)
  IN  IF Len(longer) > maxlen THEN Tail(longer) ELSE longer

\* _summary: the last w entries
Summary(deque, w) ==
  {deque[i] : i \in {j \in 1..Len(deque) : j > Len(deque) - w}}

\* _count_recent_matches
Recent(t, kickoff) ==
  {i \in 1..Len(dates[t]) : dates[t][i] < kickoff /\ dates[t][i] >= kickoff - FatigueDays}

Gathered(m, sequence, maxlen) ==
  [t \in Teams |-> IF Plays(t, m) THEN Appended(sequence[t], m, maxlen) ELSE sequence[t]]

Build(m, features) ==
  /\ NextRow(m)
  /\ record' = [n \in DOMAIN record \union {m} |-> IF n = m THEN features ELSE record[n]]
  /\ pending' = pending \ {m}
  /\ UNCHANGED input

\* Mutant: the row is gathered before its features are computed.
TeamSummariesLate(m, t) ==
  [w \in Windows |-> Summary(Gathered(m, history, Largest(Windows))[t], w)]

TeamSummaries(m, t) == [w \in Windows |-> Summary(history[t], w)]

\* What a statistic averaged over matches of a team is computed from
Statistic(t, rows) == UNION {stored[n][SideOf(t, n)] : n \in rows}

Statistics(m, t) == [w \in Windows |-> Statistic(t, Summary(history[t], w))]

\* _optional_value: the value of the row, or the median over the whole deque of
\* the team, or the running average of the league, or zero; imputed values are
\* gathered and averaged as if they had been measured.
Gathering(m, side) ==
  LET t == TeamAt(m, side)
  IN  CASE side \notin lacking[m]    -> {m}
        [] side \in lacking[m] /\ history[t] # <<>> ->
             Statistic(t, {history[t][i] : i \in DOMAIN history[t]})
        [] OTHER -> UNION {stored[n][s] : n \in DOMAIN stored, s \in Sides}

PreMatchRow(m) ==
  /\ builder = "pre_match"
  /\ Build(m, [home |-> TeamSummaries(m, match[m].home),
               away |-> TeamSummaries(m, match[m].away),
               statistics |-> [side \in Sides |-> Statistics(m, TeamAt(m, side))],
               fatigue |-> Cardinality(Recent(match[m].home, match[m].kickoff)),
               league |-> league,
               importance |-> standings[Season(m)]])
  /\ stored' = [n \in DOMAIN stored \union {m} |->
                  IF n = m THEN [side \in Sides |-> Gathering(m, side)] ELSE stored[n]]
  /\ history' = Gathered(m, history, Largest(Windows))
  /\ dates' = [t \in Teams |-> IF Plays(t, m) THEN Append(dates[t], match[m].kickoff) ELSE dates[t]]
  /\ league' = league \union {m}
  /\ standings' = [standings EXCEPT ![Season(m)] = @ \union {m}]
  /\ UNCHANGED referees

\* A row without a referee counts for the referee "unknown".
CardRow(m) ==
  /\ builder = "cards"
  /\ Build(m, [home |-> TeamSummaries(m, match[m].home),
               away |-> TeamSummaries(m, match[m].away),
               referee |-> Summary(referees[RefereeOf[m]], RefereeWindow)])
  /\ history' = Gathered(m, history, Largest(Windows))
  /\ referees' = [referees EXCEPT ![RefereeOf[m]] = Appended(@, m, RefereeWindow)]
  /\ UNCHANGED <<dates, league, standings, stored>>

\* filter_events_for_training: available by the cutoff, provenance recorded
Available(m) ==
  event.match = m /\ event.available <= match[m].kickoff /\ event.provenance

QualitativeRow(m) ==
  /\ builder = "qualitative"
  /\ Build(m, [counted |-> Available(m)])
  /\ UNCHANGED <<history, dates, league, standings, referees, stored>>

Next == \E m \in Matches : PreMatchRow(m) \/ CardRow(m) \/ QualitativeRow(m)

Spec == Init /\ [][Next]_vars

(***************************************************************************)
(* Properties                                                              *)
(***************************************************************************)
Earlier(m, S) == {n \in S : match[n].kickoff < match[m].kickoff}

\* The definition the loop stands for: the last w matches of the team that were
\* played before
LastOf(t, m, w) ==
  LET played == Earlier(m, {n \in Matches : Plays(t, n)})
  IN  {n \in played : Cardinality({later \in played : Before(n, later)}) < w}

\* What a row knows of the results of its teams are their last matches with an earlier
\* kickoff, its own result and later ones never, whatever the order of the input rows
\* is; fatigue counts the matches of the days before.
TeamHistoryExact ==
  \A m \in DOMAIN record :
    /\ builder \in {"pre_match", "cards"} =>
         \A w \in Windows :
           record[m].home[w] = LastOf(match[m].home, m, w) /\ record[m].away[w] = LastOf(match[m].away, m, w)
    /\ builder = "pre_match" =>
         record[m].fatigue =
           Cardinality({n \in Earlier(m, Matches) :
                          Plays(match[m].home, n) /\ match[n].kickoff + FatigueDays >= match[m].kickoff})

\* The statistics of the teams, measured or imputed, are from matches with an earlier
\* kickoff; they are those of the team's last matches where none of these lacks it, and
\* otherwise reach beyond the window and, through the league average, to other teams.
StatisticsEarlier ==
  builder = "pre_match" =>
    \A m \in DOMAIN record, side \in Sides, w \in Windows :
      LET basis == record[m].statistics[side][w]
          last  == LastOf(TeamAt(m, side), m, w)
      IN  /\ basis \subseteq Earlier(m, Matches)
          /\ (\A n \in last : SideOf(TeamAt(m, side), n) \notin lacking[n]) => basis = last

\* League averages and standings are those of the rows before, and referee averages are
\* from such rows.  Contrary to what the docstring of build_pre_match_features says, of
\* two matches that kick off together the one with the smaller id is among them: its
\* result is in the league averages, and in the standings, of the other.
ContextOfRowsBefore ==
  \A m \in DOMAIN record :
    /\ builder = "pre_match" =>
         /\ record[m].league = {n \in Matches : Before(n, m)}
         /\ record[m].importance = {n \in record[m].league : Season(n) = Season(m)}
    /\ builder = "cards" =>
         \A n \in record[m].referee : Before(n, m) /\ RefereeOf[n] = RefereeOf[m]
    /\ builder = "qualitative" =>
         (record[m].counted => event.available <= match[m].kickoff)

\* A feature of a row is computed from what the loop had gathered before it: for the
\* results of its teams exactly their earlier matches, for their statistics earlier
\* matches only, for the league, the table and the referee the rows before.
PointInTime == TeamHistoryExact /\ StatisticsEarlier /\ ContextOfRowsBefore

(***************************************************************************)
(* An invariant from which it follows                                      *)
(***************************************************************************)
Gone == Matches \ pending
PlayedBy(t) == {n \in Gone : Plays(t, n)}
After(n, S) == {later \in S : Before(n, later)}

InputSound ==
  /\ match = [m \in Matches |-> match[m]]
  /\ \A m \in Matches : match[m].kickoff \in Kickoffs /\ {match[m].home, match[m].away} \subseteq Teams
  /\ Legal(match)

\* The rows are reached in their order.
LoopSound ==
  /\ pending \subseteq Matches /\ DOMAIN record = Gone
  /\ \A n \in Gone, m \in pending : Before(n, m)

\* A deque has the last matches of its team, in their order.
DequeSound(t) ==
  /\ history[t] \in Seq(PlayedBy(t))
  /\ \A i \in DOMAIN history[t] :
       Cardinality(After(history[t][i], PlayedBy(t))) = Len(history[t]) - i
  /\ \A n \in PlayedBy(t) :
       Cardinality(After(n, PlayedBy(t))) < Largest(Windows) =>
         \E i \in DOMAIN history[t] : history[t][i] = n

\* The kickoffs of a team are gathered in ascending order.
DatesSound(t) ==
  /\ dates[t] \in Seq({match[n].kickoff : n \in PlayedBy(t)})
  /\ \A n \in PlayedBy(t) : \E i \in DOMAIN dates[t] : dates[t][i] = match[n].kickoff
  /\ \A i, j \in DOMAIN dates[t] : i < j => dates[t][i] < dates[t][j]

\* A statistic gathered for a match is from it and, imputed, from matches before it.
StoredSound ==
  builder = "pre_match" =>
    /\ DOMAIN stored = Gone
    /\ \A n \in Gone, side \in Sides :
         /\ \A p \in stored[n][side] : p \in Gone /\ (p = n \/ Before(p, n))
         /\ side \notin lacking[n] => stored[n][side] = {n}

TeamsSound ==
  /\ builder \in {"pre_match", "cards"} =>
       history = [t \in Teams |-> history[t]] /\ \A t \in Teams : DequeSound(t)
  /\ builder = "pre_match" =>
       dates = [t \in Teams |-> dates[t]] /\ \A t \in Teams : DatesSound(t)

ContextSound ==
  /\ builder = "pre_match" =>
       league = Gone /\ standings = [s \in {1, 2} |-> {n \in Gone : Season(n) = s}]
  /\ referees = [r \in {RefereeOf[m] : m \in Matches} |-> referees[r]]
  /\ \A m \in Matches : referees[RefereeOf[m]] \in Seq({n \in Gone : RefereeOf[n] = RefereeOf[m]})

FeaturesInv == InputSound /\ LoopSound /\ StoredSound /\ TeamsSound /\ ContextSound /\ PointInTime
=============================================================================
