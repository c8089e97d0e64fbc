-------------------------- MODULE IngestionExtracts --------------------------
(* Inputs and jobs of the local ingestion for TLC.                           *)

Good(m) == [id |-> m, flawed |-> FALSE]
Bad(m) == [id |-> m, flawed |-> TRUE]

\* Three extracts of one fixture list: each pair has a match in common, one
\* has a flawed row before the good ones, one has a match twice, once flawed.
Extracts ==
  [a |-> <<Good(2), Good(1)>>,
   b |-> <<Bad(4), Good(2), Good(3)>>,
   c |-> <<Good(3), Good(1), Bad(1)>>]

Call(x, r, s) == [input |-> x, run |-> r, source |-> s]

\* Every extract under two run ids, which are reused, and two calls that
\* name another source, one of them under a run id of the first.
Calls ==
  {Call(x, r, "s1") : x \in {"a", "b", "c"}, r \in {"r1", "r2"}}
    \union {Call("a", "r1", "s2"), Call("b", "r3", "s2")}
=============================================================================
