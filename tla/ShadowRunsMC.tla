---------------------------- MODULE ShadowRunsMC ----------------------------
(* Instances of ShadowRuns for TLC.                                          *)
EXTENDS ShadowRuns, TLC

CONSTANTS a, b, c

P(id) == [id |-> id, cutoff |-> 1]

\* Two markets of one manifest (one plan, two runs), a later as_of, and two
\* that clash with it: its run id reused, and another training cutoff.
SerialRequests ==
  {[run |-> "btts",  plan |-> <<P(a), P(b)>>],
   [run |-> "cards", plan |-> <<P(a), P(b)>>],
   [run |-> "later", plan |-> <<P(c)>>],
   [run |-> "later", plan |-> <<>>],
   [run |-> "tuned", plan |-> <<[id |-> c, cutoff |-> 2]>>]}

\* Two requests with one prediction in common, as two threads may get them.
ThreadRequests ==
  {[run |-> "btts", plan |-> <<P(a), P(b)>>],
   [run |-> "cards", plan |-> <<P(b)>>]}
=============================================================================
