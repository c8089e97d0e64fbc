--------------------------- MODULE PredictionLedgerMC ---------------------------
(* An instance of PredictionLedger for TLC.                                  *)
EXTENDS PredictionLedger

TwoMatches == <<1, 2>>
================================================================================
