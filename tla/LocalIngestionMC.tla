-------------------------- MODULE LocalIngestionMC --------------------------
(* An instance of LocalIngestion for TLC.                                    *)
EXTENDS LocalIngestion, IngestionExtracts
=============================================================================
