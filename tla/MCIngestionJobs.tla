-------------------------- MODULE MCIngestionJobs --------------------------
(* Small instances of IngestionJobs for TLC.                                *)
EXTENDS IngestionJobs

(* A user archive whose two parts earn different follow-ups, and a system   *)
(* archive whose parts report what they persisted at the end.               *)
MenusMixed == {{"PREFERENCES", "TXS"}, {"PRICES", "CORPORATE_EVENTS"}}
=============================================================================
