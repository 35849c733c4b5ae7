------------------------- MODULE MCScheduledPublish -------------------------
(* Instances of ScheduledPublish for TLC.                                  *)
EXTENDS ScheduledPublish

CONSTANTS j1, j2

============================================================================
