--------------------------- MODULE MCEventPipeline ---------------------------
(* Small instances of EventPipeline for TLC.                                 *)
EXTENDS EventPipeline, TLC

CONSTANTS d1, d2, timer, admin

===============================================================================
