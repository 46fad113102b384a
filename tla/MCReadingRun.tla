---------------------------- MODULE MCReadingRun ----------------------------
(***************************************************************************)
(* A v3-like policy: two base readers, two escalation readers; a page read *)
(* as one list or another, or as nothing of the kind.                      *)
(***************************************************************************)
EXTENDS ReadingRun, TLC

CONSTANTS p1, qwen, lite, flash, sonnet, list, longer, other

MCBase == <<qwen, lite>>
MCEscalation == <<flash, sonnet>>

=============================================================================
