--------------------------- MODULE MCEventBuilder ---------------------------
(***************************************************************************)
(* Two sources and a few triggers: the instances TLC checks.  The values   *)
(* of the constants are in the EventBuilder*.cfg files.                    *)
(***************************************************************************)
EXTENDS EventBuilder
=============================================================================
