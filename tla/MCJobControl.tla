---------------------------- MODULE MCJobControl ----------------------------
(***************************************************************************)
(* Two jobs on a host of three pids; the values of the constants are in    *)
(* the JobControl*.cfg files.                                              *)
(***************************************************************************)
EXTENDS JobControl
=============================================================================
