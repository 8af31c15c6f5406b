----------------------------- MODULE MCExServer -----------------------------
(***************************************************************************)
(* One or two sources, and one or two threads that command the server; the *)
(* values of the constants are in the ExServer*.cfg files.                 *)
(***************************************************************************)
EXTENDS ExServer
=============================================================================
