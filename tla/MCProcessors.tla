----------------------------- MODULE MCProcessors -----------------------------
(***************************************************************************)
(* Processors for TLC: the registration orders a .cfg cannot write.        *)
(***************************************************************************)
EXTENDS Processors

WriterFirst  == << "writer", "monitor" >>
MonitorFirst == << "monitor", "writer" >>
===============================================================================
