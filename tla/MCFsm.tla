------------------------------- MODULE MCFsm -------------------------------
(***************************************************************************)
(* Two threads that drive the machine of the example data server           *)
(* (exServer.cxx:10-19).                                                   *)
(***************************************************************************)
EXTENDS Fsm, SequencesExt

\* The table that a sequence of calls of addTransition builds.
TableOf(calls) ==
    FoldLeft(LAMBDA table, c : Added(table, c[1], c[2], c[3], c[4]),
             [c \in Commands |-> << >>], calls)

ServerTable == TableOf(
    << <<"CONFIGURE", "CREATED", "CONFIGURED", "configure">>,
       <<"CONFIGURE", "CONFIGURED", "CONFIGURED", "configure">>,
       <<"START", "CONFIGURED", "RUNNING", "start">>,
       <<"STOP", "RUNNING", "CONFIGURED", "stop">>,
       <<"HALT", "RUNNING", "CREATED", "halt">>,
       <<"HALT", "CONFIGURED", "CREATED", "halt">> >>)
=============================================================================
