----------------------------- MODULE MCExBuilder -----------------------------
(***************************************************************************)
(* Two sources and two registrations: of both sources, or twice of one, in *)
(* one list or after a HALT. The values of the constants are in the        *)
(* ExBuilder*.cfg files.                                                   *)
(***************************************************************************)
EXTENDS ExBuilder, TLC

Symmetric == Permutations(Sources)

\* What follows a broken rule is explored with one registration only, and for as
\* long as no source begins its numbers anew.
Explored == obeyed \/ (N <= 1 /\ restarts = 0)
=============================================================================
