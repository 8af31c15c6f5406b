---------------------------- MODULE EventAssembly ---------------------------
(***************************************************************************)
(* What event building promises (README.md, 3.1): fragments of the         *)
(* registered sources are collected, an event is built from one fragment   *)
(* of each source, all with the same event number, and no event is built   *)
(* twice.  A fragment may be lost on the way; none is used in two events.  *)
(* The crossing a fragment carries is the affair of its source: the event  *)
(* number is what events are built by.                                     *)
(***************************************************************************)
EXTENDS Naturals, Sequences, Functions

CONSTANTS
    Sources,        \* the registered data sources
    MaxTriggers     \* triggers are numbered from 1 to MaxTriggers

Crossings == 0 .. MaxTriggers
Fragments == [src : Sources, evt : 1 .. MaxTriggers, bx : Crossings]

\* One fragment of each source, of the event evt; bx[s] is the crossing of s.
WholeEvent(evt, bx) == {[src |-> s, evt |-> evt, bx |-> bx[s]] : s \in Sources}

VARIABLES
    pool,           \* the fragments received and not yet built into an event
    built           \* the events built, each a set of fragments, in order

vars == <<pool, built>>

Init == pool = {} /\ built = << >>

Receive ==
    /\ UNCHANGED built
    /\ \E f \in Fragments : pool' = pool \cup {f}

Lose ==
    /\ UNCHANGED built
    /\ pool' \in SUBSET pool

Build(evt, bx) ==
    /\ built' = Append(built, WholeEvent(evt, bx))
    /\ \A done \in Range(built) : \A f \in done : f.evt # evt
    /\ WholeEvent(evt, bx) \subseteq pool
    /\ pool' = pool \ WholeEvent(evt, bx)

Next ==
    \/ Lose
    \/ Receive
    \/ \E evt \in 1 .. MaxTriggers, bx \in [Sources -> Crossings] : Build(evt, bx)

Spec == Init /\ [][Next]_vars
=============================================================================
