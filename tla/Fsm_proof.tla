------------------------------ MODULE Fsm_proof ------------------------------
(***************************************************************************)
(* Proofs about the state machine of Fsm, for any number of threads, any   *)
(* set of commands and any table of transitions: its types, what it        *)
(* publishes, and what addTransition makes of a table.                     *)
(***************************************************************************)
EXTENDS Fsm, TLAPS

\* What no operation reads but every proof needs: the state of a thread.
LEMMA Types ==
    ASSUME TypeOK, NEW t \in Threads
    PROVE  /\ phase[t] \in {"idle", "match", "callback", "assign", "publish"}
           /\ rest[t] \in Seq(Transitions)
           /\ answer[t] \in {"none", "DONE", "FAILED"}
           /\ phase[t] \in {"callback", "assign", "publish"} => rest[t] # << >>
  BY DEF TypeOK

-----------------------------------------------------------------------------
(* Types.                                                                  *)

LEMMA InitTypeOK == Init => TypeOK
  BY TableAssumption DEF Init, TypeOK

LEMMA NextTypeOK == TypeOK /\ [Next]_vars => TypeOK'
<1> SUFFICES ASSUME TypeOK, [Next]_vars PROVE TypeOK'
  OBVIOUS
<1>1. CASE UNCHANGED vars
  BY <1>1 DEF vars, TypeOK
<1>2. ASSUME NEW t \in Threads, NEW c \in Commands, Call(t, c) PROVE TypeOK'
  <2>1. Table[c] \in Seq(Transitions)
    BY TableAssumption DEF Tables
  <2> QED
    BY <1>2, <2>1 DEF Call, TypeOK
<1>3. ASSUME NEW t \in Threads, Skip(t) PROVE TypeOK'
  <2>1. Tail(rest[t]) \in Seq(Transitions)
    BY <1>3, Types DEF Skip
  <2> QED
    BY <1>3, <2>1 DEF Skip, TypeOK
<1>4. ASSUME NEW t \in Threads, Match(t) PROVE TypeOK'
  BY <1>4 DEF Match, TypeOK
<1>5. ASSUME NEW t \in Threads, Refuse(t) PROVE TypeOK'
  BY <1>5 DEF Refuse, TypeOK
<1>6. ASSUME NEW t \in Threads, Return(t) PROVE TypeOK'
  BY <1>6 DEF Return, TypeOK
<1>7. ASSUME NEW t \in Threads, Assign(t) PROVE TypeOK'
  <2>1. Head(rest[t]) \in Transitions
    BY <1>7, Types DEF Assign
  <2>2. Head(rest[t]).to \in States
    BY <2>1 DEF Transitions
  <2>3. state' \in States \cup {Garbled}
    BY <1>7, <2>2 DEF Assign
  <2> QED
    BY <1>7, <2>3 DEF Assign, TypeOK
<1>8. ASSUME NEW t \in Threads, Publish(t) PROVE TypeOK'
  BY <1>8 DEF Publish, TypeOK
<1> QED
  BY <1>1, <1>2, <1>3, <1>4, <1>5, <1>6, <1>7, <1>8 DEF Next, Step

\* Every variable keeps its type; a thread past the comparison has a transition
\* to make (processCommand).
THEOREM TypeCorrect == Spec => []TypeOK
  BY InitTypeOK, NextTypeOK, PTL DEF Spec

-----------------------------------------------------------------------------
(* What is published.                                                      *)

LEMMA InitPublished == Init => PublishedIsState
  BY DEF Init, PublishedIsState

LEMMA NextPublished == TypeOK /\ PublishedIsState /\ [Next]_vars => PublishedIsState'
<1> SUFFICES ASSUME TypeOK, PublishedIsState, [Next]_vars,
                    \A u \in Threads : phase'[u] \notin {"assign", "publish"}
             PROVE  published' = state'
  BY DEF PublishedIsState
<1>1. CASE UNCHANGED vars
  BY <1>1 DEF vars, PublishedIsState
<1>2. ASSUME NEW t \in Threads, NEW c \in Commands, Call(t, c) PROVE published' = state'
  BY <1>2 DEF Call, PublishedIsState, TypeOK
<1>3. ASSUME NEW t \in Threads, Skip(t) \/ Match(t) \/ Refuse(t) PROVE published' = state'
  BY <1>3 DEF Skip, Match, Refuse, PublishedIsState, TypeOK
<1>4. ASSUME NEW t \in Threads, Return(t) \/ Assign(t) PROVE FALSE
  BY <1>4 DEF Return, Assign, TypeOK
<1>5. ASSUME NEW t \in Threads, Publish(t) PROVE published' = state'
  <2>1. ~Torn(t)
    BY <1>5 DEF Publish, Torn, TypeOK
  <2> QED
    BY <1>5, <2>1 DEF Publish
<1> QED
  BY <1>1, <1>2, <1>3, <1>4, <1>5 DEF Next, Step

\* However many threads process commands, once none is between its assignment
\* of _state and its publication, the STATE service has what the machine has
\* (fsm.cxx:117-118): the last to publish sends the last assignment.
THEOREM PublishedIsStateAlways == Spec => []PublishedIsState
<1>1. Init => TypeOK /\ PublishedIsState
  BY InitTypeOK, InitPublished
<1>2. TypeOK /\ PublishedIsState /\ [Next]_vars => TypeOK' /\ PublishedIsState'
  BY NextTypeOK, NextPublished
<1> QED
  BY <1>1, <1>2, PTL DEF Spec

-----------------------------------------------------------------------------
(* Tables.                                                                 *)

\* addTransition keeps a table a table in which a command has one transition
\* from a state (fsm.cxx:69-73): by induction over the calls of a constructor,
\* TableAssumption holds of what it builds.
THEOREM AddedKeepsTables ==
    ASSUME NEW table \in Tables, OnePerState(table),
           NEW cmd \in Commands, NEW from \in States, NEW to \in States, NEW call \in Callbacks
    PROVE  LET new == Added(table, cmd, from, to, call)
           IN  new \in Tables /\ OnePerState(new)
<1> DEFINE tr == [from |-> from, to |-> to, call |-> call]
           old == table[cmd]
           new == [table EXCEPT ![cmd] = Append(old, tr)]
<1>1. CASE \E i \in DOMAIN table[cmd] : table[cmd][i].from = from
  BY <1>1 DEF Added
<1>2. CASE \A i \in DOMAIN table[cmd] : table[cmd][i].from # from
  <2>1. tr \in Transitions /\ old \in Seq(Transitions)
    BY DEF Transitions, Tables
  <2>2. /\ Append(old, tr) \in Seq(Transitions)
        /\ DOMAIN Append(old, tr) = 1 .. Len(old) + 1
        /\ \A i \in 1 .. Len(old) : Append(old, tr)[i] = old[i]
        /\ Append(old, tr)[Len(old) + 1] = tr
        /\ DOMAIN old = 1 .. Len(old) /\ Len(old) \in Nat
    BY <2>1
  <2>3. new \in Tables
    BY <2>2 DEF Tables
  <2>4. \A c \in Commands : new[c] = IF c = cmd THEN Append(old, tr) ELSE table[c]
    BY DEF Tables
  <2>5. ASSUME NEW c \in Commands, NEW i \in DOMAIN new[c], NEW j \in DOMAIN new[c],
               new[c][i].from = new[c][j].from
        PROVE  i = j
    <3>1. CASE c # cmd
      BY <3>1, <2>4, <2>5 DEF OnePerState
    <3>2. CASE c = cmd
      <4>1. i \in 1 .. Len(old) + 1 /\ j \in 1 .. Len(old) + 1
        BY <3>2, <2>2, <2>4
      <4>2. CASE i \in 1 .. Len(old) /\ j \in 1 .. Len(old)
        <5>1. old[i].from = old[j].from
          BY <3>2, <4>2, <2>2, <2>4, <2>5
        <5> QED
          BY <5>1, <4>2, <2>2 DEF OnePerState
      <4>3. CASE i = Len(old) + 1 \/ j = Len(old) + 1
        <5>1. \A k \in 1 .. Len(old) : old[k].from # tr.from
          BY <1>2, <2>2
        <5>2. Append(old, tr)[i].from = Append(old, tr)[j].from
          BY <3>2, <2>4, <2>5
        <5> QED
          BY <4>1, <4>3, <5>1, <5>2, <2>2
      <4> QED
        BY <4>1, <4>2, <4>3, <2>2
    <3> QED
      BY <3>1, <3>2
  <2>6. OnePerState(new)
    BY <2>5 DEF OnePerState
  <2>7. Added(table, cmd, from, to, call) = new
    BY <1>2 DEF Added
  <2> QED
    BY <2>3, <2>6, <2>7
<1> QED
  BY <1>1, <1>2
=============================================================================
