-------------------------------- MODULE Fsm --------------------------------
(***************************************************************************)
(* The finite state machine of a levbdim process (fsm.cxx): processCommand *)
(* called by several threads at once.  A process has at least two of them: *)
(* the DIM thread that runs rpcHandler and the thread of the web server    *)
(* that runs fsmProcess.  Nothing orders them: the class has no mutex.     *)
(*                                                                         *)
(* What a transition's callback does is not in this module: a callback is  *)
(* the time between Match and Return.  ExServer gives it a content.        *)
(***************************************************************************)
EXTENDS Naturals, Sequences

CONSTANTS
    Threads,        \* the threads that call processCommand
    Commands,       \* the names a command may have, known to the machine or not
    States,         \* the states of the machine
    Callbacks,      \* the functors that transitions call
    Created,        \* the state a machine is born in
    Table,          \* _transitions: command -> transitions, in order of addition
    Garbled         \* a string read while it is being written

\* An fsmTransition.
Transitions == [from : States, to : States, call : Callbacks]

\* A command that is not in the map has no transition.
Tables == [Commands -> Seq(Transitions)]

\* addTransition: a second transition of a command from the same state is
\* ignored.
Added(table, cmd, from, to, call) ==
    IF \E i \in DOMAIN table[cmd] : table[cmd][i].from = from
      THEN table
      ELSE [table EXCEPT ![cmd] = Append(@, [from |-> from, to |-> to, call |-> call])]

\* What addTransition makes sure of: a command has one transition from a state.
OnePerState(table) ==
    \A c \in Commands : \A i, j \in DOMAIN table[c] :
        table[c][i].from = table[c][j].from => i = j

ASSUME TableAssumption == Created \in States /\ Table \in Tables /\ OnePerState(Table)
ASSUME GarbledAssumption == Garbled \notin States

VARIABLES
    state,          \* _state
    published,      \* what the service /FSM/<name>/STATE last sent
    phase,          \* where a thread is in processCommand
    rest,           \* the transitions of its command that it has not passed over
    answer          \* the status it last answered

vars == <<state, published, phase, rest, answer>>

TypeOK ==
    /\ {state, published} \subseteq States \cup {Garbled}
    /\ phase \in [Threads -> {"idle", "match", "callback", "assign", "publish"}]
    /\ rest \in [Threads -> Seq(Transitions)]
    /\ answer \in [Threads -> {"none", "DONE", "FAILED"}]
    /\ \A t \in Threads : phase[t] \in {"callback", "assign", "publish"} => rest[t] # << >>

Init ==
    /\ state = Created /\ published = Created
    /\ phase = [t \in Threads |-> "idle"]
    /\ rest = [t \in Threads |-> << >>]
    /\ answer = [t \in Threads |-> "none"]

\* Another thread is writing _state, a string: what t reads of it may be no
\* state at all.
Torn(t) == \E u \in Threads \ {t} : phase[u] = "assign"

-----------------------------------------------------------------------------

\* processCommand is called with command c and looks it up in the map.
Call(t, c) ==
    /\ phase[t] = "idle"
    /\ phase' = [phase EXCEPT ![t] = "match"]
    /\ rest' = [rest EXCEPT ![t] = Table[c]]
    /\ UNCHANGED <<state, published, answer>>

\* Mutant of Skip: the iterator stays where it is.
SkipForever(t) ==
    /\ phase[t] = "match" /\ rest[t] # << >>
    /\ Head(rest[t]).from # state \/ Torn(t)
    /\ UNCHANGED vars

\* The next transition of the command does not start from _state ...
Skip(t) ==
    /\ phase[t] = "match" /\ rest[t] # << >>
    /\ Head(rest[t]).from # state \/ Torn(t)
    /\ rest' = [rest EXCEPT ![t] = Tail(@)]
    /\ UNCHANGED <<state, published, phase, answer>>

\* ... or it does, and its callback is called.
Match(t) ==
    /\ phase[t] = "match" /\ rest[t] # << >>
    /\ Head(rest[t]).from = state
    /\ phase' = [phase EXCEPT ![t] = "callback"]
    /\ UNCHANGED <<state, published, rest, answer>>

\* Mutant of Refuse: the command is called all the same.
RefuseCalls(t) ==
    /\ phase[t] = "match" /\ rest[t] = << >>
    /\ phase' = [phase EXCEPT ![t] = "callback"]
    /\ UNCHANGED <<state, published, rest, answer>>

\* No transition of the command, or none from _state: it fails.
Refuse(t) ==
    /\ phase[t] = "match" /\ rest[t] = << >>
    /\ phase' = [phase EXCEPT ![t] = "idle"]
    /\ answer' = [answer EXCEPT ![t] = "FAILED"]
    /\ UNCHANGED <<state, published, rest>>

\* The callback returns; whatever it answered, the transition is made.
Return(t) ==
    /\ phase[t] = "callback"
    /\ phase' = [phase EXCEPT ![t] = "assign"]
    /\ UNCHANGED <<state, published, rest, answer>>

\* Two threads that write _state at once may leave a mix of both strings.
Assign(t) ==
    /\ phase[t] = "assign"
    /\ state' \in {Head(rest[t]).to} \cup {g \in {Garbled} : Torn(t) \/ state = Garbled}
    /\ phase' = [phase EXCEPT ![t] = "publish"]
    /\ UNCHANGED <<published, rest, answer>>

\* Mutant of Publish: the final state of the transition is published.
PublishOwn(t) ==
    /\ phase[t] = "publish"
    /\ published' = Head(rest[t]).to
    /\ answer' = [answer EXCEPT ![t] = "DONE"]
    /\ phase' = [phase EXCEPT ![t] = "idle"]
    /\ rest' = [rest EXCEPT ![t] = << >>]
    /\ UNCHANGED state

\* publishState sends _state as it is now; the command is answered.
Publish(t) ==
    /\ phase[t] = "publish"
    /\ published' \in {state} \cup {g \in {Garbled} : Torn(t)}
    /\ answer' = [answer EXCEPT ![t] = "DONE"]
    /\ phase' = [phase EXCEPT ![t] = "idle"]
    /\ rest' = [rest EXCEPT ![t] = << >>]
    /\ UNCHANGED state

-----------------------------------------------------------------------------

Step(t) == Skip(t) \/ Match(t) \/ Refuse(t) \/ Return(t) \/ Assign(t) \/ Publish(t)

Next == \E t \in Threads : Step(t) \/ \E c \in Commands : Call(t, c)

Spec == Init /\ [][Next]_vars

\* A thread that processes a command goes on; callbacks return.
FairSpec == Spec /\ \A t \in Threads : WF_vars(Step(t))

-----------------------------------------------------------------------------
(* Properties.                                                             *)

\* Whatever the threads do, the STATE service ends up with the state of the
\* machine: it may only differ between an assignment and the publication that
\* follows it (fsm.cxx:117-118), and no late publication overwrites a newer one.
PublishedIsState ==
    (\A t \in Threads : phase[t] \notin {"assign", "publish"}) => published = state

\* Every command is answered, DONE or FAILED (processCommand).
EveryCallAnswered == \A t \in Threads : (phase[t] # "idle") ~> (phase[t] = "idle")
=============================================================================
