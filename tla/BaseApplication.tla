--------------------------- MODULE BaseApplication ---------------------------
(***************************************************************************)
(* baseApplication (baseApplication.cxx), the class that processes under   *)
(* the job control derive from: a state machine with one transition,       *)
(* CREATE, that finds the configuration of the experiment and in it the    *)
(* parameters of this process, while the web server's thread may read and  *)
(* replace both.                                                           *)
(*                                                                         *)
(* A configuration is reduced to the hosts it lists and the entries of     *)
(* this host; a member of _jConfig or _jParam is assigned in one step.     *)
(***************************************************************************)
EXTENDS Naturals, Sequences

CONSTANTS
    Documents,  \* the configurations a file, a server or a database may hold
    Self,       \* the name, port and instance of this process
    Given,      \* the parameters SETPARAM may give
    Null,       \* Json::Value::null
    Garbled     \* see Fsm

VARIABLES
    state, published, phase, rest, answer,  \* _fsm, see Fsm
    config,     \* _jConfig
    param,      \* _jParam
    step,       \* where a thread is in create
    blist,      \* the entries create has not examined yet
    rep,        \* the answer create puts in its message
    created,    \* history: what the calls of userCreate had
    alone       \* history: no two CREATEs were in progress at once

fsmVars == <<state, published, phase, rest, answer>>
createVars == <<config, param, step, blist, rep>>
history == <<created, alone>>
appVars == <<fsmVars, createVars, history>>

Threads == {"dim", "web"}
MachineStates == {"VOID", "CREATED"}

\* What queryDaqConfig returns of a database without the configuration, {}.
Empty == [hosts |-> "none", entries |-> << >>]

\* The entries of this host in all of them.
Entries == UNION { {d.entries[i] : i \in DOMAIN d.entries} : d \in Documents }

ASSUME DocumentAssumption ==
    /\ \A d \in Documents :
         d.hosts \in {"none", "others", "ours"} /\ d.entries \in Seq(Entries)
    /\ \A b \in Entries : DOMAIN b = {"name", "port", "instance", "PARAMETER"}
ASSUME GarbledAssumption == Garbled \notin MachineStates

Table == [CREATE |-> << [from |-> "VOID", to |-> "CREATED", call |-> "create"] >>]

FSM == INSTANCE Fsm WITH
    Commands <- {"CREATE"}, States <- MachineStates, Callbacks <- {"create"}, Created <- "CREATED"

NoAnswer == [kind |-> "none"]

\* parameters() and configuration().
Now == [param |-> param, config |-> config]

\* The machine was born, and published, CREATED; setState does not publish.
AppInit ==
    /\ state = "VOID" /\ published = "CREATED"
    /\ phase = [t \in Threads |-> "idle"]
    /\ rest = [t \in Threads |-> << >>]
    /\ answer = [t \in Threads |-> "none"]
    /\ config = Null /\ param = Null
    /\ step = [t \in Threads |-> "load"]
    /\ blist = [t \in Threads |-> << >>]
    /\ rep = [t \in Threads |-> NoAnswer]
    /\ created = {} /\ alone = TRUE

-----------------------------------------------------------------------------
(* CREATE.                                                                 *)

Create(t) ==
    /\ FSM!Call(t, "CREATE")
    /\ alone' = (alone /\ \A u \in Threads : phase[u] = "idle")
    /\ UNCHANGED <<createVars, created>>

Dispatch(t) ==
    /\ FSM!Skip(t) \/ FSM!Match(t) \/ FSM!Refuse(t) \/ FSM!Assign(t) \/ FSM!Publish(t)
    /\ UNCHANGED <<createVars, history>>

Return(t) ==
    /\ step[t] = "done"
    /\ FSM!Return(t)
    /\ step' = [step EXCEPT ![t] = "load"]
    /\ UNCHANGED <<config, param, blist, rep, history>>

At(t, s) == phase[t] = "callback" /\ step[t] = s
Goto(t, s) == step' = [step EXCEPT ![t] = s]

Load(t, documents) ==
    /\ At(t, "load") /\ Goto(t, "check")
    /\ config' \in documents
    /\ rep' = [rep EXCEPT ![t] = NoAnswer]
    /\ UNCHANGED <<fsmVars, param, blist, created, alone>>

\* A file that is missing or is no JSON leaves what there was, or part of it.
LoadFile(t) == Load(t, Documents \cup {config})

\* curlQuery: any failure is an empty string, and that is no configuration.
LoadUrl(t) == Load(t, Documents \cup {Null})

LoadMongo(t) == Load(t, Documents \cup {Empty})

\* The content of CREATE names no source.
LoadNothing(t) == Load(t, {config})

Usable(c) == c # Null /\ c.hosts = "ours"

\* Mutant of Missing: the return after the error is forgotten.
MissingGoesOn(t) ==
    /\ At(t, "check") /\ ~Usable(config) /\ Goto(t, "create")
    /\ rep' = [rep EXCEPT ![t] = [kind |-> "error"]]
    /\ UNCHANGED <<fsmVars, config, param, blist, history>>

\* No configuration, no hosts in it, or not this one: an error is answered, and
\* create returns.
Missing(t) ==
    /\ At(t, "check") /\ ~Usable(config) /\ Goto(t, "done")
    /\ rep' = [rep EXCEPT ![t] = [kind |-> "error"]]
    /\ UNCHANGED <<fsmVars, config, param, blist, history>>

HostFound(t) ==
    /\ At(t, "check") /\ Usable(config) /\ Goto(t, "examine")
    /\ blist' = [blist EXCEPT ![t] = config.entries]
    /\ UNCHANGED <<fsmVars, config, param, rep, history>>

\* An entry of this process: its name, and WEBPORT and INSTANCE of its ENV, 0
\* by default.
Mine(b) == b.name = Self.name /\ b.port = Self.port /\ b.instance = Self.instance

PassOver(t) ==
    /\ At(t, "examine") /\ blist[t] # << >>
    /\ ~Mine(Head(blist[t])) \/ Head(blist[t]).PARAMETER = Null
    /\ blist' = [blist EXCEPT ![t] = Tail(@)]
    /\ UNCHANGED <<fsmVars, config, param, step, rep, history>>

TakeParameter(t) ==
    /\ At(t, "examine") /\ blist[t] # << >> /\ Goto(t, "answer")
    /\ Mine(Head(blist[t])) /\ Head(blist[t]).PARAMETER # Null
    /\ param' = Head(blist[t]).PARAMETER
    /\ blist' = [blist EXCEPT ![t] = << >>]
    /\ UNCHANGED <<fsmVars, config, rep, history>>

\* No entry has parameters for this process: the old ones stay.
NoneLeft(t) ==
    /\ At(t, "examine") /\ blist[t] = << >> /\ Goto(t, "answer")
    /\ UNCHANGED <<fsmVars, config, param, blist, rep, history>>

Answer(t) ==
    /\ At(t, "answer") /\ Goto(t, "create")
    /\ rep' = [rep EXCEPT ![t] = [kind |-> "created", with |-> Now]]
    /\ UNCHANGED <<fsmVars, config, param, blist, history>>

\* userCreate, which may read both.
UserCreate(t) ==
    /\ At(t, "create") /\ Goto(t, "done")
    /\ created' = created \cup {Now}
    /\ UNCHANGED <<fsmVars, config, param, blist, rep, alone>>

InCreate(t) ==
    \/ LoadFile(t) \/ LoadUrl(t) \/ LoadMongo(t) \/ LoadNothing(t)
    \/ Missing(t) \/ HostFound(t) \/ PassOver(t) \/ TakeParameter(t) \/ NoneLeft(t)
    \/ Answer(t) \/ UserCreate(t) \/ Return(t)

-----------------------------------------------------------------------------

\* SETPARAM, in any state: what cannot be parsed changes nothing.
SetParam(p) ==
    /\ phase["web"] = "idle"
    /\ param' = p
    /\ UNCHANGED <<fsmVars, config, step, blist, rep, created, alone>>
==============================================================================
