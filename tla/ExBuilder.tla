------------------------------ MODULE ExBuilder ------------------------------
(***************************************************************************)
(* The example event builder (exBuilder.cxx) under its state machine: the  *)
(* lives of its data sockets, of the builder (shmdriver) and of the        *)
(* registrations in it, while DIM's thread stores what the sockets         *)
(* receive, the scanner assembles it and the web server answers LIST.      *)
(*                                                                         *)
(* EventBuilder has the details of a run: what a file contains, the purge  *)
(* in steps, the calls of the processors.  Here a fragment is the marker   *)
(* of its file, a source and an event number, and the number of sources    *)
(* is what the commands make of it.  One operator sends one command at a   *)
(* time, by DIM or by the web.                                             *)
(***************************************************************************)
EXTENDS Integers, Sequences, FiniteSets, Functions

CONSTANTS
    Sources,        \* the sources an ADDSOURCES may name
    MaxEvent,       \* bound: the numbers of events
    MaxRestarts,    \* bound: how often sources begin their numbers anew
    MaxRegistered,  \* bound: registrations in a builder
    NoSource,       \* no socket is between the two deletes of its destructor
    Garbled         \* see Fsm

ASSUME BoundsAssumption ==
    /\ IsFiniteSet(Sources) /\ MaxEvent \in Nat /\ MaxRegistered \in Nat
    /\ MaxRestarts \in Nat

VARIABLES
    state, published, phase, rest, answer,  \* _fsm, see Fsm
    step,       \* how far the command is in its callback
    evb,        \* _evb: a builder, or none (not yet set, deleted or NULL)
    registered, \* _datasources of the builder: registrations of each source
    pool,       \* _eventMap: buffers of each source in an event's entry
    running,    \* _running of the builder
    scan,       \* where the scanner thread is
    listing,    \* the markers it has listed and not yet read
    complete,   \* the last event it completed in this pass, 0 for none
    socket,     \* _sources: the number of sockets of each source
    freed,      \* the source of the socket whose buffer is deleted and not its subscription
    value,      \* the event number a source last published, 0 for none
    due,        \* the updates that DIM has to deliver to the sockets of each source
    handler,    \* DIM's thread in infoHandler, and whether its socket is live
    marked,     \* the markers in closed/
    dead,       \* what ended the process
    halted,     \* history: the sockets of each source HALT deleted under this builder
    restarts,   \* history: the number of times a source began its numbers anew
    renumbered, \* history: one did under this builder
    obeyed      \* history: the operator kept to the rules (Obeys, ObeysList)

fsmVars  == <<state, published, phase, rest, answer>>
evbVars  == <<evb, registered, running>>
scanVars == <<pool, scan, listing, complete>>
dimVars  == <<value, due, handler, marked>>
sockVars == <<socket, freed>>
history  == <<halted, restarts, renumbered, obeyed>>
vars == <<fsmVars, step, evbVars, scanVars, sockVars, dimVars, dead, history>>

Threads == {"dim", "web"}
Events == 1 .. MaxEvent
Markers == Sources \X Events
Commands == {"CONFIGURE", "ADDSOURCES", "REGISTER", "START", "STOP", "HALT", "DESTROY"}
MachineStates == {"CREATED", "CONFIGURED", "REGISTERED", "RUNNING"}
Callbacks == {"configure", "addsources", "registerDone", "start", "stop", "halt", "destroy"}

\* The transitions of the constructor.
Table ==
    LET T(from, to, call) == << [from |-> from, to |-> to, call |-> call] >>
    IN  [CONFIGURE  |-> T("CREATED", "CONFIGURED", "configure"),
         ADDSOURCES |-> T("CONFIGURED", "CONFIGURED", "addsources"),
         REGISTER   |-> T("CONFIGURED", "REGISTERED", "registerDone"),
         START      |-> T("REGISTERED", "RUNNING", "start"),
         STOP       |-> T("RUNNING", "REGISTERED", "stop"),
         HALT       |-> T("RUNNING", "CONFIGURED", "halt"),
         DESTROY    |-> T("CONFIGURED", "CREATED", "destroy")]

ASSUME NoSourceAssumption == NoSource \notin Sources

ASSUME GarbledAssumption == Garbled \notin MachineStates

FSM == INSTANCE Fsm WITH States <- MachineStates, Created <- "CREATED"

NoSocket == [s \in Sources |-> 0]
NoneRegistered == [s \in Sources |-> 0]
EmptyPool == [e \in Events |-> [s \in Sources |-> 0]]
Idle == [pc |-> "idle"]

\* The subscriptions of a source: one of them may have lost its buffer.
Subscribed(s) == socket[s] + IF freed = s THEN 1 ELSE 0

\* numberOfDataSource, and the size of an event's entry.
N == FoldFunction(+, 0, registered)
Size(entry) == FoldFunction(+, 0, entry)

TypeOK ==
    /\ FSM!TypeOK
    /\ step \in {"ready", "joining", "dropping", "done"}
    /\ evb \in {"none", "builder"}
    /\ registered \in [Sources -> Nat]
    /\ pool \in [Events -> [Sources -> Nat]]
    /\ running \in BOOLEAN
    /\ scan \in {"off", "list", "pull"}
    /\ listing \subseteq Markers /\ marked \subseteq Markers
    /\ complete \in 0 .. MaxEvent
    /\ socket \in [Sources -> Nat] /\ freed \in Sources \cup {NoSource}
    /\ value \in [Sources -> 0 .. MaxEvent]
    /\ due \in [Sources -> Nat]
    /\ \A s \in Sources : due[s] <= Subscribed(s) /\ (due[s] > 0 => value[s] # 0)
    /\ handler \in {Idle} \cup
          [pc : {"data", "marker"}, src : Sources, evt : Events, live : BOOLEAN]
    /\ dead \in {"no", "modulo", "builder", "buffer"}
    /\ halted \in [Sources -> Nat] /\ restarts \in 0 .. MaxRestarts
    /\ {renumbered, obeyed} \subseteq BOOLEAN
    /\ scan # "off" => evb = "builder"

Init ==
    /\ FSM!Init
    /\ step = "ready"
    /\ evb = "none" /\ registered = NoneRegistered /\ running = FALSE
    /\ pool = EmptyPool /\ scan = "off" /\ listing = {} /\ complete = 0
    /\ socket = NoSocket /\ freed = NoSource
    /\ value = [s \in Sources |-> 0] /\ due = NoSocket /\ handler = Idle /\ marked = {}
    /\ dead = "no"
    /\ halted = NoSocket /\ restarts = 0 /\ renumbered = FALSE /\ obeyed = TRUE

-----------------------------------------------------------------------------
(* The state machine.                                                      *)

Quiet == \A t \in Threads : phase[t] = "idle"

\* An operator obeys who deletes sockets by DIM only, whose thread is then not
\* in infoHandler, ...
Obeys(t, c) ==
    t = "web" /\ c \in {"CONFIGURE", "HALT"} => socket = NoSocket

\* ... and asks for LIST between commands, in a state that has a builder.
ObeysList == Quiet /\ state # "CREATED"

Call(t, c) ==
    /\ Quiet
    /\ t = "dim" => handler = Idle
    /\ FSM!Call(t, c)
    /\ obeyed' = (obeyed /\ Obeys(t, c))
    /\ UNCHANGED <<step, evbVars, scanVars, sockVars, dimVars, dead, halted, restarts,
                   renumbered>>

Dispatch(t) ==
    /\ FSM!Skip(t) \/ FSM!Match(t) \/ FSM!Refuse(t) \/ FSM!Assign(t) \/ FSM!Publish(t)
    /\ UNCHANGED <<step, evbVars, scanVars, sockVars, dimVars, dead, history>>

Return(t) ==
    /\ step = "done"
    /\ FSM!Return(t)
    /\ step' = "ready"
    /\ UNCHANGED <<evbVars, scanVars, sockVars, dimVars, dead, history>>

In(t, f) == phase[t] = "callback" /\ Head(rest[t]).call = f

\* The loop of configure and of halt over _sources.
Dropping(t) ==
    \/ In(t, "configure") /\ step = "ready"
    \/ In(t, "halt") /\ step = "dropping"

\* DIM's thread is in infoHandler of a live socket of source s.
Handling(s) == handler # Idle /\ handler.src = s /\ handler.live

\* ~datasocket: the buffer goes first ...
DropBuffer(t) ==
    /\ Dropping(t) /\ freed = NoSource
    /\ \E s \in Sources :
        /\ socket[s] > 0
        /\ socket' = [socket EXCEPT ![s] = @ - 1]
        /\ freed' = s
        /\ \/ /\ ~Handling(s) \/ socket[s] > 1
              /\ UNCHANGED handler
           \/ /\ Handling(s)
              /\ handler' = [handler EXCEPT !.live = FALSE]
    /\ UNCHANGED <<fsmVars, step, evbVars, scanVars, value, due, marked, dead, history>>

\* ... and then the subscription, with an update it may not have been given.
DropInfo(t) ==
    /\ Dropping(t)
    /\ \E s \in Sources, lost \in {0, 1} :
        /\ freed = s
        /\ due[s] - lost \in 0 .. socket[s]
        /\ due' = [due EXCEPT ![s] = @ - lost]
        /\ halted' = IF In(t, "halt") THEN [halted EXCEPT ![s] = @ + 1] ELSE halted
    /\ freed' = NoSource
    /\ UNCHANGED <<fsmVars, step, evbVars, scanVars, socket, value, handler, marked, dead,
                   restarts, renumbered, obeyed>>

\* The sockets are gone.
Dropped == socket = NoSocket /\ freed = NoSource

\* Mutant of Configure: the sockets of the last configuration are kept.
ConfigureKeepsSockets(t) ==
    /\ In(t, "configure") /\ step = "ready" /\ freed = NoSource
    /\ evb' = "builder" /\ registered' = NoneRegistered /\ pool' = EmptyPool
    /\ marked' = {}
    /\ step' = "done"
    /\ UNCHANGED <<fsmVars, running, scan, listing, complete, sockVars, value, due, handler,
                   dead, history>>

\* The rest of configure: a new builder with one processor, and cleanShm.
Configure(t) ==
    /\ In(t, "configure") /\ step = "ready" /\ Dropped
    /\ evb' = "builder" /\ registered' = NoneRegistered /\ pool' = EmptyPool
    /\ marked' = {}
    /\ step' = "done"
    /\ UNCHANGED <<fsmVars, running, scan, listing, complete, sockVars, value, due, handler,
                   dead, history>>

\* What is left of the process when _evb is used.
UseBuilder == dead' = IF evb = "builder" THEN dead ELSE "builder"

\* Mutant of AddSource: registerDataSource is outside of the loop.
AddSourceRegistersOne(t) ==
    /\ In(t, "addsources") /\ step = "ready" /\ N < MaxRegistered
    /\ \E s \in Sources :
        /\ socket' = [socket EXCEPT ![s] = @ + 1]
        /\ due' = [due EXCEPT ![s] = @ + IF value[s] # 0 THEN 1 ELSE 0]
        /\ registered' = [registered EXCEPT ![s] = IF N = 0 THEN 1 ELSE @]
    /\ UseBuilder
    /\ UNCHANGED <<fsmVars, step, evb, running, scanVars, freed, value, handler, marked, history>>

\* addsources: a socket for the next source of the list, whatever sockets there
\* are, which DIM tells of the last publication, and a registration.
AddSource(t) ==
    /\ In(t, "addsources") /\ step = "ready" /\ N < MaxRegistered
    /\ \E s \in Sources :
        /\ socket' = [socket EXCEPT ![s] = @ + 1]
        /\ due' = [due EXCEPT ![s] = @ + IF value[s] # 0 THEN 1 ELSE 0]
        /\ registered' = [registered EXCEPT ![s] = @ + 1]
    /\ UseBuilder
    /\ UNCHANGED <<fsmVars, step, evb, running, scanVars, freed, value, handler, marked, history>>

\* The list is at its end; registerDone counts the sockets.
Answered(t) ==
    /\ In(t, "addsources") \/ In(t, "registerDone")
    /\ step = "ready"
    /\ step' = "done"
    /\ UNCHANGED <<fsmVars, evbVars, scanVars, sockVars, dimVars, dead, history>>

\* start: the map is that of the last run.
Start(t) ==
    /\ In(t, "start") /\ step = "ready"
    /\ UseBuilder
    /\ running' = TRUE /\ scan' = "list"
    /\ step' = "done"
    /\ UNCHANGED <<fsmVars, evb, registered, pool, listing, complete, sockVars, dimVars, history>>

\* stop, which halt calls.
Stop(t) ==
    /\ In(t, "stop") \/ In(t, "halt")
    /\ step = "ready"
    /\ UseBuilder
    /\ running' = FALSE
    /\ step' = "joining"
    /\ UNCHANGED <<fsmVars, evb, registered, scanVars, sockVars, dimVars, history>>

\* Mutant of Joined: nobody waits for the scanner.
JoinedAtOnce(t) ==
    /\ step = "joining"
    /\ In(t, "stop") \/ In(t, "halt")
    /\ step' = IF In(t, "halt") THEN "dropping" ELSE "done"
    /\ UNCHANGED <<fsmVars, evbVars, scanVars, sockVars, dimVars, dead, history>>

\* The scanner has ended; a halt goes on to delete the sockets.
Joined(t) ==
    /\ step = "joining" /\ scan = "off"
    /\ In(t, "stop") \/ In(t, "halt")
    /\ step' = IF In(t, "halt") THEN "dropping" ELSE "done"
    /\ UNCHANGED <<fsmVars, evbVars, scanVars, sockVars, dimVars, dead, history>>

Halted(t) ==
    /\ In(t, "halt") /\ step = "dropping" /\ Dropped
    /\ step' = "done"
    /\ UNCHANGED <<fsmVars, evbVars, scanVars, sockVars, dimVars, dead, history>>

\* destroy: the writer and the builder go, the sockets stay.
Destroy(t) ==
    /\ In(t, "destroy") /\ step = "ready"
    /\ evb' = "none" /\ registered' = NoneRegistered /\ pool' = EmptyPool
    /\ halted' = NoSocket /\ renumbered' = FALSE
    /\ step' = "done"
    /\ UNCHANGED <<fsmVars, running, scan, listing, complete, sockVars, dimVars, dead, restarts,
                   obeyed>>

\* LIST reads run and event of the builder, whether there is one or not.
List ==
    /\ phase["web"] = "idle"
    /\ UseBuilder
    /\ obeyed' = (obeyed /\ ObeysList)
    /\ UNCHANGED <<fsmVars, step, evbVars, scanVars, sockVars, dimVars, halted, restarts,
                   renumbered>>

Callback(t) ==
    \/ DropBuffer(t) \/ DropInfo(t) \/ Configure(t) \/ AddSource(t) \/ Answered(t)
    \/ Start(t) \/ Stop(t) \/ Joined(t) \/ Halted(t) \/ Destroy(t)

-----------------------------------------------------------------------------
(* The sources, and DIM's thread.                                          *)

\* The next number or a later one; a source that is started anew begins again.
Publish(s) ==
    /\ \E e \in Events :
        /\ value' = [value EXCEPT ![s] = e]
        /\ \/ /\ e > value[s]
              /\ UNCHANGED <<restarts, renumbered>>
           \/ /\ e <= value[s] /\ restarts < MaxRestarts
              /\ restarts' = restarts + 1
              /\ renumbered' = (renumbered \/ evb = "builder")
    /\ due' = [due EXCEPT ![s] = Subscribed(s)]
    /\ UNCHANGED <<fsmVars, step, evbVars, scanVars, sockVars, handler, marked, dead, halted,
                   obeyed>>

\* infoHandler is called; never while DIM's thread runs a command.
Receive(s) ==
    /\ phase["dim"] = "idle" /\ handler = Idle /\ due[s] > 0
    /\ \E live \in BOOLEAN :
        /\ live => socket[s] > 0
        /\ ~live => freed = s
        /\ handler' = [pc |-> "data", src |-> s, evt |-> value[s], live |-> live]
    /\ due' = [due EXCEPT ![s] = @ - 1]
    /\ UNCHANGED <<fsmVars, step, evbVars, scanVars, sockVars, value, marked, dead, history>>

\* It writes to the socket's buffer, and the buffer to a file ...
StoreData ==
    /\ handler.pc = "data"
    /\ handler' = [handler EXCEPT !.pc = "marker"]
    /\ dead' = IF handler.live THEN dead ELSE "buffer"
    /\ UNCHANGED <<fsmVars, step, evbVars, scanVars, sockVars, value, due, marked, history>>

\* ... which may fail ...
StoreFails ==
    /\ handler.pc = "marker"
    /\ handler' = Idle
    /\ UNCHANGED <<fsmVars, step, evbVars, scanVars, sockVars, value, due, marked, dead, history>>

\* ... and marks the file.
StoreMarker ==
    /\ handler.pc = "marker"
    /\ marked' = marked \cup {<<handler.src, handler.evt>>}
    /\ handler' = Idle
    /\ UNCHANGED <<fsmVars, step, evbVars, scanVars, sockVars, value, due, dead, history>>

-----------------------------------------------------------------------------
(* The scanner.                                                            *)

ScanExit ==
    /\ scan = "list" /\ ~running
    /\ scan' = "off"
    /\ UNCHANGED <<fsmVars, step, evbVars, pool, listing, complete, sockVars, dimVars, dead,
                   history>>

\* The number of files modulo the number of sources (zero, when nothing is
\* registered): a mismatch purges them.
ScanList ==
    /\ scan = "list" /\ running /\ marked # {}
    /\ IF registered = NoneRegistered
         THEN dead' = "modulo" /\ UNCHANGED <<scan, listing, marked>>
         ELSE /\ dead' = dead
              /\ IF Cardinality(marked) % N # 0
                   THEN marked' = {} /\ UNCHANGED <<scan, listing>>
                   ELSE listing' = marked /\ scan' = "pull" /\ marked' = marked
    /\ UNCHANGED <<fsmVars, step, evbVars, pool, complete, sockVars, value, due, handler, history>>

\* Mutant of ScanPull: the file stays.
ScanPullKeepsFile ==
    /\ scan = "pull"
    /\ \E m \in listing :
        LET entry == [pool[m[2]] EXCEPT ![m[1]] = @ + 1]
        IN  /\ listing' = listing \ {m}
            /\ marked' = marked
            /\ IF Size(entry) = N
                 THEN pool' = [pool EXCEPT ![m[2]] = NoneRegistered] /\ complete' = m[2]
                 ELSE pool' = [pool EXCEPT ![m[2]] = entry] /\ complete' = complete
    /\ UNCHANGED <<fsmVars, step, evbVars, scan, sockVars, value, due, handler, dead, history>>

\* A file is read and unlinked, its buffer joins the entry of its event; an
\* entry of N buffers is processed.
ScanPull ==
    /\ scan = "pull"
    /\ \E m \in listing :
        LET entry == [pool[m[2]] EXCEPT ![m[1]] = @ + 1]
        IN  /\ listing' = listing \ {m}
            /\ marked' = marked \ {m}
            /\ IF Size(entry) = N
                 THEN pool' = [pool EXCEPT ![m[2]] = NoneRegistered] /\ complete' = m[2]
                 ELSE pool' = [pool EXCEPT ![m[2]] = entry] /\ complete' = complete
    /\ UNCHANGED <<fsmVars, step, evbVars, scan, sockVars, value, due, handler, dead, history>>

\* cleanBufferMap, if an event was completed: old entries go.
ScanEnd ==
    /\ scan = "pull" /\ listing = {}
    /\ \E k \in 0 .. MaxEvent :
        /\ k < complete \/ k = 0
        /\ pool' = [e \in Events |-> IF e <= k THEN NoneRegistered ELSE pool[e]]
    /\ scan' = "list" /\ complete' = 0
    /\ UNCHANGED <<fsmVars, step, evbVars, listing, sockVars, dimVars, dead, history>>

-----------------------------------------------------------------------------

Command(t) == Dispatch(t) \/ Return(t) \/ Callback(t)
Handle == StoreData \/ StoreFails \/ StoreMarker
Scan == ScanExit \/ ScanList \/ ScanPull \/ ScanEnd

Next ==
    /\ dead = "no"
    /\ \/ \E t \in Threads : Command(t) \/ \E c \in Commands : Call(t, c)
       \/ List
       \/ \E s \in Sources : Publish(s) \/ Receive(s)
       \/ Handle
       \/ Scan

Spec == Init /\ [][Next]_vars

-----------------------------------------------------------------------------
(* Properties.                                                             *)

\* The process outlives whatever an operator sends who deletes sockets by DIM
\* and asks for LIST between commands of a configured builder: no modulo by a
\* number of sources that is zero (a START without ADDSOURCES finds no file: the
\* sockets are gone before the directory is purged), no use of a builder or of
\* a buffer that is gone (exBuilder.cxx:34-47, 106-121, 126).
RulesKeepItAlive == obeyed => dead = "no"

\* Between commands the builder counts, of each source, the sockets it has and
\* those that HALT deleted since the builder was made: however often a source is
\* named, and whatever sockets an earlier builder left (exBuilder.cxx:34-36, 74-76,
\* 106-114).  What HALT leaves of the count is more than the sources can fill.
RegisteredIsSubscribed ==
    Quiet /\ evb = "builder" =>
        \A s \in Sources : registered[s] = Subscribed(s) + halted[s]

\* Of a source that was named once since the builder was made, no fragment is
\* read into an entry that has one: neither the first update of a subscription,
\* nor HALT and another START, nor a builder that was destroyed and configured
\* anew makes the scanner do so.  Two things would: a source that begins its
\* numbers anew (EventBuilderTwoRuns), and a store while sockets are deleted.
EachFragmentOnce ==
    [][ obeyed /\ ~renumbered =>
          \A m \in listing \ listing' : registered[m[1]] = 1 => pool[m[2]][m[1]] = 0 ]_listing
==============================================================================
