------------------------------ MODULE ExServer ------------------------------
(***************************************************************************)
(* The example data server (exServer.cxx, exServer.cc) under its state     *)
(* machine: the threads that call processCommand, the main thread that     *)
(* counts events, and the readout threads, one created for each source by  *)
(* START, that publish a fragment when they see the event number change.   *)
(* They share _event, _bx and _running without any lock.                   *)
(***************************************************************************)
EXTENDS Naturals, Sequences, FiniteSets

CONSTANTS
    Threads,        \* the threads that call processCommand: DIM's and the web's
    Sources,        \* the source ids a CONFIGURE may name
    Copies,         \* bound: readout threads on one source at a time
    MaxEvent,       \* bound: events counted in one run
    MaxRuns,        \* bound: START commands
    Garbled         \* see Fsm

ASSUME BoundsAssumption == {Copies, MaxEvent, MaxRuns} \subseteq Nat

VARIABLES
    state, published, phase, rest, answer,  \* _fsm, see Fsm
    work,       \* how far a thread is in the callback it runs
    todo,       \* the sources its START has no readout thread for yet
    running,    \* _running
    event,      \* _event
    bx,         \* _bx
    counting,   \* the main thread in its loop
    run,        \* number of START callbacks so far
    sources,    \* _sources
    reader,     \* where a readout thread is; "off" is no thread
    last,       \* its last_evt
    unread,     \* the arguments of publish it has not read
    args,       \* those it has
    payload,    \* the tags at the start and the end of a source's payload
    out         \* the last fragment of a source that publish sent

fsmVars    == <<state, published, phase, rest, answer>>
callVars   == <<work, todo>>
countVars  == <<event, bx, counting>>
readVars   == <<reader, last, unread, args, payload, out>>
vars == <<fsmVars, callVars, running, countVars, run, sources, readVars>>

Readers == Sources \X (1 .. Copies)
Commands == {"CONFIGURE", "START", "STOP", "HALT"}
MachineStates == {"CREATED", "CONFIGURED", "RUNNING"}

ASSUME GarbledAssumption == Garbled \notin MachineStates

Callbacks == {"configure", "start", "stop", "halt"}

\* The transitions of the constructor.
Table ==
    LET T(from, to, call) == [from |-> from, to |-> to, call |-> call]
    IN  [CONFIGURE |-> << T("CREATED", "CONFIGURED", "configure"),
                          T("CONFIGURED", "CONFIGURED", "configure") >>,
         START     |-> << T("CONFIGURED", "RUNNING", "start") >>,
         STOP      |-> << T("RUNNING", "CONFIGURED", "stop") >>,
         HALT      |-> << T("RUNNING", "CREATED", "halt"),
                          T("CONFIGURED", "CREATED", "halt") >>]

FSM == INSTANCE Fsm WITH States <- MachineStates, Created <- "CREATED"

Numbers == 0 .. MaxEvent
Crossings == 0 .. MaxEvent * MaxRuns
NothingSent == [run |-> 0, evt |-> 0, bx |-> 0, first |-> 0, end |-> 0]

TypeOK ==
    /\ FSM!TypeOK
    /\ work \in [Threads -> {"ready", "creating", "joining", "done"}]
    /\ todo \in [Threads -> SUBSET Sources]
    /\ running \in BOOLEAN
    /\ event \in Numbers /\ bx \in Crossings
    /\ counting \in {"idle", "event", "bx"}
    /\ run \in 0 .. MaxRuns
    /\ sources \subseteq Sources
    /\ reader \in [Readers -> {"off", "wait", "first", "end", "args", "last"}]
    /\ last \in [Readers -> Numbers]
    /\ unread \in [Readers -> SUBSET {"evt", "bx"}]
    /\ args \in [Readers -> [evt : Numbers, bx : Crossings]]
    /\ payload \in [Sources -> [first : Numbers, end : Numbers]]
    /\ out \in [Sources -> [run : 0 .. MaxRuns, evt : Numbers, bx : Crossings,
                            first : Numbers, end : Numbers]]

Init ==
    /\ FSM!Init
    /\ work = [t \in Threads |-> "ready"] /\ todo = [t \in Threads |-> {}]
    /\ running = FALSE
    /\ event = 0 /\ bx = 0 /\ counting = "idle"
    /\ run = 0 /\ sources = {}
    /\ reader = [r \in Readers |-> "off"]
    /\ last = [r \in Readers |-> 0]
    /\ unread = [r \in Readers |-> {}]
    /\ args = [r \in Readers |-> [evt |-> 0, bx |-> 0]]
    /\ payload = [s \in Sources |-> [first |-> 0, end |-> 0]]
    /\ out = [s \in Sources |-> NothingSent]

-----------------------------------------------------------------------------
(* The state machine.                                                      *)

\* A command arrives; every START may use up a run.
Call(t, c) ==
    /\ c = "START" => run + Cardinality({u \in Threads : phase[u] # "idle"}) < MaxRuns
    /\ FSM!Call(t, c)
    /\ UNCHANGED <<callVars, running, countVars, run, sources, readVars>>

\* processCommand around the callback.
Dispatch(t) ==
    /\ FSM!Skip(t) \/ FSM!Match(t) \/ FSM!Refuse(t) \/ FSM!Assign(t) \/ FSM!Publish(t)
    /\ UNCHANGED <<callVars, running, countVars, run, sources, readVars>>

Return(t) ==
    /\ work[t] = "done"
    /\ FSM!Return(t)
    /\ work' = [work EXCEPT ![t] = "ready"]
    /\ UNCHANGED <<todo, running, countVars, run, sources, readVars>>

\* Thread t runs callback f, and is at step w of it.
In(t, f, w) == phase[t] = "callback" /\ Head(rest[t]).call = f /\ work[t] = w

GoesTo(t, w) == work' = [work EXCEPT ![t] = w]

\* configure: the sources are deleted and created anew, from the message.
Configure(t) ==
    /\ In(t, "configure", "ready")
    /\ sources' \in SUBSET Sources
    /\ GoesTo(t, "done")
    /\ UNCHANGED <<fsmVars, todo, running, countVars, run, readVars>>

\* start: the event number goes back to 0, the crossing does not ...
Start(t) ==
    /\ In(t, "start", "ready")
    /\ event' = 0
    /\ running' = TRUE
    /\ run' = run + 1
    /\ todo' = [todo EXCEPT ![t] = sources]
    /\ GoesTo(t, "creating")
    /\ UNCHANGED <<fsmVars, bx, counting, sources, readVars>>

\* ... and the readout threads are created half a second apart.
CreateReader(t) ==
    /\ In(t, "start", "creating")
    /\ \E s \in todo[t] : \E i \in 1 .. Copies :
        /\ reader[<<s, i>>] = "off"
        /\ \A j \in 1 .. i - 1 : reader[<<s, j>>] # "off"
        /\ reader' = [reader EXCEPT ![<<s, i>>] = "wait"]
        /\ last' = [last EXCEPT ![<<s, i>>] = 0]
        /\ todo' = [todo EXCEPT ![t] = @ \ {s}]
    /\ UNCHANGED <<fsmVars, work, running, countVars, run, sources, unread, args, payload, out>>

Started(t) ==
    /\ In(t, "start", "creating") /\ todo[t] = {}
    /\ GoesTo(t, "done")
    /\ UNCHANGED <<fsmVars, todo, running, countVars, run, sources, readVars>>

\* stop, which halt calls if _running: the threads are told ...
Stop(t) ==
    /\ In(t, "stop", "ready") \/ (In(t, "halt", "ready") /\ running)
    /\ running' = FALSE
    /\ GoesTo(t, "joining")
    /\ UNCHANGED <<fsmVars, todo, countVars, run, sources, readVars>>

\* Mutant of Joined: nobody is joined.
JoinsNobody(t) ==
    /\ In(t, "stop", "joining")
    /\ GoesTo(t, "done")
    /\ UNCHANGED <<fsmVars, todo, running, countVars, run, sources, readVars>>

\* ... and joined.
Joined(t) ==
    /\ In(t, "stop", "joining")
    /\ \A r \in Readers : reader[r] = "off"
    /\ GoesTo(t, "done")
    /\ UNCHANGED <<fsmVars, todo, running, countVars, run, sources, readVars>>

\* Mutant of Destroy: nobody is joined.
DestroyAtOnce(t) ==
    /\ \/ In(t, "halt", "joining")
       \/ In(t, "halt", "ready") /\ ~running
    /\ sources' = {}
    /\ GoesTo(t, "done")
    /\ UNCHANGED <<fsmVars, todo, running, countVars, run, readVars>>

\* The rest of halt: the sources are deleted.
Destroy(t) ==
    /\ \/ In(t, "halt", "joining") /\ \A r \in Readers : reader[r] = "off"
       \/ In(t, "halt", "ready") /\ ~running
    /\ sources' = {}
    /\ GoesTo(t, "done")
    /\ UNCHANGED <<fsmVars, todo, running, countVars, run, readVars>>

Callback(t) ==
    Configure(t) \/ Start(t) \/ CreateReader(t) \/ Started(t) \/ Stop(t) \/ Joined(t) \/ Destroy(t)

-----------------------------------------------------------------------------
(* The main thread: incrementEvent, ten times a second while _running.     *)

SeesRunning ==
    /\ counting = "idle" /\ running /\ event < MaxEvent
    /\ counting' = "event"
    /\ UNCHANGED <<fsmVars, callVars, running, event, bx, run, sources, readVars>>

CountEvent ==
    /\ counting = "event"
    /\ event' = event + 1
    /\ counting' = "bx"
    /\ UNCHANGED <<fsmVars, callVars, running, bx, run, sources, readVars>>

CountCrossing ==
    /\ counting = "bx"
    /\ bx' = bx + 1
    /\ counting' = "idle"
    /\ UNCHANGED <<fsmVars, callVars, running, event, run, sources, readVars>>

-----------------------------------------------------------------------------
(* A readout thread: readdata.                                             *)

At(r, pc) == reader[r] = pc

ReaderGoesTo(r, pc) == reader' = [reader EXCEPT ![r] = pc]

\* Mutant of Exit: the event number is looked at before _running.
ExitWhenIdle(r) ==
    /\ At(r, "wait") /\ ~running
    /\ event = last[r]
    /\ ReaderGoesTo(r, "off")
    /\ last' = [last EXCEPT ![r] = 0]
    /\ UNCHANGED <<fsmVars, callVars, running, countVars, run, sources, unread, args, payload, out>>

\* The loop ends; its last_evt goes with the thread.
Exit(r) ==
    /\ At(r, "wait") /\ ~running
    /\ ReaderGoesTo(r, "off")
    /\ last' = [last EXCEPT ![r] = 0]
    /\ UNCHANGED <<fsmVars, callVars, running, countVars, run, sources, unread, args, payload, out>>

\* The event number has changed since the thread last looked.
SeesEvent(r) ==
    /\ At(r, "wait") /\ running
    /\ event # last[r]
    /\ ReaderGoesTo(r, "first")
    /\ UNCHANGED <<fsmVars, callVars, running, countVars, run, sources, last, unread, args, payload, out>>

\* pld[0]=_event ...
TagFirst(r) ==
    /\ At(r, "first")
    /\ payload' = [payload EXCEPT ![r[1]].first = event]
    /\ ReaderGoesTo(r, "end")
    /\ UNCHANGED <<fsmVars, callVars, running, countVars, run, sources, last, unread, args, out>>

\* ... pld[psi-1]=_event ...
TagEnd(r) ==
    /\ At(r, "end")
    /\ payload' = [payload EXCEPT ![r[1]].end = event]
    /\ unread' = [unread EXCEPT ![r] = {"evt", "bx"}]
    /\ ReaderGoesTo(r, "args")
    /\ UNCHANGED <<fsmVars, callVars, running, countVars, run, sources, last, args, out>>

\* Mutant of ReadArgument: publish(_bx,_event,...).
SwapArguments(r) ==
    /\ At(r, "args")
    /\ \E a \in unread[r] :
        /\ args' = [args EXCEPT ![r] = IF a = "evt" THEN [@ EXCEPT !.bx = event]
                                                    ELSE [@ EXCEPT !.evt = bx]]
        /\ unread' = [unread EXCEPT ![r] = @ \ {a}]
    /\ UNCHANGED <<fsmVars, callVars, running, countVars, run, sources, reader, last, payload, out>>

\* ... the arguments of publish, evaluated in either order ...
ReadArgument(r) ==
    /\ At(r, "args")
    /\ \E a \in unread[r] :
        /\ args' = [args EXCEPT ![r] = IF a = "evt" THEN [@ EXCEPT !.evt = event]
                                                    ELSE [@ EXCEPT !.bx = bx]]
        /\ unread' = [unread EXCEPT ![r] = @ \ {a}]
    /\ UNCHANGED <<fsmVars, callVars, running, countVars, run, sources, reader, last, payload, out>>

\* Mutant of PublishFragment: the number published is counted, not read.
PublishNext(r) ==
    /\ At(r, "args") /\ unread[r] = {}
    /\ args' = [args EXCEPT ![r] = [evt |-> 0, bx |-> 0]]
    /\ out' = [out EXCEPT ![r[1]] = [run   |-> run,
                                     evt   |-> last[r] + 1,
                                     bx    |-> args[r].bx,
                                     first |-> payload[r[1]].first,
                                     end   |-> payload[r[1]].end]]
    /\ ReaderGoesTo(r, "last")
    /\ UNCHANGED <<fsmVars, callVars, running, countVars, run, sources, last, unread, payload>>

\* ... publish itself ...
PublishFragment(r) ==
    /\ At(r, "args") /\ unread[r] = {}
    /\ args' = [args EXCEPT ![r] = [evt |-> 0, bx |-> 0]]
    /\ out' = [out EXCEPT ![r[1]] = [run   |-> run,
                                     evt   |-> args[r].evt,
                                     bx    |-> args[r].bx,
                                     first |-> payload[r[1]].first,
                                     end   |-> payload[r[1]].end]]
    /\ ReaderGoesTo(r, "last")
    /\ UNCHANGED <<fsmVars, callVars, running, countVars, run, sources, last, unread, payload>>

\* Mutant of TakeLast: what was published is remembered ... before it was read.
TakeLastStale(r) ==
    /\ At(r, "last")
    /\ last' = [last EXCEPT ![r] = payload[r[1]].first]
    /\ ReaderGoesTo(r, "wait")
    /\ UNCHANGED <<fsmVars, callVars, running, countVars, run, sources, unread, args, payload, out>>

\* ... and last_evt=_event.
TakeLast(r) ==
    /\ At(r, "last")
    /\ last' = [last EXCEPT ![r] = event]
    /\ ReaderGoesTo(r, "wait")
    /\ UNCHANGED <<fsmVars, callVars, running, countVars, run, sources, unread, args, payload, out>>

Readout(r) ==
    \/ Exit(r) \/ SeesEvent(r) \/ TagFirst(r) \/ TagEnd(r)
    \/ ReadArgument(r) \/ PublishFragment(r) \/ TakeLast(r)

-----------------------------------------------------------------------------

Count == SeesRunning \/ CountEvent \/ CountCrossing

Command(t) == Dispatch(t) \/ Return(t) \/ Callback(t)

Next ==
    \/ \E t \in Threads : Command(t) \/ \E c \in Commands : Call(t, c)
    \/ Count
    \/ \E r \in Readers : Readout(r)

Spec == Init /\ [][Next]_vars

\* The threads run: those that process a command, and those that read out.
FairSpec ==
    /\ Spec
    /\ \A t \in Threads : WF_vars(Command(t))
    /\ \A r \in Readers : WF_vars(Readout(r))

-----------------------------------------------------------------------------
(* Properties of a server driven by one thread.                            *)

\* Whenever a readout thread calls publish, the event number is newer than that of
\* the last fragment its source sent in the same run, however late readdata looks
\* at _event (last_evt is read after the number that was sent); and the crossing,
\* which is read apart from it, never goes back, from one run to the next neither.
NumbersIncrease ==
    [][ \A r \in Readers : reader[r] = "args" /\ reader'[r] = "last" =>
          LET sent == out[r[1]]
              new  == out'[r[1]]
          IN  /\ new.run = sent.run => new.evt > sent.evt
              /\ new.bx >= sent.bx ]_vars

\* A fragment's header is never older than its payload (readdata).
HeaderNotOlder ==
    \A s \in Sources : out[s].first <= out[s].end /\ out[s].end <= out[s].evt

\* A source is never deleted under its readout thread, and outside of RUNNING,
\* once no command is in progress, no readout thread is left (stop, halt).
ReadersHaveSources ==
    /\ \A r \in Readers : reader[r] # "off" => r[1] \in sources
    /\ (\A t \in Threads : phase[t] = "idle") =>
          /\ running = (state = "RUNNING")
          /\ ~running => \A r \in Readers : reader[r] = "off"

\* "starts one thread per data source" (exServer.cxx:106).
OneReaderPerSource ==
    \A s \in Sources : \A i, j \in 1 .. Copies :
        reader[<<s, i>>] # "off" /\ reader[<<s, j>>] # "off" => i = j

\* Every command is answered: in particular the join of STOP and HALT ends.
CommandsReturn == \A t \in Threads : (phase[t] # "idle") ~> (phase[t] = "idle")
===============================================================================
