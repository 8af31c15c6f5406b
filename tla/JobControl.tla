----------------------------- MODULE JobControl -----------------------------
(***************************************************************************)
(* The job control daemon (fsmjob.cxx): it registers the jobs of a host,   *)
(* forks a process for each on START, and remembers them in m_processMap,  *)
(* by pid, to kill or restart them.  Transitions come through the state    *)
(* machine, KILLJOB, RESTARTJOB and REGISTERFILE directly from the web     *)
(* server.  SIGCHLD is ignored: a child that ends is gone at once, nobody  *)
(* tells the daemon, and its pid may be given to another process.          *)
(*                                                                         *)
(* An entry of m_processMap is here the job's name.  Its m_status is       *)
(* always RUNNING: startProcess sets it before the entry is inserted, and  *)
(* killProcess erases the entry it marks KILLED.                           *)
(***************************************************************************)
EXTENDS Naturals, Sequences, FiniteSets

CONSTANTS
    Threads,        \* the threads that call the daemon: DIM's and the web's
    Names,          \* the names of the jobs of this host, each of one job
    Pids,           \* bound: the pids of the host
    Fatal,          \* what the signals sent do: TRUE for the default, SIGKILL
    NoJob,          \* "no entry"
    Garbled         \* see Fsm

ASSUME JobAssumption ==
    /\ NoJob \notin Names
    /\ Names \cap {"free", "dying", "other"} = {}
    /\ Fatal \subseteq BOOLEAN

VARIABLES
    state, published, phase, rest, answer,  \* _fsm, see Fsm
    step,       \* how far a thread is in a callback or in a web command
    tofork,     \* names of jobs the thread has still to start
    tokill,     \* pids the thread has still to kill
    jconf,      \* m_jconf: the jobs registered
    procs,      \* m_processMap: pid -> name, NoJob for "no entry"
    os          \* the processes of the host: free, other, dying, or a job's name

fsmVars  == <<state, published, phase, rest, answer>>
callVars == <<step, tofork, tokill>>
vars == <<fsmVars, callVars, jconf, procs, os>>

Commands == {"INITIALISE", "REGISTRATION", "REGISTERJOB", "ENDREGISTRATION",
             "START", "KILL", "DESTROY"}
MachineStates == {"CREATED", "REGISTERING", "INITIALISED", "RUNNING"}
Callbacks == {"initialise", "registration", "registerjob", "endregistration",
              "start", "kill", "destroy"}

\* The transitions of the constructor.
Table ==
    LET T(from, to, call) == << [from |-> from, to |-> to, call |-> call] >>
    IN  [INITIALISE      |-> T("CREATED", "INITIALISED", "initialise"),
         REGISTRATION    |-> T("CREATED", "REGISTERING", "registration"),
         REGISTERJOB     |-> T("REGISTERING", "REGISTERING", "registerjob"),
         ENDREGISTRATION |-> T("REGISTERING", "INITIALISED", "endregistration"),
         START           |-> T("INITIALISED", "RUNNING", "start"),
         KILL            |-> T("RUNNING", "INITIALISED", "kill"),
         DESTROY         |-> T("INITIALISED", "CREATED", "destroy")]

ASSUME GarbledAssumption == Garbled \notin MachineStates

FSM == INSTANCE Fsm WITH States <- MachineStates, Created <- "CREATED"

NoEntry == [p \in Pids |-> NoJob]

TypeOK ==
    /\ FSM!TypeOK
    /\ step \in [Threads -> {"ready", "forking", "killing", "done", "killjob",
                             "restart", "respawn", "register"}]
    /\ tofork \in [Threads -> SUBSET Names]
    /\ tokill \in [Threads -> SUBSET Pids]
    /\ jconf \subseteq Names
    /\ procs \in [Pids -> Names \cup {NoJob}]
    /\ os \in [Pids -> Names \cup {"free", "dying", "other"}]
    /\ \A t \in Threads :
        step[t] \in {"killjob", "restart", "respawn", "register"} => phase[t] = "idle"
    /\ \A t \in Threads : step[t] = "respawn" => tofork[t] # {}

Init ==
    /\ FSM!Init
    /\ step = [t \in Threads |-> "ready"]
    /\ tofork = [t \in Threads |-> {}]
    /\ tokill = [t \in Threads |-> {}]
    /\ jconf = {}
    /\ procs = NoEntry
    /\ os = [p \in Pids |-> "free"]

-----------------------------------------------------------------------------
(* The host.                                                               *)

\* A process ends, killed or by itself; the other processes come and go.
Ends(p) ==
    /\ os[p] # "free"
    /\ os' = [os EXCEPT ![p] = "free"]
    /\ UNCHANGED <<fsmVars, callVars, jconf, procs>>

Appears(p) ==
    /\ os[p] = "free"
    /\ os' = [os EXCEPT ![p] = "other"]
    /\ UNCHANGED <<fsmVars, callVars, jconf, procs>>

\* startProcess and the insertion of its process data, which leaves an entry
\* of the same pid as it is.  fork succeeds.
Fork(n) ==
    \E p \in Pids :
        /\ os[p] = "free"
        /\ os' = [os EXCEPT ![p] = n]
        /\ procs' = [procs EXCEPT ![p] = IF @ = NoJob THEN n ELSE @]

\* Mutant of KillProcess: the entry is erased, the signal forgotten.
ForgetProcess(p, fatal) ==
    /\ os' = os
    /\ procs' = [procs EXCEPT ![p] = NoJob]

\* killProcess: a pid that is in the map is sent the signal, and erased from
\* the map whatever the signal does.
KillProcess(p, fatal) ==
    /\ os' = IF procs[p] # NoJob /\ os[p] # "free" /\ fatal
               THEN [os EXCEPT ![p] = "dying"] ELSE os
    /\ procs' = [procs EXCEPT ![p] = NoJob]

-----------------------------------------------------------------------------
(* The state machine and its callbacks.                                    *)

Call(t, c) ==
    /\ step[t] = "ready"
    /\ FSM!Call(t, c)
    /\ UNCHANGED <<callVars, jconf, procs, os>>

Dispatch(t) ==
    /\ FSM!Skip(t) \/ FSM!Match(t) \/ FSM!Refuse(t) \/ FSM!Assign(t) \/ FSM!Publish(t)
    /\ UNCHANGED <<callVars, jconf, procs, os>>

Return(t) ==
    /\ step[t] = "done"
    /\ FSM!Return(t)
    /\ step' = [step EXCEPT ![t] = "ready"]
    /\ UNCHANGED <<tofork, tokill, jconf, procs, os>>

In(t, f, s) == phase[t] = "callback" /\ Head(rest[t]).call = f /\ step[t] = s

GoesTo(t, s) == step' = [step EXCEPT ![t] = s]

\* initialise: the jobs of the file or of the url that have this host, none if
\* it cannot be read; the process data are deleted, not the processes.
Initialise(t) ==
    /\ In(t, "initialise", "ready")
    /\ jconf' \in SUBSET Names
    /\ procs' = NoEntry
    /\ GoesTo(t, "done")
    /\ UNCHANGED <<fsmVars, tofork, tokill, os>>

Registration(t) ==
    /\ In(t, "registration", "ready")
    /\ jconf' = {}
    /\ GoesTo(t, "done")
    /\ UNCHANGED <<fsmVars, tofork, tokill, procs, os>>

\* registerjob: a name that is registered already is not registered again.
Registerjob(t) ==
    /\ In(t, "registerjob", "ready")
    /\ \E n \in Names : jconf' = jconf \cup {n}
    /\ GoesTo(t, "done")
    /\ UNCHANGED <<fsmVars, tofork, tokill, procs, os>>

\* endregistration answers the list; destroy does nothing.
Nothing(t) ==
    /\ In(t, "endregistration", "ready") \/ In(t, "destroy", "ready")
    /\ GoesTo(t, "done")
    /\ UNCHANGED <<fsmVars, tofork, tokill, jconf, procs, os>>

\* start: a process for each job, one after the other.
Start(t) ==
    /\ In(t, "start", "ready")
    /\ tofork' = [tofork EXCEPT ![t] = jconf]
    /\ GoesTo(t, "forking")
    /\ UNCHANGED <<fsmVars, tokill, jconf, procs, os>>

StartNext(t) ==
    /\ In(t, "start", "forking")
    /\ \E n \in tofork[t] :
        /\ Fork(n)
        /\ tofork' = [tofork EXCEPT ![t] = @ \ {n}]
    /\ UNCHANGED <<fsmVars, step, tokill, jconf>>

Started(t) ==
    /\ In(t, "start", "forking") /\ tofork[t] = {}
    /\ GoesTo(t, "done")
    /\ UNCHANGED <<fsmVars, tofork, tokill, jconf, procs, os>>

\* kill: the pids of the map at this moment (jsonStatus) ...
Kill(t) ==
    /\ In(t, "kill", "ready")
    /\ tokill' = [tokill EXCEPT ![t] = {p \in Pids : procs[p] # NoJob}]
    /\ GoesTo(t, "killing")
    /\ UNCHANGED <<fsmVars, tofork, jconf, procs, os>>

\* ... are killed one after the other.
KillNext(t) ==
    /\ In(t, "kill", "killing")
    /\ \E p \in tokill[t] :
        /\ KillProcess(p, TRUE)
        /\ tokill' = [tokill EXCEPT ![t] = @ \ {p}]
    /\ UNCHANGED <<fsmVars, step, tofork, jconf>>

\* Mutant of Killed: the loop may end before its last process.
KilledEarly(t) ==
    /\ In(t, "kill", "killing") /\ Cardinality(tokill[t]) <= 1
    /\ tokill' = [tokill EXCEPT ![t] = {}]
    /\ GoesTo(t, "done")
    /\ UNCHANGED <<fsmVars, tofork, jconf, procs, os>>

Killed(t) ==
    /\ In(t, "kill", "killing") /\ tokill[t] = {}
    /\ GoesTo(t, "done")
    /\ UNCHANGED <<fsmVars, tofork, tokill, jconf, procs, os>>

Callback(t) ==
    \/ Initialise(t) \/ Registration(t) \/ Registerjob(t) \/ Nothing(t)
    \/ Start(t) \/ StartNext(t) \/ Started(t)
    \/ Kill(t) \/ KillNext(t) \/ Killed(t)

-----------------------------------------------------------------------------
(* The commands of the web server, in any state of the machine.            *)

Free(t) == phase[t] = "idle" /\ step[t] = "ready"

\* killjob: a process is found in the map, by name or by pid ...
Killjob(t) ==
    /\ Free(t)
    /\ \E p \in Pids :
        /\ procs[p] # NoJob
        /\ tokill' = [tokill EXCEPT ![t] = {p}]
    /\ GoesTo(t, "killjob")
    /\ UNCHANGED <<fsmVars, tofork, jconf, procs, os>>

\* ... and killed, with the signal of the request.
KilljobKill(t) ==
    /\ step[t] = "killjob"
    /\ \E p \in tokill[t] : \E fatal \in Fatal : KillProcess(p, fatal)
    /\ tokill' = [tokill EXCEPT ![t] = {}]
    /\ GoesTo(t, "ready")
    /\ UNCHANGED <<fsmVars, tofork, jconf>>

\* Mutant of Restartjob: jss is not compared with "NONE".
RestartjobUnknown(t) ==
    /\ Free(t)
    /\ \E p \in Pids :
        /\ tokill' = [tokill EXCEPT ![t] = {p}]
        /\ tofork' = [tofork EXCEPT ![t] = {procs[p]}]
    /\ GoesTo(t, "restart")
    /\ UNCHANGED <<fsmVars, jconf, procs, os>>

\* restartjob: a process is found and its description kept ...
Restartjob(t) ==
    /\ Free(t)
    /\ \E p \in Pids :
        /\ procs[p] # NoJob
        /\ tokill' = [tokill EXCEPT ![t] = {p}]
        /\ tofork' = [tofork EXCEPT ![t] = {procs[p]}]
    /\ GoesTo(t, "restart")
    /\ UNCHANGED <<fsmVars, jconf, procs, os>>

\* ... it is killed ...
RestartKill(t) ==
    /\ step[t] = "restart"
    /\ \E p \in tokill[t] : \E fatal \in Fatal : KillProcess(p, fatal)
    /\ tokill' = [tokill EXCEPT ![t] = {}]
    /\ GoesTo(t, "respawn")
    /\ UNCHANGED <<fsmVars, tofork, jconf>>

\* Mutant of RestartFork: a second process of the job can be started.
RestartForkTwice(t) ==
    /\ step[t] = "respawn"
    /\ \E n \in tofork[t] : Fork(n)
    /\ \/ GoesTo(t, "ready") /\ tofork' = [tofork EXCEPT ![t] = {}]
       \/ UNCHANGED <<step, tofork>>
    /\ UNCHANGED <<fsmVars, tokill, jconf>>

\* ... and started again.
RestartFork(t) ==
    /\ step[t] = "respawn"
    /\ \E n \in tofork[t] : Fork(n)
    /\ tofork' = [tofork EXCEPT ![t] = {}]
    /\ GoesTo(t, "ready")
    /\ UNCHANGED <<fsmVars, tokill, jconf>>

\* Mutant of Registerfile: in any state.
RegisterfileAlways(t) ==
    /\ Free(t)
    /\ GoesTo(t, "register")
    /\ UNCHANGED <<fsmVars, tofork, tokill, jconf, procs, os>>

\* registerfile: only INITIALISED ...
Registerfile(t) ==
    /\ Free(t)
    /\ state = "INITIALISED"
    /\ GoesTo(t, "register")
    /\ UNCHANGED <<fsmVars, tofork, tokill, jconf, procs, os>>

\* ... it registers the jobs of the file, none if there is none or it cannot be
\* read; like initialise.
RegisterfileJobs(t) ==
    /\ step[t] = "register"
    /\ jconf' \in SUBSET Names
    /\ procs' = NoEntry
    /\ GoesTo(t, "ready")
    /\ UNCHANGED <<fsmVars, tofork, tokill, os>>

WebCommand(t) ==
    \/ Killjob(t) \/ KilljobKill(t)
    \/ Restartjob(t) \/ RestartKill(t) \/ RestartFork(t)
    \/ Registerfile(t) \/ RegisterfileJobs(t)

-----------------------------------------------------------------------------

Host == \E p \in Pids : Ends(p) \/ Appears(p)

Next ==
    \/ \E t \in Threads : Dispatch(t) \/ Return(t) \/ Callback(t) \/ WebCommand(t)
    \/ \E t \in Threads, c \in Commands : Call(t, c)
    \/ Host

Spec == Init /\ [][Next]_vars

-----------------------------------------------------------------------------
(* Properties.                                                             *)

Quiet == \A t \in Threads : Free(t)

\* No process is forgotten: the pid of every child that lives is in the map, so
\* that KILL will reach it, and nothing but a kill takes it out (killProcess,
\* restartjob, initialise, registerfile).
ChildrenAreKnown == \A p \in Pids : os[p] \in Names => procs[p] # NoJob

\* "a START command to start all process on the PC and a KILL command to kill
\* them" (README.md:937-938): once no command is in progress, a child lives only
\* in state RUNNING.
NoChildUnlessRunning ==
    Quiet /\ state # "RUNNING" => \A p \in Pids : os[p] \notin Names

\* And outside of RUNNING the map is empty: what initialise and registerfile
\* delete without a kill is nothing (fsmjob.cxx:263-265, 720-722).
NoEntryUnlessRunning == Quiet /\ state # "RUNNING" => procs = NoEntry

\* A job never runs twice: "the name has to be unique" (README.md:870).
OneProcessPerJob ==
    \A p, q \in Pids : os[p] \in Names /\ os[p] = os[q] => p = q
=============================================================================
