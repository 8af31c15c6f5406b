--------------------------- MODULE JobControl_proof ---------------------------
(***************************************************************************)
(* For any jobs and any pids: commanded by one thread, with signals that   *)
(* end a process, the daemon loses no child, leaves none behind after a    *)
(* KILL, and never runs a job twice. For any number of threads, its types, *)
(* and that its machine is that of Fsm.                                    *)
(***************************************************************************)
EXTENDS JobControl, TLAPS

\* The runs JobControlOneThread stands for.
OneClient == (\A t, u \in Threads : t = u) /\ Fatal \subseteq {TRUE}

Phases == {"idle", "match", "callback", "assign", "publish"}
Rows == {Table[c] : c \in Commands}
Beyond == {"callback", "assign", "publish"}
Web == {"killjob", "restart", "respawn"}
Steps == {"ready", "forking", "killing", "done", "register"} \cup Web

Types ==
    /\ state \in MachineStates
    /\ phase \in [Threads -> Phases]
    /\ rest \in [Threads -> {<< >>} \cup Rows]
    /\ step \in [Threads -> Steps]
    /\ tofork \in [Threads -> SUBSET Names]
    /\ tokill \in [Threads -> SUBSET Pids]
    /\ jconf \subseteq Names
    /\ procs \in [Pids -> Names \cup {NoJob}]
    /\ os \in [Pids -> Names \cup {"free", "dying", "other"}]

Calls(t) == Head(rest[t]).call

\* Where a thread can be; a web command that works on an entry was given in
\* RUNNING.
Control ==
    \A t \in Threads :
        /\ phase[t] \in Beyond => rest[t] # << >>
        /\ phase[t] = "callback" =>
             /\ Head(rest[t]).from = state
             /\ step[t] \in {"ready", "done", "forking", "killing"}
             /\ step[t] = "forking" => Calls(t) = "start"
             /\ step[t] = "killing" => Calls(t) = "kill"
        /\ phase[t] = "idle" => step[t] \in {"ready", "register"} \cup Web
        /\ phase[t] \notin {"idle", "callback"} => step[t] = "ready"
        /\ step[t] \in Web => state = "RUNNING"
        /\ step[t] = "register" => state = "INITIALISED"

\* The map may have entries: in RUNNING, and within START and KILL.
MayHold(t) ==
    \/ phase[t] \notin {"callback", "assign"} /\ state = "RUNNING"
    \/ phase[t] = "callback" /\ Calls(t) = "start" /\ step[t] # "ready"
    \/ phase[t] = "callback" /\ Calls(t) = "kill" /\ step[t] # "done"
    \/ phase[t] = "assign" /\ Head(rest[t]).to = "RUNNING"

Entries == procs # NoEntry => \E t \in Threads : MayHold(t)

\* KILL has the pids of all entries that are left.
KillList ==
    \A t \in Threads : phase[t] = "callback" /\ step[t] = "killing" =>
        \A p \in Pids : procs[p] # NoJob => p \in tokill[t]

\* A job has one entry at most, and no other entry than that of its process.
Distinct ==
    /\ \A p, q \in Pids : procs[p] # NoJob /\ procs[p] = procs[q] => p = q
    /\ \A p, q \in Pids : os[q] \in Names /\ procs[p] = os[q] => p = q

\* Nothing is left of a job that is about to be forked.
ForkList ==
    \A t \in Threads :
        /\ step[t] \in {"forking", "respawn"} =>
             \A n \in tofork[t], p \in Pids : procs[p] # n /\ os[p] # n
        /\ step[t] = "restart" =>
             \E p \in Pids : procs[p] # NoJob /\ tokill[t] = {p} /\ tofork[t] = {procs[p]}

Map == ChildrenAreKnown /\ OneProcessPerJob /\ Distinct

IInv == Types /\ Control /\ Entries /\ KillList /\ ForkList /\ Map

-----------------------------------------------------------------------------

\* The constructor's table: START leads to RUNNING, and KILL out of it.
LEMMA TableFacts ==
    ASSUME NEW w \in Rows
    PROVE  /\ w # << >> /\ Tail(w) = << >>
           /\ Head(w).to \in MachineStates
           /\ Head(w).from = "RUNNING" => Head(w).call = "kill"
           /\ Head(w).call = "kill" => Head(w).from = "RUNNING" /\ Head(w).to # "RUNNING"
           /\ Head(w).call = "start" <=> Head(w).to = "RUNNING"
  <1>1. PICK c \in Commands : w = Table[c]
    BY DEF Rows
  <1>2. CASE c = "INITIALISE" BY <1>1, <1>2 DEF Table, MachineStates
  <1>3. CASE c = "REGISTRATION" BY <1>1, <1>3 DEF Table, MachineStates
  <1>4. CASE c = "REGISTERJOB" BY <1>1, <1>4 DEF Table, MachineStates
  <1>5. CASE c = "ENDREGISTRATION" BY <1>1, <1>5 DEF Table, MachineStates
  <1>6. CASE c = "START" BY <1>1, <1>6 DEF Table, MachineStates
  <1>7. CASE c = "KILL" BY <1>1, <1>7 DEF Table, MachineStates
  <1>8. CASE c = "DESTROY" BY <1>1, <1>8 DEF Table, MachineStates
  <1> QED BY <1>1, <1>2, <1>3, <1>4, <1>5, <1>6, <1>7, <1>8 DEF Commands

LEMMA InitHolds == ASSUME Init PROVE IInv
  <1> USE DEF Init, FSM!Init
  <1>1. Types
    BY DEF Types, Phases, Steps, MachineStates, NoEntry
  <1>2. Control /\ KillList /\ ForkList
    BY DEF Control, KillList, ForkList, Beyond, Web
  <1>3. Entries
    BY DEF Entries
  <1>4. Map
    BY JobAssumption DEF Map, ChildrenAreKnown, OneProcessPerJob, Distinct, NoEntry
  <1> QED BY <1>1, <1>2, <1>3, <1>4 DEF IInv

\* The map and the host stand still.
LEMMA MapFrame ==
    ASSUME Map, UNCHANGED <<procs, os>>
    PROVE  Map'
  BY DEF Map, ChildrenAreKnown, OneProcessPerJob, Distinct

LEMMA CallKeeps ==
    ASSUME OneClient, IInv, NEW t \in Threads, NEW c \in Commands, Call(t, c)
    PROVE  IInv'
  <1> USE DEF Call, FSM!Call, callVars
  <1>0. \A u \in Threads : u = t
    BY DEF OneClient
  <1>1. Types'
    BY DEF IInv, Types, Phases, Rows
  <1>2. phase'[t] = "match" /\ step[t] = "ready"
    BY DEF IInv, Types
  <1>3. Control'
    BY <1>0, <1>2 DEF IInv, Control, Beyond, Web
  <1>4. Entries'
    BY <1>0, <1>2 DEF IInv, Entries, MayHold, NoEntry
  <1>5. KillList' /\ ForkList'
    BY <1>0, <1>2 DEF KillList, ForkList
  <1> QED BY <1>1, <1>3, <1>4, <1>5, MapFrame DEF IInv

LEMMA DispatchKeeps ==
    ASSUME OneClient, IInv, NEW t \in Threads, Dispatch(t)
    PROVE  IInv'
  <1> USE DEF Dispatch, callVars
  <1>0. \A u \in Threads : u = t
    BY DEF OneClient
  <1>1. step[t] = "ready" /\ UNCHANGED <<step, tofork, tokill, jconf, procs, os>>
    <2>1. phase[t] \in {"match", "assign", "publish"}
      BY DEF FSM!Skip, FSM!Match, FSM!Refuse, FSM!Assign, FSM!Publish
    <2> QED BY <2>1 DEF IInv, Control
  <1>2. KillList' /\ ForkList'
    BY <1>0, <1>1 DEF KillList, ForkList
  <1>3. Map'
    BY <1>1, MapFrame DEF IInv
  <1>4. CASE FSM!Skip(t)
    <2>1. Tail(rest[t]) = << >>
      BY <1>4, TableFacts DEF FSM!Skip, IInv, Types
    <2>2. Types'
      BY <1>1, <1>4, <2>1 DEF FSM!Skip, IInv, Types
    <2>3. Control' /\ Entries'
      BY <1>0, <1>1, <1>4 DEF FSM!Skip, IInv, Control, Entries, MayHold, NoEntry, Beyond, Web
    <2> QED BY <1>2, <1>3, <2>2, <2>3 DEF IInv
  <1>5. CASE FSM!Match(t)
    <2>1. Types' /\ phase'[t] = "callback"
      BY <1>1, <1>5 DEF FSM!Match, IInv, Types, Phases
    <2>2. Head(rest[t]).from = "RUNNING" => Calls(t) = "kill"
      BY <1>5, TableFacts DEF FSM!Match, IInv, Types, Calls
    <2>3. Control'
      BY <1>0, <1>1, <1>5, <2>1 DEF FSM!Match, IInv, Control, Calls, Beyond, Web
    <2>4. Entries'
      BY <1>0, <1>1, <1>5, <2>1, <2>2 DEF FSM!Match, IInv, Entries, MayHold, NoEntry, Calls
    <2> QED BY <1>2, <1>3, <2>1, <2>3, <2>4 DEF IInv
  <1>6. CASE FSM!Refuse(t)
    <2>1. Types' /\ phase'[t] = "idle"
      BY <1>1, <1>6 DEF FSM!Refuse, IInv, Types, Phases
    <2>2. Control' /\ Entries'
      BY <1>0, <1>1, <1>6, <2>1 DEF FSM!Refuse, IInv, Control, Entries, MayHold, NoEntry, Beyond, Web
    <2> QED BY <1>2, <1>3, <2>1, <2>2 DEF IInv
  <1>7. CASE FSM!Assign(t)
    <2>1. rest[t] \in Rows
      BY <1>7 DEF FSM!Assign, IInv, Types, Control, Beyond
    <2>2. state' = Head(rest[t]).to
      <3>1. state # Garbled /\ ~FSM!Torn(t)
        BY <1>0, GarbledAssumption DEF IInv, Types, FSM!Torn
      <3> QED BY <1>7, <3>1 DEF FSM!Assign
    <2>3. Types' /\ phase'[t] = "publish"
      BY <1>1, <1>7, <2>1, <2>2, TableFacts DEF FSM!Assign, IInv, Types, Phases
    <2>4. Control'
      BY <1>0, <1>1, <1>7, <2>3 DEF FSM!Assign, IInv, Control, Beyond, Web
    <2>5. Entries'
      BY <1>0, <1>1, <1>7, <2>2, <2>3 DEF FSM!Assign, IInv, Entries, MayHold, NoEntry
    <2> QED BY <1>2, <1>3, <2>3, <2>4, <2>5 DEF IInv
  <1>8. CASE FSM!Publish(t)
    <2>1. Types' /\ phase'[t] = "idle"
      BY <1>1, <1>8 DEF FSM!Publish, IInv, Types, Phases
    <2>2. Control' /\ Entries'
      BY <1>0, <1>1, <1>8, <2>1 DEF FSM!Publish, IInv, Control, Entries, MayHold, NoEntry, Beyond, Web
    <2> QED BY <1>2, <1>3, <2>1, <2>2 DEF IInv
  <1> QED BY <1>4, <1>5, <1>6, <1>7, <1>8

LEMMA ReturnKeeps ==
    ASSUME OneClient, IInv, NEW t \in Threads, Return(t)
    PROVE  IInv'
  <1> USE DEF Return, FSM!Return
  <1>0. \A u \in Threads : u = t
    BY DEF OneClient
  <1>1. Types' /\ phase'[t] = "assign" /\ step'[t] = "ready"
    BY DEF IInv, Types, Phases, Steps
  <1>2. rest[t] \in Rows
    BY DEF IInv, Types, Control, Beyond
  <1>3. Control'
    BY <1>0, <1>1 DEF IInv, Control, Beyond, Web
  <1>4. Entries'
    BY <1>0, <1>1, <1>2, TableFacts DEF IInv, Entries, MayHold, NoEntry, Calls
  <1>5. KillList' /\ ForkList'
    BY <1>0, <1>1 DEF KillList, ForkList
  <1> QED BY <1>1, <1>3, <1>4, <1>5, MapFrame DEF IInv

-----------------------------------------------------------------------------
(* What a fork and a kill do to the map and to the host.                   *)

\* startProcess, of a job of which nothing is left (fsmjob.cxx:332-354, 508-510).
LEMMA ForkFacts ==
    ASSUME IInv, NEW n \in Names, Fork(n), \A p \in Pids : procs[p] # n /\ os[p] # n
    PROVE  /\ procs' \in [Pids -> Names \cup {NoJob}]
           /\ os' \in [Pids -> Names \cup {"free", "dying", "other"}]
           /\ Map'
           /\ \A m \in Names \ {n}, p \in Pids :
                (procs[p] # m => procs'[p] # m) /\ (os[p] # m => os'[p] # m)
  <1>1. PICK r \in Pids : /\ os[r] = "free"
                          /\ os' = [os EXCEPT ![r] = n]
                          /\ procs' = [procs EXCEPT ![r] = IF @ = NoJob THEN n ELSE @]
    BY DEF Fork
  <1>2. n # NoJob
    BY JobAssumption
  <1>3. procs' \in [Pids -> Names \cup {NoJob}] /\ os' \in [Pids -> Names \cup {"free", "dying", "other"}]
    BY <1>1 DEF IInv, Types
  <1>4. \A p \in Pids : p # r => procs'[p] = procs[p] /\ os'[p] = os[p]
    BY <1>1 DEF IInv, Types
  <1>5. os'[r] = n /\ procs'[r] = IF procs[r] = NoJob THEN n ELSE procs[r]
    BY <1>1 DEF IInv, Types
  <1>6. ChildrenAreKnown'
    BY <1>2, <1>4, <1>5 DEF IInv, Map, ChildrenAreKnown
  <1>7. OneProcessPerJob'
    BY <1>4, <1>5 DEF IInv, Map, OneProcessPerJob
  <1>8. Distinct'
    <2>1. \A p, q \in Pids : procs'[p] # NoJob /\ procs'[p] = procs'[q] => p = q
      BY <1>4, <1>5 DEF IInv, Map, Distinct
    <2>2. \A p, q \in Pids : os'[q] \in Names /\ procs'[p] = os'[q] => p = q
      BY <1>1, <1>4, <1>5 DEF IInv, Map, Distinct, ChildrenAreKnown
    <2> QED BY <2>1, <2>2 DEF Distinct
  <1>9. \A m \in Names \ {n}, p \in Pids :
          (procs[p] # m => procs'[p] # m) /\ (os[p] # m => os'[p] # m)
    BY <1>4, <1>5
  <1> QED BY <1>3, <1>6, <1>7, <1>8, <1>9 DEF Map

\* killProcess with a signal that ends the process (fsmjob.cxx:467-488): the
\* child of that pid was in the map, so it is hit.
LEMMA KillFacts ==
    ASSUME IInv, NEW p \in Pids, KillProcess(p, TRUE)
    PROVE  /\ procs' \in [Pids -> Names \cup {NoJob}]
           /\ os' \in [Pids -> Names \cup {"free", "dying", "other"}]
           /\ Map'
           /\ procs'[p] = NoJob
           /\ \A q \in Pids : q # p => procs'[q] = procs[q] /\ os'[q] = os[q]
           /\ os'[p] \notin Names
  <1>1. procs' = [procs EXCEPT ![p] = NoJob]
    BY DEF KillProcess
  <1>2. os' = [os EXCEPT ![p] = "dying"] \/ os' = os
    BY DEF KillProcess
  <1>3. procs' \in [Pids -> Names \cup {NoJob}] /\ os' \in [Pids -> Names \cup {"free", "dying", "other"}]
    BY <1>1, <1>2 DEF IInv, Types
  <1>4. procs'[p] = NoJob /\ \A q \in Pids : q # p => procs'[q] = procs[q] /\ os'[q] = os[q]
    BY <1>1, <1>2 DEF IInv, Types
  <1>5. os'[p] \notin Names
    <2>1. CASE os[p] \in Names
      <3>1. procs[p] # NoJob /\ os[p] # "free"
        BY <2>1, JobAssumption DEF IInv, Map, ChildrenAreKnown
      <3>2. os'[p] = "dying"
        BY <3>1 DEF KillProcess, IInv, Types
      <3> QED BY <3>2, JobAssumption
    <2>2. CASE os[p] \notin Names
      <3>1. os'[p] \in {os[p], "dying"}
        BY <1>2 DEF IInv, Types
      <3> QED BY <2>2, <3>1, JobAssumption
    <2> QED BY <2>1, <2>2
  <1>6. ChildrenAreKnown' /\ OneProcessPerJob'
    BY <1>4, <1>5 DEF IInv, Map, ChildrenAreKnown, OneProcessPerJob
  <1>7. Distinct'
    <2>1. \A q \in Pids : procs'[q] # NoJob => q # p /\ procs'[q] = procs[q]
      BY <1>4
    <2>2. \A q \in Pids : os'[q] \in Names => q # p /\ os'[q] = os[q]
      BY <1>4, <1>5
    <2>3. NoJob \notin Names
      BY JobAssumption
    <2> QED BY <2>1, <2>2, <2>3 DEF IInv, Map, Distinct
  <1> QED BY <1>3, <1>4, <1>5, <1>6, <1>7 DEF Map

\* The host ends a process or starts one of its own.
LEMMA HostKeeps ==
    ASSUME IInv, Host
    PROVE  IInv'
  <1>1. PICK p \in Pids : os' = [os EXCEPT ![p] = "free"] \/ os' = [os EXCEPT ![p] = "other"]
    BY DEF Host, Ends, Appears
  <1>2. UNCHANGED <<fsmVars, callVars, jconf, procs>>
    BY DEF Host, Ends, Appears
  <1> USE <1>2 DEF fsmVars, callVars
  <1>3. Types'
    BY <1>1 DEF IInv, Types
  <1>4. \A q \in Pids : os'[q] = os[q] \/ os'[q] \in {"free", "other"}
    BY <1>1 DEF IInv, Types
  <1>5. \A q \in Pids : os'[q] \in Names => os'[q] = os[q]
    BY <1>4, JobAssumption
  <1>6. Map'
    BY <1>5 DEF IInv, Map, ChildrenAreKnown, OneProcessPerJob, Distinct
  <1>7. Control' /\ KillList'
    BY DEF IInv, Control, KillList, Calls
  <1>8. Entries'
    BY DEF IInv, Entries, MayHold, NoEntry, Calls
  <1>9. ForkList'
    BY <1>3, <1>5 DEF IInv, Types, ForkList
  <1> QED BY <1>3, <1>6, <1>7, <1>8, <1>9 DEF IInv

-----------------------------------------------------------------------------
(* The callbacks and the commands of the web server.                       *)

\* The map is empty in a callback, but for KILL and for START that has begun.
LEMMA InCallback ==
    ASSUME OneClient, IInv, NEW t \in Threads, Callback(t)
    PROVE  /\ \A u \in Threads : u = t
           /\ phase[t] = "callback" /\ UNCHANGED fsmVars
           /\ Calls(t) # "kill" /\ (Calls(t) # "start" \/ step[t] = "ready") => procs = NoEntry
  <1>1. \A u \in Threads : u = t
    BY DEF OneClient
  <1>2. phase[t] = "callback" /\ UNCHANGED fsmVars
    BY DEF Callback, Initialise, Registration, Registerjob, Nothing, Start, StartNext, Started,
           Kill, KillNext, Killed, In
  <1> QED BY <1>1, <1>2 DEF IInv, Entries, MayHold

LEMMA CallbackKeeps ==
    ASSUME OneClient, IInv, NEW t \in Threads, Callback(t)
    PROVE  IInv'
  <1>1. /\ \A u \in Threads : u = t
        /\ phase[t] = "callback" /\ UNCHANGED fsmVars
        /\ Calls(t) # "kill" /\ (Calls(t) # "start" \/ step[t] = "ready") => procs = NoEntry
    BY InCallback
  <1> USE <1>1 DEF fsmVars, In, GoesTo
  <1>2. CASE Initialise(t) \/ Registration(t) \/ Registerjob(t) \/ Nothing(t)
    <2>1. step' = [step EXCEPT ![t] = "done"] /\ UNCHANGED <<tofork, tokill, os>> /\ jconf' \subseteq Names
      BY <1>2 DEF Initialise, Registration, Registerjob, Nothing, IInv, Types
    <2>2. procs = NoEntry /\ procs' = procs
      BY <1>2 DEF Initialise, Registration, Registerjob, Nothing, Calls
    <2>3. Types' /\ step'[t] = "done"
      BY <2>1, <2>2 DEF IInv, Types, Steps
    <2>4. Control' /\ KillList' /\ ForkList'
      BY <2>1, <2>3 DEF IInv, Control, KillList, ForkList, Web
    <2>5. Entries'
      BY <2>2 DEF Entries, NoEntry
    <2> QED BY <2>1, <2>2, <2>3, <2>4, <2>5, MapFrame DEF IInv
  <1>3. CASE Start(t)
    <2>1. procs = NoEntry
      BY <1>3 DEF Start, Calls
    <2>2. Types' /\ step'[t] = "forking" /\ UNCHANGED <<procs, os>>
      BY <1>3 DEF Start, IInv, Types, Steps
    <2>3. \A p \in Pids : procs[p] = NoJob /\ os[p] \notin Names
      BY <2>1 DEF NoEntry, IInv, Map, ChildrenAreKnown
    <2>4. tofork'[t] \subseteq Names
      BY <2>2 DEF Types
    <2>5. Control' /\ KillList'
      BY <1>3, <2>2 DEF Start, IInv, Control, KillList, Web, Calls
    <2>6. ForkList'
      BY <2>2, <2>3, <2>4, JobAssumption DEF ForkList
    <2>7. Entries'
      BY <2>1, <2>2 DEF Entries, NoEntry
    <2> QED BY <2>2, <2>5, <2>6, <2>7, MapFrame DEF IInv
  <1>4. CASE StartNext(t)
    <2>1. PICK n \in tofork[t] : Fork(n) /\ tofork' = [tofork EXCEPT ![t] = @ \ {n}]
      BY <1>4 DEF StartNext
    <2>2. n \in Names /\ \A m \in tofork[t], p \in Pids : procs[p] # m /\ os[p] # m
      BY <1>4 DEF StartNext, IInv, Types, ForkList
    <2>3. /\ procs' \in [Pids -> Names \cup {NoJob}]
          /\ os' \in [Pids -> Names \cup {"free", "dying", "other"}]
          /\ Map'
          /\ \A m \in Names \ {n}, p \in Pids :
               (procs[p] # m => procs'[p] # m) /\ (os[p] # m => os'[p] # m)
      BY <2>1, <2>2, ForkFacts
    <2>4. UNCHANGED <<step, tokill, jconf>> /\ step[t] = "forking" /\ Calls(t) = "start"
      BY <1>4 DEF StartNext, Calls
    <2>5. Types' /\ tofork'[t] = tofork[t] \ {n} /\ tofork[t] \subseteq Names
      BY <2>1, <2>3, <2>4 DEF IInv, Types
    <2>6. Control' /\ KillList'
      BY <2>4 DEF IInv, Control, KillList, Calls
    <2>7. ForkList'
      BY <2>2, <2>3, <2>4, <2>5 DEF ForkList
    <2>8. Entries'
      BY <2>4 DEF Entries, MayHold, Calls
    <2> QED BY <2>3, <2>5, <2>6, <2>7, <2>8 DEF IInv
  <1>5. CASE Started(t)
    <2>1. Types' /\ step'[t] = "done" /\ UNCHANGED <<tofork, tokill, jconf, procs, os>>
      BY <1>5 DEF Started, IInv, Types, Steps
    <2>2. Control' /\ KillList' /\ ForkList'
      BY <2>1 DEF IInv, Control, KillList, ForkList, Web
    <2>3. Entries'
      BY <1>5, <2>1 DEF Started, Entries, MayHold, Calls
    <2> QED BY <2>1, <2>2, <2>3, MapFrame DEF IInv
  <1>6. CASE Kill(t)
    <2>1. Types' /\ step'[t] = "killing" /\ UNCHANGED <<tofork, jconf, procs, os>>
      BY <1>6 DEF Kill, IInv, Types, Steps
    <2>2. tokill'[t] = {p \in Pids : procs[p] # NoJob}
      BY <1>6 DEF Kill, IInv, Types
    <2>3. Control' /\ ForkList'
      BY <1>6, <2>1 DEF Kill, IInv, Control, ForkList, Web, Calls
    <2>4. KillList'
      BY <2>1, <2>2 DEF KillList
    <2>5. Entries'
      BY <1>6, <2>1 DEF Kill, Entries, MayHold, Calls
    <2> QED BY <2>1, <2>3, <2>4, <2>5, MapFrame DEF IInv
  <1>7. CASE KillNext(t)
    <2>1. PICK p \in tokill[t] : KillProcess(p, TRUE) /\ tokill' = [tokill EXCEPT ![t] = @ \ {p}]
      BY <1>7 DEF KillNext
    <2>2. p \in Pids
      BY <2>1 DEF IInv, Types
    <2>3. /\ procs' \in [Pids -> Names \cup {NoJob}]
          /\ os' \in [Pids -> Names \cup {"free", "dying", "other"}]
          /\ Map'
          /\ procs'[p] = NoJob
          /\ \A q \in Pids : q # p => procs'[q] = procs[q] /\ os'[q] = os[q]
      BY <2>1, <2>2, KillFacts
    <2>4. UNCHANGED <<step, tofork, jconf>> /\ step[t] = "killing" /\ Calls(t) = "kill"
      BY <1>7 DEF KillNext, Calls
    <2>5. Types' /\ tokill'[t] = tokill[t] \ {p}
      BY <2>1, <2>3, <2>4 DEF IInv, Types
    <2>6. Control' /\ ForkList'
      BY <2>4 DEF IInv, Control, ForkList, Calls
    <2>7. KillList'
      BY <2>3, <2>4, <2>5 DEF IInv, KillList
    <2>8. Entries'
      BY <2>4 DEF Entries, MayHold, Calls
    <2> QED BY <2>3, <2>5, <2>6, <2>7, <2>8 DEF IInv
  <1>8. CASE Killed(t)
    <2>1. Types' /\ step'[t] = "done" /\ UNCHANGED <<tofork, tokill, jconf, procs, os>>
      BY <1>8 DEF Killed, IInv, Types, Steps
    <2>2. \A p \in Pids : procs[p] = NoJob
      BY <1>8 DEF Killed, IInv, KillList
    <2>3. procs' = NoEntry
      BY <2>1, <2>2 DEF NoEntry, IInv, Types
    <2>4. Control' /\ KillList' /\ ForkList'
      BY <2>1 DEF IInv, Control, KillList, ForkList, Web
    <2>5. Entries'
      BY <2>3 DEF Entries, NoEntry
    <2> QED BY <2>1, <2>4, <2>5, MapFrame DEF IInv
  <1> QED BY <1>2, <1>3, <1>4, <1>5, <1>6, <1>7, <1>8 DEF Callback

LEMMA WebCommandKeeps ==
    ASSUME OneClient, IInv, NEW t \in Threads, WebCommand(t)
    PROVE  IInv'
  <1>0. \A u \in Threads : u = t
    BY DEF OneClient
  <1>1. phase[t] = "idle" /\ UNCHANGED fsmVars
    <2>1. Free(t) \/ step[t] \in Web \/ step[t] = "register"
      BY DEF WebCommand, Killjob, KilljobKill, Restartjob, RestartKill, RestartFork, Registerfile,
              RegisterfileJobs, Web
    <2>2. step[t] \in Web \/ step[t] = "register" => phase[t] = "idle"
      BY DEF IInv, Types, Control, Phases, Web
    <2> QED BY <2>1, <2>2 DEF WebCommand, Killjob, KilljobKill, Restartjob, RestartKill, RestartFork,
                              Registerfile, RegisterfileJobs, Free
  <1>2. procs # NoEntry => state = "RUNNING"
    BY <1>0, <1>1 DEF IInv, Entries, MayHold
  <1>3. step[t] \in Web => state = "RUNNING"
    BY DEF IInv, Control
  <1> USE <1>0, <1>1 DEF fsmVars, GoesTo
  <1>4. ASSUME step'[t] \in {"ready"} \cup Web, state = "RUNNING" PROVE Control' /\ Entries' /\ KillList'
    BY <1>4 DEF IInv, Control, Entries, MayHold, KillList, Web
  <1>5. CASE Killjob(t)
    <2>1. PICK p \in Pids : procs[p] # NoJob /\ tokill' = [tokill EXCEPT ![t] = {p}]
      BY <1>5 DEF Killjob
    <2>2. Types' /\ step'[t] = "killjob" /\ UNCHANGED <<procs, os>>
      BY <1>5, <2>1 DEF Killjob, IInv, Types, Steps, Web
    <2>3. state = "RUNNING"
      BY <1>2, <2>1 DEF NoEntry
    <2>4. ForkList'
      BY <2>2 DEF ForkList
    <2> QED BY <1>4, <2>2, <2>3, <2>4, MapFrame DEF IInv, Web
  <1>6. CASE KilljobKill(t)
    <2>1. PICK p \in tokill[t], fatal \in Fatal : KillProcess(p, fatal)
      BY <1>6 DEF KilljobKill
    <2>2. p \in Pids /\ KillProcess(p, TRUE)
      BY <2>1 DEF IInv, Types, OneClient
    <2>3. Map' /\ procs' \in [Pids -> Names \cup {NoJob}]
          /\ os' \in [Pids -> Names \cup {"free", "dying", "other"}]
      BY <2>2, KillFacts
    <2>4. Types' /\ step'[t] = "ready"
      BY <1>6, <2>3 DEF KilljobKill, IInv, Types, Steps
    <2>5. state = "RUNNING"
      BY <1>3, <1>6 DEF KilljobKill, Web
    <2>6. ForkList'
      BY <2>4 DEF ForkList
    <2> QED BY <1>4, <2>3, <2>4, <2>5, <2>6 DEF IInv
  <1>7. CASE Restartjob(t)
    <2>1. PICK p \in Pids : /\ procs[p] # NoJob
                            /\ tokill' = [tokill EXCEPT ![t] = {p}]
                            /\ tofork' = [tofork EXCEPT ![t] = {procs[p]}]
      BY <1>7 DEF Restartjob
    <2>2. procs[p] \in Names
      BY <2>1 DEF IInv, Types
    <2>3. Types' /\ step'[t] = "restart" /\ UNCHANGED <<procs, os>>
      BY <1>7, <2>1, <2>2 DEF Restartjob, IInv, Types, Steps, Web
    <2>4. state = "RUNNING"
      BY <1>2, <2>1 DEF NoEntry
    <2>5. ForkList'
      BY <2>1, <2>3 DEF ForkList, IInv, Types
    <2> QED BY <1>4, <2>3, <2>4, <2>5, MapFrame DEF IInv, Web
  <1>8. CASE RestartKill(t)
    <2>1. PICK p \in tokill[t], fatal \in Fatal : KillProcess(p, fatal)
      BY <1>8 DEF RestartKill
    <2>2. p \in Pids /\ KillProcess(p, TRUE)
      BY <2>1 DEF IInv, Types, OneClient
    <2>3. /\ procs' \in [Pids -> Names \cup {NoJob}]
          /\ os' \in [Pids -> Names \cup {"free", "dying", "other"}]
          /\ Map'
          /\ procs'[p] = NoJob
          /\ \A q \in Pids : q # p => procs'[q] = procs[q] /\ os'[q] = os[q]
          /\ os'[p] \notin Names
      BY <2>2, KillFacts
    <2>4. procs[p] # NoJob /\ tofork[t] = {procs[p]}
      BY <1>8, <2>1 DEF RestartKill, IInv, ForkList
    <2>5. Types' /\ step'[t] = "respawn" /\ tofork' = tofork
      BY <1>8, <2>3 DEF RestartKill, IInv, Types, Steps, Web
    <2>6. procs[p] \in Names /\ procs[p] # NoJob
      BY <2>2, <2>4 DEF IInv, Types
    <2>7. \A q \in Pids : q # p => procs[q] # procs[p] /\ os[q] # procs[p]
      BY <2>2, <2>6 DEF IInv, Map, Distinct
    <2>8. \A q \in Pids : procs'[q] # procs[p] /\ os'[q] # procs[p]
      BY <2>3, <2>6, <2>7
    <2>9. ForkList'
      BY <2>4, <2>5, <2>8 DEF ForkList
    <2>10. state = "RUNNING"
      BY <1>3, <1>8 DEF RestartKill, Web
    <2> QED BY <1>4, <2>3, <2>5, <2>9, <2>10 DEF IInv, Web
  <1>9. CASE RestartFork(t)
    <2>1. PICK n \in tofork[t] : Fork(n)
      BY <1>9 DEF RestartFork
    <2>2. n \in Names /\ \A p \in Pids : procs[p] # n /\ os[p] # n
      BY <1>9, <2>1 DEF RestartFork, IInv, Types, ForkList
    <2>3. Map' /\ procs' \in [Pids -> Names \cup {NoJob}]
          /\ os' \in [Pids -> Names \cup {"free", "dying", "other"}]
      BY <2>1, <2>2, ForkFacts
    <2>4. Types' /\ step'[t] = "ready"
      BY <1>9, <2>3 DEF RestartFork, IInv, Types, Steps
    <2>5. state = "RUNNING"
      BY <1>3, <1>9 DEF RestartFork, Web
    <2>6. ForkList'
      BY <2>4 DEF ForkList
    <2> QED BY <1>4, <2>3, <2>4, <2>5, <2>6 DEF IInv
  <1>10. CASE Registerfile(t)
    <2>1. state = "INITIALISED" /\ step' = [step EXCEPT ![t] = "register"]
            /\ UNCHANGED <<tofork, tokill, jconf, procs, os>>
      BY <1>10 DEF Registerfile
    <2>2. Types' /\ Control' /\ KillList'
      BY <2>1 DEF IInv, Types, Steps, Control, KillList, Calls, Web
    <2>3. ForkList'
      BY <2>1 DEF IInv, Types, ForkList
    <2>4. Entries'
      BY <2>1 DEF IInv, Entries, MayHold, NoEntry, Calls
    <2> QED BY <2>1, <2>2, <2>3, <2>4, MapFrame DEF IInv
  <1>11. CASE RegisterfileJobs(t)
    <2>1. state = "INITIALISED"
      BY <1>11 DEF RegisterfileJobs, IInv, Control
    <2>2. procs = NoEntry
      BY <1>2, <2>1
    <2>3. /\ procs' = NoEntry /\ UNCHANGED <<tofork, tokill, os>> /\ jconf' \subseteq Names
          /\ step' = [step EXCEPT ![t] = "ready"]
      BY <1>11 DEF RegisterfileJobs
    <2>4. Types' /\ Control' /\ KillList'
      BY <2>2, <2>3 DEF IInv, Types, Steps, Control, KillList, Calls, Web
    <2>5. ForkList'
      BY <2>2, <2>3 DEF IInv, Types, ForkList
    <2>6. Entries'
      BY <2>3 DEF Entries, NoEntry
    <2> QED BY <2>2, <2>3, <2>4, <2>5, <2>6, MapFrame DEF IInv
  <1> QED BY <1>5, <1>6, <1>7, <1>8, <1>9, <1>10, <1>11 DEF WebCommand

-----------------------------------------------------------------------------

LEMMA Inductive ==
  ASSUME OneClient
  PROVE  Spec => []IInv
  <1>1. ASSUME IInv, [Next]_vars PROVE IInv'
    <2>1. CASE UNCHANGED vars
      BY <1>1, <2>1 DEF vars, fsmVars, callVars, IInv, Types, Control, Entries, MayHold, NoEntry,
                        KillList, ForkList, Calls, Map, ChildrenAreKnown, OneProcessPerJob, Distinct
    <2> QED BY <1>1, <2>1, DispatchKeeps, ReturnKeeps, CallbackKeeps, WebCommandKeeps, CallKeeps,
               HostKeeps DEF Next
  <1> QED BY <1>1, InitHolds, PTL DEF Spec

\* No child is ever out of the daemon's reach: its pid is in the map
\* (fsmjob.cxx:332-354, 467-513, 595-628).
THEOREM ChildrenAreKnownAlways ==
  ASSUME OneClient
  PROVE  Spec => []ChildrenAreKnown
  <1>1. IInv => ChildrenAreKnown
    BY DEF IInv, Map
  <1> QED BY <1>1, Inductive, PTL

\* Outside of RUNNING the map is empty, so that INITIALISE and REGISTERFILE
\* delete the data of no process (fsmjob.cxx:263-265, 720-722).
THEOREM NoEntryUnlessRunningAlways ==
  ASSUME OneClient
  PROVE  Spec => []NoEntryUnlessRunning
  <1>1. IInv => NoEntryUnlessRunning
    BY DEF IInv, Entries, MayHold, NoEntryUnlessRunning, Quiet, Free
  <1> QED BY <1>1, Inductive, PTL

\* After a KILL, and before a START, no child lives (fsmjob.cxx:535-546).
THEOREM NoChildUnlessRunningAlways ==
  ASSUME OneClient
  PROVE  Spec => []NoChildUnlessRunning
  <1>1. ASSUME IInv, Quiet, state # "RUNNING" PROVE \A p \in Pids : os[p] \notin Names
    <2>1. procs = NoEntry
      BY <1>1 DEF IInv, Entries, MayHold, Quiet, Free
    <2> QED BY <1>1, <2>1 DEF NoEntry, IInv, Map, ChildrenAreKnown
  <1>2. IInv => NoChildUnlessRunning
    BY <1>1 DEF NoChildUnlessRunning
  <1> QED BY <1>2, Inductive, PTL

\* A job has one process at most, through any restarts and any reuse of pids
\* (fsmjob.cxx:595-628).
THEOREM OneProcessPerJobAlways ==
  ASSUME OneClient
  PROVE  Spec => []OneProcessPerJob
  <1>1. IInv => OneProcessPerJob
    BY DEF IInv, Map
  <1> QED BY <1>1, Inductive, PTL

-----------------------------------------------------------------------------
(* The machine of the daemon, and its types, for any number of threads.    *)

Machine == INSTANCE Fsm_proof WITH States <- MachineStates, Created <- "CREATED"

LEMMA OneLong == ASSUME NEW S, NEW a \in S PROVE << a >> \in Seq(S)
  OBVIOUS

\* The constructor's table is a table, with one transition for a command.
LEMMA TableIsTable ==
    /\ "CREATED" \in MachineStates
    /\ Table \in Machine!Tables
    /\ Machine!OnePerState(Table)
  <1> DEFINE T(from, to, call) == [from |-> from, to |-> to, call |-> call]
  <1>1. /\ Table["INITIALISE"] = << T("CREATED", "INITIALISED", "initialise") >>
        /\ Table["REGISTRATION"] = << T("CREATED", "REGISTERING", "registration") >>
        /\ Table["REGISTERJOB"] = << T("REGISTERING", "REGISTERING", "registerjob") >>
        /\ Table["ENDREGISTRATION"] = << T("REGISTERING", "INITIALISED", "endregistration") >>
        /\ Table["START"] = << T("INITIALISED", "RUNNING", "start") >>
        /\ Table["KILL"] = << T("RUNNING", "INITIALISED", "kill") >>
        /\ Table["DESTROY"] = << T("INITIALISED", "CREATED", "destroy") >>
        /\ Table = [c \in Commands |-> Table[c]]
    BY DEF Table, Commands
  <1>2. \A f, t \in MachineStates, c \in Callbacks : T(f, t, c) \in Machine!Transitions
    BY DEF Machine!Transitions
  <1>3. \A c \in Commands : \E f, t \in MachineStates, k \in Callbacks : Table[c] = << T(f, t, k) >>
    <2>1. /\ {"CREATED", "REGISTERING", "INITIALISED", "RUNNING"} \subseteq MachineStates
          /\ {"initialise", "registration", "registerjob", "endregistration",
              "start", "kill", "destroy"} \subseteq Callbacks
      BY DEF MachineStates, Callbacks
    <2> HIDE DEF T
    <2> QED BY <1>1, <2>1 DEF Commands
  <1> HIDE DEF T
  <1>4. \A c \in Commands : Table[c] \in Seq(Machine!Transitions)
    BY <1>2, <1>3, OneLong
  <1>5. Table \in Machine!Tables
    BY <1>1, <1>4 DEF Machine!Tables
  <1>6. Machine!OnePerState(Table)
    <2>1. \A c \in Commands : DOMAIN Table[c] = {1}
      BY <1>3
    <2> QED BY <2>1 DEF Machine!OnePerState
  <1> QED BY <1>5, <1>6 DEF MachineStates

\* A step of the daemon moves its machine by one step, or not at all.
LEMMA NextMachine == ASSUME [Next]_vars PROVE [FSM!Next]_(FSM!vars)
  <1> USE DEF FSM!vars, fsmVars
  <1>1. CASE UNCHANGED vars \/ Host
    BY <1>1 DEF vars, Host, Ends, Appears
  <1>2. ASSUME NEW t \in Threads, Dispatch(t) \/ Return(t) PROVE FSM!Next
    BY <1>2 DEF Dispatch, Return, FSM!Next, FSM!Step
  <1>3. ASSUME NEW t \in Threads, Callback(t) PROVE UNCHANGED fsmVars
    BY <1>3 DEF Callback, Initialise, Registration, Registerjob, Nothing, Start, StartNext,
                Started, Kill, KillNext, Killed
  <1>4. ASSUME NEW t \in Threads, WebCommand(t) PROVE UNCHANGED fsmVars
    BY <1>4 DEF WebCommand, Killjob, KilljobKill, Restartjob, RestartKill, RestartFork, Registerfile,
              RegisterfileJobs
  <1>5. ASSUME NEW t \in Threads, NEW c \in Commands, Call(t, c) PROVE FSM!Next
    BY <1>5 DEF Call, FSM!Next
  <1> QED BY <1>1, <1>2, <1>3, <1>4, <1>5 DEF Next

\* Every step of the daemon is a step of its machine, or leaves the machine
\* alone: the commands that do not pass through processCommand do not write
\* its state (fsmjob.cxx:172-185).
THEOREM ImplementsMachine == Spec => FSM!Spec
  <1>1. Init => FSM!Init
    BY DEF Init
  <1> QED BY <1>1, NextMachine, PTL DEF Spec, FSM!Spec

LEMMA MachineSpec == FSM!Spec => Machine!Spec
  <1>1. FSM!Init => Machine!Init
    BY DEF FSM!Init, Machine!Init
  <1>2. [FSM!Next]_(FSM!vars) => [Machine!Next]_(Machine!vars)
    <2> USE DEF FSM!Skip, Machine!Skip, FSM!Match, Machine!Match, FSM!Refuse, Machine!Refuse,
          FSM!Return, Machine!Return, FSM!Assign, Machine!Assign, FSM!Publish, Machine!Publish,
          FSM!Call, Machine!Call, FSM!Torn, Machine!Torn, FSM!vars, Machine!vars
    <2>1. \A t \in Threads : FSM!Step(t) => Machine!Step(t)
      BY DEF FSM!Step, Machine!Step
    <2>2. \A t \in Threads, c \in Commands : FSM!Call(t, c) => Machine!Call(t, c)
      OBVIOUS
    <2> QED BY <2>1, <2>2 DEF FSM!Next, Machine!Next
  <1> QED BY <1>1, <1>2, PTL DEF FSM!Spec, Machine!Spec

\* However many threads command the daemon, STATE ends up with its state
\* (fsm.cxx:117-118).
THEOREM PublishedIsStateAlways == Spec => []FSM!PublishedIsState
  <1>1. Machine!Spec => []Machine!PublishedIsState
    BY TableIsTable, GarbledAssumption, Machine!PublishedIsStateAlways
  <1>2. Machine!PublishedIsState => FSM!PublishedIsState
    BY DEF Machine!PublishedIsState, FSM!PublishedIsState
  <1> QED BY <1>1, <1>2, ImplementsMachine, MachineSpec, PTL

\* TypeOK, but for the machine; what RESTARTJOB is to start again is there from
\* its first step.
Data ==
    /\ step \in [Threads -> Steps]
    /\ tofork \in [Threads -> SUBSET Names]
    /\ tokill \in [Threads -> SUBSET Pids]
    /\ jconf \subseteq Names
    /\ procs \in [Pids -> Names \cup {NoJob}]
    /\ os \in [Pids -> Names \cup {"free", "dying", "other"}]
    /\ \A t \in Threads :
        /\ step[t] \in Web \cup {"register"} => phase[t] = "idle"
        /\ step[t] \in {"restart", "respawn"} => tofork[t] # {}

LEMMA MachineTypes == FSM!Spec => []FSM!TypeOK
  <1>1. Machine!Spec => []Machine!TypeOK
    BY TableIsTable, GarbledAssumption, Machine!TypeCorrect
  <1>2. Machine!TypeOK => FSM!TypeOK
    BY DEF Machine!TypeOK, FSM!TypeOK, Machine!Transitions, FSM!Transitions
  <1> QED BY <1>1, <1>2, MachineSpec, PTL

LEMMA ForkKeepsTypes ==
    ASSUME Data, NEW n \in Names, Fork(n)
    PROVE  /\ procs' \in [Pids -> Names \cup {NoJob}]
           /\ os' \in [Pids -> Names \cup {"free", "dying", "other"}]
  BY DEF Fork, Data

LEMMA KillKeepsTypes ==
    ASSUME Data, NEW p \in Pids, NEW fatal, KillProcess(p, fatal)
    PROVE  /\ procs' \in [Pids -> Names \cup {NoJob}]
           /\ os' \in [Pids -> Names \cup {"free", "dying", "other"}]
  BY DEF KillProcess, Data

LEMMA CallbackKeepsData ==
    ASSUME Data, NEW t \in Threads, Callback(t)
    PROVE  Data'
  <1>1. UNCHANGED phase /\ phase[t] = "callback"
    BY DEF Callback, Initialise, Registration, Registerjob, Nothing, Start, StartNext,
           Started, Kill, KillNext, Killed, In, fsmVars
  <1>2. step[t] \notin Web \cup {"register"}
    BY <1>1 DEF Data, Web
  <1>3. CASE Initialise(t) \/ Registration(t) \/ Registerjob(t) \/ Nothing(t) \/ Started(t) \/ Killed(t)
    <2>1. UNCHANGED <<tofork, tokill, os>> /\ step' = [step EXCEPT ![t] = "done"]
      BY <1>3 DEF Initialise, Registration, Registerjob, Nothing, Started, Killed, GoesTo
    <2>2. jconf' \subseteq Names /\ (procs' = procs \/ procs' = NoEntry)
      BY <1>3 DEF Initialise, Registration, Registerjob, Nothing, Started, Killed, Data
    <2> QED BY <1>1, <2>1, <2>2 DEF Data, Steps, Web, NoEntry
  <1>4. CASE Start(t)
    BY <1>1, <1>4 DEF Start, GoesTo, Data, Steps, Web
  <1>5. CASE StartNext(t)
    <2>1. UNCHANGED <<step, tokill, jconf>> /\ tofork' \in [Threads -> SUBSET Names]
            /\ \A u \in Threads : u # t => tofork'[u] = tofork[u]
      BY <1>5 DEF StartNext, Data
    <2>2. PICK n \in Names : Fork(n)
      BY <1>5 DEF StartNext, Data
    <2>3. /\ procs' \in [Pids -> Names \cup {NoJob}]
          /\ os' \in [Pids -> Names \cup {"free", "dying", "other"}]
      BY <2>2, ForkKeepsTypes
    <2> QED BY <1>1, <1>2, <2>1, <2>3 DEF Data, Web
  <1>6. CASE Kill(t)
    BY <1>1, <1>6 DEF Kill, GoesTo, Data, Steps, Web
  <1>7. CASE KillNext(t)
    <2>1. UNCHANGED <<step, tofork, jconf>> /\ tokill' \in [Threads -> SUBSET Pids]
      BY <1>7 DEF KillNext, Data
    <2>2. PICK p \in Pids : KillProcess(p, TRUE)
      BY <1>7 DEF KillNext, Data
    <2>3. /\ procs' \in [Pids -> Names \cup {NoJob}]
          /\ os' \in [Pids -> Names \cup {"free", "dying", "other"}]
      BY <2>2, KillKeepsTypes
    <2> QED BY <1>1, <2>1, <2>3 DEF Data
  <1> QED BY <1>3, <1>4, <1>5, <1>6, <1>7 DEF Callback

LEMMA WebCommandKeepsData ==
    ASSUME Data, NEW t \in Threads, WebCommand(t)
    PROVE  Data'
  <1>1. UNCHANGED phase /\ phase[t] = "idle"
    BY DEF WebCommand, Killjob, KilljobKill, Restartjob, RestartKill, RestartFork, Registerfile,
              RegisterfileJobs,
           Free, Data, Web, fsmVars
  <1>2. CASE Killjob(t)
    BY <1>1, <1>2 DEF Killjob, GoesTo, Data, Steps, Web
  <1>3. CASE KilljobKill(t) \/ RestartKill(t)
    <2>1. PICK p \in Pids, fatal \in Fatal : KillProcess(p, fatal)
      BY <1>3 DEF KilljobKill, RestartKill, Data
    <2>2. /\ procs' \in [Pids -> Names \cup {NoJob}]
          /\ os' \in [Pids -> Names \cup {"free", "dying", "other"}]
      BY <2>1, KillKeepsTypes
    <2>3. /\ UNCHANGED <<tofork, jconf>> /\ tokill' = [tokill EXCEPT ![t] = {}]
          /\ \/ step' = [step EXCEPT ![t] = "ready"]
             \/ step[t] = "restart" /\ step' = [step EXCEPT ![t] = "respawn"]
      BY <1>3 DEF KilljobKill, RestartKill, GoesTo
    <2> QED BY <1>1, <2>2, <2>3 DEF Data, Steps, Web
  <1>4. CASE Restartjob(t)
    <2>1. PICK p \in Pids : /\ procs[p] # NoJob
                            /\ tokill' = [tokill EXCEPT ![t] = {p}]
                            /\ tofork' = [tofork EXCEPT ![t] = {procs[p]}]
      BY <1>4 DEF Restartjob
    <2>2. procs[p] \in Names
      BY <2>1 DEF Data
    <2> QED BY <1>1, <1>4, <2>1, <2>2 DEF Restartjob, GoesTo, Data, Steps, Web
  <1>5. CASE RestartFork(t)
    <2>1. PICK n \in Names : Fork(n)
      BY <1>5 DEF RestartFork, Data
    <2>2. /\ procs' \in [Pids -> Names \cup {NoJob}]
          /\ os' \in [Pids -> Names \cup {"free", "dying", "other"}]
      BY <2>1, ForkKeepsTypes
    <2> QED BY <1>1, <1>5, <2>2 DEF RestartFork, GoesTo, Data, Steps, Web
  <1>6. CASE Registerfile(t) \/ RegisterfileJobs(t)
    <2>1. /\ UNCHANGED <<tofork, tokill, os>>
          /\ step' = [step EXCEPT ![t] = "register"] \/ step' = [step EXCEPT ![t] = "ready"]
          /\ (UNCHANGED <<jconf, procs>>) \/ (jconf' \subseteq Names /\ procs' = NoEntry)
      BY <1>6 DEF Registerfile, RegisterfileJobs, GoesTo
    <2> QED BY <1>1, <2>1 DEF Data, Steps, Web, NoEntry
  <1> QED BY <1>2, <1>3, <1>4, <1>5, <1>6 DEF WebCommand

LEMMA DataKeeps == ASSUME FSM!TypeOK, Data, [Next]_vars PROVE Data'
  <1>1. CASE UNCHANGED vars \/ Host
    <2>1. UNCHANGED <<phase, callVars, jconf, procs>>
            /\ os' \in [Pids -> Names \cup {"free", "dying", "other"}]
      BY <1>1 DEF vars, fsmVars, Host, Ends, Appears, Data
    <2> QED BY <2>1 DEF Data, callVars
  <1>2. ASSUME NEW t \in Threads, Dispatch(t) \/ \E c \in Commands : Call(t, c) PROVE Data'
    <2>1. UNCHANGED <<callVars, jconf, procs, os>> /\ step[t] \notin Web \cup {"register"}
      BY <1>2 DEF Dispatch, Call, FSM!Skip, FSM!Match, FSM!Refuse, FSM!Assign, FSM!Publish, Data, Web
    <2>2. \A u \in Threads : u # t => phase'[u] = phase[u]
      BY <1>2 DEF Dispatch, Call, FSM!Skip, FSM!Match, FSM!Refuse, FSM!Assign, FSM!Publish, FSM!Call,
                  FSM!TypeOK
    <2> QED BY <2>1, <2>2 DEF Data, callVars
  <1>3. ASSUME NEW t \in Threads, Return(t) PROVE Data'
    BY <1>3 DEF Return, FSM!Return, FSM!TypeOK, Data, Steps, Web
  <1>4. ASSUME NEW t \in Threads, Callback(t) \/ WebCommand(t) PROVE Data'
    BY <1>4, CallbackKeepsData, WebCommandKeepsData
  <1> QED BY <1>1, <1>2, <1>3, <1>4 DEF Next

\* Types, and that a web command does not run beside a transition of its thread,
\* and has a job to start when it comes to it.
THEOREM TypeCorrect == Spec => []TypeOK
  <1>1. Init => Data
    BY DEF Init, Data, Steps, Web, NoEntry
  <1>2. FSM!TypeOK /\ Data => TypeOK
    BY DEF Data, TypeOK, Steps, Web
  <1> QED BY <1>1, <1>2, DataKeeps, MachineTypes, ImplementsMachine, PTL DEF Spec
=============================================================================
