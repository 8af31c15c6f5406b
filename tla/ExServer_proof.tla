--------------------------- MODULE ExServer_proof ---------------------------
(***************************************************************************)
(* The example data server implements the state machine of Fsm, whatever   *)
(* its callbacks and its other threads do; what is proved of the machine   *)
(* holds of the server. With one client, no readout thread is ever without *)
(* its source, and what it publishes is in order. Its types hold for any   *)
(* finite set of threads.                                                  *)
(***************************************************************************)
EXTENDS ExServer, FiniteSetTheorems, TLAPS

Machine == INSTANCE Fsm_proof WITH States <- MachineStates, Created <- "CREATED"

LEMMA ShortSequences ==
    ASSUME NEW S, NEW a \in S, NEW b \in S
    PROVE  << a >> \in Seq(S) /\ << a, b >> \in Seq(S)
  OBVIOUS

\* The constructor's table is a table.
LEMMA TableFacts ==
    /\ "CREATED" \in MachineStates
    /\ Table \in Machine!Tables
    /\ Machine!OnePerState(Table)
<1> DEFINE T(from, to, call) == [from |-> from, to |-> to, call |-> call]
<1>1. \A f, t \in MachineStates, c \in Callbacks : T(f, t, c) \in Machine!Transitions
  BY DEF Machine!Transitions
<1>2. /\ DOMAIN Table = Commands
      /\ Table["CONFIGURE"] = << T("CREATED", "CONFIGURED", "configure"),
                                 T("CONFIGURED", "CONFIGURED", "configure") >>
      /\ Table["START"] = << T("CONFIGURED", "RUNNING", "start") >>
      /\ Table["STOP"] = << T("RUNNING", "CONFIGURED", "stop") >>
      /\ Table["HALT"] = << T("RUNNING", "CREATED", "halt"),
                            T("CONFIGURED", "CREATED", "halt") >>
      /\ Table = [c \in Commands |-> Table[c]]
  BY DEF Table, Commands
<1>3. \A c \in Commands : Table[c] \in Seq(Machine!Transitions)
  <2>1. /\ {"CREATED", "CONFIGURED", "RUNNING"} \subseteq MachineStates
        /\ {"configure", "start", "stop", "halt"} \subseteq Callbacks
    BY DEF MachineStates, Callbacks
  <2> DEFINE S == Machine!Transitions
  <2>2. /\ T("CREATED", "CONFIGURED", "configure") \in S
        /\ T("CONFIGURED", "CONFIGURED", "configure") \in S
        /\ T("CONFIGURED", "RUNNING", "start") \in S
        /\ T("RUNNING", "CONFIGURED", "stop") \in S
        /\ T("RUNNING", "CREATED", "halt") \in S
        /\ T("CONFIGURED", "CREATED", "halt") \in S
    BY <1>1, <2>1
  <2> HIDE DEF T, S
  <2>3. /\ Table["CONFIGURE"] \in Seq(S)
        /\ Table["START"] \in Seq(S)
        /\ Table["STOP"] \in Seq(S)
        /\ Table["HALT"] \in Seq(S)
    BY <1>2, <2>2, ShortSequences
  <2> QED
    BY <2>3 DEF Commands, S
<1>4. Table \in Machine!Tables
  BY <1>2, <1>3 DEF Machine!Tables
<1>5. Machine!OnePerState(Table)
  BY <1>2 DEF Machine!OnePerState, Commands
<1> QED
  BY <1>4, <1>5 DEF MachineStates

LEMMA InitMachine == Init => FSM!Init
  BY DEF Init

LEMMA NextMachine == [Next]_vars => [FSM!Next]_(FSM!vars)
<1> SUFFICES ASSUME [Next]_vars PROVE [FSM!Next]_(FSM!vars)
  OBVIOUS
<1> USE DEF FSM!vars, fsmVars
<1>1. CASE UNCHANGED vars
  BY <1>1 DEF vars
<1>2. ASSUME NEW t \in Threads, NEW c \in Commands, Call(t, c) PROVE FSM!Next
  BY <1>2 DEF Call, FSM!Next
<1>3. ASSUME NEW t \in Threads, Dispatch(t) PROVE FSM!Next
  BY <1>3 DEF Dispatch, FSM!Next, FSM!Step
<1>4. ASSUME NEW t \in Threads, Return(t) PROVE FSM!Next
  BY <1>4 DEF Return, FSM!Next, FSM!Step
<1>5. ASSUME NEW t \in Threads, Callback(t) PROVE UNCHANGED fsmVars
  BY <1>5 DEF Callback, Configure, Start, CreateReader, Started, Stop, Joined, Destroy
<1>6. ASSUME Count PROVE UNCHANGED fsmVars
  BY <1>6 DEF Count, SeesRunning, CountEvent, CountCrossing
<1>7. ASSUME NEW r \in Readers, Readout(r) PROVE UNCHANGED fsmVars
  BY <1>7 DEF Readout, Exit, SeesEvent, TagFirst, TagEnd, ReadArgument, PublishFragment, TakeLast
<1> QED
  BY <1>1, <1>2, <1>3, <1>4, <1>5, <1>6, <1>7 DEF Next, Command

\* Every step of the server is a step of its machine, or leaves the machine alone
\* (processCommand, called by rpcHandler and fsmProcess).
THEOREM ImplementsMachine == Spec => FSM!Spec
  BY InitMachine, NextMachine, PTL DEF Spec, FSM!Spec

LEMMA MachineSpec == FSM!Spec => Machine!Spec
<1>1. FSM!Init => Machine!Init
  BY DEF FSM!Init, Machine!Init
<1>2. [FSM!Next]_(FSM!vars) => [Machine!Next]_(Machine!vars)
  <2> USE DEF FSM!Skip, Machine!Skip, FSM!Match, Machine!Match, FSM!Refuse, Machine!Refuse,
        FSM!Return, Machine!Return, FSM!Assign, Machine!Assign, FSM!Publish, Machine!Publish,
        FSM!Call, Machine!Call, FSM!Torn, Machine!Torn, FSM!vars, Machine!vars
  <2>1. \A t \in Threads : FSM!Step(t) => Machine!Step(t)
    BY DEF FSM!Step, Machine!Step
  <2>2. \A t \in Threads, c \in Commands : FSM!Call(t, c) => Machine!Call(t, c)
    OBVIOUS
  <2> QED
    BY <2>1, <2>2 DEF FSM!Next, Machine!Next
<1> QED
  BY <1>1, <1>2, PTL DEF FSM!Spec, Machine!Spec

\* However many threads command the server, STATE ends up with its state
\* (fsm.cxx:117-118).
THEOREM PublishedIsStateAlways == Spec => []FSM!PublishedIsState
<1>1. Machine!Spec => []Machine!PublishedIsState
  BY TableFacts, GarbledAssumption, Machine!PublishedIsStateAlways
<1>2. Machine!PublishedIsState => FSM!PublishedIsState
  BY DEF Machine!PublishedIsState, FSM!PublishedIsState
<1> QED
  BY <1>1, <1>2, ImplementsMachine, MachineSpec, PTL

-----------------------------------------------------------------------------
(* The readout threads of a server with one client.                        *)

OneClient == \E t : Threads = {t}

Arc(from, to, call) == [from |-> from, to |-> to, call |-> call]

Arcs == { Arc("CREATED", "CONFIGURED", "configure"), Arc("CONFIGURED", "CONFIGURED", "configure"),
          Arc("CONFIGURED", "RUNNING", "start"), Arc("RUNNING", "CONFIGURED", "stop"),
          Arc("RUNNING", "CREATED", "halt"), Arc("CONFIGURED", "CREATED", "halt") }

Types ==
    /\ state \in MachineStates
    /\ phase \in [Threads -> {"idle", "match", "callback", "assign", "publish"}]
    /\ rest \in [Threads -> Seq(Arcs)]
    /\ work \in [Threads -> {"ready", "creating", "joining", "done"}]
    /\ todo \in [Threads -> SUBSET Sources]
    /\ running \in BOOLEAN
    /\ sources \subseteq Sources

Data ==
    /\ event \in Nat /\ bx \in Nat /\ run \in Nat
    /\ reader \in [Readers -> {"off", "wait", "first", "end", "args", "last"}]
    /\ last \in [Readers -> Nat]
    /\ unread \in [Readers -> SUBSET {"evt", "bx"}]
    /\ args \in [Readers -> [evt : Nat, bx : Nat]]
    /\ payload \in [Sources -> [first : Nat, end : Nat]]
    /\ out \in [Sources -> [run : Nat, evt : Nat, bx : Nat, first : Nat, end : Nat]]

\* Where the client is in its command.
Control ==
    \A t \in Threads :
        /\ phase[t] \in {"callback", "assign", "publish"} => rest[t] # << >>
        /\ phase[t] = "callback" => Head(rest[t]).from = state
        /\ phase[t] # "callback" => work[t] = "ready"
        /\ work[t] = "creating" => Head(rest[t]).call = "start"
        /\ work[t] = "joining" => Head(rest[t]).call \in {"stop", "halt"}

\* Its callback has set _running; the state follows later.
Past(t) == phase[t] = "assign" \/ (phase[t] = "callback" /\ work[t] # "ready")

RunFlag ==
    \A t \in Threads :
        running <=> IF Past(t) THEN Head(rest[t]).to = "RUNNING" ELSE state = "RUNNING"

AllOff == \A r \in Readers : reader[r] = "off"

Gone == \A t \in Threads : ~running /\ work[t] # "joining" => AllOff

OnSource == \A r \in Readers : reader[r] # "off" => r[1] \in sources

\* What START has not created a thread for has none, and sent nothing in this run.
ToCreate ==
    \A t \in Threads : work[t] = "creating" =>
        /\ todo[t] \subseteq sources
        /\ \A s \in todo[t] : /\ out[s].run < run
                               /\ \A i \in 1 .. Copies : reader[<<s, i>>] = "off"

Sent == \A s \in Sources : out[s].run <= run /\ out[s].bx <= bx

\* What a readout thread wrote into the payload is not newer than what it
\* reads after.
Tags ==
    \A r \in Readers :
        /\ reader[r] = "end" => payload[r[1]].first <= event
        /\ reader[r] = "args" =>
             /\ payload[r[1]].first <= payload[r[1]].end
             /\ payload[r[1]].end <= event
             /\ "evt" \notin unread[r] =>
                  /\ payload[r[1]].end <= args[r].evt
                  /\ last[r] < args[r].evt
                  /\ args[r].evt <= event
             /\ "bx" \notin unread[r] =>
                  /\ out[r[1]].bx <= args[r].bx
                  /\ args[r].bx <= bx

\* A thread remembers a number that is not older than what it sent.
Order ==
    \A r \in Readers : reader[r] # "off" =>
        /\ last[r] <= event
        /\ reader[r] \in {"first", "end", "args"} => last[r] < event
        /\ out[r[1]].run = run => IF reader[r] = "last" THEN out[r[1]].evt <= event
                                                        ELSE out[r[1]].evt <= last[r]

Commanded == Types /\ Control /\ RunFlag /\ Gone /\ OnSource /\ ToCreate

ReadOut == Data /\ OneReaderPerSource /\ Sent /\ Tags /\ Order /\ HeaderNotOlder

IInv == Commanded /\ ReadOut

-----------------------------------------------------------------------------
(* The command thread.                                                     *)

LEMMA ArcFacts ==
    \A a \in Arcs :
        /\ a.to \in MachineStates
        /\ a.call = "start" <=> a.to = "RUNNING"
        /\ a.call \in {"start", "configure"} => a.from # "RUNNING"
        /\ a.call = "stop" => a.from = "RUNNING"
        /\ a.call \in {"start", "stop", "halt", "configure"}
  BY DEF Arcs, Arc, MachineStates

LEMMA TableArcs == \A c \in Commands : Table[c] \in Seq(Arcs)
<1>1. /\ Table["CONFIGURE"] = << Arc("CREATED", "CONFIGURED", "configure"),
                                 Arc("CONFIGURED", "CONFIGURED", "configure") >>
      /\ Table["START"] = << Arc("CONFIGURED", "RUNNING", "start") >>
      /\ Table["STOP"] = << Arc("RUNNING", "CONFIGURED", "stop") >>
      /\ Table["HALT"] = << Arc("RUNNING", "CREATED", "halt"),
                            Arc("CONFIGURED", "CREATED", "halt") >>
  BY DEF Table, Arc
<1> QED
  BY <1>1, ShortSequences DEF Arcs, Commands

\* The head of what is left of the command.
LEMMA HeadFacts ==
  ASSUME NEW t \in Threads, Types, rest[t] # << >>
  PROVE  Head(rest[t]) \in Arcs /\ Tail(rest[t]) \in Seq(Arcs)
  BY DEF Types

LEMMA ReadFrame ==
  ASSUME ReadOut, UNCHANGED <<event, bx, run, readVars>>
  PROVE  ReadOut'
  BY DEF ReadOut, readVars, Data, OneReaderPerSource, Sent, Tags, Order, HeaderNotOlder

LEMMA InitHolds == OneClient /\ Init => IInv
<1> SUFFICES ASSUME Init PROVE IInv
  OBVIOUS
<1>1. Types /\ Control
  <2>1. << >> \in Seq(Arcs)
    OBVIOUS
  <2> QED
    BY <2>1 DEF Init, FSM!Init, Types, Control, MachineStates
<1>2. Data /\ OneReaderPerSource /\ Sent /\ Tags /\ Order /\ HeaderNotOlder
  BY DEF Init, Data, OneReaderPerSource, Sent, Tags, Order, HeaderNotOlder, NothingSent, Readers
<1>3. RunFlag
  BY DEF Init, FSM!Init, RunFlag, Past
<1>4. Gone /\ OnSource /\ ToCreate
  BY DEF Init, Gone, OnSource, ToCreate, AllOff
<1> QED
  BY <1>1, <1>2, <1>3, <1>4 DEF IInv, Commanded, ReadOut

LEMMA CallKeeps ==
  ASSUME NEW t \in Threads, Threads = {t}, NEW c \in Commands, IInv, Call(t, c)
  PROVE  IInv'
<1> USE DEF IInv, Commanded
<1>1. /\ phase[t] = "idle" /\ phase' = [phase EXCEPT ![t] = "match"]
      /\ rest' = [rest EXCEPT ![t] = Table[c]] /\ state' = state
      /\ UNCHANGED <<callVars, running, countVars, run, sources, readVars>>
  BY DEF Call, FSM!Call
<1>2. Types'
  BY <1>1, TableArcs DEF Types, callVars
<1>3. Control' /\ RunFlag'
  BY <1>1 DEF Types, Control, RunFlag, Past, callVars
<1>4. Gone' /\ OnSource' /\ ToCreate'
  BY <1>1 DEF Gone, OnSource, ToCreate, AllOff, callVars, readVars
<1> QED
  BY <1>1, <1>2, <1>3, <1>4, ReadFrame DEF countVars

LEMMA DispatchKeeps ==
  ASSUME NEW t \in Threads, Threads = {t}, IInv, Dispatch(t)
  PROVE  IInv'
<1> USE DEF IInv, Commanded
<1>1. UNCHANGED <<callVars, running, countVars, run, sources, readVars>>
  BY DEF Dispatch
<1>2. Gone' /\ OnSource' /\ ToCreate'
  BY <1>1 DEF Gone, OnSource, ToCreate, AllOff, callVars, readVars
<1>3. ~FSM!Torn(t)
  BY DEF FSM!Torn
<1>4. Types' /\ Control' /\ RunFlag'
  <2>1. CASE FSM!Skip(t)
    BY <1>1, <2>1, HeadFacts DEF FSM!Skip, Types, Control, RunFlag, Past, callVars
  <2>2. CASE FSM!Match(t)
    BY <1>1, <2>2 DEF FSM!Match, Types, Control, RunFlag, Past, callVars
  <2>3. CASE FSM!Refuse(t)
    BY <1>1, <2>3 DEF FSM!Refuse, Types, Control, RunFlag, Past, callVars
  <2>4. CASE FSM!Assign(t)
    <3>1. state' = Head(rest[t]).to
      BY <1>3, <2>4, GarbledAssumption DEF FSM!Assign, Types
    <3> QED
      BY <1>1, <2>4, <3>1, HeadFacts, ArcFacts DEF FSM!Assign, Types, Control, RunFlag, Past, callVars
  <2>5. CASE FSM!Publish(t)
    BY <1>1, <2>5 DEF FSM!Publish, Types, Control, RunFlag, Past, callVars
  <2> QED
    BY <2>1, <2>2, <2>3, <2>4, <2>5 DEF Dispatch
<1> QED
  BY <1>1, <1>2, <1>4, ReadFrame DEF countVars

LEMMA ReturnKeeps ==
  ASSUME NEW t \in Threads, Threads = {t}, IInv, Return(t)
  PROVE  IInv'
<1> USE DEF IInv, Commanded
<1>1. /\ work[t] = "done" /\ work' = [work EXCEPT ![t] = "ready"]
      /\ phase[t] = "callback" /\ phase' = [phase EXCEPT ![t] = "assign"]
      /\ UNCHANGED <<state, rest, todo, running, countVars, run, sources, readVars>>
  BY DEF Return, FSM!Return
<1>2. Types' /\ Control' /\ RunFlag'
  BY <1>1 DEF Types, Control, RunFlag, Past
<1>3. Gone' /\ OnSource' /\ ToCreate'
  BY <1>1 DEF Types, Gone, OnSource, ToCreate, AllOff, readVars
<1> QED
  BY <1>1, <1>2, <1>3, ReadFrame DEF countVars

-----------------------------------------------------------------------------
(* The callbacks.                                                          *)

\* What a callback that leaves the run alone must show.
LEMMA CallbackFrame ==
  ASSUME NEW t \in Threads, Threads = {t}, IInv, phase[t] = "callback",
         UNCHANGED <<fsmVars, event, bx, run, readVars>>,
         Types', Control', RunFlag', Gone', OnSource', ToCreate'
  PROVE  IInv'
  BY ReadFrame DEF IInv, Commanded

\* No run is on when START or CONFIGURE is let in.
LEMMA NothingRuns ==
  ASSUME NEW t \in Threads, Threads = {t}, IInv, phase[t] = "callback", work[t] = "ready",
         Head(rest[t]).call \in {"configure", "start"}
  PROVE  ~running /\ AllOff
<1>1. Head(rest[t]) \in Arcs /\ Head(rest[t]).from = state
  BY HeadFacts DEF IInv, Commanded, Control
<1>2. state # "RUNNING"
  BY <1>1, ArcFacts
<1> QED
  BY <1>2 DEF IInv, Commanded, RunFlag, Past, Gone

LEMMA ConfigureKeeps ==
  ASSUME NEW t \in Threads, Threads = {t}, IInv, Configure(t)
  PROVE  IInv'
<1>1. /\ phase[t] = "callback" /\ Head(rest[t]).call = "configure" /\ work[t] = "ready"
      /\ work' = [work EXCEPT ![t] = "done"] /\ sources' \subseteq Sources
      /\ UNCHANGED <<state, phase, rest, todo, running, event, bx, run, readVars, fsmVars>>
  BY DEF Configure, In, GoesTo, fsmVars, countVars
<1>2. ~running /\ AllOff
  BY <1>1, NothingRuns
<1>3. Head(rest[t]).to # "RUNNING"
  BY <1>1, HeadFacts, ArcFacts DEF IInv, Commanded, Control
<1>4. Types' /\ Control'
  BY <1>1 DEF IInv, Commanded, Types, Control
<1>5. RunFlag'
  BY <1>1, <1>2, <1>3 DEF IInv, Commanded, Types, RunFlag, Past
<1>6. Gone' /\ OnSource' /\ ToCreate'
  BY <1>1, <1>2 DEF IInv, Commanded, Types, Gone, OnSource, ToCreate, AllOff, readVars
<1> QED
  BY <1>1, <1>4, <1>5, <1>6, CallbackFrame

LEMMA StartKeeps ==
  ASSUME NEW t \in Threads, Threads = {t}, IInv, Start(t)
  PROVE  IInv'
<1>1. /\ phase[t] = "callback" /\ Head(rest[t]).call = "start" /\ work[t] = "ready"
      /\ work' = [work EXCEPT ![t] = "creating"] /\ todo' = [todo EXCEPT ![t] = sources]
      /\ event' = 0 /\ running' = TRUE /\ run' = run + 1
      /\ UNCHANGED <<state, phase, rest, bx, sources, reader, last, unread, args, payload, out>>
  BY DEF Start, In, GoesTo, fsmVars, readVars
<1>2. AllOff
  BY <1>1, NothingRuns
<1>3. Head(rest[t]).to = "RUNNING"
  BY <1>1, HeadFacts, ArcFacts DEF IInv, Commanded, Control
<1>4. Types' /\ Control'
  BY <1>1 DEF IInv, Commanded, Types, Control
<1>5. RunFlag'
  BY <1>1, <1>3 DEF IInv, Commanded, Types, RunFlag, Past
<1>6. Data'
  BY <1>1 DEF IInv, ReadOut, Data
<1>7. Gone' /\ OnSource'
  BY <1>1 DEF IInv, Commanded, Gone, OnSource
<1>8. ToCreate'
  BY <1>1, <1>2 DEF IInv, Commanded, ReadOut, Types, Data, Sent, ToCreate, AllOff, Readers
<1>9. OneReaderPerSource' /\ Sent' /\ HeaderNotOlder'
  BY <1>1 DEF IInv, ReadOut, Data, OneReaderPerSource, Sent, HeaderNotOlder
<1>10. Tags' /\ Order'
  BY <1>1, <1>2 DEF Tags, Order, AllOff
<1> QED
  BY <1>4, <1>5, <1>6, <1>7, <1>8, <1>9, <1>10 DEF IInv, Commanded, ReadOut

LEMMA CreateReaderKeeps ==
  ASSUME NEW t \in Threads, Threads = {t}, IInv, CreateReader(t)
  PROVE  IInv'
<1>1. PICK s \in todo[t], i \in 1 .. Copies :
        /\ reader' = [reader EXCEPT ![<<s, i>>] = "wait"]
        /\ last' = [last EXCEPT ![<<s, i>>] = 0]
        /\ todo' = [todo EXCEPT ![t] = @ \ {s}]
  BY DEF CreateReader
<1>2. /\ work[t] = "creating" /\ phase[t] = "callback" /\ Head(rest[t]).call = "start"
      /\ UNCHANGED <<state, phase, rest, work, running, event, bx, run, sources, unread, args, payload, out>>
  BY DEF CreateReader, In, fsmVars, countVars
<1>3. /\ s \in sources /\ s \in Sources /\ <<s, i>> \in Readers
      /\ out[s].run < run
      /\ \A j \in 1 .. Copies : reader[<<s, j>>] = "off"
  BY <1>1, <1>2 DEF IInv, Commanded, ToCreate, Types, Readers
<1>4. Types' /\ Control' /\ RunFlag'
  BY <1>1, <1>2 DEF IInv, Commanded, Types, Control, RunFlag, Past
<1>5. Data'
  BY <1>1, <1>2 DEF IInv, ReadOut, Data
<1>6. running
  BY <1>2, HeadFacts, ArcFacts DEF IInv, Commanded, Control, RunFlag, Past
<1>7. Gone' /\ OnSource'
  BY <1>1, <1>2, <1>3, <1>6 DEF IInv, Commanded, ReadOut, Data, Gone, OnSource, Readers
<1>8. ToCreate'
  BY <1>1, <1>2, <1>3 DEF IInv, Commanded, ReadOut, Data, Types, ToCreate, Readers
<1>9. OneReaderPerSource'
  BY <1>1, <1>3 DEF IInv, ReadOut, Data, OneReaderPerSource, Readers
<1>10. Sent' /\ HeaderNotOlder'
  BY <1>2 DEF IInv, ReadOut, Sent, HeaderNotOlder
<1>11. Tags'
  BY <1>1, <1>2, <1>3 DEF IInv, ReadOut, Data, Tags
<1>12. Order'
  <2> SUFFICES ASSUME NEW r \in Readers, reader'[r] # "off"
               PROVE  /\ last'[r] <= event
                      /\ reader'[r] \in {"first", "end", "args"} => last'[r] < event
                      /\ out[r[1]].run = run => IF reader'[r] = "last" THEN out[r[1]].evt <= event
                                                                      ELSE out[r[1]].evt <= last'[r]
    BY <1>2 DEF Order
  <2>1. CASE r = <<s, i>>
    BY <1>1, <1>3, <2>1 DEF IInv, ReadOut, Data, Sent
  <2>2. CASE r # <<s, i>>
    BY <1>1, <1>3, <2>2 DEF IInv, ReadOut, Data, Order
  <2> QED
    BY <2>1, <2>2
<1> QED
  BY <1>4, <1>5, <1>7, <1>8, <1>9, <1>10, <1>11, <1>12 DEF IInv, Commanded, ReadOut

LEMMA StartedKeeps ==
  ASSUME NEW t \in Threads, Threads = {t}, IInv, Started(t)
  PROVE  IInv'
<1>1. /\ phase[t] = "callback" /\ work[t] = "creating" /\ work' = [work EXCEPT ![t] = "done"]
      /\ UNCHANGED <<fsmVars, state, phase, rest, todo, running, event, bx, run, sources, readVars>>
  BY DEF Started, In, GoesTo, fsmVars, countVars
<1>2. Types' /\ Control' /\ RunFlag'
  BY <1>1 DEF IInv, Commanded, Types, Control, RunFlag, Past
<1>3. Gone' /\ OnSource' /\ ToCreate'
  BY <1>1 DEF IInv, Commanded, Types, Gone, OnSource, ToCreate, AllOff, readVars
<1> QED
  BY <1>1, <1>2, <1>3, CallbackFrame

LEMMA StopKeeps ==
  ASSUME NEW t \in Threads, Threads = {t}, IInv, Stop(t)
  PROVE  IInv'
<1>1. /\ phase[t] = "callback" /\ Head(rest[t]).call \in {"stop", "halt"} /\ work[t] = "ready"
      /\ running' = FALSE /\ work' = [work EXCEPT ![t] = "joining"]
      /\ UNCHANGED <<fsmVars, state, phase, rest, todo, event, bx, run, sources, readVars>>
  BY DEF Stop, In, GoesTo, fsmVars, countVars
<1>2. Head(rest[t]).to # "RUNNING"
  BY <1>1, HeadFacts, ArcFacts DEF IInv, Commanded, Control
<1>3. Types' /\ Control' /\ RunFlag'
  BY <1>1, <1>2 DEF IInv, Commanded, Types, Control, RunFlag, Past
<1>4. Gone' /\ OnSource' /\ ToCreate'
  BY <1>1 DEF IInv, Commanded, Types, Gone, OnSource, ToCreate, AllOff, readVars
<1> QED
  BY <1>1, <1>3, <1>4, CallbackFrame

\* The end of stop and halt: no readout thread is left.
LEMMA JoinedKeeps ==
  ASSUME NEW t \in Threads, Threads = {t}, IInv, Joined(t) \/ Destroy(t)
  PROVE  IInv'
<1>1. /\ phase[t] = "callback" /\ Head(rest[t]).call \in {"stop", "halt"}
      /\ work' = [work EXCEPT ![t] = "done"] /\ sources' \subseteq sources
      /\ UNCHANGED <<fsmVars, state, phase, rest, todo, running, event, bx, run, readVars>>
  BY DEF Joined, Destroy, In, GoesTo, fsmVars, countVars
<1>2. Head(rest[t]).to # "RUNNING"
  BY <1>1, HeadFacts, ArcFacts DEF IInv, Commanded, Control
<1>3. AllOff /\ ~running
  <2>1. CASE work[t] = "joining"
    BY <1>1, <1>2, <2>1 DEF Joined, Destroy, In, IInv, Commanded, RunFlag, Past, AllOff
  <2>2. CASE work[t] # "joining"
    BY <2>2 DEF Joined, Destroy, In, IInv, Commanded, Gone
  <2> QED
    BY <2>1, <2>2
<1>4. Types' /\ Control' /\ RunFlag'
  BY <1>1, <1>2, <1>3 DEF IInv, Commanded, Types, Control, RunFlag, Past
<1>5. Gone' /\ OnSource' /\ ToCreate'
  BY <1>1, <1>3 DEF IInv, Commanded, Types, Gone, OnSource, ToCreate, AllOff, readVars
<1> QED
  BY <1>1, <1>4, <1>5, CallbackFrame

-----------------------------------------------------------------------------
(* The main thread and the readout threads.                                *)

LEMMA CommandFrame ==
  ASSUME Commanded, UNCHANGED <<fsmVars, callVars, running, run, sources, reader, out>>
  PROVE  Commanded'
<1>1. UNCHANGED <<state, phase, rest, work, todo, running, run, sources, reader, out>>
  BY DEF fsmVars, callVars
<1>2. Types' /\ Control' /\ RunFlag' /\ Gone' /\ OnSource'
  BY <1>1 DEF Commanded, Types, Control, RunFlag, Past, Gone, AllOff, OnSource
<1>3. ToCreate'
  BY <1>1 DEF Commanded, Types, ToCreate
<1> QED
  BY <1>2, <1>3 DEF Commanded

LEMMA CountKeeps ==
  ASSUME IInv, Count
  PROVE  IInv'
<1>1. /\ UNCHANGED <<fsmVars, callVars, running, run, sources, reader, last, unread, args, payload, out>>
      /\ event' \in {event, event + 1} /\ bx' \in {bx, bx + 1}
  BY DEF Count, SeesRunning, CountEvent, CountCrossing, readVars
<1>2. Commanded'
  BY <1>1, CommandFrame DEF IInv
<1>3. Data' /\ OneReaderPerSource' /\ Sent' /\ HeaderNotOlder'
  BY <1>1 DEF IInv, ReadOut, Data, OneReaderPerSource, Sent, HeaderNotOlder
<1>4. Tags' /\ Order'
  BY <1>1 DEF IInv, ReadOut, Data, Tags, Order, Readers
<1> QED
  BY <1>2, <1>3, <1>4 DEF IInv, ReadOut

\* Two readout threads on one source are one.
LEMMA SameReader ==
  ASSUME OneReaderPerSource, NEW r \in Readers, NEW q \in Readers,
         reader[r] # "off", reader[q] # "off", r[1] = q[1]
  PROVE  r = q
  BY DEF OneReaderPerSource, Readers

\* What a step of readout thread r leaves of the rest.
LEMMA ReadoutFrame ==
  ASSUME IInv, NEW r \in Readers, NEW pc \in {"off", "wait", "first", "end", "args", "last"},
         reader[r] # "off", reader' = [reader EXCEPT ![r] = pc],
         UNCHANGED <<fsmVars, callVars, running, countVars, run, sources>>,
         \A s \in Sources : s # r[1] => out'[s] = out[s]
  PROVE  Commanded' /\ OneReaderPerSource'
<1>1. UNCHANGED <<state, phase, rest, work, todo, running, run, sources>>
  BY DEF fsmVars, callVars
<1>2. Types' /\ Control' /\ RunFlag'
  BY <1>1 DEF IInv, Commanded, Types, Control, RunFlag, Past
<1>3. Gone' /\ OnSource'
  BY <1>1 DEF IInv, Commanded, ReadOut, Data, Gone, AllOff, OnSource
<1>4. ToCreate'
  <2> SUFFICES ASSUME NEW t \in Threads, work[t] = "creating", NEW s \in todo[t]
               PROVE  /\ out'[s].run < run
                      /\ \A i \in 1 .. Copies : reader'[<<s, i>>] = "off"
    BY <1>1 DEF IInv, Commanded, ToCreate
  <2>1. /\ s \in Sources /\ out[s].run < run
        /\ \A i \in 1 .. Copies : reader[<<s, i>>] = "off"
    BY DEF IInv, Commanded, Types, ToCreate
  <2>2. s # r[1]
    BY <2>1 DEF Readers
  <2> QED
    BY <2>1, <2>2 DEF IInv, ReadOut, Data, Readers
<1>5. OneReaderPerSource'
  BY DEF IInv, ReadOut, Data, OneReaderPerSource, Readers
<1> QED
  BY <1>2, <1>3, <1>4, <1>5 DEF Commanded

\* What the source of r sends now comes after what it sent before.
Later(r) ==
    /\ out'[r[1]].run = out[r[1]].run => out'[r[1]].evt > out[r[1]].evt
    /\ out'[r[1]].bx >= out[r[1]].bx

LEMMA ReadoutKeeps ==
  ASSUME IInv, NEW r \in Readers, Readout(r)
  PROVE  /\ IInv'
         /\ \A q \in Readers : reader[q] = "args" /\ reader'[q] = "last" => Later(q)
<1> USE DEF IInv, ReadOut
<1>1. UNCHANGED <<fsmVars, callVars, running, countVars, event, bx, run, sources>> /\ reader[r] # "off"
  BY DEF Readout, Exit, SeesEvent, TagFirst, TagEnd, ReadArgument, PublishFragment, TakeLast, At, countVars
<1>2. r[1] \in Sources
  BY DEF Readers
<1>3. \A q \in Readers : q # r /\ reader[q] # "off" => q[1] # r[1]
  BY <1>1, SameReader
<1>4. CASE Exit(r)
  <2>1. /\ reader' = [reader EXCEPT ![r] = "off"] /\ last' = [last EXCEPT ![r] = 0]
        /\ UNCHANGED <<unread, args, payload, out>>
    BY <1>4 DEF Exit, ReaderGoesTo
  <2>2. Commanded' /\ OneReaderPerSource'
    BY <1>1, <2>1, ReadoutFrame
  <2>3. Data' /\ Sent' /\ HeaderNotOlder'
    BY <1>1, <2>1 DEF Data, Sent, HeaderNotOlder
  <2>4. Tags' /\ Order'
    BY <1>1, <2>1 DEF Data, Tags, Order
  <2> QED BY <2>1, <2>2, <2>3, <2>4 DEF Data
<1>5. CASE SeesEvent(r)
  <2>1. /\ reader' = [reader EXCEPT ![r] = "first"] /\ reader[r] = "wait" /\ event # last[r]
        /\ UNCHANGED <<last, unread, args, payload, out>>
    BY <1>5 DEF SeesEvent, At, ReaderGoesTo
  <2>2. Commanded' /\ OneReaderPerSource'
    BY <1>1, <2>1, ReadoutFrame
  <2>3. Data' /\ Sent' /\ HeaderNotOlder'
    BY <1>1, <2>1 DEF Data, Sent, HeaderNotOlder
  <2>4. Tags'
    BY <1>1, <2>1 DEF Data, Tags
  <2>5. last[r] < event
    <3>1. last[r] <= event /\ last[r] \in Nat /\ event \in Nat
      BY <2>1 DEF Data, Order
    <3> QED BY <2>1, <3>1
  <2>6. Order'
    <3>1. out[r[1]].run = run => out[r[1]].evt <= last[r]
      BY <2>1 DEF Order
    <3> QED BY <1>1, <2>1, <2>5, <3>1 DEF Data, Order
  <2> QED BY <2>1, <2>2, <2>3, <2>4, <2>6 DEF Data
<1>6. CASE TagFirst(r)
  <2>1. /\ reader' = [reader EXCEPT ![r] = "end"] /\ reader[r] = "first"
        /\ payload' = [payload EXCEPT ![r[1]].first = event]
        /\ UNCHANGED <<last, unread, args, out>>
    BY <1>6 DEF TagFirst, At, ReaderGoesTo
  <2>2. Commanded' /\ OneReaderPerSource'
    BY <1>1, <2>1, ReadoutFrame
  <2>3. Data' /\ Sent' /\ HeaderNotOlder'
    BY <1>1, <1>2, <2>1 DEF Data, Sent, HeaderNotOlder
  <2>4. Tags' /\ Order'
    BY <1>1, <1>2, <1>3, <2>1 DEF Data, Tags, Order, Readers
  <2> QED BY <2>1, <2>2, <2>3, <2>4 DEF Data
<1>7. CASE TagEnd(r)
  <2>1. /\ reader' = [reader EXCEPT ![r] = "args"] /\ reader[r] = "end"
        /\ payload' = [payload EXCEPT ![r[1]].end = event]
        /\ unread' = [unread EXCEPT ![r] = {"evt", "bx"}]
        /\ UNCHANGED <<last, args, out>>
    BY <1>7 DEF TagEnd, At, ReaderGoesTo
  <2>2. Commanded' /\ OneReaderPerSource'
    BY <1>1, <2>1, ReadoutFrame
  <2>3. Data' /\ Sent' /\ HeaderNotOlder'
    BY <1>1, <1>2, <2>1 DEF Data, Sent, HeaderNotOlder
  <2>4. Tags' /\ Order'
    BY <1>1, <1>2, <1>3, <2>1 DEF Data, Tags, Order, Readers
  <2> QED BY <2>1, <2>2, <2>3, <2>4 DEF Data
<1>8. CASE ReadArgument(r)
  <2>1. PICK a \in unread[r] :
          /\ args' = [args EXCEPT ![r] = IF a = "evt" THEN [@ EXCEPT !.evt = event]
                                                      ELSE [@ EXCEPT !.bx = bx]]
          /\ unread' = [unread EXCEPT ![r] = @ \ {a}]
    BY <1>8 DEF ReadArgument
  <2>2. reader[r] = "args" /\ UNCHANGED <<reader, last, payload, out>>
    BY <1>8 DEF ReadArgument, At
  <2>3. reader' = [reader EXCEPT ![r] = "args"]
    BY <2>2 DEF Data
  <2>4. Commanded' /\ OneReaderPerSource'
    BY <1>1, <2>2, <2>3, ReadoutFrame
  <2>5. a \in {"evt", "bx"}
    BY <2>1 DEF Data
  <2>6. Data' /\ Sent' /\ HeaderNotOlder'
    BY <1>1, <2>1, <2>2, <2>5 DEF Data, Sent, HeaderNotOlder
  <2>7. Tags'
    <3>1. CASE a = "evt"
      BY <1>1, <2>1, <2>2, <3>1 DEF Data, Tags, Order, Readers
    <3>2. CASE a = "bx"
      <4>1. out[r[1]].bx <= bx
        BY <1>2 DEF Sent
      <4> QED
        BY <1>1, <2>1, <2>2, <3>2, <4>1 DEF Data, Tags, Readers
    <3> QED
      BY <2>5, <3>1, <3>2
  <2>8. Order'
    BY <1>1, <2>2 DEF Order
  <2> QED BY <2>2, <2>4, <2>6, <2>7, <2>8
<1>9. CASE PublishFragment(r)
  <2> DEFINE f == [run |-> run, evt |-> args[r].evt, bx |-> args[r].bx,
                   first |-> payload[r[1]].first, end |-> payload[r[1]].end]
  <2>1. /\ reader' = [reader EXCEPT ![r] = "last"] /\ reader[r] = "args" /\ unread[r] = {}
        /\ args' = [args EXCEPT ![r] = [evt |-> 0, bx |-> 0]]
        /\ out' = [out EXCEPT ![r[1]] = f]
        /\ UNCHANGED <<last, unread, payload>>
    BY <1>9 DEF PublishFragment, At, ReaderGoesTo
  <2>2. Commanded' /\ OneReaderPerSource'
    BY <1>1, <2>1, ReadoutFrame DEF Data
  <2>3. /\ f.first <= f.end /\ f.end <= f.evt /\ last[r] < f.evt /\ f.evt <= event
        /\ out[r[1]].bx <= f.bx /\ f.bx <= bx
        /\ f \in [run : Nat, evt : Nat, bx : Nat, first : Nat, end : Nat]
    BY <1>2, <2>1 DEF Tags, Data
  <2>4. f.run = run
    OBVIOUS
  <2> HIDE DEF f
  <2>5. Data' /\ Sent' /\ HeaderNotOlder'
    BY <1>1, <1>2, <2>1, <2>3, <2>4 DEF Data, Sent, HeaderNotOlder
  <2>6. Tags'
    BY <1>1, <1>2, <1>3, <2>1 DEF Data, Tags, Readers
  <2>7. Order'
    BY <1>1, <1>2, <1>3, <2>1, <2>3, <2>4 DEF Data, Order, Readers
  <2>8. out[r[1]].run = run => out[r[1]].evt <= last[r]
    BY <2>1 DEF Order
  <2>9. Later(r)
    BY <1>2, <2>1, <2>3, <2>4, <2>8 DEF Data, Later
  <2>10. \A q \in Readers : reader'[q] = "last" /\ reader[q] = "args" => q = r
    BY <2>1 DEF Data
  <2> QED BY <2>2, <2>5, <2>6, <2>7, <2>9, <2>10
<1>10. CASE TakeLast(r)
  <2>1. /\ reader' = [reader EXCEPT ![r] = "wait"] /\ reader[r] = "last"
        /\ last' = [last EXCEPT ![r] = event]
        /\ UNCHANGED <<unread, args, payload, out>>
    BY <1>10 DEF TakeLast, At, ReaderGoesTo
  <2>2. Commanded' /\ OneReaderPerSource'
    BY <1>1, <2>1, ReadoutFrame
  <2>3. Data' /\ Sent' /\ HeaderNotOlder'
    BY <1>1, <2>1 DEF Data, Sent, HeaderNotOlder
  <2>4. Tags' /\ Order'
    BY <1>1, <2>1 DEF Data, Tags, Order
  <2> QED BY <2>1, <2>2, <2>3, <2>4 DEF Data
<1> QED
  BY <1>4, <1>5, <1>6, <1>7, <1>8, <1>9, <1>10 DEF Readout

LEMMA Inductive ==
  ASSUME OneClient
  PROVE  Spec => []IInv
<1>1. ASSUME IInv, [Next]_vars PROVE IInv'
  <2>1. PICK t : Threads = {t}
    BY DEF OneClient
  <2>2. CASE UNCHANGED vars
    <3>1. Commanded'
      BY <1>1, <2>2, CommandFrame DEF vars, IInv, readVars
    <3> QED
      BY <1>1, <2>2, <3>1, ReadFrame DEF vars, IInv, countVars
  <2>3. ASSUME NEW u \in Threads, Command(u) PROVE IInv'
    BY <1>1, <2>1, <2>3, DispatchKeeps, ReturnKeeps, ConfigureKeeps, StartKeeps, CreateReaderKeeps,
       StartedKeeps, StopKeeps, JoinedKeeps DEF Command, Callback
  <2> QED
    BY <1>1, <2>1, <2>2, <2>3, CallKeeps, CountKeeps, ReadoutKeeps DEF Next
<1> QED
  BY <1>1, InitHolds, PTL DEF Spec

\* A readout thread has a source, and outside of RUNNING no thread is left: the sources
\* that CONFIGURE and HALT delete are nobody's (exServer.cxx:62-85, 121-151).
THEOREM ReadersHaveSourcesAlways ==
  ASSUME OneClient
  PROVE  Spec => []ReadersHaveSources
<1>1. IInv => ReadersHaveSources
  <2> SUFFICES ASSUME IInv PROVE ReadersHaveSources
    OBVIOUS
  <2>1. PICK t : Threads = {t}
    BY DEF OneClient
  <2>2. ASSUME phase[t] = "idle" PROVE running = (state = "RUNNING")
    <3>1. ~Past(t) /\ running \in BOOLEAN
      BY <2>2 DEF Past, IInv, Commanded, Types
    <3>2. running <=> state = "RUNNING"
      BY <2>1, <3>1 DEF IInv, Commanded, RunFlag
    <3> QED
      BY <3>1, <3>2, Zenon
  <2>3. ASSUME phase[t] = "idle", ~running PROVE AllOff
    BY <2>1, <2>3 DEF IInv, Commanded, Control, Gone
  <2> QED
    BY <2>1, <2>2, <2>3 DEF ReadersHaveSources, IInv, Commanded, OnSource, AllOff
<1> QED
  BY <1>1, Inductive, PTL

\* A source has one readout thread at most (exServer.cxx:106-113).
THEOREM OneReaderPerSourceAlways ==
  ASSUME OneClient
  PROVE  Spec => []OneReaderPerSource
<1>1. IInv => OneReaderPerSource
  BY DEF IInv, ReadOut
<1> QED
  BY <1>1, Inductive, PTL

\* The header of a fragment is not older than its payload, although the three
\* are read one after the other while the main thread counts (readdata).
THEOREM HeaderNotOlderAlways ==
  ASSUME OneClient
  PROVE  Spec => []HeaderNotOlder
<1>1. IInv => HeaderNotOlder
  BY DEF IInv, ReadOut
<1> QED
  BY <1>1, Inductive, PTL

\* Each fragment that a readout thread publishes has a newer event number than the
\* last of its source in the run, and a crossing that is not older (readdata).
THEOREM NumbersIncreaseAlways ==
  ASSUME OneClient
  PROVE  Spec => NumbersIncrease
<1> DEFINE Up == \A r \in Readers : reader[r] = "args" /\ reader'[r] = "last" => Later(r)
<1>1. ASSUME IInv, [Next]_vars PROVE [Up]_vars
  <2>1. ASSUME NEW t \in Threads, Command(t) PROVE Up
    <3>1. CASE CreateReader(t)
      <4>1. PICK q \in Readers : reader' = [reader EXCEPT ![q] = "wait"]
        <5>1. PICK s \in todo[t], i \in 1 .. Copies : reader' = [reader EXCEPT ![<<s, i>>] = "wait"]
          BY <3>1 DEF CreateReader
        <5>2. <<s, i>> \in Readers
          BY <1>1 DEF IInv, Commanded, Types, Readers
        <5> QED
          BY <5>1, <5>2
      <4>2. \A r \in Readers : reader'[r] \in {reader[r], "wait"}
        BY <1>1, <4>1 DEF IInv, ReadOut, Data
      <4> QED
        BY <4>2
    <3>2. CASE ~CreateReader(t)
      <4>1. reader' = reader
        BY <2>1, <3>2 DEF Command, Dispatch, Return, Callback, Configure, Start, Started, Stop,
                          Joined, Destroy, readVars
      <4> QED
        BY <4>1
    <3> QED
      BY <3>1, <3>2
  <2>2. ASSUME NEW t \in Threads, NEW c \in Commands, Call(t, c) PROVE reader' = reader
    BY <2>2 DEF Call, readVars
  <2>3. ASSUME Count PROVE reader' = reader
    BY <2>3 DEF Count, SeesRunning, CountEvent, CountCrossing, readVars
  <2>4. ASSUME reader' = reader PROVE Up
    BY <2>4
  <2>5. ASSUME NEW r \in Readers, Readout(r) PROVE Up
    BY <1>1, <2>5, ReadoutKeeps
  <2> QED
    BY <1>1, <2>1, <2>2, <2>3, <2>4, <2>5 DEF Next
<1>2. [Up]_vars => [ \A r \in Readers : reader[r] = "args" /\ reader'[r] = "last" =>
                      LET sent == out[r[1]]
                          new  == out'[r[1]]
                      IN  /\ new.run = sent.run => new.evt > sent.evt
                          /\ new.bx >= sent.bx ]_vars
  BY DEF Later
<1> HIDE DEF Up
<1> QED
  BY <1>1, <1>2, Inductive, PTL DEF Spec, NumbersIncrease

-----------------------------------------------------------------------------
(* Types and bounds, for any number of threads.                            *)

\* A START that has still to begin its run.
Starting(t) ==
    /\ phase[t] = "match" \/ (phase[t] = "callback" /\ work[t] = "ready")
    /\ \E i \in DOMAIN rest[t] : rest[t][i].call = "start"

Starters == {t \in Threads : Starting(t)}

\* The runs, begun and to begin.
Runs == run \in Nat /\ run + Cardinality(Starters) <= MaxRuns

Progress ==
    /\ work \in [Threads -> {"ready", "creating", "joining", "done"}]
    /\ todo \in [Threads -> SUBSET Sources]
    /\ sources \subseteq Sources
    /\ reader \in [Readers -> {"off", "wait", "first", "end", "args", "last"}]
    /\ unread \in [Readers -> SUBSET {"evt", "bx"}]

\* Crossings counted, with the one to come.
Counted == bx + (IF counting = "bx" THEN 1 ELSE 0)

\* A run counts MaxEvent crossings at most; _event says how many of the last one
\* are counted, since START sets it back and leaves the crossing.
Counters ==
    /\ running \in BOOLEAN
    /\ counting \in {"idle", "event", "bx"}
    /\ event \in Numbers /\ bx \in Nat
    /\ counting = "event" => event < MaxEvent
    /\ run = 0 => counting = "idle" /\ event = 0 /\ bx = 0 /\ ~running
    /\ run # 0 => Counted + MaxEvent <= MaxEvent * run + event

Fragments ==
    /\ last \in [Readers -> Numbers]
    /\ args \in [Readers -> [evt : Numbers, bx : Crossings]]
    /\ payload \in [Sources -> [first : Numbers, end : Numbers]]
    /\ out \in [Sources -> [run : 0 .. MaxRuns, evt : Numbers, bx : Crossings,
                            first : Numbers, end : Numbers]]

LEMMA BoundsAreNat == Copies \in Nat /\ MaxEvent \in Nat /\ MaxRuns \in Nat
  BY BoundsAssumption

\* The bound on crossings follows from that on runs.
LEMMA CrossingBound ==
  ASSUME IsFiniteSet(Threads), Runs, Counters
  PROVE  bx \in Crossings /\ run \in 0 .. MaxRuns
<1>1. Cardinality(Starters) \in Nat
  <2>1. IsFiniteSet(Starters)
    BY FS_Subset DEF Starters
  <2> QED
    BY <2>1, FS_CardinalityType
<1>2. run \in 0 .. MaxRuns
  BY <1>1, BoundsAreNat DEF Runs
<1>3. \A m, r, k \in Nat : r <= k => m * r <= m * k
  OBVIOUS
<1>4. bx <= MaxEvent * run
  <2>1. CASE run = 0
    BY <2>1, BoundsAreNat DEF Counters
  <2>2. CASE run # 0
    <3> DEFINE P == MaxEvent * run
    <3>1. P \in Nat
      BY <1>2, BoundsAreNat
    <3>2. bx + MaxEvent <= P + event /\ event <= MaxEvent /\ event \in Nat /\ bx \in Nat
      <4>1. Counted + MaxEvent <= P + event
        BY <2>2 DEF Counters
      <4> HIDE DEF P
      <4> QED
        BY <3>1, <4>1, BoundsAreNat DEF Counters, Counted, Numbers
    <3> HIDE DEF P
    <3>3. bx <= P
      BY <3>1, <3>2, BoundsAreNat
    <3> QED
      BY <3>3 DEF P
  <2> QED
    BY <2>1, <2>2
<1>5. MaxEvent * run <= MaxEvent * MaxRuns /\ MaxEvent * run \in Nat /\ MaxEvent * MaxRuns \in Nat
  BY <1>2, <1>3, BoundsAreNat
<1>6. bx \in Nat
  BY DEF Counters
<1> QED
  BY <1>2, <1>4, <1>5, <1>6 DEF Crossings

\* No START comes in, none is counted.
LEMMA RunsFrame ==
  ASSUME IsFiniteSet(Threads), Runs, run' = run, Starters' \subseteq Starters
  PROVE  Runs'
<1>1. IsFiniteSet(Starters)
  BY FS_Subset DEF Starters
<1>2. Cardinality(Starters') <= Cardinality(Starters)
  BY <1>1, FS_Subset
<1>3. Cardinality(Starters) \in Nat /\ Cardinality(Starters') \in Nat
  BY <1>1, FS_Subset, FS_CardinalityType
<1> QED
  BY <1>2, <1>3, BoundsAreNat DEF Runs

LEMMA CallKeepsRuns ==
  ASSUME IsFiniteSet(Threads), FSM!TypeOK, Runs, NEW t \in Threads, NEW c \in Commands, Call(t, c)
  PROVE  Runs'
<1>1. /\ phase[t] = "idle" /\ phase' = [phase EXCEPT ![t] = "match"]
      /\ rest' = [rest EXCEPT ![t] = Table[c]]
      /\ UNCHANGED <<work, run>>
  BY DEF Call, FSM!Call, callVars
<1>2. phase \in [Threads -> {"idle", "match", "callback", "assign", "publish"}]
        /\ rest \in [Threads -> Seq(FSM!Transitions)]
  BY DEF FSM!TypeOK
<1>3. \A u \in Threads \ {t} : Starting(u)' <=> Starting(u)
  BY <1>1, <1>2 DEF Starting
<1>4. CASE c # "START"
  <2>1. \A i \in DOMAIN Table[c] : Table[c][i].call # "start"
    BY <1>4 DEF Table, Commands
  <2>2. ~Starting(t)'
    BY <1>1, <1>2, <2>1 DEF Starting
  <2> QED
    BY <1>1, <1>3, <2>2, RunsFrame DEF Starters
<1>5. CASE c = "START"
  <2> DEFINE Busy == {u \in Threads : phase[u] # "idle"}
  <2>1. run + Cardinality(Busy) < MaxRuns
    BY <1>5 DEF Call
  <2>2. Starters' \subseteq Busy \cup {t}
    BY <1>3 DEF Starters, Starting
  <2>3. IsFiniteSet(Busy) /\ t \notin Busy
    BY <1>1, FS_Subset
  <2> HIDE DEF Busy
  <2>4. IsFiniteSet(Busy \cup {t}) /\ Cardinality(Busy \cup {t}) = Cardinality(Busy) + 1
    BY <2>3, FS_AddElement
  <2>5. IsFiniteSet(Starters') /\ Cardinality(Starters') <= Cardinality(Busy \cup {t})
    BY <2>2, <2>4, FS_Subset
  <2>6. Cardinality(Busy) \in Nat /\ Cardinality(Starters') \in Nat
    BY <2>3, <2>5, FS_CardinalityType
  <2> QED
    BY <1>1, <2>1, <2>4, <2>5, <2>6, BoundsAreNat DEF Runs
<1> QED
  BY <1>4, <1>5

LEMMA CommandKeepsRuns ==
  ASSUME IsFiniteSet(Threads), FSM!TypeOK, Progress, Runs, NEW t \in Threads, Command(t)
  PROVE  Runs'
<1>1. phase \in [Threads -> {"idle", "match", "callback", "assign", "publish"}]
        /\ rest \in [Threads -> Seq(FSM!Transitions)]
        /\ work \in [Threads -> {"ready", "creating", "joining", "done"}]
  BY DEF FSM!TypeOK, Progress
<1>2. CASE FSM!Skip(t) /\ Dispatch(t)
  <2>1. \A i \in DOMAIN Tail(rest[t]) : i + 1 \in DOMAIN rest[t] /\ Tail(rest[t])[i] = rest[t][i + 1]
    BY <1>1, <1>2 DEF FSM!Skip
  <2>2. /\ rest' = [rest EXCEPT ![t] = Tail(rest[t])] /\ UNCHANGED <<phase, work, run>>
    BY <1>2 DEF FSM!Skip, Dispatch, callVars
  <2>3. \A u \in Threads : Starting(u)' => Starting(u)
    BY <1>1, <2>1, <2>2 DEF Starting
  <2> QED
    BY <2>2, <2>3, RunsFrame DEF Starters
<1>3. CASE (FSM!Match(t) \/ FSM!Refuse(t) \/ FSM!Assign(t) \/ FSM!Publish(t)) /\ Dispatch(t)
  <2>1. /\ UNCHANGED <<work, run>>
        /\ \A u \in Threads \ {t} : phase'[u] = phase[u] /\ rest'[u] = rest[u]
        /\ \/ phase[t] = "match" /\ rest' = rest
           \/ phase'[t] \in {"publish", "idle"}
    BY <1>1, <1>3 DEF FSM!Match, FSM!Refuse, FSM!Assign, FSM!Publish, Dispatch, callVars
  <2>2. \A u \in Threads : Starting(u)' => Starting(u)
    BY <1>1, <2>1 DEF Starting
  <2> QED
    BY <2>1, <2>2, RunsFrame DEF Starters
<1>4. CASE Return(t)
  <2>1. \A u \in Threads : Starting(u)' => Starting(u)
    BY <1>1, <1>4 DEF Return, FSM!Return, Starting
  <2> QED
    BY <1>4, <2>1, RunsFrame DEF Return, Starters
<1>5. CASE Configure(t) \/ CreateReader(t) \/ Started(t) \/ Stop(t) \/ Joined(t) \/ Destroy(t)
  <2>1. /\ UNCHANGED <<phase, rest, run>>
        /\ work' = work \/ \E w \in {"done", "joining"} : work' = [work EXCEPT ![t] = w]
    BY <1>5 DEF Configure, CreateReader, Started, Stop, Joined, Destroy, GoesTo, fsmVars
  <2>2. \A u \in Threads : Starting(u)' => Starting(u)
    BY <1>1, <2>1 DEF Starting
  <2> QED
    BY <2>1, <2>2, RunsFrame DEF Starters
<1>6. CASE Start(t)
  <2>1. /\ UNCHANGED <<phase, rest>> /\ run' = run + 1 /\ work' = [work EXCEPT ![t] = "creating"]
        /\ phase[t] = "callback" /\ work[t] = "ready" /\ Head(rest[t]).call = "start"
    BY <1>6 DEF Start, In, GoesTo, fsmVars
  <2>2. rest[t] # << >>
    BY <2>1 DEF FSM!TypeOK
  <2>3. 1 \in DOMAIN rest[t] /\ rest[t][1].call = "start"
    BY <1>1, <2>1, <2>2
  <2>4. t \in Starters
    BY <2>1, <2>3 DEF Starters, Starting
  <2>5. Starters' = Starters \ {t}
    BY <1>1, <2>1 DEF Starters, Starting
  <2>6. IsFiniteSet(Starters)
    BY FS_Subset DEF Starters
  <2>7. Cardinality(Starters') = Cardinality(Starters) - 1 /\ Cardinality(Starters) \in Nat
    BY <2>4, <2>5, <2>6, FS_RemoveElement, FS_CardinalityType
  <2> QED
    BY <2>1, <2>7, BoundsAreNat DEF Runs
<1> QED
  BY <1>2, <1>3, <1>4, <1>5, <1>6 DEF Command, Dispatch, Callback

LEMMA ProgressKeeps == ASSUME Progress, [Next]_vars PROVE Progress'
<1>1. ASSUME NEW t \in Threads, Command(t) PROVE Progress'
  <2>1. CASE Dispatch(t) \/ Return(t)
    BY <2>1 DEF Dispatch, Return, callVars, readVars, Progress
  <2>2. CASE Configure(t) \/ Started(t) \/ Stop(t) \/ Joined(t) \/ Destroy(t)
    BY <2>2 DEF Configure, Started, Stop, Joined, Destroy, GoesTo, readVars, Progress
  <2>3. CASE Start(t)
    BY <2>3 DEF Start, GoesTo, readVars, Progress
  <2>4. CASE CreateReader(t)
    BY <2>4 DEF CreateReader, Readers, Progress
  <2> QED
    BY <1>1, <2>1, <2>2, <2>3, <2>4 DEF Command, Callback
<1>2. ASSUME NEW r \in Readers, Readout(r) PROVE Progress'
  BY <1>2 DEF Readout, Exit, SeesEvent, TagFirst, TagEnd, ReadArgument, PublishFragment, TakeLast,
              ReaderGoesTo, callVars, Progress
<1>3. ASSUME NEW t \in Threads, NEW c \in Commands, Call(t, c) PROVE Progress'
  BY <1>3 DEF Call, callVars, readVars, Progress
<1>4. CASE Count \/ UNCHANGED vars
  BY <1>4 DEF Count, SeesRunning, CountEvent, CountCrossing, vars, callVars, readVars, Progress
<1> QED
  BY <1>1, <1>2, <1>3, <1>4 DEF Next

\* START sets _event back, whatever the main thread is about to count.
LEMMA StartKeepsCounters ==
  ASSUME Runs, Counters, NEW t \in Threads, Start(t)
  PROVE  Counters'
<1>1. event' = 0 /\ running' = TRUE /\ run' = run + 1 /\ UNCHANGED <<bx, counting>>
  BY DEF Start
<1>2. run \in Nat /\ event \in Nat /\ event <= MaxEvent /\ Counted \in Nat
  BY BoundsAreNat DEF Runs, Counters, Numbers, Counted
<1>3. Counted' = Counted
  BY <1>1 DEF Counted
<1>4. Counted + MaxEvent <= MaxEvent * (run + 1)
  <2>1. CASE run = 0
    BY <1>2, <2>1, BoundsAreNat DEF Counters, Counted
  <2>2. CASE run # 0
    <3>1. Counted + MaxEvent <= MaxEvent * run + event
      BY <2>2 DEF Counters
    <3>2. MaxEvent * (run + 1) = MaxEvent * run + MaxEvent /\ MaxEvent * run \in Nat
      BY <1>2, BoundsAreNat
    <3> DEFINE P == MaxEvent * run
    <3>3. P \in Nat /\ Counted + MaxEvent <= P + event /\ MaxEvent * (run + 1) = P + MaxEvent
      BY <3>1, <3>2
    <3> HIDE DEF P
    <3> QED
      BY <1>2, <3>3, BoundsAreNat
  <2> QED
    BY <2>1, <2>2
<1>5. run' # 0 => Counted' + MaxEvent <= MaxEvent * run' + event'
  <2>1. MaxEvent * (run + 1) + 0 = MaxEvent * (run + 1)
    BY <1>2, BoundsAreNat
  <2> QED
    BY <1>1, <1>3, <1>4, <2>1
<1>6. counting = "event" => 0 < MaxEvent
  BY <1>2, BoundsAreNat DEF Counters
<1>7. event' \in Numbers /\ bx' \in Nat /\ run' # 0
  BY <1>1, <1>2, BoundsAreNat DEF Counters, Numbers
<1> QED
  BY <1>1, <1>5, <1>6, <1>7 DEF Counters

LEMMA CountKeepsCounters ==
  ASSUME Runs, Counters, Count
  PROVE  Counters'
<1>1. UNCHANGED <<running, run>> /\ run \in Nat
  BY DEF Count, SeesRunning, CountEvent, CountCrossing, Runs
<1>2. run # 0
  BY DEF Count, SeesRunning, CountEvent, CountCrossing, Counters
<1>3. Counted + MaxEvent <= MaxEvent * run + event
  BY <1>2 DEF Counters
<1> DEFINE P == MaxEvent * run
<1>4. P \in Nat /\ P' = P
  BY <1>1, BoundsAreNat
<1>5. Counted + MaxEvent <= P + event
  BY <1>3
<1> HIDE DEF P
<1>6. event \in Nat /\ event <= MaxEvent /\ bx \in Nat
  BY BoundsAreNat DEF Counters, Numbers
<1>7. CASE SeesRunning
  BY <1>1, <1>2, <1>5, <1>7 DEF SeesRunning, Counters, Counted, P
<1>8. CASE CountEvent
  <2>1. counting = "event" /\ event' = event + 1 /\ counting' = "bx" /\ bx' = bx /\ event < MaxEvent
    BY <1>8 DEF CountEvent, Counters
  <2>2. Counted' = Counted + 1
    BY <1>6, <2>1 DEF Counted
  <2>3. Counted \in Nat
    BY <1>6 DEF Counted
  <2>4. Counted' + MaxEvent <= P' + event'
    BY <1>4, <1>5, <1>6, <2>1, <2>2, <2>3, BoundsAreNat
  <2>5. event' \in Numbers
    BY <1>6, <2>1, BoundsAreNat DEF Numbers
  <2> QED
    BY <1>1, <1>2, <2>1, <2>4, <2>5 DEF Counters, P
<1>9. CASE CountCrossing
  <2>1. counting = "bx" /\ bx' = bx + 1 /\ counting' = "idle" /\ event' = event
    BY <1>9 DEF CountCrossing
  <2>2. Counted' = Counted
    BY <1>6, <2>1 DEF Counted
  <2>3. Counted' + MaxEvent <= P' + event'
    BY <1>4, <1>5, <2>1, <2>2
  <2> QED
    BY <1>1, <1>2, <1>6, <2>1, <2>3 DEF Counters, P
<1> QED
  BY <1>7, <1>8, <1>9 DEF Count

LEMMA CountersKeep == ASSUME Runs, Counters, [Next]_vars PROVE Counters'
<1>1. ASSUME NEW t \in Threads, Start(t) PROVE Counters'
  BY <1>1, StartKeepsCounters
<1>2. ASSUME NEW t \in Threads, Stop(t) PROVE Counters'
  BY <1>2 DEF Stop, countVars, Counters, Counted
<1>3. CASE Count
  BY <1>3, CountKeepsCounters
<1>4. CASE UNCHANGED <<running, countVars, run>>
  BY <1>4 DEF countVars, Counters, Counted
<1>5. ASSUME NEW t \in Threads, Command(t), ~Start(t), ~Stop(t) PROVE UNCHANGED <<running, countVars, run>>
  BY <1>5 DEF Command, Dispatch, Return, Callback, Configure, CreateReader, Started, Joined, Destroy
<1>6. ASSUME NEW t \in Threads, NEW c \in Commands, Call(t, c) PROVE UNCHANGED <<running, countVars, run>>
  BY <1>6 DEF Call
<1>7. ASSUME NEW r \in Readers, Readout(r) PROVE UNCHANGED <<running, countVars, run>>
  BY <1>7 DEF Readout, Exit, SeesEvent, TagFirst, TagEnd, ReadArgument, PublishFragment, TakeLast
<1> QED
  BY <1>1, <1>2, <1>3, <1>4, <1>5, <1>6, <1>7 DEF Next, vars

\* What is sent are values of the counters.
LEMMA FragmentsKeep ==
  ASSUME Fragments, event \in Numbers, bx \in Crossings, run \in 0 .. MaxRuns, [Next]_vars
  PROVE  Fragments'
<1> USE DEF Fragments
<1>1. 0 \in Numbers /\ 0 \in Crossings
  BY BoundsAreNat DEF Numbers, Crossings
<1>2. ASSUME NEW t \in Threads, Command(t) PROVE Fragments'
  <2>1. UNCHANGED <<args, payload, out>>
    BY <1>2 DEF Command, Dispatch, Return, Callback, Configure, Start, CreateReader, Started, Stop,
                Joined, Destroy, readVars
  <2>2. last' \in [Readers -> Numbers]
    BY <1>1, <1>2 DEF Command, Dispatch, Return, Callback, Configure, Start, CreateReader, Started,
                      Stop, Joined, Destroy, readVars
  <2> QED
    BY <2>1, <2>2
<1>3. ASSUME NEW r \in Readers, Readout(r) PROVE Fragments'
  <2>0. r[1] \in Sources
    BY DEF Readers
  <2>1. CASE Exit(r) \/ SeesEvent(r) \/ TakeLast(r)
    BY <1>1, <2>1 DEF Exit, SeesEvent, TakeLast
  <2>2. CASE TagFirst(r) \/ TagEnd(r)
    BY <2>0, <2>2 DEF TagFirst, TagEnd
  <2>3. CASE ReadArgument(r)
    BY <2>3 DEF ReadArgument
  <2>4. CASE PublishFragment(r)
    BY <1>1, <2>0, <2>4 DEF PublishFragment
  <2> QED
    BY <1>3, <2>1, <2>2, <2>3, <2>4 DEF Readout
<1>4. ASSUME NEW t \in Threads, NEW c \in Commands, Call(t, c) PROVE Fragments'
  BY <1>4 DEF Call, readVars
<1>5. CASE Count \/ UNCHANGED vars
  BY <1>5 DEF Count, SeesRunning, CountEvent, CountCrossing, vars, readVars
<1> QED
  BY <1>2, <1>3, <1>4, <1>5 DEF Next

LEMMA MachineTypes == FSM!Spec => []FSM!TypeOK
<1>1. Machine!Spec => []Machine!TypeOK
  BY TableFacts, GarbledAssumption, Machine!TypeCorrect
<1>2. Machine!TypeOK => FSM!TypeOK
  BY DEF Machine!TypeOK, FSM!TypeOK, Machine!Transitions, FSM!Transitions
<1> QED
  BY <1>1, <1>2, MachineSpec, PTL

\* Types, with the bounds: however many threads command the server, no event
\* number is above MaxEvent, and no crossing above MaxEvent in each run, although
\* START sets the event number back between the two steps of a count
\* (incrementEvent).
THEOREM TypeCorrect ==
  ASSUME IsFiniteSet(Threads)
  PROVE  Spec => []TypeOK
<1> DEFINE Inv == Progress /\ Runs /\ Counters /\ Fragments
<1>1. Init => Inv
  <2> SUFFICES ASSUME Init PROVE Inv
    OBVIOUS
  <2>1. 0 \in Numbers /\ 0 \in Crossings /\ 0 \in 0 .. MaxRuns
    BY BoundsAreNat DEF Numbers, Crossings
  <2>2. Starters = {}
    BY DEF Init, FSM!Init, Starters, Starting
  <2>3. Runs
    BY <2>2, FS_EmptySet, BoundsAreNat DEF Init, Runs
  <2>4. Fragments
    BY <2>1 DEF Init, Fragments, NothingSent
  <2> QED
    BY <2>1, <2>3, <2>4 DEF Init, Progress, Counters
<1>2. ASSUME FSM!TypeOK, Inv, [Next]_vars PROVE Inv'
  <2>1. Runs'
    <3>1. CASE \E t \in Threads : Command(t) \/ \E c \in Commands : Call(t, c)
      BY <1>2, <3>1, CallKeepsRuns, CommandKeepsRuns
    <3>2. CASE Count \/ (\E r \in Readers : Readout(r)) \/ UNCHANGED vars
      <4>1. UNCHANGED <<phase, rest, work, run>>
        BY <3>2 DEF Count, SeesRunning, CountEvent, CountCrossing, Readout, Exit, SeesEvent, TagFirst,
                    TagEnd, ReadArgument, PublishFragment, TakeLast, vars, fsmVars, callVars
      <4>2. Starters' = Starters
        BY <4>1 DEF Starters, Starting
      <4> QED
        BY <1>2, <4>1, <4>2, RunsFrame
    <3> QED
      BY <1>2, <3>1, <3>2 DEF Next
  <2>2. event \in Numbers
    BY <1>2 DEF Counters
  <2> QED
    BY <1>2, <2>1, <2>2, ProgressKeeps, CountersKeep, FragmentsKeep, CrossingBound
<1>3. FSM!TypeOK /\ Inv => TypeOK
  BY CrossingBound DEF Progress, Counters, Fragments, TypeOK
<1> HIDE DEF Inv
<1> QED
  BY <1>1, <1>2, <1>3, ImplementsMachine, MachineTypes, PTL DEF Spec
=============================================================================
