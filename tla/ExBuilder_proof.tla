--------------------------- MODULE ExBuilder_proof ---------------------------
(***************************************************************************)
(* For any sources: between commands the event builder of the example      *)
(* counts, of each source, its sockets and those that HALT deleted; under  *)
(* the rules of the operator nothing that was deleted is used, and no      *)
(* fragment of a source named once is counted twice. Its machine is that   *)
(* of Fsm.                                                                 *)
(***************************************************************************)
EXTENDS ExBuilder, TLAPS

Phases == {"idle", "match", "callback", "assign", "publish"}
Rows == {Table[c] : c \in Commands}
Beyond == {"callback", "assign", "publish"}

\* One command at a time.
OneCommand ==
    /\ phase \in [Threads -> Phases]
    /\ rest \in [Threads -> {<< >>} \cup Rows]
    /\ \A t \in Threads : phase[t] \in Beyond => rest[t] # << >>
    /\ \A t, u \in Threads : phase[t] # "idle" /\ phase[u] # "idle" => t = u

\* There is a builder in every state but CREATED: when a command is at a point
\* where the state does not say so, its progress does.
Waiting == step = "ready" /\ (evb = "none" <=> state = "CREATED")

InCallback(r) ==
    /\ r.from = state
    /\ r.call = "configure" => step \in {"ready", "done"} /\ (evb = "none" <=> step = "ready")
    /\ r.call = "destroy" => step \in {"ready", "done"} /\ (evb = "none" <=> step = "done")
    /\ r.call \notin {"configure", "destroy"} => evb = "builder"
    /\ r.call # "halt" => step # "dropping"

HasBuilder ==
    /\ state \in MachineStates /\ evb \in {"none", "builder"}
    /\ Quiet => Waiting
    /\ \A t \in Threads :
        /\ phase[t] \in {"match", "publish"} => Waiting
        /\ phase[t] = "callback" => InCallback(Head(rest[t]))
        /\ phase[t] = "assign" =>
             step = "ready" /\ (evb = "none" <=> Head(rest[t]).to = "CREATED")

\* RegisteredIsSubscribed, in the middle of commands too.
Count ==
    /\ registered \in [Sources -> Nat]
    /\ socket \in [Sources -> Nat] /\ freed \in Sources \cup {NoSource}
    /\ halted \in [Sources -> Nat]
    /\ evb = "none" => halted = NoSocket
    /\ evb = "builder" => \A s \in Sources : registered[s] = Subscribed(s) + halted[s]

IInv == OneCommand /\ HasBuilder /\ Count

-----------------------------------------------------------------------------

\* The constructor's table, one transition for a command: CONFIGURE makes the
\* builder, DESTROY deletes it (exBuilder.cxx:12-18).
LEMMA TableFacts ==
    ASSUME NEW w \in Rows
    PROVE  /\ w # << >> /\ Tail(w) = << >>
           /\ Head(w).to \in MachineStates
           /\ Head(w).call = "configure" => Head(w).from = "CREATED" /\ Head(w).to # "CREATED"
           /\ Head(w).call = "destroy" => Head(w).from # "CREATED" /\ Head(w).to = "CREATED"
           /\ Head(w).call \notin {"configure", "destroy"} =>
                Head(w).from # "CREATED" /\ Head(w).to # "CREATED"
  <1>1. PICK c \in Commands : w = Table[c]
    BY DEF Rows
  <1>2. CASE c = "CONFIGURE" BY <1>1, <1>2 DEF Table, MachineStates
  <1>3. CASE c = "ADDSOURCES" BY <1>1, <1>3 DEF Table, MachineStates
  <1>4. CASE c = "REGISTER" BY <1>1, <1>4 DEF Table, MachineStates
  <1>5. CASE c = "START" BY <1>1, <1>5 DEF Table, MachineStates
  <1>6. CASE c = "STOP" BY <1>1, <1>6 DEF Table, MachineStates
  <1>7. CASE c = "HALT" BY <1>1, <1>7 DEF Table, MachineStates
  <1>8. CASE c = "DESTROY" BY <1>1, <1>8 DEF Table, MachineStates
  <1> QED BY <1>1, <1>2, <1>3, <1>4, <1>5, <1>6, <1>7, <1>8 DEF Commands

LEMMA InitHolds == ASSUME Init PROVE IInv
  <1>1. OneCommand
    BY DEF Init, FSM!Init, OneCommand, Phases, Beyond
  <1>2. HasBuilder
    BY DEF Init, FSM!Init, HasBuilder, Waiting, MachineStates
  <1>3. Count
    BY DEF Init, Count, NoneRegistered, NoSocket, Subscribed
  <1> QED BY <1>1, <1>2, <1>3 DEF IInv

\* Another thread does not write the state, which is never torn.
LEMMA NotTorn ==
    ASSUME IInv, NEW t \in Threads, phase[t] # "idle"
    PROVE  ~FSM!Torn(t)
  BY DEF IInv, OneCommand, FSM!Torn

\* Steps that leave builder and sockets alone.
LEMMA CountStays ==
    ASSUME Count, UNCHANGED <<evb, registered, socket, freed, halted>>
    PROVE  Count'
  <1>1. \A s \in Sources : Subscribed(s)' = Subscribed(s)
    BY DEF Subscribed
  <1> QED BY <1>1 DEF Count, NoSocket

LEMMA CallKeeps ==
    ASSUME IInv, NEW t \in Threads, NEW c \in Commands, Call(t, c)
    PROVE  IInv'
  <1>1. OneCommand'
    BY DEF Call, FSM!Call, IInv, OneCommand, Quiet, Phases, Beyond, Rows
  <1>2. HasBuilder'
    BY DEF Call, FSM!Call, IInv, OneCommand, HasBuilder, Quiet, Waiting, evbVars, Phases
  <1>3. Count'
    BY CountStays DEF Call, IInv, evbVars, sockVars
  <1> QED BY <1>1, <1>2, <1>3 DEF IInv

LEMMA DispatchKeeps ==
    ASSUME IInv, NEW t \in Threads, Dispatch(t)
    PROVE  IInv'
  <1>0. Count'
    BY CountStays DEF Dispatch, IInv, evbVars, sockVars, history
  <1>1. CASE FSM!Skip(t)
    <2>1. Tail(rest[t]) = << >>
      BY <1>1, TableFacts DEF FSM!Skip, IInv, OneCommand
    <2>2. OneCommand'
      BY <1>1, <2>1 DEF FSM!Skip, IInv, OneCommand, Beyond
    <2>3. HasBuilder'
      BY <1>1, <2>2 DEF FSM!Skip, Dispatch, IInv, OneCommand, HasBuilder, Waiting, InCallback,
                        Quiet, evbVars
    <2> QED BY <1>0, <2>2, <2>3 DEF IInv
  <1>2. CASE FSM!Match(t)
    <2>1. OneCommand'
      BY <1>2 DEF FSM!Match, IInv, OneCommand, Beyond, Phases
    <2>2. rest[t] \in Rows /\ Waiting /\ Head(rest[t]).from = state
      BY <1>2 DEF FSM!Match, IInv, OneCommand, HasBuilder
    <2>3. InCallback(Head(rest[t]))
      BY <2>2, TableFacts DEF InCallback, Waiting, IInv, HasBuilder
    <2>4. \A u \in Threads \ {t} : phase[u] = "idle"
      BY <1>2 DEF FSM!Match, IInv, OneCommand
    <2>5. HasBuilder'
      BY <1>2, <2>3, <2>4 DEF FSM!Match, Dispatch, IInv, OneCommand, HasBuilder, Waiting,
                              InCallback, Quiet, evbVars
    <2> QED BY <1>0, <2>1, <2>5 DEF IInv
  <1>3. CASE FSM!Refuse(t)
    <2>1. OneCommand'
      BY <1>3 DEF FSM!Refuse, IInv, OneCommand, Beyond, Phases
    <2>2. HasBuilder'
      BY <1>3 DEF FSM!Refuse, Dispatch, IInv, OneCommand, HasBuilder, Waiting, InCallback,
                  Quiet, evbVars
    <2> QED BY <1>0, <2>1, <2>2 DEF IInv
  <1>4. CASE FSM!Assign(t)
    <2>1. OneCommand'
      BY <1>4 DEF FSM!Assign, IInv, OneCommand, Beyond, Phases
    <2>2. rest[t] \in Rows
      BY <1>4 DEF FSM!Assign, IInv, OneCommand, Beyond
    <2>3. state' = Head(rest[t]).to
      BY <1>4, NotTorn, GarbledAssumption DEF FSM!Assign, IInv, HasBuilder
    <2>4. state' \in MachineStates
      BY <2>2, <2>3, TableFacts
    <2>5. \A u \in Threads \ {t} : phase[u] = "idle"
      BY <1>4 DEF FSM!Assign, IInv, OneCommand
    <2>6. HasBuilder'
      BY <1>4, <2>3, <2>4, <2>5 DEF FSM!Assign, Dispatch, IInv, OneCommand, HasBuilder,
                                    Waiting, InCallback, Quiet, evbVars
    <2> QED BY <1>0, <2>1, <2>6 DEF IInv
  <1>5. CASE FSM!Publish(t)
    <2>1. OneCommand'
      BY <1>5 DEF FSM!Publish, IInv, OneCommand, Beyond, Phases
    <2>2. HasBuilder'
      BY <1>5 DEF FSM!Publish, Dispatch, IInv, OneCommand, HasBuilder, Waiting, InCallback,
                  Quiet, evbVars
    <2> QED BY <1>0, <2>1, <2>2 DEF IInv
  <1> QED BY <1>1, <1>2, <1>3, <1>4, <1>5 DEF Dispatch

LEMMA ReturnKeeps ==
    ASSUME IInv, NEW t \in Threads, Return(t)
    PROVE  IInv'
  <1>1. OneCommand'
    BY DEF Return, FSM!Return, IInv, OneCommand, Beyond, Phases
  <1>2. rest[t] \in Rows /\ InCallback(Head(rest[t]))
    BY DEF Return, FSM!Return, IInv, OneCommand, HasBuilder, Beyond
  <1>3. evb = "none" <=> Head(rest[t]).to = "CREATED"
    BY <1>2, TableFacts DEF Return, InCallback
  <1>4. \A u \in Threads \ {t} : phase[u] = "idle"
    BY DEF Return, FSM!Return, IInv, OneCommand
  <1>5. HasBuilder'
    BY <1>3, <1>4 DEF Return, FSM!Return, IInv, OneCommand, HasBuilder, Waiting, InCallback,
                      Quiet, evbVars
  <1>6. Count'
    BY CountStays DEF Return, IInv, evbVars, sockVars, history
  <1> QED BY <1>1, <1>5, <1>6 DEF IInv

-----------------------------------------------------------------------------
(* The callbacks.                                                          *)

\* While a thread is in a callback, the rest of the machine stands still.
LEMMA OnlyInCallback ==
    ASSUME IInv, NEW t \in Threads, phase[t] = "callback", UNCHANGED fsmVars,
           evb' \in {"none", "builder"}, InCallback(Head(rest[t]))'
    PROVE  OneCommand' /\ HasBuilder'
  <1>1. OneCommand'
    BY DEF IInv, OneCommand, fsmVars
  <1>2. \A u \in Threads \ {t} : phase[u] = "idle"
    BY DEF IInv, OneCommand
  <1> QED BY <1>1, <1>2 DEF IInv, HasBuilder, fsmVars, Quiet

LEMMA CallbackKeeps ==
    ASSUME IInv, NEW t \in Threads, Callback(t)
    PROVE  IInv'
  <1>1. phase[t] = "callback" /\ UNCHANGED fsmVars /\ InCallback(Head(rest[t]))
    BY DEF Callback, DropBuffer, DropInfo, Dropping, Configure, AddSource, Answered, Start,
           Stop, Joined, Halted, Destroy, In, IInv, HasBuilder
  <1>2. UNCHANGED <<state, phase, rest>>
    BY <1>1 DEF fsmVars
  <1>3. CASE DropBuffer(t)
    <2>1. UNCHANGED <<step, evb, registered, halted>> /\ freed = NoSource
      BY <1>3 DEF DropBuffer, evbVars, history
    <2>2. PICK s \in Sources : /\ socket[s] > 0 /\ socket' = [socket EXCEPT ![s] = @ - 1]
                               /\ freed' = s
      BY <1>3 DEF DropBuffer
    <2>3. OneCommand' /\ HasBuilder'
      BY <1>1, <1>2, <2>1, OnlyInCallback DEF InCallback, IInv, HasBuilder
    <2>4. \A u \in Sources : Subscribed(u)' = Subscribed(u)
      BY <2>1, <2>2, NoSourceAssumption DEF Subscribed, IInv, Count
    <2>5. Count'
      BY <2>1, <2>2, <2>4 DEF IInv, Count, NoSocket
    <2> QED BY <2>3, <2>5 DEF IInv
  <1>4. CASE DropInfo(t)
    <2>1. UNCHANGED <<step, evb, registered, socket>> /\ freed' = NoSource
      BY <1>4 DEF DropInfo, evbVars
    <2>2. PICK s \in Sources :
            /\ freed = s
            /\ halted' = IF In(t, "halt") THEN [halted EXCEPT ![s] = @ + 1] ELSE halted
      BY <1>4 DEF DropInfo
    <2>3. OneCommand' /\ HasBuilder'
      BY <1>1, <1>2, <2>1, OnlyInCallback DEF InCallback, IInv, HasBuilder
    <2>4. \A u \in Sources : Subscribed(u) = Subscribed(u)' + IF u = s THEN 1 ELSE 0
      BY <2>1, <2>2, NoSourceAssumption DEF Subscribed, IInv, Count
    <2>5. CASE In(t, "halt")
      <3>1. evb = "builder" /\ halted' = [halted EXCEPT ![s] = @ + 1]
        BY <1>1, <2>2, <2>5 DEF In, InCallback, IInv, HasBuilder
      <3>2. \A u \in Sources : Subscribed(u)' \in Nat /\ halted[u] \in Nat
              /\ halted'[u] = halted[u] + IF u = s THEN 1 ELSE 0
        BY <2>1, <3>1 DEF Subscribed, IInv, Count
      <3>3. \A u \in Sources : registered'[u] = Subscribed(u)' + halted'[u]
        BY <2>1, <2>4, <3>1, <3>2 DEF IInv, Count
      <3> QED BY <2>1, <2>3, <3>1, <3>3 DEF IInv, Count
    <2>6. CASE ~In(t, "halt")
      <3>1. evb = "none"
        BY <1>1, <1>4, <2>6 DEF DropInfo, Dropping, In, InCallback
      <3> QED BY <2>1, <2>2, <2>3, <2>6, <3>1 DEF IInv, Count, NoSocket
    <2> QED BY <2>5, <2>6
  <1>5. CASE Configure(t)
    <2>1. InCallback(Head(rest[t]))'
      BY <1>1, <1>2, <1>5 DEF Configure, In, InCallback
    <2>2. OneCommand' /\ HasBuilder'
      BY <1>1, <1>5, <2>1, OnlyInCallback DEF Configure
    <2>3. UNCHANGED <<socket, freed, halted>> /\ Dropped /\ halted = NoSocket
      BY <1>1, <1>5 DEF Configure, In, InCallback, IInv, Count, sockVars, history
    <2>4. \A s \in Sources : Subscribed(s)' = 0
      BY <2>3, NoSourceAssumption DEF Subscribed, Dropped, NoSocket
    <2>5. registered' = NoneRegistered
      BY <1>5 DEF Configure
    <2>6. Count'
      BY <2>3, <2>4, <2>5 DEF IInv, Count, NoneRegistered, NoSocket
    <2> QED BY <2>2, <2>6 DEF IInv
  <1>6. CASE AddSource(t)
    <2>1. UNCHANGED <<step, evb, freed, halted>>
      BY <1>6 DEF AddSource, history
    <2>2. PICK s \in Sources : /\ socket' = [socket EXCEPT ![s] = @ + 1]
                               /\ registered' = [registered EXCEPT ![s] = @ + 1]
      BY <1>6 DEF AddSource
    <2>3. OneCommand' /\ HasBuilder'
      BY <1>1, <1>2, <2>1, OnlyInCallback DEF InCallback, IInv, HasBuilder
    <2>4. \A u \in Sources : Subscribed(u)' = Subscribed(u) + IF u = s THEN 1 ELSE 0
      BY <2>1, <2>2 DEF Subscribed, IInv, Count
    <2>5. \A u \in Sources : Subscribed(u) \in Nat
      BY DEF Subscribed, IInv, Count
    <2>6. Count'
      BY <2>1, <2>2, <2>4, <2>5 DEF IInv, Count, NoSocket
    <2> QED BY <2>3, <2>6 DEF IInv
  <1>7. CASE Answered(t) \/ Joined(t) \/ Halted(t) \/ Start(t) \/ Stop(t)
    <2>1. InCallback(Head(rest[t]))'
      BY <1>1, <1>2, <1>7 DEF Answered, Joined, Halted, Start, Stop, In, InCallback, evbVars
    <2>2. UNCHANGED <<evb, registered, socket, freed, halted>>
      BY <1>7 DEF Answered, Joined, Halted, Start, Stop, evbVars, sockVars, history
    <2>3. OneCommand' /\ HasBuilder'
      BY <1>1, <2>1, <2>2, OnlyInCallback DEF IInv, HasBuilder
    <2> QED BY <2>2, <2>3, CountStays DEF IInv
  <1>8. CASE Destroy(t)
    <2>1. InCallback(Head(rest[t]))'
      BY <1>1, <1>2, <1>8 DEF Destroy, In, InCallback
    <2>2. OneCommand' /\ HasBuilder'
      BY <1>1, <1>8, <2>1, OnlyInCallback DEF Destroy
    <2>3. Count'
      BY <1>8 DEF Destroy, IInv, Count, NoneRegistered, NoSocket, sockVars
    <2> QED BY <2>2, <2>3 DEF IInv
  <1> QED BY <1>3, <1>4, <1>5, <1>6, <1>7, <1>8 DEF Callback

\* DIM, the scanner and LIST leave commands, builder and sockets alone.
LEMMA OthersKeep ==
    ASSUME IInv, UNCHANGED <<fsmVars, step, evb, registered, socket, freed, halted>>
    PROVE  IInv'
  <1>1. OneCommand'
    BY DEF IInv, OneCommand, fsmVars
  <1>2. HasBuilder'
    BY DEF IInv, HasBuilder, Waiting, InCallback, Quiet, fsmVars
  <1>3. Count'
    BY CountStays DEF IInv
  <1> QED BY <1>1, <1>2, <1>3 DEF IInv

LEMMA IInvKeeps == ASSUME IInv, [Next]_vars PROVE IInv'
  <1>1. CASE \E t \in Threads : Command(t)
    BY <1>1, DispatchKeeps, ReturnKeeps, CallbackKeeps DEF Command
  <1>2. CASE \E t \in Threads : \E c \in Commands : Call(t, c)
    BY <1>2, CallKeeps
  <1>3. List \/ (\E s \in Sources : Publish(s) \/ Receive(s)) \/ Handle \/ Scan \/ UNCHANGED vars
          => UNCHANGED <<fsmVars, step, evb, registered, socket, freed, halted>>
    BY DEF List, Publish, Receive, Handle, StoreData, StoreFails, StoreMarker, Scan, ScanExit,
           ScanList, ScanPull, ScanEnd, vars, evbVars, scanVars, sockVars, dimVars, history
  <1> QED BY <1>1, <1>2, <1>3, OthersKeep DEF Next

\* What the builder counts of a source is what its sockets receive of it and what
\* those received that HALT deleted, whatever lists of sources ADDSOURCES was
\* given and whatever sockets were left by DESTROY (exBuilder.cxx:31-82, 106-121).
THEOREM RegisteredIsSubscribedAlways == Spec => []RegisteredIsSubscribed
  <1>1. ASSUME IInv PROVE RegisteredIsSubscribed
    BY <1>1 DEF IInv, Count, RegisteredIsSubscribed
  <1> QED BY <1>1, InitHolds, IInvKeeps, PTL DEF Spec

-----------------------------------------------------------------------------
(* Where the scanner may be: it was started, and it is gone before a       *)
(* command deletes what it uses.                                           *)

\* The commands of a run, while their callback leaves the scanner there.
Scanning(r) ==
    \/ r.call = "start" /\ step = "done"
    \/ r.call \in {"stop", "halt"} /\ step \in {"ready", "joining"}

\* A run: it begins in the callback of START and ends in that of STOP or HALT.
InRun ==
    /\ Quiet => state = "RUNNING"
    /\ \A t \in Threads :
        /\ phase[t] \in {"match", "publish"} => state = "RUNNING"
        /\ phase[t] = "callback" => Scanning(Head(rest[t]))
        /\ phase[t] = "assign" => Head(rest[t]).to = "RUNNING"

ScannerRuns ==
    /\ scan \in {"off", "list", "pull"}
    /\ scan = "off" \/ InRun
    /\ scan # "pull" => listing = {}
    /\ scan = "pull" => listing \subseteq marked

\* START leads to RUNNING, STOP and HALT lead out of it (exBuilder.cxx:15-17).
LEMMA RunFacts ==
    ASSUME NEW w \in Rows
    PROVE  /\ Head(w).call \in {"stop", "halt"} <=> Head(w).from = "RUNNING"
           /\ Head(w).call = "start" <=> Head(w).to = "RUNNING"
  <1>1. PICK c \in Commands : w = Table[c]
    BY DEF Rows
  <1>2. CASE c = "CONFIGURE" BY <1>1, <1>2 DEF Table
  <1>3. CASE c = "ADDSOURCES" BY <1>1, <1>3 DEF Table
  <1>4. CASE c = "REGISTER" BY <1>1, <1>4 DEF Table
  <1>5. CASE c = "START" BY <1>1, <1>5 DEF Table
  <1>6. CASE c = "STOP" BY <1>1, <1>6 DEF Table
  <1>7. CASE c = "HALT" BY <1>1, <1>7 DEF Table
  <1>8. CASE c = "DESTROY" BY <1>1, <1>8 DEF Table
  <1> QED BY <1>1, <1>2, <1>3, <1>4, <1>5, <1>6, <1>7, <1>8 DEF Commands

\* The scanner has a builder: a run excludes CREATED.
LEMMA ScannerHasBuilder == ASSUME IInv, ScannerRuns, scan # "off" PROVE evb = "builder"
  <1>0. InRun
    BY DEF ScannerRuns
  <1>1. CASE Quiet
    BY <1>0, <1>1 DEF InRun, IInv, HasBuilder, Waiting
  <1>2. CASE ~Quiet
    <2>1. PICK t \in Threads : phase[t] # "idle"
      BY <1>2 DEF Quiet
    <2>2. CASE phase[t] \in {"match", "publish"}
      BY <1>0, <2>2 DEF InRun, IInv, HasBuilder, Waiting
    <2>3. CASE phase[t] = "callback"
      BY <1>0, <2>3 DEF InRun, Scanning, IInv, HasBuilder, InCallback
    <2>4. CASE phase[t] = "assign"
      BY <1>0, <2>4 DEF InRun, IInv, HasBuilder
    <2> QED BY <2>1, <2>2, <2>3, <2>4 DEF IInv, OneCommand, Phases
  <1> QED BY <1>1, <1>2

\* Outside of its run a command finds no scanner.
LEMMA NoScanner ==
    ASSUME IInv, ScannerRuns, NEW t \in Threads, phase[t] = "callback",
           ~Scanning(Head(rest[t]))
    PROVE  scan = "off" /\ listing = {}
  BY DEF ScannerRuns, InRun

LEMMA DispatchKeepsScanner ==
    ASSUME IInv, ScannerRuns, NEW t \in Threads, Dispatch(t) \/ Return(t)
    PROVE  ScannerRuns'
  <1>0. UNCHANGED <<scan, listing, marked>>
    BY DEF Dispatch, Return, scanVars, dimVars
  <1>1. \A u \in Threads : phase[t] # "idle" /\ u # t => phase[u] = "idle"
    BY DEF IInv, OneCommand
  <1>2. phase \in [Threads -> Phases] /\ rest \in [Threads -> {<< >>} \cup Rows]
    BY DEF IInv, OneCommand
  <1> SUFFICES ASSUME InRun PROVE InRun'
    BY <1>0 DEF ScannerRuns
  <1>3. CASE FSM!Skip(t)
    BY <1>1, <1>2, <1>3 DEF FSM!Skip, InRun, Quiet
  <1>4. CASE FSM!Match(t)
    <2>1. rest[t] \in Rows /\ step = "ready" /\ state = "RUNNING" /\ UNCHANGED <<step, rest, state>>
      BY <1>2, <1>4 DEF FSM!Match, Dispatch, Return, InRun, IInv, HasBuilder, Waiting
    <2>2. Head(rest[t]).call \in {"stop", "halt"}
      BY <1>4, <2>1, RunFacts DEF FSM!Match
    <2>3. phase' = [phase EXCEPT ![t] = "callback"] /\ phase[t] = "match"
      BY <1>4 DEF FSM!Match
    <2>4. Scanning(Head(rest[t]))'
      BY <2>1, <2>2 DEF Scanning
    <2> QED BY <1>1, <1>2, <2>1, <2>3, <2>4 DEF InRun, Quiet
  <1>5. CASE FSM!Refuse(t)
    BY <1>1, <1>2, <1>5 DEF FSM!Refuse, InRun, Quiet
  <1>6. CASE FSM!Assign(t)
    <2>1. state' = Head(rest[t]).to
      BY <1>6, NotTorn, GarbledAssumption DEF FSM!Assign, IInv, HasBuilder
    <2> QED BY <1>1, <1>2, <1>6, <2>1 DEF FSM!Assign, InRun, Quiet
  <1>7. CASE FSM!Publish(t)
    BY <1>1, <1>2, <1>7 DEF FSM!Publish, InRun, Quiet
  <1>8. CASE Return(t)
    <2>1. rest[t] \in Rows /\ Head(rest[t]).call = "start"
      BY <1>2, <1>8 DEF Return, FSM!Return, InRun, Scanning, IInv, OneCommand, Beyond
    <2> QED BY <1>1, <1>2, <1>8, <2>1, RunFacts DEF Return, FSM!Return, InRun, Quiet
  <1> QED BY <1>3, <1>4, <1>5, <1>6, <1>7, <1>8 DEF Dispatch

LEMMA CallKeepsScanner ==
    ASSUME IInv, ScannerRuns, NEW t \in Threads, NEW c \in Commands, Call(t, c)
    PROVE  ScannerRuns'
  <1>1. UNCHANGED <<scan, listing, marked>>
    BY DEF Call, scanVars, dimVars
  <1>2. InRun => InRun'
    BY DEF Call, FSM!Call, InRun, Quiet, IInv, OneCommand
  <1> QED BY <1>1, <1>2 DEF ScannerRuns

\* In a callback, only its own progress counts.
LEMMA RunInCallback ==
    ASSUME IInv, NEW t \in Threads, phase[t] = "callback", UNCHANGED fsmVars,
           Scanning(Head(rest[t]))'
    PROVE  InRun'
  BY DEF IInv, OneCommand, InRun, Quiet, fsmVars

LEMMA CallbackKeepsScanner ==
    ASSUME IInv, ScannerRuns, NEW t \in Threads, Callback(t)
    PROVE  ScannerRuns'
  <1>1. phase[t] = "callback" /\ UNCHANGED fsmVars /\ InCallback(Head(rest[t]))
    BY DEF Callback, DropBuffer, DropInfo, Dropping, Configure, AddSource, Answered, Start,
           Stop, Joined, Halted, Destroy, In, IInv, HasBuilder
  <1>2. UNCHANGED <<state, phase, rest>>
    BY <1>1 DEF fsmVars
  <1>3. CASE DropBuffer(t) \/ DropInfo(t) \/ AddSource(t)
    <2>1. UNCHANGED <<scan, listing, marked, step>>
      BY <1>3 DEF DropBuffer, DropInfo, AddSource, scanVars, dimVars
    <2> QED BY <1>2, <2>1 DEF ScannerRuns, InRun, Quiet, Scanning
  <1>4. CASE Configure(t) \/ Answered(t) \/ Destroy(t)
    <2>1. UNCHANGED <<scan, listing>>
      BY <1>4 DEF Configure, Answered, Destroy, scanVars
    <2>2. scan = "off" /\ listing = {}
      BY <1>1, <1>4, NoScanner DEF Configure, Answered, Destroy, In, Scanning
    <2> QED BY <2>1, <2>2 DEF ScannerRuns
  <1>5. CASE Start(t)
    <2>1. scan = "off" /\ listing = {}
      BY <1>1, <1>5, NoScanner DEF Start, In, Scanning
    <2>2. Scanning(Head(rest[t]))'
      BY <1>2, <1>5 DEF Start, In, Scanning
    <2> QED BY <1>1, <1>5, <2>1, <2>2, RunInCallback DEF Start, ScannerRuns
  <1>6. CASE Stop(t)
    <2>1. UNCHANGED <<scan, listing, marked>>
      BY <1>6 DEF Stop, scanVars, dimVars
    <2>2. Scanning(Head(rest[t]))'
      BY <1>2, <1>6 DEF Stop, In, Scanning
    <2> QED BY <1>1, <2>1, <2>2, RunInCallback DEF ScannerRuns
  <1>7. CASE Joined(t)
    BY <1>7 DEF Joined, ScannerRuns, scanVars, dimVars
  <1>8. CASE Halted(t)
    <2>1. scan = "off" /\ listing = {}
      BY <1>1, <1>8, NoScanner DEF Halted, In, Scanning
    <2> QED BY <1>8, <2>1 DEF Halted, ScannerRuns, scanVars, dimVars
  <1> QED BY <1>3, <1>4, <1>5, <1>6, <1>7, <1>8 DEF Callback

LEMMA ScannerKeeps == ASSUME IInv, ScannerRuns, [Next]_vars PROVE ScannerRuns'
  <1>1. CASE \E t \in Threads : Command(t)
    BY <1>1, DispatchKeepsScanner, CallbackKeepsScanner DEF Command
  <1>2. CASE \E t \in Threads : \E c \in Commands : Call(t, c)
    BY <1>2, CallKeepsScanner
  <1>3. CASE List \/ (\E s \in Sources : Publish(s) \/ Receive(s)) \/ Handle \/ UNCHANGED vars
    <2>1. UNCHANGED <<fsmVars, step, scan, listing>> /\ marked \subseteq marked'
      BY <1>3 DEF List, Publish, Receive, Handle, StoreData, StoreFails, StoreMarker, vars,
                  scanVars, dimVars
    <2> QED BY <2>1 DEF ScannerRuns, InRun, Quiet, Scanning, fsmVars
  <1>4. CASE Scan
    <2>1. InRun /\ UNCHANGED <<fsmVars, step>>
      BY <1>4 DEF Scan, ScanExit, ScanList, ScanPull, ScanEnd, ScannerRuns
    <2>2. InRun'
      BY <2>1 DEF InRun, Quiet, Scanning, fsmVars
    <2>3. CASE ScanExit
      BY <2>3 DEF ScanExit, ScannerRuns
    <2>4. CASE ScanList
      BY <2>2, <2>4 DEF ScanList, ScannerRuns
    <2>5. CASE ScanPull
      BY <2>2, <2>5 DEF ScanPull, ScannerRuns
    <2>6. CASE ScanEnd
      BY <2>2, <2>6 DEF ScanEnd, ScannerRuns
    <2> QED BY <1>4, <2>3, <2>4, <2>5, <2>6 DEF Scan
  <1> QED BY <1>1, <1>2, <1>3, <1>4 DEF Next

-----------------------------------------------------------------------------
(* Types.                                                                  *)

\* An update in infoHandler.
Updates == [pc : {"data", "marker"}, src : Sources, evt : Events, live : BOOLEAN]

\* TypeOK, without what the scanner, the builder and the sockets add to it.
Types ==
    /\ published \in MachineStates
    /\ answer \in [Threads -> {"none", "DONE", "FAILED"}]
    /\ step \in {"ready", "joining", "dropping", "done"}
    /\ pool \in [Events -> [Sources -> Nat]]
    /\ running \in BOOLEAN
    /\ listing \subseteq Markers /\ marked \subseteq Markers
    /\ complete \in 0 .. MaxEvent
    /\ value \in [Sources -> 0 .. MaxEvent]
    /\ due \in [Sources -> Nat]
    /\ \A s \in Sources : due[s] <= Subscribed(s) /\ (due[s] > 0 => value[s] # 0)
    /\ handler \in {Idle} \cup Updates
    /\ dead \in {"no", "modulo", "builder", "buffer"}
    /\ restarts \in 0 .. MaxRestarts
    /\ {renumbered, obeyed} \subseteq BOOLEAN

LEMMA TypesInit == ASSUME Init PROVE Types
  <1>1. /\ published \in MachineStates /\ answer \in [Threads -> {"none", "DONE", "FAILED"}]
        /\ step = "ready" /\ dead = "no" /\ running \in BOOLEAN
        /\ {renumbered, obeyed} \subseteq BOOLEAN
    BY DEF Init, FSM!Init, MachineStates
  <1>2. /\ complete \in 0 .. MaxEvent /\ restarts \in 0 .. MaxRestarts
        /\ value \in [Sources -> 0 .. MaxEvent]
    BY BoundsAssumption DEF Init
  <1>3. pool \in [Events -> [Sources -> Nat]]
    BY DEF Init, EmptyPool
  <1>4. listing = {} /\ marked = {} /\ handler = Idle
    BY DEF Init
  <1>5. due \in [Sources -> Nat] /\ \A s \in Sources : due[s] = 0 /\ Subscribed(s) = 0
    BY NoSourceAssumption DEF Init, NoSocket, Subscribed
  <1> QED BY <1>1, <1>2, <1>3, <1>4, <1>5 DEF Types

LEMMA CommandKeepsTypes ==
    ASSUME IInv, Types, NEW t \in Threads,
           Dispatch(t) \/ Return(t) \/ \E c \in Commands : Call(t, c)
    PROVE  Types'
  <1>1. UNCHANGED <<evbVars, scanVars, sockVars, dimVars, dead, restarts>>
    BY DEF Dispatch, Return, Call, history
  <1>2. {renumbered', obeyed'} \subseteq BOOLEAN /\ step' \in {"ready", "joining", "dropping", "done"}
    BY DEF Dispatch, Return, Call, Types, history
  <1>3. published' \in MachineStates
    BY NotTorn DEF Dispatch, Return, Call, FSM!Call, FSM!Skip, FSM!Match, FSM!Refuse,
                   FSM!Assign, FSM!Publish, FSM!Return, Types, IInv, HasBuilder
  <1>4. answer' \in [Threads -> {"none", "DONE", "FAILED"}]
    BY DEF Dispatch, Return, Call, FSM!Call, FSM!Skip, FSM!Match, FSM!Refuse, FSM!Assign,
           FSM!Publish, FSM!Return, Types
  <1>5. \A s \in Sources : Subscribed(s)' = Subscribed(s)
    BY <1>1 DEF Subscribed, sockVars
  <1> QED BY <1>1, <1>2, <1>3, <1>4, <1>5 DEF Types, evbVars, scanVars, dimVars

\* What is due, when the other things keep their types.
LEMMA DueTypes ==
    ASSUME IInv, Types, NEW t \in Threads, Callback(t)
    PROVE  /\ due' \in [Sources -> Nat]
           /\ \A s \in Sources : due'[s] <= Subscribed(s)' /\ (due'[s] > 0 => value[s] # 0)
  <1>1. /\ socket \in [Sources -> Nat] /\ freed \in Sources \cup {NoSource}
        /\ due \in [Sources -> Nat]
        /\ \A s \in Sources : due[s] <= Subscribed(s) /\ (due[s] > 0 => value[s] # 0)
    BY DEF IInv, Count, Types
  <1>2. CASE DropBuffer(t)
    <2>1. PICK s \in Sources : /\ socket[s] > 0 /\ socket' = [socket EXCEPT ![s] = @ - 1]
                               /\ freed' = s /\ freed = NoSource /\ due' = due
      BY <1>2 DEF DropBuffer
    <2>2. \A u \in Sources : Subscribed(u)' = Subscribed(u)
      BY <1>1, <2>1, NoSourceAssumption DEF Subscribed
    <2> QED BY <1>1, <2>1, <2>2
  <1>3. CASE DropInfo(t)
    <2>1. PICK s \in Sources, lost \in {0, 1} :
            /\ freed = s /\ due[s] - lost \in 0 .. socket[s]
            /\ due' = [due EXCEPT ![s] = @ - lost]
      BY <1>3 DEF DropInfo
    <2>2. socket' = socket /\ freed' = NoSource
      BY <1>3 DEF DropInfo
    <2>3. \A u \in Sources : Subscribed(u)' = socket[u]
      BY <1>1, <2>2, NoSourceAssumption DEF Subscribed
    <2>4. \A u \in Sources : u # s => Subscribed(u) = socket[u]
      BY <1>1, <2>1 DEF Subscribed
    <2>5. due' \in [Sources -> Nat]
      BY <1>1, <2>1
    <2>6. \A u \in Sources : due'[u] <= socket[u] /\ due'[u] <= due[u]
      BY <1>1, <2>1, <2>4
    <2> QED BY <1>1, <2>3, <2>5, <2>6
  <1>4. CASE AddSource(t)
    <2>1. PICK s \in Sources : /\ socket' = [socket EXCEPT ![s] = @ + 1]
                               /\ due' = [due EXCEPT ![s] = @ + IF value[s] # 0 THEN 1 ELSE 0]
      BY <1>4 DEF AddSource
    <2>2. freed' = freed
      BY <1>4 DEF AddSource
    <2>3. \A u \in Sources : Subscribed(u)' = Subscribed(u) + IF u = s THEN 1 ELSE 0
      BY <1>1, <2>1, <2>2 DEF Subscribed
    <2>4. \A u \in Sources : Subscribed(u) \in Nat
      BY <1>1 DEF Subscribed
    <2>5. \A u \in Sources : due'[u] = due[u] + IF u = s /\ value[s] # 0 THEN 1 ELSE 0
      BY <1>1, <2>1
    <2>6. due' \in [Sources -> Nat]
      BY <1>1, <2>1
    <2> QED BY <1>1, <2>3, <2>4, <2>5, <2>6
  <1>5. CASE \/ Configure(t) \/ Answered(t) \/ Start(t) \/ Stop(t) \/ Joined(t) \/ Halted(t)
             \/ Destroy(t)
    <2>1. UNCHANGED <<socket, freed, due>>
      BY <1>5 DEF Configure, Answered, Start, Stop, Joined, Halted, Destroy, sockVars, dimVars
    <2>2. \A s \in Sources : Subscribed(s)' = Subscribed(s)
      BY <2>1 DEF Subscribed
    <2> QED BY <1>1, <2>1, <2>2
  <1> QED BY <1>2, <1>3, <1>4, <1>5 DEF Callback

LEMMA CallbackKeepsTypes ==
    ASSUME IInv, Types, NEW t \in Threads, Callback(t)
    PROVE  Types'
  <1>1. UNCHANGED <<published, answer, value, complete, listing, restarts, obeyed>>
    BY DEF Callback, DropBuffer, DropInfo, Configure, AddSource, Answered, Start, Stop, Joined,
           Halted, Destroy, fsmVars, scanVars, dimVars, history
  <1>2. handler' \in {Idle} \cup Updates
    <2>1. CASE DropBuffer(t)
      <3>1. handler' = handler \/ (handler # Idle /\ handler' = [handler EXCEPT !.live = FALSE])
        BY <2>1 DEF DropBuffer, Handling
      <3> QED BY <3>1 DEF Types, Updates
    <2>2. CASE ~DropBuffer(t)
      BY <2>2 DEF Callback, DropInfo, Configure, AddSource, Answered, Start, Stop, Joined, Halted,
                  Destroy, dimVars, Types
    <2> QED BY <2>1, <2>2
  <1>3. dead' \in {"no", "modulo", "builder", "buffer"} /\ renumbered' \in BOOLEAN
          /\ running' \in BOOLEAN /\ step' \in {"ready", "joining", "dropping", "done"}
    BY DEF Callback, DropBuffer, DropInfo, Configure, AddSource, Answered, Start, Stop, Joined,
           Halted, Destroy, UseBuilder, history, Types, evbVars
  <1>4. pool' \in [Events -> [Sources -> Nat]] /\ marked' \subseteq Markers
    <2>1. UNCHANGED pool \/ pool' = EmptyPool
      BY DEF Callback, DropBuffer, DropInfo, Configure, AddSource, Answered, Start, Stop, Joined,
             Halted, Destroy, scanVars
    <2>2. UNCHANGED marked \/ marked' = {}
      BY DEF Callback, DropBuffer, DropInfo, Configure, AddSource, Answered, Start, Stop, Joined,
             Halted, Destroy, dimVars
    <2> QED BY <2>1, <2>2 DEF Types, EmptyPool
  <1>5. listing' \subseteq Markers /\ complete' \in 0 .. MaxEvent
          /\ value' \in [Sources -> 0 .. MaxEvent] /\ obeyed' \in BOOLEAN
    BY <1>1 DEF Types
  <1> QED BY <1>1, <1>2, <1>3, <1>4, <1>5, DueTypes DEF Types

LEMMA ScanKeepsTypes == ASSUME Types, Scan PROVE Types'
  <1>1. UNCHANGED <<fsmVars, step, evb, registered, sockVars, value, due, handler, history>>
    BY DEF Scan, ScanExit, ScanList, ScanPull, ScanEnd, evbVars, dimVars, history
  <1>0. \A s \in Sources : Subscribed(s)' = Subscribed(s)
    BY <1>1 DEF Subscribed, sockVars
  <1>2. running' \in BOOLEAN /\ dead' \in {"no", "modulo", "builder", "buffer"}
    BY DEF Scan, ScanExit, ScanList, ScanPull, ScanEnd, Types, evbVars, history
  <1>3. listing' \subseteq Markers /\ marked' \subseteq Markers
    BY DEF Scan, ScanExit, ScanList, ScanPull, ScanEnd, Types, dimVars
  <1>4. complete' \in 0 .. MaxEvent /\ pool' \in [Events -> [Sources -> Nat]]
    <2>1. CASE ScanExit \/ ScanList
      BY <2>1 DEF ScanExit, ScanList, Types
    <2>2. CASE ScanPull
      <3>1. PICK m \in listing :
              \/ pool' = [pool EXCEPT ![m[2]] = NoneRegistered] /\ complete' = m[2]
              \/ /\ pool' = [pool EXCEPT ![m[2]] = [pool[m[2]] EXCEPT ![m[1]] = @ + 1]]
                 /\ complete' = complete
        BY <2>2 DEF ScanPull
      <3>2. m[1] \in Sources /\ m[2] \in Events
        BY DEF Types, Markers
      <3>3. NoneRegistered \in [Sources -> Nat] /\ Events \subseteq 0 .. MaxEvent
        BY BoundsAssumption DEF NoneRegistered, Events
      <3>4. [pool[m[2]] EXCEPT ![m[1]] = @ + 1] \in [Sources -> Nat]
        BY <3>2 DEF Types
      <3>5. complete \in 0 .. MaxEvent /\ pool \in [Events -> [Sources -> Nat]]
        BY DEF Types
      <3>6. complete' \in 0 .. MaxEvent
        BY <3>1, <3>2, <3>3, <3>5
      <3>7. pool' \in [Events -> [Sources -> Nat]]
        BY <3>1, <3>2, <3>3, <3>4, <3>5
      <3> QED BY <3>6, <3>7
    <2>3. CASE ScanEnd
      BY <2>3, BoundsAssumption DEF ScanEnd, Types, NoneRegistered
    <2> QED BY <2>1, <2>2, <2>3 DEF Scan
  <1> QED BY <1>0, <1>1, <1>2, <1>3, <1>4 DEF Types, fsmVars, history

LEMMA TypesKeep == ASSUME IInv, Types, [Next]_vars PROVE Types'
  <1>1. CASE \E t \in Threads : Command(t) \/ \E c \in Commands : Call(t, c)
    BY <1>1, CommandKeepsTypes, CallbackKeepsTypes DEF Command
  <1>2. CASE List
    <2>1. \A s \in Sources : Subscribed(s)' = Subscribed(s)
      BY <1>2 DEF List, Subscribed, sockVars
    <2> QED BY <1>2, <2>1 DEF List, UseBuilder, Types, fsmVars, evbVars, scanVars, dimVars
  <1>3. ASSUME NEW s \in Sources, Publish(s) PROVE Types'
    <2>1. value' \in [Sources -> 0 .. MaxEvent] /\ value'[s] # 0
            /\ \A u \in Sources \ {s} : value'[u] = value[u]
      BY <1>3, BoundsAssumption DEF Publish, Types, Events
    <2>2. \A u \in Sources : Subscribed(u) \in Nat /\ Subscribed(u)' = Subscribed(u)
      BY <1>3 DEF Publish, Subscribed, sockVars, IInv, Count
    <2>3. due' = [due EXCEPT ![s] = Subscribed(s)]
      BY <1>3 DEF Publish
    <2>4. /\ due' \in [Sources -> Nat]
          /\ \A u \in Sources : due'[u] <= Subscribed(u)' /\ (due'[u] > 0 => value'[u] # 0)
      BY <2>1, <2>2, <2>3 DEF Types
    <2>5. restarts' \in 0 .. MaxRestarts /\ obeyed' = obeyed
      <3>1. restarts' = restarts \/ (restarts < MaxRestarts /\ restarts' = restarts + 1)
        BY <1>3 DEF Publish
      <3> QED BY <1>3, <3>1, BoundsAssumption DEF Publish, Types
    <2>6. renumbered' \in BOOLEAN
      BY <1>3, Zenon DEF Publish, Types
    <2> QED BY <1>3, <2>1, <2>4, <2>5, <2>6 DEF Publish, Types, fsmVars, evbVars, scanVars
  <1>4. ASSUME NEW s \in Sources, Receive(s) PROVE Types'
    <2>1. value[s] \in Events
      BY <1>4, BoundsAssumption DEF Receive, Types, Events
    <2>2. handler' \in Updates
      BY <1>4, <2>1 DEF Receive, Updates
    <2>3. \A u \in Sources : Subscribed(u)' = Subscribed(u) /\ Subscribed(u) \in Nat
      BY <1>4 DEF Receive, Subscribed, sockVars, IInv, Count
    <2>4. due' = [due EXCEPT ![s] = @ - 1] /\ due[s] > 0 /\ value' = value
      BY <1>4 DEF Receive
    <2>5. /\ due' \in [Sources -> Nat]
          /\ \A u \in Sources : due'[u] <= Subscribed(u)' /\ (due'[u] > 0 => value'[u] # 0)
      BY <2>3, <2>4 DEF Types
    <2> QED BY <1>4, <2>2, <2>5 DEF Receive, Types, fsmVars, evbVars, scanVars, history
  <1>5. CASE Handle
    <2>1. UNCHANGED <<fsmVars, step, evbVars, scanVars, sockVars, value, due, history>>
      BY <1>5 DEF Handle, StoreData, StoreFails, StoreMarker
    <2>2. handler # Idle
      BY <1>5 DEF Handle, StoreData, StoreFails, StoreMarker, Idle
    <2>3. handler' \in {Idle} \cup Updates
      BY <1>5, <2>2 DEF Handle, StoreData, StoreFails, StoreMarker, Types, Updates
    <2>4. marked' \subseteq Markers
      BY <1>5, <2>2 DEF Handle, StoreData, StoreFails, StoreMarker, Types, Markers, Updates
    <2>5. dead' \in {"no", "modulo", "builder", "buffer"}
      BY <1>5 DEF Handle, StoreData, StoreFails, StoreMarker, Types
    <2>6. \A s \in Sources : Subscribed(s)' = Subscribed(s)
      BY <2>1 DEF Subscribed, sockVars
    <2> QED BY <2>1, <2>3, <2>4, <2>5, <2>6 DEF Types, fsmVars, evbVars, scanVars, history
  <1>6. CASE Scan
    BY <1>6, ScanKeepsTypes
  <1>7. CASE UNCHANGED vars
    <2>1. \A s \in Sources : Subscribed(s)' = Subscribed(s)
      BY <1>7 DEF vars, Subscribed, sockVars
    <2> QED BY <1>7, <2>1 DEF vars, Types, fsmVars, evbVars, scanVars, dimVars, history
  <1> QED BY <1>1, <1>2, <1>3, <1>4, <1>5, <1>6, <1>7 DEF Next

-----------------------------------------------------------------------------
(* The sockets, whoever deletes them, and DIM's thread, which is in one    *)
(* place.                                                                  *)

Sockets ==
    /\ freed # NoSource => \E t \in Threads : Dropping(t)
    /\ handler # Idle => phase["dim"] = "idle"

\* One transition for a command: those that delete sockets are CONFIGURE and HALT.
LEMMA DropFacts ==
    ASSUME NEW c \in Commands
    PROVE  Table[c] # << >> /\ (Head(Table[c]).call \in {"configure", "halt"}
                                  => c \in {"CONFIGURE", "HALT"})
  <1>2. CASE c = "CONFIGURE" BY <1>2 DEF Table
  <1>3. CASE c = "ADDSOURCES" BY <1>3 DEF Table
  <1>4. CASE c = "REGISTER" BY <1>4 DEF Table
  <1>5. CASE c = "START" BY <1>5 DEF Table
  <1>6. CASE c = "STOP" BY <1>6 DEF Table
  <1>7. CASE c = "HALT" BY <1>7 DEF Table
  <1>8. CASE c = "DESTROY" BY <1>8 DEF Table
  <1> QED BY <1>2, <1>3, <1>4, <1>5, <1>6, <1>7, <1>8 DEF Commands

\* Between the two deletes of a socket nothing but its loop moves the command.
LEMMA CommandKeepsSockets ==
    ASSUME IInv, Types, Sockets, NEW t \in Threads,
           Dispatch(t) \/ Return(t) \/ \E c \in Commands : Call(t, c)
    PROVE  Sockets'
  <1>1. UNCHANGED <<freed, handler>>
    BY DEF Dispatch, Return, Call, sockVars, dimVars
  <1>2. ~\E u \in Threads : Dropping(u)
    <2>1. CASE Dispatch(t)
      BY <2>1 DEF Dispatch, FSM!Skip, FSM!Match, FSM!Refuse, FSM!Assign, FSM!Publish, Dropping, In,
                  IInv, OneCommand
    <2>2. CASE Return(t)
      BY <2>2 DEF Return, FSM!Return, Dropping, In, IInv, OneCommand
    <2>3. CASE \E c \in Commands : Call(t, c)
      BY <2>3 DEF Call, Quiet, Dropping, In
    <2> QED BY <2>1, <2>2, <2>3
  <1>3. handler # Idle => phase'["dim"] = "idle"
    <2>1. phase \in [Threads -> Phases] /\ "dim" \in Threads
      BY DEF IInv, OneCommand, Threads
    <2>2. CASE Dispatch(t) \/ Return(t)
      BY <2>1, <2>2 DEF Dispatch, Return, FSM!Skip, FSM!Match, FSM!Refuse, FSM!Assign, FSM!Publish,
                        FSM!Return, Sockets
    <2>3. CASE \E c \in Commands : Call(t, c)
      BY <2>1, <2>3 DEF Call, FSM!Call, Sockets
    <2> QED BY <2>2, <2>3
  <1> QED BY <1>1, <1>2, <1>3 DEF Sockets

LEMMA CallbackKeepsSockets ==
    ASSUME IInv, Types, Sockets, NEW t \in Threads, Callback(t)
    PROVE  Sockets'
  <1>1. phase[t] = "callback" /\ UNCHANGED fsmVars /\ InCallback(Head(rest[t]))
    BY DEF Callback, DropBuffer, DropInfo, Dropping, Configure, AddSource, Answered, Start,
           Stop, Joined, Halted, Destroy, In, IInv, HasBuilder
  <1>2. UNCHANGED <<state, phase, rest>> /\ (handler' # Idle => handler # Idle)
    BY <1>1 DEF fsmVars, Callback, DropBuffer, DropInfo, Configure, AddSource, Answered, Start,
                Stop, Joined, Halted, Destroy, dimVars, Handling
  <1>3. \A u \in Threads : u # t => ~Dropping(u)
    BY <1>1 DEF IInv, OneCommand, Dropping, In
  <1>4. CASE DropBuffer(t) \/ DropInfo(t)
    <2>1. step' = step /\ Dropping(t)
      BY <1>4 DEF DropBuffer, DropInfo
    <2>2. Dropping(t)'
      BY <1>2, <2>1 DEF Dropping, In
    <2> QED BY <1>2, <2>2 DEF Sockets
  <1>5. CASE Configure(t) \/ AddSource(t) \/ Answered(t) \/ Start(t) \/ Stop(t) \/ Joined(t)
               \/ Halted(t) \/ Destroy(t)
    <2>1. freed' = freed
      BY <1>5 DEF Configure, AddSource, Answered, Start, Stop, Joined, Halted, Destroy, sockVars
    <2>2. ~Dropping(t) \/ freed = NoSource
      BY <1>5 DEF Configure, AddSource, Answered, Start, Stop, Joined, Halted, Destroy, Dropping,
                  In, Dropped
    <2>3. freed = NoSource
      BY <1>3, <2>2 DEF Sockets
    <2> QED BY <1>2, <2>1, <2>3 DEF Sockets
  <1> QED BY <1>4, <1>5 DEF Callback

LEMMA SocketsKeep == ASSUME IInv, Types, Sockets, [Next]_vars PROVE Sockets'
  <1>1. CASE \E t \in Threads : Command(t) \/ \E c \in Commands : Call(t, c)
    BY <1>1, CommandKeepsSockets, CallbackKeepsSockets DEF Command
  <1>2. CASE List \/ Handle \/ Scan \/ (\E s \in Sources : Publish(s)) \/ UNCHANGED vars
    <2>1. UNCHANGED <<state, phase, rest, step, freed>>
      BY <1>2 DEF List, Handle, StoreData, StoreFails, StoreMarker, Scan, ScanExit, ScanList,
                  ScanPull, ScanEnd, Publish, vars, fsmVars, sockVars
    <2>2. handler' # Idle => handler # Idle
      BY <1>2 DEF List, Handle, StoreData, StoreFails, StoreMarker, Scan, ScanExit, ScanList,
                  ScanPull, ScanEnd, Publish, vars, dimVars, Idle
    <2> QED BY <2>1, <2>2 DEF Sockets, Dropping, In
  <1>3. CASE \E s \in Sources : Receive(s)
    <2>1. UNCHANGED <<phase, rest, step, freed>> /\ phase["dim"] = "idle"
      BY <1>3 DEF Receive, fsmVars, sockVars
    <2> QED BY <2>1 DEF Sockets, Dropping, In
  <1> QED BY <1>1, <1>2, <1>3 DEF Next

-----------------------------------------------------------------------------
(* What an operator who keeps to the rules makes sure of.                  *)

\* A command of thread t is to delete sockets.
Deletes(t) ==
    /\ phase[t] \in {"match", "callback"} /\ rest[t] # << >>
    /\ Head(rest[t]).call \in {"configure", "halt"}

Ruled ==
    obeyed =>
      /\ dead = "no"
      /\ Deletes("web") => Dropped
      /\ handler # Idle => handler.live /\ socket[handler.src] > 0
      /\ evb = "builder" /\ marked # {} => registered # NoneRegistered

\* Who deletes a socket is DIM's thread, which is then not in infoHandler.
LEMMA DroppedByDim ==
    ASSUME IInv, Types, Sockets, Ruled, obeyed, NEW t \in Threads, Dropping(t), ~Dropped
    PROVE  handler = Idle /\ t = "dim"
  <1>1. phase[t] = "callback" /\ rest[t] # << >> /\ Head(rest[t]).call \in {"configure", "halt"}
    BY DEF Dropping, In, IInv, OneCommand, Beyond
  <1>2. t # "web"
    BY <1>1 DEF Ruled, Deletes
  <1> QED BY <1>1, <1>2 DEF Threads, Sockets

\* Who has a socket is registered.
LEMMA SocketRegistered ==
    ASSUME IInv, evb = "builder", NEW s \in Sources, socket[s] > 0
    PROVE  registered[s] # 0
  <1>1. Subscribed(s) \in Nat /\ Subscribed(s) > 0
    BY DEF Subscribed, IInv, Count
  <1> QED BY <1>1 DEF IInv, Count

\* Steps that leave alone what the rules protect.
LEMMA RuledStays ==
    ASSUME Ruled, UNCHANGED <<socket, freed, handler, evb, registered>>,
           marked' \subseteq marked, obeyed' => obeyed, obeyed' => dead' = dead,
           Deletes("web")' => Deletes("web")
    PROVE  Ruled'
  BY DEF Ruled, Dropped, NoSocket, NoneRegistered

LEMMA CallKeepsRules ==
    ASSUME IInv, Types, Sockets, Ruled, NEW t \in Threads, NEW c \in Commands, Call(t, c)
    PROVE  Ruled'
  <1>1. UNCHANGED <<dead, socket, freed, handler, evb, marked, registered>>
    BY DEF Call, evbVars, sockVars, dimVars
  <1> SUFFICES ASSUME obeyed' PROVE Ruled'
    BY DEF Ruled
  <1>2. obeyed /\ Obeys(t, c)
    BY DEF Call
  <1>3. ASSUME Deletes("web")' PROVE Dropped
    <2>1. phase["web"] = "idle" /\ phase' = [phase EXCEPT ![t] = "match"]
            /\ rest' = [rest EXCEPT ![t] = Table[c]]
      BY DEF Call, FSM!Call, Quiet, Threads
    <2>2. t = "web"
      BY <1>3, <2>1 DEF Deletes
    <2>3. Head(Table[c]).call \in {"configure", "halt"}
      BY <1>3, <2>1, <2>2 DEF Deletes, IInv, OneCommand, Threads
    <2>4. socket = NoSocket
      BY <1>2, <2>2, <2>3, DropFacts DEF Obeys
    <2>5. freed = NoSource
      BY DEF Sockets, Dropping, In, Call, Quiet
    <2> QED BY <2>4, <2>5 DEF Dropped
  <1> QED BY <1>1, <1>2, <1>3 DEF Ruled, NoneRegistered, NoSocket, Dropped

LEMMA DispatchKeepsRules ==
    ASSUME IInv, Ruled, NEW t \in Threads, Dispatch(t) \/ Return(t)
    PROVE  Ruled'
  <1>1. UNCHANGED <<dead, socket, freed, handler, evb, marked, registered, obeyed>>
    BY DEF Dispatch, Return, evbVars, sockVars, dimVars, history
  <1>2. phase \in [Threads -> Phases] /\ rest \in [Threads -> {<< >>} \cup Rows]
          /\ "web" \in Threads
    BY DEF IInv, OneCommand, Threads
  <1>3. Deletes("web")' => Deletes("web")
    <2>1. CASE FSM!Skip(t)
      <3>1. Tail(rest[t]) = << >>
        BY <1>2, <2>1, TableFacts DEF FSM!Skip
      <3> QED BY <1>2, <2>1, <3>1 DEF FSM!Skip, Deletes
    <2>2. CASE FSM!Match(t)
      BY <1>2, <2>2 DEF FSM!Match, Deletes
    <2>3. CASE FSM!Refuse(t) \/ FSM!Assign(t) \/ FSM!Publish(t) \/ Return(t)
      BY <1>2, <2>3 DEF FSM!Refuse, FSM!Assign, FSM!Publish, FSM!Return, Return, Deletes
    <2> QED BY <2>1, <2>2, <2>3 DEF Dispatch
  <1> QED BY <1>1, <1>3, RuledStays

LEMMA CallbackKeepsRules ==
    ASSUME IInv, Types, Sockets, Ruled, NEW t \in Threads, Callback(t)
    PROVE  Ruled'
  <1>1. UNCHANGED <<phase, rest, obeyed>> /\ phase[t] = "callback"
    BY DEF Callback, DropBuffer, DropInfo, Dropping, Configure, AddSource, Answered, Start,
           Stop, Joined, Halted, Destroy, In, fsmVars, dimVars, history
  <1>2. Deletes("web")' <=> Deletes("web")
    BY <1>1 DEF Deletes
  <1> SUFFICES ASSUME obeyed PROVE Ruled'
    BY <1>1 DEF Ruled
  <1>3. CASE DropBuffer(t) \/ DropInfo(t)
    <2>0. ~Dropped
      <3>1. CASE DropBuffer(t)
        <4>1. PICK s \in Sources : socket[s] > 0
          BY <3>1 DEF DropBuffer
        <4> QED BY <4>1 DEF Dropped, NoSocket
      <3>2. CASE DropInfo(t)
        BY <3>2, NoSourceAssumption DEF DropInfo, Dropped
      <3> QED BY <1>3, <3>1, <3>2
    <2>1. Dropping(t) /\ ~Dropped /\ UNCHANGED <<evb, registered, marked, dead>>
      BY <1>3, <2>0 DEF DropBuffer, DropInfo, evbVars
    <2>2. handler = Idle /\ t = "dim"
      BY <2>1, DroppedByDim
    <2>3. handler' = Idle
      BY <1>3, <2>2 DEF DropBuffer, DropInfo, Handling
    <2>4. ~Deletes("web")
      BY <2>1 DEF Ruled
    <2> QED BY <1>1, <1>2, <2>1, <2>3, <2>4 DEF Ruled, NoneRegistered
  <1>4. CASE Configure(t)
    <2>1. UNCHANGED <<dead, handler, socket, freed>> /\ marked' = {} /\ Dropped
      BY <1>4 DEF Configure, sockVars
    <2> QED BY <1>1, <1>2, <2>1 DEF Ruled, Dropped, NoSocket
  <1>5. CASE AddSource(t)
    <2>1. PICK s \in Sources : /\ socket' = [socket EXCEPT ![s] = @ + 1]
                               /\ registered' = [registered EXCEPT ![s] = @ + 1]
      BY <1>5 DEF AddSource
    <2>2. registered'[s] # 0
      BY <2>1 DEF IInv, Count
    <2>3. ~Deletes("web")
      BY <1>1, <1>5 DEF AddSource, In, Deletes, IInv, OneCommand, Threads
    <2>4. handler # Idle => handler.live /\ socket'[handler.src] > 0
      <3>1. socket \in [Sources -> Nat] /\ (handler # Idle => handler.src \in Sources)
        BY DEF IInv, Count, Types, Updates
      <3>2. handler # Idle => handler.live /\ socket[handler.src] > 0
        BY DEF Ruled
      <3> QED BY <2>1, <3>1, <3>2
    <2>5. dead' = dead /\ handler' = handler
      BY <1>5 DEF AddSource, UseBuilder, In, IInv, HasBuilder, InCallback
    <2> QED BY <1>1, <1>2, <2>2, <2>3, <2>4, <2>5 DEF Ruled, NoneRegistered
  <1>6. CASE Answered(t) \/ Start(t) \/ Stop(t) \/ Joined(t) \/ Halted(t)
    <2>1. UNCHANGED <<socket, freed, handler, evb, registered, marked>>
      BY <1>6 DEF Answered, Start, Stop, Joined, Halted, evbVars, sockVars, dimVars
    <2>2. dead' = dead
      BY <1>6 DEF Answered, Start, Stop, Joined, Halted, UseBuilder, In, IInv, HasBuilder,
                  InCallback
    <2> QED BY <1>1, <1>2, <2>1, <2>2, RuledStays
  <1>7. CASE Destroy(t)
    <2>1. UNCHANGED <<dead, handler, socket, freed>> /\ evb' = "none"
      BY <1>7 DEF Destroy, sockVars, dimVars
    <2> QED BY <1>1, <1>2, <2>1 DEF Ruled, Dropped, NoSocket
  <1> QED BY <1>3, <1>4, <1>5, <1>6, <1>7 DEF Callback

\* Between commands, outside of CREATED, LIST finds a builder.
LEMMA ListKeepsRules == ASSUME IInv, Ruled, List PROVE Ruled'
  <1>1. UNCHANGED <<phase, rest, socket, freed, handler, evb, marked, registered>>
    BY DEF List, fsmVars, evbVars, sockVars, dimVars
  <1>2. obeyed' => obeyed /\ evb = "builder"
    BY DEF List, ObeysList, IInv, HasBuilder, Waiting
  <1>3. obeyed' => dead' = dead
    BY <1>2 DEF List, UseBuilder
  <1>4. Deletes("web")' <=> Deletes("web")
    BY <1>1 DEF Deletes
  <1> QED BY <1>1, <1>2, <1>3, <1>4, RuledStays

LEMMA HandleKeepsRules == ASSUME IInv, Types, Sockets, Ruled, Handle PROVE Ruled'
  <1>1. UNCHANGED <<phase, rest, socket, freed, evb, registered, obeyed>>
    BY DEF Handle, StoreData, StoreFails, StoreMarker, fsmVars, evbVars, sockVars, history
  <1>2. Deletes("web")' <=> Deletes("web")
    BY <1>1 DEF Deletes
  <1> SUFFICES ASSUME obeyed PROVE Ruled'
    BY <1>1 DEF Ruled
  <1>3. handler # Idle /\ handler \in Updates /\ handler.src \in Sources
    BY DEF Handle, StoreData, StoreFails, StoreMarker, Idle, Types, Updates
  <1>4. handler.live /\ socket[handler.src] > 0
    BY <1>3 DEF Ruled
  <1>5. CASE StoreData
    <2>1. handler'.src = handler.src /\ handler'.live = handler.live
      BY <1>3, <1>5 DEF StoreData, Updates
    <2>2. dead' = dead /\ marked' = marked
      BY <1>4, <1>5 DEF StoreData
    <2> QED BY <1>1, <1>2, <1>4, <2>1, <2>2 DEF Ruled, NoneRegistered, Dropped, NoSocket
  <1>6. CASE StoreFails
    BY <1>1, <1>2, <1>6 DEF StoreFails, Ruled, NoneRegistered, Dropped, NoSocket
  <1>7. CASE StoreMarker
    <2>1. evb = "builder" => registered # NoneRegistered
      BY <1>3, <1>4, SocketRegistered DEF NoneRegistered
    <2> QED BY <1>1, <1>2, <1>7, <2>1 DEF StoreMarker, Ruled, NoneRegistered, Dropped, NoSocket
  <1> QED BY <1>5, <1>6, <1>7 DEF Handle

LEMMA ScanKeepsRules == ASSUME IInv, ScannerRuns, Ruled, Scan PROVE Ruled'
  <1>1. UNCHANGED <<phase, rest, socket, freed, handler, evb, registered, obeyed>>
    BY DEF Scan, ScanExit, ScanList, ScanPull, ScanEnd, fsmVars, evbVars, sockVars, dimVars,
           history
  <1>2. marked' \subseteq marked
    BY DEF Scan, ScanExit, ScanList, ScanPull, ScanEnd, dimVars
  <1>3. evb = "builder"
    BY ScannerHasBuilder DEF Scan, ScanExit, ScanList, ScanPull, ScanEnd
  <1>4. obeyed => dead' = dead
    BY <1>3 DEF Scan, ScanExit, ScanList, ScanPull, ScanEnd, Ruled, history
  <1>5. Deletes("web")' <=> Deletes("web")
    BY <1>1 DEF Deletes
  <1> QED BY <1>1, <1>2, <1>4, <1>5, RuledStays

LEMMA RulesKeep == ASSUME IInv, ScannerRuns, Types, Sockets, Ruled, [Next]_vars PROVE Ruled'
  <1>1. CASE \E t \in Threads : Command(t) \/ \E c \in Commands : Call(t, c)
    BY <1>1, CallKeepsRules, DispatchKeepsRules, CallbackKeepsRules DEF Command
  <1>2. CASE List \/ Handle \/ Scan
    BY <1>2, ListKeepsRules, HandleKeepsRules, ScanKeepsRules
  <1>3. ASSUME NEW s \in Sources, Receive(s) PROVE Ruled'
    <2>1. UNCHANGED <<phase, rest, dead, socket, freed, evb, marked, registered, obeyed>>
      BY <1>3 DEF Receive, fsmVars, evbVars, sockVars, history
    <2>2. PICK live \in BOOLEAN :
            /\ live => socket[s] > 0
            /\ ~live => freed = s
            /\ handler' = [pc |-> "data", src |-> s, evt |-> value[s], live |-> live]
      BY <1>3 DEF Receive
    <2>3. ASSUME obeyed, freed = s PROVE FALSE
      <3>1. PICK t \in Threads : Dropping(t)
        BY <2>3, NoSourceAssumption DEF Sockets
      <3>2. t = "dim"
        BY <2>3, <3>1, DroppedByDim, NoSourceAssumption DEF Dropped
      <3> QED BY <1>3, <3>1, <3>2 DEF Receive, Dropping, In
    <2>4. handler'.live = live /\ handler'.src = s
      BY <2>2
    <2>5. obeyed => handler'.live /\ socket'[handler'.src] > 0
      BY <2>1, <2>2, <2>3, <2>4
    <2>6. Deletes("web")' <=> Deletes("web")
      BY <2>1 DEF Deletes
    <2> QED BY <2>1, <2>5, <2>6 DEF Ruled, NoneRegistered, Dropped, NoSocket
  <1>4. CASE (\E s \in Sources : Publish(s)) \/ UNCHANGED vars
    <2>1. UNCHANGED <<phase, rest, dead, socket, freed, handler, evb, marked, registered, obeyed>>
      BY <1>4 DEF Publish, vars, fsmVars, evbVars, sockVars, dimVars, history
    <2>2. Deletes("web")' <=> Deletes("web")
      BY <2>1 DEF Deletes
    <2> QED BY <2>1, <2>2, RuledStays
  <1> QED BY <1>1, <1>2, <1>3, <1>4 DEF Next

-----------------------------------------------------------------------------
(* Each fragment once.  DIM gives an update to infoHandler once for each   *)
(* subscription, and a source's numbers grow until it begins anew; a       *)
(* source subscribed anew is told of its last publication again, but then  *)
(* the builder has nothing of it, or has it registered twice.              *)

\* A fragment on disk or in the map; one that DIM's thread has.
Held(s, e) == <<s, e>> \in marked \/ pool[e][s] # 0
InHand(s, e) == handler # Idle /\ handler.src = s /\ handler.evt = e

\* What is there of a source that the builder reads: an update to come is newer
\* than all of it, one in hand newer than what is held.
NewOnly(s) ==
    /\ \A e \in Events :
        Held(s, e) \/ InHand(s, e) =>
          registered[s] # 0 /\ e <= value[s] /\ (due[s] > 0 => e < value[s])
    /\ \A e, f \in Events : Held(s, e) /\ InHand(s, f) => e < f
    /\ \A e \in Events : <<s, e>> \in marked => pool[e][s] = 0

NamedOnce(s) == obeyed /\ ~renumbered /\ evb = "builder" /\ registered[s] <= 1
Fresh == \A s \in Sources : NamedOnce(s) => NewOnly(s)

\* Steps that neither bring nor move a fragment.
LEMMA FreshStays ==
    ASSUME Fresh, UNCHANGED <<marked, pool, handler, registered, value>>,
           \A s \in Sources : due'[s] > 0 => due[s] > 0,
           \A s \in Sources : NamedOnce(s)' => NamedOnce(s)
    PROVE  Fresh'
  BY DEF Fresh, NewOnly, Held, InHand, Idle

LEMMA CallbackKeepsFresh ==
    ASSUME IInv, Types, Sockets, Ruled, Fresh, NEW t \in Threads, Callback(t)
    PROVE  Fresh'
  <1>1. UNCHANGED <<value, obeyed>>
    BY DEF Callback, DropBuffer, DropInfo, Configure, AddSource, Answered, Start, Stop, Joined,
           Halted, Destroy, dimVars, history
  <1>2. CASE DropBuffer(t) \/ DropInfo(t)
    <2> SUFFICES ASSUME obeyed PROVE Fresh'
      BY <1>1 DEF Fresh, NamedOnce
    <2>0. ~Dropped
      <3>1. CASE DropBuffer(t)
        <4>1. PICK s \in Sources : socket[s] > 0
          BY <3>1 DEF DropBuffer
        <4> QED BY <4>1 DEF Dropped, NoSocket
      <3>2. CASE DropInfo(t)
        BY <3>2, NoSourceAssumption DEF DropInfo, Dropped
      <3> QED BY <1>2, <3>1, <3>2
    <2>1. Dropping(t) /\ UNCHANGED <<evb, registered, pool, marked, renumbered>>
      BY <1>2 DEF DropBuffer, DropInfo, evbVars, scanVars, history
    <2>2. handler = Idle
      BY <2>0, <2>1, DroppedByDim
    <2>3. handler' = handler
      BY <1>2, <2>2 DEF DropBuffer, DropInfo, Handling
    <2>4. \A s \in Sources : due'[s] > 0 => due[s] > 0
      <3>1. \/ due' = due
            \/ \E s \in Sources, lost \in {0, 1} : due' = [due EXCEPT ![s] = @ - lost]
        BY <1>2 DEF DropBuffer, DropInfo
      <3> QED BY <3>1 DEF Types
    <2> QED BY <1>1, <2>1, <2>3, <2>4, FreshStays DEF NamedOnce
  <1>3. CASE Configure(t)
    <2>1. obeyed => handler' = Idle
      <3>1. Dropped /\ handler' = handler
        BY <1>3 DEF Configure
      <3> QED BY <3>1 DEF Ruled, Dropped, NoSocket, Types, Updates
    <2>2. marked' = {} /\ pool' = EmptyPool
      BY <1>3 DEF Configure
    <2> QED BY <1>1, <2>1, <2>2 DEF Fresh, NamedOnce, NewOnly, Held, InHand, EmptyPool, Idle
  <1>4. CASE AddSource(t)
    <2>1. PICK s \in Sources :
            /\ registered' = [registered EXCEPT ![s] = @ + 1]
            /\ due' = [due EXCEPT ![s] = @ + IF value[s] # 0 THEN 1 ELSE 0]
      BY <1>4 DEF AddSource
    <2>2. UNCHANGED <<marked, pool, handler, value, evb, renumbered, obeyed>>
      BY <1>1, <1>4 DEF AddSource, scanVars, history
    <2>3. registered \in [Sources -> Nat] /\ due \in [Sources -> Nat]
      BY DEF IInv, Count, Types
    <2>4. ASSUME NEW u \in Sources, NamedOnce(u)' PROVE NewOnly(u)'
      <3>1. registered'[u] <= 1 /\ registered[u] <= registered'[u]
        BY <2>1, <2>3, <2>4 DEF NamedOnce
      <3>2. NewOnly(u)
        <4>1. registered[u] <= 1
          BY <2>3, <3>1, <2>1
        <4>2. NamedOnce(u)
          BY <2>2, <2>4, <4>1 DEF NamedOnce
        <4> QED BY <4>2 DEF Fresh
      <3>3. CASE u = s
        <4>1. registered[u] = 0
          BY <2>1, <2>3, <3>1, <3>3
        <4> QED BY <2>2, <3>2, <4>1 DEF NewOnly, Held, InHand, Idle
      <3>4. CASE u # s
        <4>1. registered'[u] = registered[u] /\ due'[u] = due[u]
          BY <2>1, <2>3, <3>4
        <4> QED BY <2>2, <3>2, <4>1 DEF NewOnly, Held, InHand, Idle
      <3> QED BY <3>3, <3>4
    <2> QED BY <2>4 DEF Fresh
  <1>5. CASE Answered(t) \/ Start(t) \/ Stop(t) \/ Joined(t) \/ Halted(t)
    <2>1. UNCHANGED <<marked, pool, handler, registered, value, due, evb, renumbered, obeyed>>
      BY <1>1, <1>5 DEF Answered, Start, Stop, Joined, Halted, evbVars, scanVars, dimVars, history
    <2> QED BY <2>1, FreshStays DEF NamedOnce
  <1>6. CASE Destroy(t)
    BY <1>6 DEF Destroy, Fresh, NamedOnce
  <1> QED BY <1>2, <1>3, <1>4, <1>5, <1>6 DEF Callback

\* What a source publishes is newer, or the numbers of this builder are not
\* compared any more.
LEMMA PublishKeepsFresh ==
    ASSUME IInv, Types, Fresh, NEW s \in Sources, Publish(s)
    PROVE  Fresh'
  <1>1. UNCHANGED <<marked, pool, handler, registered, evb, obeyed>>
    BY DEF Publish, evbVars, scanVars
  <1>2. PICK e \in Events :
          /\ value' = [value EXCEPT ![s] = e]
          /\ \/ e > value[s] /\ renumbered' = renumbered
             \/ renumbered' = (renumbered \/ evb = "builder")
    BY DEF Publish
  <1>3. due' = [due EXCEPT ![s] = Subscribed(s)]
    BY DEF Publish
  <1>4. CASE e > value[s] /\ renumbered' = renumbered
    <2>1. ASSUME NEW u \in Sources, NamedOnce(u)' PROVE NewOnly(u)'
      <3>1. NewOnly(u)
        BY <1>1, <1>4, <2>1 DEF Fresh, NamedOnce
      <3>2. Events \subseteq Nat /\ value \in [Sources -> Nat]
        BY BoundsAssumption DEF Events, Types
      <3>3. CASE u = s
        <4>1. \A d \in Events : d <= value[u] => d < value'[u] /\ d <= value'[u]
          BY <1>2, <1>4, <3>2, <3>3
        <4> QED BY <1>1, <3>1, <4>1 DEF NewOnly, Held, InHand, Idle
      <3>4. CASE u # s
        <4>1. value'[u] = value[u] /\ due'[u] = due[u]
          BY <1>2, <1>3, <3>2, <3>4 DEF Types
        <4> QED BY <1>1, <3>1, <4>1 DEF NewOnly, Held, InHand, Idle
      <3> QED BY <3>3, <3>4
    <2> QED BY <2>1 DEF Fresh
  <1>5. CASE renumbered' = (renumbered \/ evb = "builder")
    <2>1. \A u \in Sources : ~NamedOnce(u)'
      BY <1>1, <1>5, Zenon DEF NamedOnce
    <2> QED BY <2>1 DEF Fresh
  <1> QED BY <1>2, <1>4, <1>5

\* A source registered once has one subscription at most, and no update to come
\* after this one.
LEMMA ReceiveKeepsFresh ==
    ASSUME IInv, Types, Fresh, NEW s \in Sources, Receive(s)
    PROVE  Fresh'
  <1>1. UNCHANGED <<marked, pool, registered, value, evb, renumbered, obeyed>>
          /\ due' = [due EXCEPT ![s] = @ - 1] /\ due[s] > 0
    BY DEF Receive, evbVars, scanVars, history
  <1>2. PICK live \in BOOLEAN :
          handler' = [pc |-> "data", src |-> s, evt |-> value[s], live |-> live]
    BY DEF Receive
  <1>3. handler'.src = s /\ handler'.evt = value[s]
    BY <1>2
  <1>4. ASSUME NEW u \in Sources, NamedOnce(u)' PROVE NewOnly(u)'
    <2>1. NewOnly(u)
      BY <1>1, <1>4 DEF Fresh, NamedOnce
    <2>2. \A e \in Events : Held(u, e)' <=> Held(u, e)
      BY <1>1 DEF Held
    <2>3. CASE u = s
      <3>1. due[s] = 1 /\ registered[s] # 0
        <4>1. due[s] \in Nat /\ Subscribed(s) \in Nat /\ due[s] <= Subscribed(s)
                /\ registered[s] \in Nat
          BY DEF Types, Subscribed, IInv, Count
        <4>2. registered[s] = Subscribed(s) + halted[s] /\ halted[s] \in Nat
                /\ registered[s] <= 1
          BY <1>1, <1>4, <2>3 DEF NamedOnce, IInv, Count
        <4> QED BY <1>1, <4>1, <4>2
      <3>2. due'[s] = 0
        BY <1>1, <3>1 DEF Types
      <3>3. \A e \in Events : InHand(u, e)' => e = value[s]
        BY <1>3 DEF InHand
      <3>4. \A e \in Events : e = value[s] => e <= value[s]
        BY DEF Events
      <3> QED BY <1>1, <2>1, <2>2, <2>3, <3>1, <3>2, <3>3, <3>4 DEF NewOnly
    <2>4. CASE u # s
      <3>1. \A e \in Events : ~InHand(u, e)'
        BY <1>3, <2>4 DEF InHand
      <3>2. due'[u] = due[u]
        BY <1>1, <2>4 DEF Types
      <3> QED BY <1>1, <2>1, <2>2, <3>1, <3>2 DEF NewOnly
    <2> QED BY <2>3, <2>4
  <1> QED BY <1>4 DEF Fresh

LEMMA HandleKeepsFresh == ASSUME Types, Fresh, Handle PROVE Fresh'
  <1>1. UNCHANGED <<pool, registered, value, due, evb, renumbered, obeyed>>
    BY DEF Handle, StoreData, StoreFails, StoreMarker, evbVars, scanVars, history
  <1>2. handler \in Updates /\ handler # Idle
    BY DEF Handle, StoreData, StoreFails, StoreMarker, Idle, Types
  <1>3. ASSUME NEW u \in Sources, NamedOnce(u)' PROVE NewOnly(u)'
    <2>1. NewOnly(u)
      BY <1>1, <1>3 DEF Fresh, NamedOnce
    <2>2. Events \subseteq Nat
      BY DEF Events
    <2>3. CASE StoreData
      <3>1. handler'.src = handler.src /\ handler'.evt = handler.evt /\ marked' = marked
        BY <1>2, <2>3 DEF StoreData, Updates
      <3> QED BY <1>1, <1>2, <2>1, <3>1 DEF NewOnly, Held, InHand
    <2>4. CASE StoreFails
      BY <1>1, <2>1, <2>4 DEF StoreFails, NewOnly, Held, InHand, Idle
    <2>5. CASE StoreMarker
      <3>1. \A e \in Events : ~InHand(u, e)'
        BY <2>5 DEF StoreMarker, InHand, Idle
      <3>2. \A e \in Events : Held(u, e)' => Held(u, e) \/ InHand(u, e)
        BY <1>1, <1>2, <2>5 DEF StoreMarker, Held, InHand
      <3>3. ASSUME NEW e \in Events, <<u, e>> \in marked' PROVE pool[e][u] = 0
        <4>1. CASE <<u, e>> \in marked
          BY <2>1, <4>1 DEF NewOnly
        <4>2. CASE <<u, e>> \notin marked
          <5>1. InHand(u, e)
            BY <1>2, <2>5, <3>3, <4>2 DEF StoreMarker, InHand
          <5>2. ~Held(u, e)
            BY <2>1, <2>2, <5>1 DEF NewOnly
          <5> QED BY <5>2 DEF Held
        <4> QED BY <4>1, <4>2
      <3> QED BY <1>1, <2>1, <3>1, <3>2, <3>3 DEF NewOnly
    <2> QED BY <2>3, <2>4, <2>5 DEF Handle
  <1> QED BY <1>3 DEF Fresh

\* The scanner moves a fragment from the disk to the map.
LEMMA ScanKeepsFresh == ASSUME ScannerRuns, Types, Fresh, Scan PROVE Fresh'
  <1>1. UNCHANGED <<registered, value, due, handler, evb, renumbered, obeyed>>
          /\ marked' \subseteq marked
    BY DEF Scan, ScanExit, ScanList, ScanPull, ScanEnd, evbVars, dimVars, history
  <1>2. ASSUME NEW u \in Sources, NEW e \in Events
        PROVE  pool'[e][u] = pool[e][u] \/ pool'[e][u] = 0
                 \/ (<<u, e>> \in marked /\ <<u, e>> \notin marked')
    <2>1. pool \in [Events -> [Sources -> Nat]]
      BY DEF Types
    <2>2. CASE ScanExit \/ ScanList
      BY <2>2 DEF ScanExit, ScanList
    <2>3. CASE ScanPull
      <3>1. PICK m \in listing :
              /\ marked' = marked \ {m}
              /\ \/ pool' = [pool EXCEPT ![m[2]] = NoneRegistered]
                 \/ pool' = [pool EXCEPT ![m[2]] = [pool[m[2]] EXCEPT ![m[1]] = @ + 1]]
        BY <2>3 DEF ScanPull
      <3>2. m \in marked /\ m = <<m[1], m[2]>> /\ m[1] \in Sources /\ m[2] \in Events
        BY <2>3 DEF ScanPull, ScannerRuns, Types, Markers
      <3>3. CASE <<u, e>> = m
        BY <3>1, <3>2, <3>3
      <3>4. CASE <<u, e>> # m
        <4>1. e # m[2] \/ u # m[1]
          BY <3>2, <3>4
        <4>2. CASE pool' = [pool EXCEPT ![m[2]] = NoneRegistered]
          BY <2>1, <4>2 DEF NoneRegistered
        <4>3. CASE pool' = [pool EXCEPT ![m[2]] = [pool[m[2]] EXCEPT ![m[1]] = @ + 1]]
          BY <2>1, <3>2, <4>1, <4>3
        <4> QED BY <3>1, <4>2, <4>3
      <3> QED BY <3>3, <3>4
    <2>4. CASE ScanEnd
      <3>1. PICK k \in 0 .. MaxEvent :
              pool' = [d \in Events |-> IF d <= k THEN NoneRegistered ELSE pool[d]]
        BY <2>4 DEF ScanEnd
      <3>2. pool'[e] = NoneRegistered \/ pool'[e] = pool[e]
        BY <3>1
      <3> QED BY <3>2 DEF NoneRegistered
    <2> QED BY <2>2, <2>3, <2>4 DEF Scan
  <1>3. ASSUME NEW u \in Sources, NamedOnce(u)' PROVE NewOnly(u)'
    <2>1. NewOnly(u)
      BY <1>1, <1>3 DEF Fresh, NamedOnce
    <2>2. \A e \in Events : (Held(u, e)' => Held(u, e)) /\ (InHand(u, e)' <=> InHand(u, e))
      BY <1>1, <1>2 DEF Held, InHand, Idle
    <2>3. \A e \in Events : <<u, e>> \in marked' => pool'[e][u] = 0
      BY <1>1, <1>2, <2>1 DEF NewOnly
    <2> QED BY <1>1, <2>1, <2>2, <2>3 DEF NewOnly
  <1> QED BY <1>3 DEF Fresh

LEMMA FreshKeeps ==
    ASSUME IInv, ScannerRuns, Types, Sockets, Ruled, Fresh, [Next]_vars
    PROVE  Fresh'
  <1>1. CASE (\E t \in Threads : Dispatch(t) \/ Return(t) \/ \E c \in Commands : Call(t, c))
               \/ List \/ UNCHANGED vars
    <2>1. UNCHANGED <<marked, pool, handler, registered, value, due, evb, renumbered>>
      BY <1>1 DEF Dispatch, Return, Call, List, vars, evbVars, scanVars, dimVars, history
    <2>2. obeyed' => obeyed
      BY <1>1 DEF Dispatch, Return, Call, List, vars, history
    <2> QED BY <2>1, <2>2, FreshStays DEF NamedOnce
  <1>2. CASE \E t \in Threads : Callback(t)
    BY <1>2, CallbackKeepsFresh
  <1>3. CASE \E s \in Sources : Publish(s) \/ Receive(s)
    BY <1>3, PublishKeepsFresh, ReceiveKeepsFresh
  <1>4. CASE Handle \/ Scan
    BY <1>4, HandleKeepsFresh, ScanKeepsFresh
  <1> QED BY <1>1, <1>2, <1>3, <1>4 DEF Next, Command

-----------------------------------------------------------------------------

JInv == IInv /\ ScannerRuns /\ Types /\ Sockets /\ Ruled /\ Fresh

LEMMA JInvInit == ASSUME Init PROVE JInv
  <1>1. ScannerRuns
    BY DEF Init, ScannerRuns
  <1>2. Sockets
    BY DEF Init, Sockets
  <1>3. Ruled
    BY DEF Init, FSM!Init, Ruled, Deletes, Threads
  <1>4. Fresh
    BY DEF Init, Fresh, NamedOnce
  <1> QED BY <1>1, <1>2, <1>3, <1>4, InitHolds, TypesInit DEF JInv

LEMMA JInvKeeps == ASSUME JInv, [Next]_vars PROVE JInv'
  BY IInvKeeps, ScannerKeeps, TypesKeep, SocketsKeep, RulesKeep, FreshKeeps DEF JInv

\* The rows of the constructor's table are transitions of the state machine.
LEMMA RowsAreTransitions == \A w \in Rows : w \in Seq(FSM!Transitions)
  <1> SUFFICES ASSUME NEW c \in Commands PROVE Table[c] \in Seq(FSM!Transitions)
    BY DEF Rows
  <1>2. CASE c = "CONFIGURE" BY <1>2 DEF Table, FSM!Transitions, MachineStates, Callbacks
  <1>3. CASE c = "ADDSOURCES" BY <1>3 DEF Table, FSM!Transitions, MachineStates, Callbacks
  <1>4. CASE c = "REGISTER" BY <1>4 DEF Table, FSM!Transitions, MachineStates, Callbacks
  <1>5. CASE c = "START" BY <1>5 DEF Table, FSM!Transitions, MachineStates, Callbacks
  <1>6. CASE c = "STOP" BY <1>6 DEF Table, FSM!Transitions, MachineStates, Callbacks
  <1>7. CASE c = "HALT" BY <1>7 DEF Table, FSM!Transitions, MachineStates, Callbacks
  <1>8. CASE c = "DESTROY" BY <1>8 DEF Table, FSM!Transitions, MachineStates, Callbacks
  <1> QED BY <1>2, <1>3, <1>4, <1>5, <1>6, <1>7, <1>8 DEF Commands

LEMMA JInvTypes == ASSUME JInv PROVE TypeOK
  <1>1. FSM!TypeOK
    <2>1. rest \in [Threads -> Seq(FSM!Transitions)]
      <3>1. rest \in [Threads -> {<< >>} \cup Rows]
        BY DEF JInv, IInv, OneCommand
      <3>2. << >> \in Seq(FSM!Transitions)
        OBVIOUS
      <3>3. {<< >>} \cup Rows \subseteq Seq(FSM!Transitions)
        BY <3>2, RowsAreTransitions, Zenon
      <3> QED BY <3>1, <3>3
    <2>2. /\ phase \in [Threads -> {"idle", "match", "callback", "assign", "publish"}]
          /\ \A t \in Threads : phase[t] \in {"callback", "assign", "publish"} => rest[t] # << >>
      BY DEF JInv, IInv, OneCommand, Phases, Beyond
    <2>3. state \in MachineStates /\ published \in MachineStates
            /\ answer \in [Threads -> {"none", "DONE", "FAILED"}]
      BY DEF JInv, Types, IInv, HasBuilder
    <2> QED BY <2>1, <2>2, <2>3 DEF FSM!TypeOK
  <1>2. scan \in {"off", "list", "pull"} /\ (scan # "off" => evb = "builder")
    BY ScannerHasBuilder DEF JInv, ScannerRuns
  <1>3. evb \in {"none", "builder"} /\ Count
    BY DEF JInv, IInv, HasBuilder
  <1> QED BY <1>1, <1>2, <1>3 DEF TypeOK, JInv, Types, Count, Updates

\* Types, no update without a subscription, and a builder under the scanner.
THEOREM TypeCorrect == Spec => []TypeOK
  BY JInvInit, JInvKeeps, JInvTypes, PTL DEF Spec

\* No command or LIST of an operator who keeps to the rules ends the process
\* (exBuilder.cxx:34-47, 106-121, 126).
THEOREM RulesKeepItAliveAlways == Spec => []RulesKeepItAlive
  <1>1. ASSUME JInv PROVE RulesKeepItAlive
    BY <1>1 DEF JInv, Ruled, RulesKeepItAlive
  <1> QED BY <1>1, JInvInit, JInvKeeps, PTL DEF Spec

\* The scanner reads a fragment of a source into an entry that has none, as long
\* as the source was named once and no source began its numbers anew under this
\* builder (shmdriver.cxx:289-339, datasource.cxx:22).
THEOREM EachFragmentOnceAlways == Spec => EachFragmentOnce
  <1>1. ASSUME JInv, obeyed, ~renumbered, NEW m \in listing, registered[m[1]] = 1
        PROVE  pool[m[2]][m[1]] = 0
    <2>1. scan = "pull" /\ m \in marked
      BY <1>1 DEF JInv, ScannerRuns
    <2>2. m = <<m[1], m[2]>> /\ m[1] \in Sources /\ m[2] \in Events
      BY <1>1, <2>1 DEF JInv, Types, Markers
    <2>3. NamedOnce(m[1])
      BY <1>1, <2>1, ScannerHasBuilder DEF JInv, NamedOnce
    <2> QED BY <1>1, <2>1, <2>2, <2>3 DEF JInv, Fresh, NewOnly
  <1>2. ASSUME JInv
        PROVE  [ obeyed /\ ~renumbered =>
                   \A m \in listing \ listing' :
                     registered[m[1]] = 1 => pool[m[2]][m[1]] = 0 ]_listing
    BY <1>1, <1>2
  <1> QED BY <1>2, JInvInit, JInvKeeps, PTL DEF Spec, EachFragmentOnce

-----------------------------------------------------------------------------
(* The machine of the builder, whatever the operator sends.                *)

Machine == INSTANCE Fsm_proof WITH States <- MachineStates, Created <- "CREATED"

LEMMA OneLong == ASSUME NEW S, NEW a \in S PROVE << a >> \in Seq(S)
  OBVIOUS

\* The constructor's table is a table, with one transition for a command.
LEMMA TableIsTable ==
    /\ "CREATED" \in MachineStates
    /\ Table \in Machine!Tables
    /\ Machine!OnePerState(Table)
  <1> DEFINE T(from, to, call) == [from |-> from, to |-> to, call |-> call]
  <1>1. /\ Table["CONFIGURE"] = << T("CREATED", "CONFIGURED", "configure") >>
        /\ Table["ADDSOURCES"] = << T("CONFIGURED", "CONFIGURED", "addsources") >>
        /\ Table["REGISTER"] = << T("CONFIGURED", "REGISTERED", "registerDone") >>
        /\ Table["START"] = << T("REGISTERED", "RUNNING", "start") >>
        /\ Table["STOP"] = << T("RUNNING", "REGISTERED", "stop") >>
        /\ Table["HALT"] = << T("RUNNING", "CONFIGURED", "halt") >>
        /\ Table["DESTROY"] = << T("CONFIGURED", "CREATED", "destroy") >>
        /\ Table = [c \in Commands |-> Table[c]]
    BY DEF Table, Commands
  <1>2. \A f, t \in MachineStates, c \in Callbacks : T(f, t, c) \in Machine!Transitions
    BY DEF Machine!Transitions
  <1>3. \A c \in Commands : \E f, t \in MachineStates, k \in Callbacks : Table[c] = << T(f, t, k) >>
    <2>1. /\ {"CREATED", "CONFIGURED", "REGISTERED", "RUNNING"} \subseteq MachineStates
          /\ {"configure", "addsources", "registerDone", "start", "stop", "halt",
              "destroy"} \subseteq Callbacks
      BY DEF MachineStates, Callbacks
    <2> HIDE DEF T
    <2> QED BY <1>1, <2>1 DEF Commands
  <1> HIDE DEF T
  <1>4. \A c \in Commands : Table[c] \in Seq(Machine!Transitions)
    BY <1>2, <1>3, OneLong
  <1>5. Table \in Machine!Tables
    BY <1>1, <1>4 DEF Machine!Tables
  <1>6. Machine!OnePerState(Table)
    <2>1. \A c \in Commands : DOMAIN Table[c] = {1}
      BY <1>3
    <2> QED BY <2>1 DEF Machine!OnePerState
  <1> QED BY <1>5, <1>6 DEF MachineStates

\* A step of the builder moves its machine by one step, or not at all.
LEMMA NextMachine == ASSUME [Next]_vars PROVE [FSM!Next]_(FSM!vars)
  <1> USE DEF FSM!vars, fsmVars
  <1>1. CASE UNCHANGED vars
    BY <1>1 DEF vars
  <1>2. ASSUME NEW t \in Threads, Dispatch(t) \/ Return(t) PROVE FSM!Next
    BY <1>2 DEF Dispatch, Return, FSM!Next, FSM!Step
  <1>3. ASSUME NEW t \in Threads, NEW c \in Commands, Call(t, c) PROVE FSM!Next
    BY <1>3 DEF Call, FSM!Next
  <1>4. ASSUME NEW t \in Threads, Callback(t) PROVE UNCHANGED fsmVars
    BY <1>4 DEF Callback, DropBuffer, DropInfo, Configure, AddSource, Answered, Start, Stop,
                Joined, Halted, Destroy
  <1>5. CASE List \/ (\E s \in Sources : Publish(s) \/ Receive(s)) \/ Handle \/ Scan
    BY <1>5 DEF List, Publish, Receive, Handle, StoreData, StoreFails, StoreMarker, Scan,
                ScanExit, ScanList, ScanPull, ScanEnd
  <1> QED BY <1>1, <1>2, <1>3, <1>4, <1>5 DEF Next, Command

\* Every step of the builder is a step of its machine, or leaves the machine
\* alone: neither a callback nor DIM's thread nor the scanner writes the state,
\* in particular halt, which calls stop, does not make a second transition
\* (exBuilder.cxx:106-121, fsm.cxx:92-123).
THEOREM ImplementsMachine == Spec => FSM!Spec
  <1>1. Init => FSM!Init
    BY DEF Init
  <1> QED BY <1>1, NextMachine, PTL DEF Spec, FSM!Spec

LEMMA MachineSpec == FSM!Spec => Machine!Spec
  <1>1. FSM!Init => Machine!Init
    BY DEF FSM!Init, Machine!Init
  <1>2. [FSM!Next]_(FSM!vars) => [Machine!Next]_(Machine!vars)
    <2> USE DEF FSM!Skip, Machine!Skip, FSM!Match, Machine!Match, FSM!Refuse, Machine!Refuse,
          FSM!Return, Machine!Return, FSM!Assign, Machine!Assign, FSM!Publish, Machine!Publish,
          FSM!Call, Machine!Call, FSM!Torn, Machine!Torn, FSM!vars, Machine!vars
    <2>1. \A t \in Threads : FSM!Step(t) => Machine!Step(t)
      BY DEF FSM!Step, Machine!Step
    <2>2. \A t \in Threads, c \in Commands : FSM!Call(t, c) => Machine!Call(t, c)
      OBVIOUS
    <2> QED BY <2>1, <2>2 DEF FSM!Next, Machine!Next
  <1> QED BY <1>1, <1>2, PTL DEF FSM!Spec, Machine!Spec

\* STATE ends up with the state of the builder (fsm.cxx:117-118).
THEOREM PublishedIsStateAlways == Spec => []FSM!PublishedIsState
  <1>1. Machine!Spec => []Machine!PublishedIsState
    BY TableIsTable, GarbledAssumption, Machine!PublishedIsStateAlways
  <1>2. Machine!PublishedIsState => FSM!PublishedIsState
    BY DEF Machine!PublishedIsState, FSM!PublishedIsState
  <1> QED BY <1>1, <1>2, ImplementsMachine, MachineSpec, PTL
==============================================================================
