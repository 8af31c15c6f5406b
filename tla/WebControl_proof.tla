--------------------------- MODULE WebControl_proof ---------------------------
(***************************************************************************)
(* For any configurations and any process: what the caller of a CREATE is  *)
(* told is what happened, whatever the operator of the base application,   *)
(* its caller and its other clients do.                                    *)
(***************************************************************************)
EXTENDS WebControl, TLAPS

(* What the caller is told.                                                *)

Phases == {"idle", "match", "callback", "assign", "publish"}
Row == << [from |-> "VOID", to |-> "CREATED", call |-> "create"] >>

\* v says of the application what is so, and for good: a machine that is CREATED
\* calls userCreate no more.
ToldOf(v, s, c) ==
    /\ v.kind = "refused" => s = "CREATED"
    /\ v.kind = "error"   => s = "CREATED" /\ c = {}
    /\ v.kind = "created" => s = "CREATED" /\ c = {v.with} /\ Usable(v.with.config)

Told(v) == ToldOf(v, state, created)
ToldNext(v) == ToldOf(v, state', created')

\* The answer of the web thread is what its create has done.
Result ==
    \/ rep["web"].kind = "error" /\ created = {}
    \/ /\ rep["web"].kind = "created"
       /\ created = {rep["web"].with} /\ Usable(rep["web"].with.config)

\* A CREATE that is alone goes from VOID to CREATED.
Alone ==
    /\ \A t, u \in Threads : phase[t] # "idle" /\ phase[u] # "idle" => t = u
    /\ state \in MachineStates
    /\ \A t \in Threads :
         /\ phase[t] = "match" => rest[t] \in {Row, << >>}
         /\ phase[t] = "match" /\ rest[t] = << >> => state = "CREATED"
         /\ phase[t] \in {"callback", "assign"} => rest[t] = Row /\ state = "VOID"
         /\ phase[t] = "publish" => state = "CREATED"
         /\ phase[t] # "callback" => step[t] = "load"

\* userCreate has not been called before the machine is CREATED, but by the CREATE
\* in progress.
NotYet ==
    state = "VOID" =>
        created = {} \/ \E t \in Threads : At(t, "done") \/ phase[t] = "assign"

WebCreate ==
    /\ phase["web"] = "callback" /\ step["web"] \in {"examine", "answer", "create"} => Usable(config)
    /\ At("web", "create") => rep["web"] = [kind |-> "created", with |-> Now]
    /\ At("web", "done") => Result
    /\ phase["web"] \in {"assign", "publish"} => Result

Typed ==
    /\ phase \in [Threads -> Phases]
    /\ step \in [Threads -> {"load", "check", "examine", "answer", "create", "done"}]
    /\ DOMAIN rep = Threads /\ DOMAIN rest = Threads /\ DOMAIN answer = Threads

Asked ==
    /\ query.at = "server" => phase["web"] # "idle"
    /\ alone /\ query.at = "reply" /\ query.kind # "STATE" => Told(query.value)
    /\ alone => Told(told)

App == Typed /\ (alone => Alone /\ NotYet /\ WebCreate)

\* A machine that is CREATED stays so, and its userCreate is not called again.
Settled == alone /\ state = "CREATED" => state' = "CREATED" /\ created' = created

LEMMA ToldKeeps ==
    ASSUME alone, Settled, NEW v, Told(v)
    PROVE  ToldNext(v)
  BY DEF Told, ToldNext, ToldOf, Settled

LEMMA RowFacts ==
    /\ Row = Table["CREATE"] /\ Row # << >> /\ Tail(Row) = << >>
    /\ Head(Row).from = "VOID" /\ Head(Row).to = "CREATED"
  BY DEF Row, Table

\* Nobody else processes a command.
LEMMA Others ==
    ASSUME alone, App, NEW t \in Threads, phase[t] # "idle"
    PROVE  /\ \A u \in Threads : u # t => phase[u] = "idle"
           /\ ~FSM!Torn(t)
  BY DEF App, Alone, FSM!Torn

LEMMA CreateFacts ==
    ASSUME App, NEW t \in Threads, Create(t)
    PROVE  App' /\ Settled /\ phase' = [phase EXCEPT ![t] = "match"]
  <1>1. /\ phase[t] = "idle" /\ phase' = [phase EXCEPT ![t] = "match"]
        /\ rest' = [rest EXCEPT ![t] = Row]
        /\ alone' = (alone /\ \A u \in Threads : phase[u] = "idle")
        /\ UNCHANGED <<state, config, param, step, blist, rep, created, answer>>
    BY RowFacts DEF Create, FSM!Call, createVars
  <1>2. Typed'
    BY <1>1 DEF App, Typed, Phases
  <1>3. ASSUME alone' PROVE Alone' /\ NotYet' /\ WebCreate'
    <2>1. alone /\ \A u \in Threads : phase[u] = "idle"
      BY <1>1, <1>3
    <2>2. Alone'
      BY <1>1, <2>1, RowFacts DEF App, Typed, Alone
    <2>3. NotYet' /\ WebCreate'
      BY <1>1, <2>1 DEF App, Typed, NotYet, WebCreate, At, Result, Threads
    <2> QED BY <2>2, <2>3
  <1> QED BY <1>1, <1>2, <1>3 DEF App, Settled

\* What a step around the callback does, and what it lets the caller be told.
Answered(t) ==
    t = "web" /\ alone /\ phase'["web"] = "idle" =>
        IF answer'["web"] = "FAILED" THEN state' = "CREATED"
        ELSE state' = "CREATED" /\ Result /\ UNCHANGED <<rep, created>>

LEMMA DispatchFacts ==
    ASSUME App, NEW t \in Threads, Dispatch(t)
    PROVE  /\ App' /\ Settled /\ Answered(t)
           /\ \A u \in Threads : u # t => phase'[u] = phase[u]
  <1>0. UNCHANGED <<config, param, step, blist, rep, created, alone>>
    BY DEF Dispatch, createVars, history
  <1>1. CASE FSM!Skip(t)
    <2>1. /\ phase[t] = "match" /\ rest[t] # << >> /\ rest' = [rest EXCEPT ![t] = Tail(rest[t])]
          /\ Head(rest[t]).from # state \/ FSM!Torn(t)
          /\ UNCHANGED <<state, phase, answer>>
      BY <1>1 DEF FSM!Skip
    <2>2. alone => Alone'
      BY <1>0, <2>1, Others, RowFacts DEF App, Typed, Alone, MachineStates
    <2>3. alone => NotYet' /\ WebCreate'
      BY <1>0, <2>1 DEF App, NotYet, WebCreate, At, Now, Result
    <2> QED BY <1>0, <2>1, <2>2, <2>3 DEF App, Typed, Settled, Answered
  <1>2. CASE FSM!Match(t)
    <2>1. /\ phase[t] = "match" /\ rest[t] # << >> /\ Head(rest[t]).from = state
          /\ phase' = [phase EXCEPT ![t] = "callback"]
          /\ UNCHANGED <<state, rest, answer>>
      BY <1>2 DEF FSM!Match
    <2>2. alone => Alone'
      BY <1>0, <2>1, Others, RowFacts DEF App, Typed, Alone
    <2>3. alone => step[t] = "load"
      BY <2>1 DEF App, Alone
    <2>4. alone => NotYet' /\ WebCreate'
      BY <1>0, <2>1, <2>3 DEF App, Typed, NotYet, WebCreate, At, Now, Result, Threads
    <2> QED BY <1>0, <2>1, <2>2, <2>4 DEF App, Typed, Phases, Settled, Answered
  <1>3. CASE FSM!Refuse(t)
    <2>1. /\ phase[t] = "match" /\ rest[t] = << >>
          /\ phase' = [phase EXCEPT ![t] = "idle"] /\ answer' = [answer EXCEPT ![t] = "FAILED"]
          /\ UNCHANGED <<state, rest>>
      BY <1>3 DEF FSM!Refuse
    <2>2. alone => Alone' /\ NotYet' /\ WebCreate'
      BY <1>0, <2>1 DEF App, Typed, Alone, NotYet, WebCreate, At, Now, Result, Threads
    <2>3. alone => state = "CREATED"
      BY <2>1 DEF App, Alone
    <2>4. answer'[t] = "FAILED"
      BY <2>1 DEF App, Typed
    <2> QED BY <1>0, <2>1, <2>2, <2>3, <2>4 DEF App, Typed, Phases, Settled, Answered
  <1>4. CASE FSM!Assign(t)
    <2>1. /\ phase[t] = "assign" /\ phase' = [phase EXCEPT ![t] = "publish"]
          /\ state' \in {Head(rest[t]).to} \cup {g \in {Garbled} : FSM!Torn(t) \/ state = Garbled}
          /\ UNCHANGED <<rest, answer>>
      BY <1>4 DEF FSM!Assign
    <2>2. alone => state' = "CREATED" /\ state = "VOID"
      BY <2>1, Others, RowFacts, GarbledAssumption DEF App, Alone, MachineStates
    <2>3. alone => Alone' /\ NotYet' /\ WebCreate'
      BY <1>0, <2>1, <2>2, Others DEF App, Typed, Alone, NotYet, WebCreate, At, Now, Result, MachineStates, Threads
    <2> QED BY <1>0, <2>1, <2>2, <2>3 DEF App, Typed, Phases, Settled, Answered
  <1>5. CASE FSM!Publish(t)
    <2>1. /\ phase[t] = "publish" /\ phase' = [phase EXCEPT ![t] = "idle"]
          /\ answer' = [answer EXCEPT ![t] = "DONE"] /\ rest' = [rest EXCEPT ![t] = << >>]
          /\ UNCHANGED state
      BY <1>5 DEF FSM!Publish
    <2>2. alone => state = "CREATED" /\ (t = "web" => Result)
      BY <2>1 DEF App, Alone, WebCreate
    <2>3. alone => Alone' /\ NotYet' /\ WebCreate'
      BY <1>0, <2>1, <2>2 DEF App, Typed, Alone, NotYet, WebCreate, At, Now, Result, Threads
    <2> QED BY <1>0, <2>1, <2>2, <2>3 DEF App, Typed, Phases, Settled, Answered
  <1> QED BY <1>1, <1>2, <1>3, <1>4, <1>5 DEF Dispatch

\* A step of create: the machine is VOID, and only userCreate is recorded.
LEMMA InCreateFacts ==
    ASSUME App, NEW t \in Threads, InCreate(t)
    PROVE  /\ App' /\ Settled /\ phase'[t] # "idle"
           /\ \A u \in Threads : u # t => phase'[u] = phase[u]
  <1>1. /\ phase[t] = "callback" /\ UNCHANGED <<state, rest, answer, alone>> /\ DOMAIN rep' = Threads
        /\ \E s \in {"load", "check", "examine", "answer", "create", "done"} :
             step' = [step EXCEPT ![t] = s]
    BY DEF InCreate, LoadFile, LoadUrl, LoadMongo, LoadNothing, Load, Missing, HostFound, PassOver,
           TakeParameter, NoneLeft, Answer, UserCreate, Return, FSM!Return, At, Goto, fsmVars, history,
           App, Typed
  <1>2. \/ phase' = phase
        \/ Return(t)
    BY DEF InCreate, LoadFile, LoadUrl, LoadMongo, LoadNothing, Load, Missing, HostFound, PassOver,
           TakeParameter, NoneLeft, Answer, UserCreate, fsmVars
  <1>3. alone => /\ state = "VOID"
                 /\ \A u \in Threads : u # t => phase[u] = "idle"
    BY <1>1, Others DEF App, Alone
  <1>4. step[t] # "done" /\ alone => created = {}
    BY <1>1, <1>3 DEF App, NotYet, At
  <1>5. CASE Return(t)
    <2>1. /\ step[t] = "done" /\ step' = [step EXCEPT ![t] = "load"]
          /\ phase' = [phase EXCEPT ![t] = "assign"]
          /\ UNCHANGED <<config, param, rep, created>>
      BY <1>5 DEF Return, FSM!Return, history
    <2>2. alone => Alone' /\ NotYet' /\ WebCreate'
      BY <1>1, <1>3, <2>1 DEF App, Typed, Alone, NotYet, WebCreate, At, Now, Result, Threads
    <2> QED BY <1>1, <1>3, <2>1, <2>2 DEF App, Typed, Phases, Settled
  <1>6. CASE phase' = phase
    <2>1. Typed'
      BY <1>1, <1>6 DEF App, Typed
    <2>2. alone => Alone'
      BY <1>1, <1>6 DEF App, Typed, Alone
    <2>3. UNCHANGED created \/ UserCreate(t)
      BY DEF InCreate, LoadFile, LoadUrl, LoadMongo, LoadNothing, Load, Missing, HostFound, PassOver,
             TakeParameter, NoneLeft, Answer, Return, history
    <2>4. alone => NotYet'
      <3>1. CASE UserCreate(t)
        BY <1>1, <1>6, <3>1 DEF App, Typed, NotYet, UserCreate, At, Goto
      <3>2. CASE UNCHANGED created /\ step[t] # "done"
        BY <1>1, <1>4, <3>2 DEF NotYet
      <3>3. CASE step[t] = "done"
        BY <1>6, <3>3 DEF InCreate, LoadFile, LoadUrl, LoadMongo, LoadNothing, Load, Missing, HostFound,
               PassOver, TakeParameter, NoneLeft, Answer, UserCreate, Return, FSM!Return, At, App, Typed
      <3> QED BY <2>3, <3>1, <3>2, <3>3
    <2>5. alone => WebCreate'
      <3>1. CASE t # "web"
        BY <1>1, <1>3, <1>6, <3>1 DEF App, Typed, WebCreate, At, Threads
      <3>2. CASE t = "web"
        <4> SUFFICES ASSUME alone PROVE WebCreate'
          OBVIOUS
        <4>0. WebCreate
          BY DEF App
        <4>1. ASSUME \/ LoadFile(t) \/ LoadUrl(t) \/ LoadMongo(t) \/ LoadNothing(t) PROVE step'[t] = "check"
          BY <4>1 DEF LoadFile, LoadUrl, LoadMongo, LoadNothing, Load, Goto, App, Typed
        <4>2. ASSUME Missing(t) PROVE step'[t] = "done" /\ Result'
          BY <1>4, <3>2, <4>2 DEF Missing, Goto, At, App, Typed, Result, history
        <4>3. ASSUME HostFound(t) PROVE step'[t] = "examine" /\ Usable(config')
          BY <4>3 DEF HostFound, Goto, App, Typed
        <4>4. ASSUME PassOver(t) \/ TakeParameter(t) \/ NoneLeft(t)
              PROVE  step'[t] \in {"examine", "answer"} /\ Usable(config')
          BY <1>1, <3>2, <4>0, <4>4 DEF PassOver, TakeParameter, NoneLeft, Goto, At, App, Typed, WebCreate
        <4>5. ASSUME Answer(t)
              PROVE  /\ step'[t] = "create" /\ Usable(config')
                     /\ rep'["web"] = [kind |-> "created", with |-> Now']
          BY <3>2, <4>0, <4>5 DEF Answer, Goto, At, App, Typed, WebCreate, Now
        <4>6. ASSUME UserCreate(t) PROVE step'[t] = "done" /\ Result'
          <5>1. /\ created' = {Now} /\ rep'["web"] = [kind |-> "created", with |-> Now]
                /\ Usable(config) /\ step'[t] = "done"
            BY <1>4, <3>2, <4>0, <4>6 DEF UserCreate, Goto, At, App, Typed, WebCreate
          <5>2. Now.config = config
            BY DEF Now
          <5> QED BY <5>1, <5>2 DEF Result
        <4>7. ~Return(t)
          BY <1>1, <1>6 DEF Return, FSM!Return, App, Typed
        <4> QED BY <1>1, <1>6, <3>2, <4>1, <4>2, <4>3, <4>4, <4>5, <4>6, <4>7 DEF InCreate, WebCreate, At
      <3> QED BY <3>1, <3>2
    <2> QED BY <1>1, <1>3, <1>6, <2>1, <2>2, <2>4, <2>5 DEF App, Settled
  <1> QED BY <1>2, <1>5, <1>6

LEMMA SetParamFacts ==
    ASSUME App, NEW p, SetParam(p)
    PROVE  App' /\ Settled /\ phase' = phase
  <1>1. /\ phase["web"] = "idle"
        /\ UNCHANGED <<phase, state, rest, answer, config, step, rep, created, alone>>
    BY DEF SetParam, fsmVars
  <1> QED BY <1>1 DEF App, Typed, Alone, NotYet, WebCreate, At, Settled

LEMMA StillApp ==
    ASSUME App, UNCHANGED appVars
    PROVE  App' /\ Settled /\ phase' = phase
  <1>1. UNCHANGED <<phase, state, rest, answer, config, param, step, rep, created, alone>>
    BY DEF appVars, fsmVars, createVars, history
  <1> QED BY <1>1 DEF App, Typed, Alone, NotYet, WebCreate, At, Settled, Now, Result

\* A machine that is CREATED by a CREATE that was alone.
LEMMA AloneFalls == [Next]_vars => (alone' => alone)
  BY DEF Next, StartWeb, Construct, DimCreate, OtherSetParam, Command, Ask, TakeCreate, Serve, TakeState,
         TakeSetParam, TakeGetParam, TakeGetConfig, Hear, Fails, vars, Create, Dispatch, InCreate, SetParam,
         LoadFile, LoadUrl, LoadMongo, LoadNothing, Load, Missing, HostFound, PassOver, TakeParameter,
         NoneLeft, Answer, UserCreate, Return, appVars, history

TInv == App /\ Asked

\* Where the question goes on without the server.
LEMMA AskedKeeps ==
    ASSUME TInv, Settled, alone' => alone, query'.at = "server" => phase'["web"] # "idle",
           \/ UNCHANGED query
           \/ query'.at \in {"nowhere", "network", "server"}
           \/ query'.at = "reply" /\ (alone /\ alone' /\ query'.kind # "STATE" => ToldNext(query'.value)),
           \/ UNCHANGED told
           \/ told' = NoAnswer
           \/ query.at = "reply" /\ query.kind # "STATE" /\ told' = query.value
    PROVE  Asked'
  <1>1. ASSUME alone', query'.at = "reply", query'.kind # "STATE" PROVE ToldNext(query'.value)
    BY <1>1, ToldKeeps DEF TInv, Asked
  <1>2. Told(NoAnswer)
    BY DEF Told, ToldOf, NoAnswer
  <1>3. ASSUME alone' PROVE ToldNext(told')
    BY <1>2, <1>3, ToldKeeps DEF TInv, Asked
  <1> QED BY <1>1, <1>3 DEF Asked, Told, ToldNext

LEMMA TStep == ASSUME TInv, [Next]_vars PROVE TInv'
  <1>0. "web" \in Threads /\ "dim" \in Threads /\ App /\ (query.at = "server" => phase["web"] # "idle")
    BY DEF Threads, TInv, Asked
  <1>a. alone' => alone
    BY AloneFalls
  <1>1. CASE DimCreate
    <2>1. App' /\ Settled /\ phase'["web"] = phase["web"] /\ UNCHANGED <<query, told>>
      BY <1>0, <1>1, CreateFacts DEF DimCreate, callerVars, App, Typed
    <2> QED BY <1>0, <1>a, <2>1, AskedKeeps DEF TInv
  <1>2. ASSUME NEW t \in Threads, Command(t) PROVE TInv'
    <2>1. App' /\ Settled /\ UNCHANGED <<query, told>>
      BY <1>0, <1>2, DispatchFacts, InCreateFacts DEF Command, callerVars
    <2>2. query.at = "server" => phase'["web"] = phase["web"]
      BY <1>0, <1>2, DispatchFacts, InCreateFacts DEF Command
    <2> QED BY <1>0, <1>a, <2>1, <2>2, AskedKeeps DEF TInv
  <1>3. CASE OtherSetParam
    <2>1. App' /\ Settled /\ phase' = phase /\ UNCHANGED <<query, told>>
      BY <1>0, <1>3, SetParamFacts DEF OtherSetParam, callerVars
    <2> QED BY <1>0, <1>a, <2>1, AskedKeeps DEF TInv
  <1>4. CASE TakeCreate
    <2>1. App' /\ Settled /\ phase'["web"] # "idle" /\ UNCHANGED told
      BY <1>0, <1>4, CreateFacts DEF TakeCreate, App, Typed
    <2>2. query'.at = "server"
      BY <1>4 DEF TakeCreate, Taken
    <2> QED BY <1>a, <2>1, <2>2, AskedKeeps DEF TInv
  <1>5. CASE Serve
    <2>1. App' /\ Settled /\ UNCHANGED told
      BY <1>0, <1>5, DispatchFacts, InCreateFacts DEF Serve
    <2>2. CASE phase'["web"] # "idle"
      BY <1>a, <1>5, <2>1, <2>2, AskedKeeps DEF Serve, TInv
    <2>3. CASE phase'["web"] = "idle"
      <3>1. Answered("web")
        BY <1>0, <1>5, <2>3, DispatchFacts, InCreateFacts DEF Serve
      <3>2. query' = [at |-> "reply", kind |-> query.kind,
                      value |-> IF answer'["web"] = "FAILED" THEN [kind |-> "refused"] ELSE rep["web"]]
        BY <1>5, <2>3 DEF Serve, Reply
      <3>3. ASSUME alone, answer'["web"] = "FAILED" PROVE ToldNext(query'.value)
        <4>1. query'.value = [kind |-> "refused"] /\ state' = "CREATED"
          BY <2>3, <3>1, <3>2, <3>3 DEF Answered
        <4> QED BY <4>1 DEF ToldNext, ToldOf
      <3>4. ASSUME alone, answer'["web"] # "FAILED" PROVE ToldNext(query'.value)
        <4>1. query'.value = rep["web"] /\ state' = "CREATED" /\ Result /\ UNCHANGED created
          BY <2>3, <3>1, <3>2, <3>4 DEF Answered
        <4> QED BY <4>1 DEF ToldNext, ToldOf, Result
      <3>5. query'.at = "reply"
        BY <3>2
      <3> QED BY <1>a, <2>1, <3>3, <3>4, <3>5, AskedKeeps DEF TInv
    <2> QED BY <2>2, <2>3
  <1>6. CASE TakeSetParam
    <2>1. PICK p \in Given : SetParam(p) /\ Reply([kind |-> "param", param |-> p])
      BY <1>6 DEF TakeSetParam
    <2>2. App' /\ Settled /\ phase' = phase /\ UNCHANGED told
      BY <1>0, <1>6, <2>1, SetParamFacts DEF TakeSetParam
    <2>3. query'.at = "reply" /\ query'.value = [kind |-> "param", param |-> p]
      BY <2>1 DEF Reply
    <2>4. ToldNext(query'.value)
      BY <2>3 DEF ToldNext, ToldOf
    <2> QED BY <1>a, <2>2, <2>3, <2>4, AskedKeeps DEF TInv
  <1>7. CASE TakeState \/ TakeGetParam \/ TakeGetConfig
    <2>1. App' /\ Settled /\ phase' = phase /\ UNCHANGED told
      BY <1>0, <1>7, StillApp DEF TakeState, TakeGetParam, TakeGetConfig
    <2>2. PICK v : Reply(v) /\ v.kind \notin {"refused", "error", "created"}
      <3>1. CASE TakeState
        <4>1. PICK s : Reply([kind |-> "state", state |-> s])
          BY <3>1 DEF TakeState
        <4> QED BY <4>1
      <3>2. CASE TakeGetParam
        <4>1. Reply([kind |-> "none"]) \/ Reply([kind |-> "param", param |-> param])
          BY <3>2 DEF TakeGetParam
        <4> QED BY <4>1
      <3>3. CASE TakeGetConfig
        <4>1. Reply([kind |-> "none"]) \/ Reply([kind |-> "config", config |-> config])
          BY <3>3 DEF TakeGetConfig
        <4> QED BY <4>1
      <3> QED BY <1>7, <3>1, <3>2, <3>3
    <2>3. query'.at = "reply" /\ query'.value = v
      BY <2>2 DEF Reply
    <2>4. ToldNext(query'.value)
      BY <2>2, <2>3 DEF ToldNext, ToldOf
    <2> QED BY <1>a, <2>1, <2>3, <2>4, AskedKeeps DEF TInv
  <1>8. CASE StartWeb \/ Construct \/ (\E k \in Questions : Ask(k)) \/ Hear \/ Fails \/ UNCHANGED vars
    <2>1. App' /\ Settled /\ phase' = phase
      BY <1>0, <1>8, StillApp DEF StartWeb, Construct, Ask, Hear, Fails, vars
    <2>2. UNCHANGED query \/ query'.at \in {"nowhere", "network"}
      BY <1>8 DEF StartWeb, Construct, Ask, Hear, Fails, vars, callerVars, NoQuery
    <2>3. \/ UNCHANGED told
          \/ told' = NoAnswer
          \/ query.at = "reply" /\ query.kind # "STATE" /\ told' = query.value
      BY <1>8 DEF StartWeb, Construct, Ask, Hear, Fails, vars, callerVars
    <2> QED BY <1>0, <1>a, <2>1, <2>2, <2>3, AskedKeeps DEF TInv
  <1> QED BY <1>1, <1>2, <1>3, <1>4, <1>5, <1>6, <1>7, <1>8 DEF Next

\* What the caller is told of its CREATE is what happened, with any of its requests
\* and replies lost (baseApplication.cxx:111-132, 177-182; fsmwebCaller), unless two
\* CREATEs were in progress at once.
THEOREM ToldIsDoneAlways == Spec => []ToldIsDone
  <1>1. ASSUME Init PROVE TInv
    BY <1>1 DEF Init, AppInit, TInv, App, Typed, Phases, Alone, NotYet, WebCreate, Asked, Told, ToldOf, NoAnswer,
                NoQuery, At, MachineStates, Threads
  <1>2. TInv => ToldIsDone
    BY DEF TInv, Asked, Told, ToldOf, ToldIsDone
  <1> QED BY <1>1, <1>2, TStep, PTL DEF Spec

-----------------------------------------------------------------------------
(* The machine of the application, for any interleaving.                   *)

LEMMA NextMachine == ASSUME [Next]_vars PROVE [FSM!Next]_(FSM!vars)
  <1> USE DEF FSM!vars, fsmVars
  <1>1. CASE UNCHANGED vars
    BY <1>1 DEF vars, appVars
  <1>2. CASE StartWeb \/ Construct \/ (\E k \in Questions : Ask(k)) \/ Hear \/ Fails
    BY <1>2 DEF StartWeb, Construct, Ask, Hear, Fails, appVars
  <1>3. CASE TakeState \/ TakeGetParam \/ TakeGetConfig
    BY <1>3 DEF TakeState, TakeGetParam, TakeGetConfig, appVars
  <1>4. CASE OtherSetParam \/ TakeSetParam
    BY <1>4 DEF OtherSetParam, TakeSetParam, SetParam
  <1>5. CASE DimCreate \/ TakeCreate
    BY <1>5 DEF DimCreate, TakeCreate, Create, FSM!Next, Threads
  <1>6. ASSUME NEW t \in Threads, Dispatch(t) \/ Return(t) PROVE FSM!Next
    BY <1>6 DEF Dispatch, Return, FSM!Next, FSM!Step
  <1>7. ASSUME NEW t \in Threads, InCreate(t) PROVE FSM!Next \/ UNCHANGED fsmVars
    BY <1>6, <1>7 DEF InCreate, LoadFile, LoadUrl, LoadMongo, LoadNothing, Load, Missing,
                      HostFound, PassOver, TakeParameter, NoneLeft, Answer, UserCreate
  <1>8. CASE Serve
    BY <1>6, <1>7, <1>8 DEF Serve, Threads
  <1>9. ASSUME NEW t \in Threads, Command(t) PROVE FSM!Next \/ UNCHANGED fsmVars
    BY <1>6, <1>7, <1>9 DEF Command
  <1> QED BY <1>1, <1>2, <1>3, <1>4, <1>5, <1>8, <1>9 DEF Next

\* Every step of the application, its web server and its caller is a step of the
\* machine or leaves it alone: neither create, which answers an error in its own
\* message, nor SETPARAM writes the state. The machine is not born as one of Fsm,
\* since setState("VOID") comes after CREATED was published
\* (baseApplication.cxx:12-26).
THEOREM StepsAreTheMachines == Spec => [][FSM!Next]_(FSM!vars)
  BY NextMachine, PTL DEF Spec
==============================================================================
