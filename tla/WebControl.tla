------------------------------ MODULE WebControl ------------------------------
(***************************************************************************)
(* A base application that is controlled from another process by an        *)
(* fsmwebCaller (fsmwebCaller.cxx) over HTTP, while an operator may send   *)
(* CREATE by DIM, and other clients of the web server SETPARAM.            *)
(*                                                                         *)
(* A query is one request and one reply.  It may fail before the server    *)
(* gets the request or after, and the caller cannot tell: curlQuery gives  *)
(* an empty string.  It has no timeout, so a caller may wait for ever.     *)
(***************************************************************************)
EXTENDS BaseApplication

VARIABLES
    running,    \* the application has called fsmweb::start
    url,        \* _url of the caller: "none" if its constructor had no answer
    query,      \* what the caller has asked, and where the question is
    told        \* _answer of the caller

callerVars == <<url, query, told>>
vars == <<appVars, running, callerVars>>

Questions == {"CREATE", "STATE", "SETPARAM", "GETPARAM", "GETCONFIG"}

NoQuery == [at |-> "nowhere"]

Init ==
    /\ AppInit
    /\ running = FALSE
    /\ url = "unborn" /\ query = NoQuery /\ told = NoAnswer

-----------------------------------------------------------------------------
(* The application and its other clients.                                  *)

StartWeb ==
    /\ ~running /\ running' = TRUE
    /\ UNCHANGED <<appVars, callerVars>>

DimCreate ==
    /\ Create("dim")
    /\ UNCHANGED <<running, callerVars>>

Command(t) ==
    /\ Dispatch(t) \/ InCreate(t)
    /\ t = "web" => query.at # "server"
    /\ UNCHANGED <<running, callerVars>>

OtherSetParam ==
    /\ running
    /\ \E p \in Given : SetParam(p)
    /\ UNCHANGED <<running, callerVars>>

-----------------------------------------------------------------------------
(* The caller.                                                             *)

\* The constructor asks for the prefix of the application once.
Construct ==
    /\ url = "unborn"
    /\ url' \in {"none"} \cup {u \in {"known"} : running}
    /\ UNCHANGED <<appVars, running, query, told>>

\* sendTransition, sendCommand or queryState.
Ask(k) ==
    /\ url # "unborn" /\ query = NoQuery
    /\ query' = [at |-> "network", kind |-> k]
    /\ UNCHANGED <<appVars, running, url, told>>

Reply(r) == query' = [at |-> "reply", kind |-> query.kind, value |-> r]

\* The server's thread, when it is idle, takes a request that was sent to it.
Taken(k) == query = [at |-> "network", kind |-> k] /\ url = "known" /\ phase["web"] = "idle"

TakeCreate ==
    /\ Taken("CREATE")
    /\ Create("web")
    /\ query' = [query EXCEPT !.at = "server"]
    /\ UNCHANGED <<running, url, told>>

\* It processes the command ...
Serve ==
    /\ query.at = "server"
    /\ Dispatch("web") \/ InCreate("web")
    /\ IF phase'["web"] # "idle"
         THEN UNCHANGED query
         ELSE Reply(IF answer'["web"] = "FAILED" THEN [kind |-> "refused"] ELSE rep["web"])
    /\ UNCHANGED <<running, url, told>>

\* ... or answers at once: the list of the machine ...
TakeState ==
    /\ Taken("STATE")
    /\ \E s \in {state} \cup {g \in {Garbled} : FSM!Torn("web")} : Reply([kind |-> "state", state |-> s])
    /\ UNCHANGED <<appVars, running, url, told>>

\* ... and the commands.
TakeSetParam ==
    /\ Taken("SETPARAM")
    /\ \E p \in Given : SetParam(p) /\ Reply([kind |-> "param", param |-> p])
    /\ UNCHANGED <<running, url, told>>

TakeGetParam ==
    /\ Taken("GETPARAM")
    /\ Reply(IF param = Null THEN [kind |-> "none"] ELSE [kind |-> "param", param |-> param])
    /\ UNCHANGED <<appVars, running, url, told>>

TakeGetConfig ==
    /\ Taken("GETCONFIG")
    /\ Reply(IF config = Null THEN [kind |-> "none"] ELSE [kind |-> "config", config |-> config])
    /\ UNCHANGED <<appVars, running, url, told>>

\* The caller has its answer; that of queryState is returned and not kept ...
Hear ==
    /\ query.at = "reply"
    /\ query' = NoQuery
    /\ told' = IF query.kind = "STATE" THEN told ELSE query.value
    /\ UNCHANGED <<appVars, running, url>>

\* ... or has none.  A request in the server is processed all the same.
Fails ==
    /\ query # NoQuery
    /\ query' = NoQuery
    /\ told' = IF query.kind = "STATE" THEN told ELSE NoAnswer
    /\ UNCHANGED <<appVars, running, url>>

Next ==
    \/ StartWeb \/ Construct
    \/ DimCreate \/ OtherSetParam
    \/ \E t \in Threads : Command(t)
    \/ \E k \in Questions : Ask(k)
    \/ TakeCreate \/ Serve \/ TakeState \/ TakeSetParam \/ TakeGetParam \/ TakeGetConfig
    \/ Hear \/ Fails

Spec == Init /\ [][Next]_vars

-----------------------------------------------------------------------------
(* Properties.                                                             *)

\* What the caller is told of its CREATE is what happened in the application,
\* although a CREATE that fails is DONE too, and although the caller, when it is
\* told nothing, may ask again: with parameters, userCreate was called once, with
\* these, in a configuration that lists this host; with an error, it was never
\* called; and refused, since the machine is CREATED, by its own lost request, by
\* somebody else's, or by one that failed (baseApplication.cxx:111-132, 177-182).
\* Two CREATEs in progress at once are excluded: both may call userCreate.
ToldIsDone ==
    alone =>
        /\ told.kind = "refused" => state = "CREATED"
        /\ told.kind = "error"   => state = "CREATED" /\ created = {}
        /\ told.kind = "created" => created = {told.with} /\ Usable(told.with.config)
==============================================================================
