---------------------------- MODULE EventBuilder ----------------------------
(***************************************************************************)
(* The event builder of levbdim: the DIM thread that stores the fragments  *)
(* of the data sources as files in shared memory (datasocket, shmdriver's  *)
(* store), the scanner thread that reads them back and assembles events    *)
(* (shmdriver::scanMemory), and the thread that starts and stops a run.    *)
(*                                                                         *)
(* A trigger makes every source publish one fragment.  Trigger k counts    *)
(* the crossings up to k; its event number tags[k] counts the triggers of  *)
(* the run.  A source reads the two counters one after the other, so that  *)
(* its fragment of trigger k may carry another crossing than k, and not    *)
(* the one another source read.  A fragment is both the content of a file  *)
(* and its name, Event_<det>_<src>_<evt>_<bx>.                             *)
(***************************************************************************)
EXTENDS Naturals, Sequences, FiniteSets, Functions

CONSTANTS
    Sources,        \* the registered data sources, (detector id, source id)
    Delay,          \* age at which cleanBufferMap drops an entry, in crossings
    NoBuffer,       \* "no buffer in hand"
    NoSource,       \* source of a buffer nothing was ever read into
    MaxTriggers,    \* bound: triggers issued, over all runs
    MaxRuns,        \* bound: runs started
    MaxSkews,       \* bound: fragments with another crossing than their trigger's
    MaxResends,     \* bound: fragments DIM delivers a second time
    MaxGarbage      \* bound: buffers inserted without having been read

ASSUME SourcesAssumption == IsFiniteSet(Sources) /\ Sources # {}
ASSUME BoundsAssumption ==
    /\ Delay \in Nat
    /\ MaxTriggers \in Nat
    /\ MaxRuns \in Nat
    /\ MaxSkews \in Nat
    /\ MaxResends \in Nat
    /\ MaxGarbage \in Nat

N == Cardinality(Sources)       \* numberOfDataSource()

EventNumbers == 0 .. MaxTriggers
Crossings == 0 .. MaxTriggers
Fragments == [src : Sources, evt : 1 .. MaxTriggers, bx : Crossings]
\* What a buffer that pull left uninitialised may hold.
Garbage == [src : {NoSource}, evt : EventNumbers, bx : Crossings]
Buffers == Fragments \cup Garbage

ASSUME NamesAssumption == NoSource \notin Sources /\ NoBuffer \notin Buffers

VARIABLES
    tags,       \* tags[k]: event number of trigger k
    base,       \* number of triggers issued before the current run
    sent,       \* sent[s][k]: the crossing in the fragment of s for trigger k
    resends,    \* number of fragments delivered again
    dim,        \* the DIM thread: fragment written and not yet marked closed
    data,       \* the files in the memory directory
    closed,     \* the marker files in its subdirectory closed/
    main,       \* the run-control thread; _running is main = "running"
    run,        \* _run
    scan,       \* program counter of the scanner thread
    listing,    \* names listed and not yet treated (vnames, or purgeShm's)
    buf,        \* the buffer or name in the scanner's hand
    twrite,     \* time of the last complete event of this listing, 0 if none
    eventMap,   \* _eventMap: event number -> buffers; << >> is "no entry"
    handed,     \* history: what the processors were called with
    garbage     \* number of buffers inserted without having been read

envVars  == <<tags, base, sent, resends>>
shmVars  == <<data, closed>>
ctlVars  == <<main, run>>
mapVars  == <<twrite, eventMap, handed, garbage>>
scanVars == <<scan, listing, buf>>
vars == <<envVars, dim, shmVars, ctlVars, scanVars, mapVars>>

Fragment(s, k, b) == [src |-> s, evt |-> tags[k], bx |-> b]

TypeOK ==
    /\ tags \in Seq(1 .. MaxTriggers) /\ Len(tags) <= MaxTriggers
    /\ base \in 0 .. Len(tags)
    /\ sent \in [Sources -> Seq(Crossings)]
    /\ \A s \in Sources : Len(sent[s]) <= Len(tags)
    /\ resends \in 0 .. MaxResends
    /\ dim \in Fragments \cup {NoBuffer}
    /\ data \subseteq Fragments
    /\ closed \subseteq Fragments
    /\ main \in {"stopped", "running", "stopping"}
    /\ run \in 0 .. MaxRuns
    /\ scan \in {"off", "top", "pull", "insert", "purge", "unlink", "unmark"}
    /\ listing \subseteq Fragments
    /\ buf \in Buffers \cup {NoBuffer}
    /\ (scan \in {"insert", "unmark"}) = (buf # NoBuffer)
    /\ scan = "unmark" => buf \in Fragments
    /\ main = "stopped" => scan = "off"
    /\ twrite \in Crossings
    /\ eventMap \in [EventNumbers -> Seq(Buffers)]
    /\ handed \in Seq([run : 0 .. MaxRuns, evt : EventNumbers, frags : Seq(Buffers)])
    /\ garbage \in 0 .. MaxGarbage

Init ==
    /\ tags = << >> /\ base = 0
    /\ sent = [s \in Sources |-> << >>]
    /\ resends = 0
    /\ dim = NoBuffer
    /\ data = {} /\ closed = {}
    /\ main = "stopped" /\ run = 0
    /\ scan = "off" /\ listing = {} /\ buf = NoBuffer
    /\ twrite = 0
    /\ eventMap = [e \in EventNumbers |-> << >>]
    /\ handed = << >>
    /\ garbage = 0

-----------------------------------------------------------------------------
(* The front ends and the DIM thread.  One thread runs every infoHandler,  *)
(* so a handler is never interrupted by another one.                       *)

\* The front ends take a trigger: only while the run is on, numbered from 1.
Trigger ==
    /\ main = "running"
    /\ Len(tags) < MaxTriggers
    /\ tags' = Append(tags, Len(tags) - base + 1)
    /\ UNCHANGED <<base, sent, resends, dim, shmVars, ctlVars, scanVars, mapVars>>

\* Number of the fragments whose crossing is not the one of their trigger.
Skews ==
    Cardinality({p \in Sources \X (1 .. MaxTriggers) :
                   p[2] \in DOMAIN sent[p[1]] /\ sent[p[1]][p[2]] # p[2]})

\* What source s may read as the crossing of its next fragment, before or after
\* it reads the event number: none older than in its last fragment.
Readable(s) ==
    LET k    == Len(sent[s]) + 1
        last == IF sent[s] = << >> THEN 0 ELSE sent[s][Len(sent[s])]
    IN  {b \in Crossings : last <= b /\ b <= Len(tags) /\ (b = k \/ Skews < MaxSkews)}

\* The fragment an infoHandler of source s is called with: the next one, or the
\* last one again.  DIM delivers it at each new subscription, and when the source
\* disappears: the "no link" data of the DimInfo is the handler's own buffer.
Publish(s, f) ==
    \/ /\ Len(sent[s]) < Len(tags)
       /\ \E b \in Readable(s) :
            /\ f = Fragment(s, Len(sent[s]) + 1, b)
            /\ sent' = [sent EXCEPT ![s] = Append(@, b)]
       /\ UNCHANGED resends
    \/ /\ sent[s] # << >>
       /\ resends < MaxResends
       /\ f = Fragment(s, Len(sent[s]), sent[s][Len(sent[s])])
       /\ resends' = resends + 1
       /\ UNCHANGED sent

\* infoHandler up to the end of the first half of store: the data file is
\* written (not truncated before: a name stands for one content).
StoreData(s) ==
    /\ dim = NoBuffer
    /\ \E f \in Fragments :
        /\ Publish(s, f)
        /\ dim' = f
        /\ data' = data \cup {f}
    /\ UNCHANGED <<tags, base, closed, ctlVars, scanVars, mapVars>>

\* store returns early: the file could not be opened, or was written short.
StoreFails(s) ==
    /\ dim = NoBuffer
    /\ \E f \in Fragments :
        /\ Publish(s, f)
        /\ data' \in {data, data \cup {f}}
    /\ UNCHANGED <<tags, base, dim, closed, ctlVars, scanVars, mapVars>>

\* The second half of store: the marker in closed/.  The result of its open is
\* not checked: without a marker the file is never read.
StoreMarker ==
    /\ dim # NoBuffer
    /\ closed' \in {closed, closed \cup {dim}}
    /\ dim' = NoBuffer
    /\ UNCHANGED <<envVars, data, ctlVars, scanVars, mapVars>>

-----------------------------------------------------------------------------
(* The scanner thread: scanMemory.                                         *)

\* ls, and a number of files that is a multiple of the number of sources.
\* The loop takes the names in the order of their strings, which is not the
\* order of the events: here, in any order.
List ==
    /\ scan = "top" /\ main = "running"
    /\ closed # {}
    /\ Cardinality(closed) % N = 0
    /\ listing' = closed
    /\ twrite' = 0
    /\ scan' = "pull"
    /\ UNCHANGED <<envVars, dim, shmVars, ctlVars, buf, eventMap, handed, garbage>>

\* ls, and any other number of files: the scanner reports it and purges.
ListMismatch ==
    /\ scan = "top" /\ main = "running"
    /\ Cardinality(closed) % N # 0
    /\ scan' = "purge"
    /\ UNCHANGED <<envVars, dim, shmVars, ctlVars, listing, buf, mapVars>>

\* Mutant of PurgeList: the names of the first listing are gone.
PurgeListsNothing ==
    /\ scan = "purge"
    /\ listing' = {}
    /\ scan' = "unlink"
    /\ UNCHANGED <<envVars, dim, shmVars, ctlVars, buf, mapVars>>

\* purgeShm lists closed/ anew ...
PurgeList ==
    /\ scan = "purge"
    /\ listing' = closed
    /\ scan' = "unlink"
    /\ UNCHANGED <<envVars, dim, shmVars, ctlVars, buf, mapVars>>

\* ... and unlinks, name by name, the data file ...
PurgeData(n) ==
    /\ scan = "unlink" /\ n \in listing
    /\ data' = data \ {n}
    /\ buf' = n
    /\ scan' = "unmark"
    /\ UNCHANGED <<envVars, dim, closed, ctlVars, listing, mapVars>>

\* Mutant of PurgeMarker: the name stays in hand.
PurgeKeepsName ==
    /\ scan = "unmark"
    /\ closed' = closed \ {buf}
    /\ listing' = listing \ {buf}
    /\ scan' = "unlink"
    /\ UNCHANGED <<envVars, dim, data, ctlVars, buf, mapVars>>

\* ... and then the marker.
PurgeMarker ==
    /\ scan = "unmark"
    /\ closed' = closed \ {buf}
    /\ listing' = listing \ {buf}
    /\ buf' = NoBuffer
    /\ scan' = "unlink"
    /\ UNCHANGED <<envVars, dim, data, ctlVars, mapVars>>

PurgeDone ==
    /\ scan = "unlink" /\ listing = {}
    /\ scan' = "top"
    /\ UNCHANGED <<envVars, dim, shmVars, ctlVars, listing, buf, mapVars>>

\* pull up to the unlink of the marker: open, read, close, unlink.
Pull(n) ==
    /\ scan = "pull" /\ n \in listing
    /\ n \in data
    /\ buf' = n
    /\ closed' = closed \ {n}
    /\ listing' = listing \ {n}
    /\ scan' = "insert"
    /\ UNCHANGED <<envVars, dim, data, ctlVars, mapVars>>

\* pull cannot open the data file and returns: the new buffer keeps what its
\* memory held, and the marker stays.
PullUnreadable(n) ==
    /\ scan = "pull" /\ n \in listing
    /\ n \notin data
    /\ garbage < MaxGarbage
    /\ garbage' = garbage + 1
    /\ buf' \in Garbage
    /\ listing' = listing \ {n}
    /\ scan' = "insert"
    /\ UNCHANGED <<envVars, dim, shmVars, ctlVars, twrite, eventMap, handed>>

\* The entry of event e once buffer b is pushed into it.
Pushed(e, b) == Append(eventMap[e], b)

\* Mutants of Complete: the size test is off by one.
CompleteEarly(entry) == Len(entry) = N - 1
CompleteLate(entry) == Len(entry) > N

\* All registered sources are in the entry, by its size alone.
Complete(entry) == Len(entry) = N

\* Mutant of ProcessEvent: the entry is not erased.
ProcessEventKeeps(e, entry) ==
    /\ eventMap' = [eventMap EXCEPT ![e] = entry]
    /\ IF e = 0
         THEN UNCHANGED handed
         ELSE handed' = Append(handed, [run |-> run, evt |-> e, frags |-> entry])

\* processEvent: the processors get a complete entry, which is then erased;
\* event 0 is not processed and its entry stays.
ProcessEvent(e, entry) ==
    IF e = 0
      THEN /\ eventMap' = [eventMap EXCEPT ![e] = entry]
           /\ UNCHANGED handed
      ELSE /\ eventMap' = [eventMap EXCEPT ![e] = << >>]
           /\ handed' = Append(handed, [run |-> run, evt |-> e, frags |-> entry])

\* Mutant of Insert: the data file is not unlinked.
InsertKeepsFile ==
    /\ scan = "insert"
    /\ LET e     == buf.evt
           entry == Pushed(e, buf)
       IN  IF Complete(entry)
             THEN /\ twrite' = entry[1].bx
                  /\ ProcessEvent(e, entry)
             ELSE /\ eventMap' = [eventMap EXCEPT ![e] = entry]
                  /\ UNCHANGED <<twrite, handed>>
    /\ buf' = NoBuffer
    /\ scan' = "pull"
    /\ UNCHANGED <<envVars, dim, shmVars, ctlVars, listing, garbage>>

\* The rest of pull (the unlink of the data file), and the buffer's insertion.
Insert ==
    /\ scan = "insert"
    /\ data' = data \ {buf}
    /\ LET e     == buf.evt
           entry == Pushed(e, buf)
       IN  IF Complete(entry)
             THEN /\ twrite' = entry[1].bx
                  /\ ProcessEvent(e, entry)
             ELSE /\ eventMap' = [eventMap EXCEPT ![e] = entry]
                  /\ UNCHANGED <<twrite, handed>>
    /\ buf' = NoBuffer
    /\ scan' = "pull"
    /\ UNCHANGED <<envVars, dim, closed, ctlVars, listing, garbage>>

\* Mutant of TooOld: the delay is forgotten.
TooOldAtOnce(entry) ==
    /\ entry # << >>
    /\ ~Complete(entry)
    /\ entry[1].bx < twrite

\* What cleanBufferMap erases: an incomplete entry whose first buffer is more
\* than Delay older than the last complete event.
TooOld(entry) ==
    /\ entry # << >>
    /\ ~Complete(entry)
    /\ entry[1].bx + Delay < twrite

\* The end of a pass; the time is 0 if no event was complete in it.
EndListing ==
    /\ scan = "pull" /\ listing = {}
    /\ eventMap' = [e \in EventNumbers |->
                      IF twrite # 0 /\ TooOld(eventMap[e]) THEN << >> ELSE eventMap[e]]
    /\ twrite' = 0
    /\ scan' = "top"
    /\ UNCHANGED <<envVars, dim, shmVars, ctlVars, listing, buf, handed, garbage>>

\* Mutant of Exit: the scanner leaves only an empty directory.
ExitWhenDrained ==
    /\ scan = "top" /\ main # "running"
    /\ closed = {}
    /\ scan' = "off"
    /\ UNCHANGED <<envVars, dim, shmVars, ctlVars, listing, buf, mapVars>>

\* The scanner sees _running false and returns.
Exit ==
    /\ scan = "top" /\ main # "running"
    /\ scan' = "off"
    /\ UNCHANGED <<envVars, dim, shmVars, ctlVars, listing, buf, mapVars>>

-----------------------------------------------------------------------------
(* Run control.                                                            *)

\* start: _eventMap and the memory directory are left as they are.
Start ==
    /\ main = "stopped" /\ run < MaxRuns
    /\ run' = run + 1
    /\ main' = "running"
    /\ scan' = "top"
    /\ base' = Len(tags)
    /\ UNCHANGED <<tags, sent, resends, dim, shmVars, listing, buf, mapVars>>

\* stop up to join_all: _running is false and the caller waits.
Stop ==
    /\ main = "running"
    /\ main' = "stopping"
    /\ UNCHANGED <<envVars, dim, shmVars, run, scanVars, mapVars>>

\* join_all returns and the processors are stopped.
Join ==
    /\ main = "stopping" /\ scan = "off"
    /\ main' = "stopped"
    /\ UNCHANGED <<envVars, dim, shmVars, run, scanVars, mapVars>>

-----------------------------------------------------------------------------

FrontEnd == Trigger \/ \E s \in Sources : StoreData(s) \/ StoreFails(s)

Scanner ==
    \/ List \/ EndListing \/ Insert \/ Exit
    \/ ListMismatch \/ PurgeList \/ PurgeMarker \/ PurgeDone
    \/ \E n \in listing : Pull(n) \/ PullUnreadable(n) \/ PurgeData(n)

Next ==
    \/ FrontEnd
    \/ StoreMarker
    \/ Scanner
    \/ Start \/ Stop \/ Join

Spec == Init /\ [][Next]_vars

\* The threads run: a handler that began to store goes on, and so do the
\* scanner and the thread in join_all.  Nothing obliges the front ends to
\* trigger, nor anyone to start or stop a run.
FairSpec ==
    /\ Spec
    /\ WF_vars(StoreMarker)
    /\ WF_vars(Scanner)
    /\ WF_vars(Join)

-----------------------------------------------------------------------------
(* Properties of every run of the program.                                 *)

\* The pieces an event is made of are buffers of that event: what processors
\* get under a number is N buffers carrying it, and never event 0, whatever
\* was delivered twice, left over from another run or never read
\* (scanMemory's insertion, processEvent).
HandedByNumber ==
    \A h \in Range(handed) :
        /\ h.evt # 0
        /\ Len(h.frags) = N
        /\ \A b \in Range(h.frags) : b.evt = h.evt

\* No complete event waits: whenever an entry reaches N buffers it is processed
\* in the same step of the scanner, so that no entry of the map ever has N
\* (or, after a duplicate, more) and stays (scanMemory's test after push_back).
NoneWaits ==
    \A e \in EventNumbers :
        /\ e # 0 => Len(eventMap[e]) < N
        /\ \A b \in Range(eventMap[e]) : b.evt = e

\* The marker of a file stands for a file that can be read (README.md:271-277);
\* only purgeShm takes the data away first, and nothing reads meanwhile.
MarkerHasData == \A f \in closed : f \in data \/ (scan = "unmark" /\ buf = f)

\* The files the scanner can see do not stay while a run is on, those of an
\* earlier run included: the files of one event number are read, or purged, until
\* none is left (scanMemory, purgeShm).  This is so until a redelivery has left a
\* marker without its file, which pull never removes.
Listed(e) == \E f \in closed : f.evt = e

StoredIsConsumed ==
    \A e \in 1 .. MaxTriggers :
        (Listed(e) /\ main = "running")
            ~> (~Listed(e) \/ main # "running" \/ garbage > 0)

\* stop returns, in every run: the scanner thread that join_all waits for comes to
\* an end, wherever in a listing or a purge it is (MaxGarbage bounds how often
\* pull may go on without a file).
StopReturns == (main = "stopping") ~> (main = "stopped" \/ garbage > 0)

-----------------------------------------------------------------------------
(* Properties of one run in which DIM delivers every fragment once.        *)

\* An event holds one buffer of each registered source (README.md:118-120).
OneFragmentPerSource ==
    \A h \in Range(handed) : {b.src : b \in Range(h.frags)} = Sources

\* The buffers of an event carry the same time tag (README.md:111-120), as long
\* as every source reads the crossing of its trigger: not over two runs, the run
\* EventBuilderTwoRuns finds.
SameTimeTag ==
    \A h \in Range(handed) : \A b, c \in Range(h.frags) : b.bx = c.bx

InMap(f) == \E e \in EventNumbers : f \in Range(eventMap[e])
InHand(f) == scan = "insert" /\ buf = f

\* A fragment is in one place on its way from the handler to the processors:
\* the two unlinks of pull and the erase of processEvent leave no second copy.
OnePlace ==
    \A f \in Fragments :
        /\ f \in data \cup closed => ~InMap(f)
        /\ f \in data \cup closed \/ InMap(f) => \A h \in Range(handed) : f \notin Range(h.frags)
        /\ InHand(f) => f \in data \ closed /\ f # dim
        /\ f = dim => f \in data \ closed

\* One run, and DIM delivers every fragment once.
OneRun == MaxRuns = 1 /\ MaxResends = 0

\* f was delivered in this run: the one fragment of its source and its event.
Issued(f) ==
    /\ f \in Fragments
    /\ f.evt \in DOMAIN sent[f.src]
    /\ f.bx = sent[f.src][f.evt]

\* Event numbers are trigger numbers.
Numbered ==
    /\ base = 0
    /\ \A k \in DOMAIN tags : tags[k] = k
    /\ run = 0 => tags = << >> /\ main = "stopped"

\* What the scanner has listed is still there, and what it holds was read.
Listings ==
    /\ listing \subseteq closed
    /\ scan = "insert" => buf \in Fragments
    /\ scan = "unmark" => buf \in listing
    /\ scan \in {"off", "top", "purge"} => listing = {}

\* Nothing on disk, in the map or handed over was not delivered.
AllIssued ==
    /\ \A f \in data \cup closed : Issued(f)
    /\ \A e \in EventNumbers : \A f \in Range(eventMap[e]) : Issued(f)
    /\ \A h \in Range(handed) : \A f \in Range(h.frags) : Issued(f)

\* No entry, and no event handed over, holds a buffer twice.
NoCopies ==
    /\ \A e \in EventNumbers : IsInjective(eventMap[e])
    /\ \A h \in Range(handed) : IsInjective(h.frags)

\* The life of a fragment in a single run without redelivery: what is on disk,
\* in the map or handed over was delivered, is in one place and there once,
\* and a name is only ever listed while its file can be read (store, pull,
\* purgeShm, scanMemory, processEvent).
Custody == Numbered /\ Listings /\ AllIssued /\ NoCopies /\ MarkerHasData /\ OnePlace

\* What the scanner gives up is late: an entry leaves the map only by being
\* handed over, or when an event that was handed over is more than Delay
\* younger than its first buffer (cleanBufferMap).
DropsOnlyLate ==
    [][ \A e \in EventNumbers :
          eventMap[e] # << >> /\ eventMap'[e] = << >> =>
            \/ /\ Len(handed') = Len(handed) + 1
               /\ handed'[Len(handed')].evt = e
            \/ \E h \in Range(handed) :
                  eventMap[e][1].bx + Delay < h.frags[1].bx ]_vars

\* The fragments that were stored and not yet handed over or given up.
Available ==
    LET inMap  == UNION {Range(eventMap[e]) : e \in EventNumbers}
        inHand == IF scan = "insert" THEN {buf} ELSE {}
    IN  closed \cup {f \in inMap \cup inHand : f \in Fragments}

Assembly ==
    INSTANCE EventAssembly
        WITH pool  <- Available,
             built <- [i \in DOMAIN handed |-> Range(handed[i].frags)]

\* The event builder implements event assembly.
ImplementsAssembly == Assembly!Spec

=============================================================================
