------------------------------ MODULE Processors ------------------------------
(***************************************************************************)
(* The processors of an event builder: basicwriter.cc, which writes the    *)
(* complete events of a run to files on disk, and monitorProcessor.cxx,    *)
(* which stores them again in a second memory directory for a consumer, as *)
(* shmdriver.cxx drives them: started before the scan thread exists, given *)
(* every complete event one after the other by the scan thread, stopped    *)
(* when that thread has been joined.                                       *)
(*                                                                         *)
(* A file's name is its run and the second of its opening: the open has no *)
(* O_EXCL and no O_TRUNC, so a second open of a name begins to write over  *)
(* what the file holds, byte after byte.  The size of an event is what its *)
(* compressed buffers add to _totalSize; Header is what a record has       *)
(* besides: _event, the number of buffers, the size of each.  How an event *)
(* becomes complete is the matter of EventBuilder: here any event may be   *)
(* handed over while a run lasts.                                          *)
(***************************************************************************)
EXTENDS Integers, Sequences, FiniteSets

CONSTANTS
    Order,      \* the processors in the order of their registration
    N,          \* the buffers of an event: numberOfDataSource()
    Sizes,      \* the sizes of events
    Header,     \* the bytes of a record that are not of its buffers
    Limit,      \* the total size above which the writer changes files
    Backlog,    \* the events' worth of fragments above which the monitor skips
    Runs,       \* the run numbers START may carry
    NoFile,     \* _fdOut = -1
    MaxEvents,  \* bound: events handed over
    MaxStarts,  \* bound: runs started
    MaxTime     \* bound: seconds of the clock

ASSUME ProcessorsAssumption ==
    /\ Order \in {<<"writer", "monitor">>, <<"monitor", "writer">>}
    /\ N \in Nat \ {0} /\ Limit \in Nat /\ Backlog \in Nat
    /\ Sizes \subseteq Nat \ {0} /\ Header \in Nat /\ Runs \subseteq Nat

ASSUME BoundsAssumption ==
    /\ MaxEvents \in Nat /\ MaxStarts \in Nat /\ MaxTime \in Nat
    /\ NoFile \notin [run : Runs, at : 0..MaxTime]

VARIABLES
    now,        \* time(NULL), in seconds
    ctl,        \* the builder: stopped, running, or stop() waiting for its thread
    turn,       \* the place in Order of the processor that has the event, 0: no event
    run,        \* _run of the writer
    started,    \* _started of the writer
    file,       \* _fdOut of the writer: the name of the file, or NoFile
    fds,        \* the descriptors of output files the process holds open
    offset,     \* the byte of the file at which the descriptor writes next
    event,      \* _event of the writer
    total,      \* _totalSize of the writer
    disk,       \* the files: name -> the records that are whole in it
    watching,   \* _started of the monitor
    left,       \* the buffers of the event the monitor has still to store
    backlog,    \* the fragments in the monitor's directory
    starts,     \* history: the number of starts
    opened,     \* history: the files opened, each with the start it belongs to
    given,      \* history: for each event handed over, the start it belongs to
    failed,     \* history: the starts in which an open failed
    hasty       \* history: the starts with two opens within a second

builderVars == <<now, ctl, turn>>
writerVars  == <<run, started, file, fds, offset, event, total, disk>>
monitorVars == <<watching, left, backlog>>
history     == <<starts, opened, given, failed, hasty>>
vars == <<builderVars, writerVars, monitorVars, history>>

FileNames == [run : Runs, at : 0..MaxTime]

\* A record of a file: its first byte, _event, the event and its size.
Records   == [at : Nat, num : Nat, evt : Nat, size : Sizes]

\* The byte after a record.
End(record) == record.at + Header + record.size

\* A record is written over those it overlaps; nothing is left of them that a
\* reader could make sense of.
Overwrite(records, new) ==
    {r \in records : End(r) <= new.at \/ End(new) <= r.at} \cup {new}

Init ==
    /\ now = 0 /\ ctl = "stopped" /\ turn = 0
    /\ run = 0 /\ started = FALSE /\ file = NoFile /\ fds = 0
    /\ offset = 0 /\ event = 0 /\ total = 0
    /\ disk = [name \in FileNames |-> {}]
    /\ watching = FALSE /\ left = 0 /\ backlog = 0
    /\ starts = 0 /\ opened = << >> /\ given = << >>
    /\ failed = {} /\ hasty = {}

-----------------------------------------------------------------------------
(* basicwriter::start, called by shmdriver::start and at a rotation: the     *)
(* open may fail, and then neither _event nor _started is assigned.  held    *)
(* descriptors are open before it, count is _event before it.                *)

\* Mutant: _event is not reset.
OpenFileCountsOn(r, s, held, count) ==
    /\ run' = r
    /\ offset' = 0
    /\ event' = count
    /\ \/ /\ file' = [run |-> r, at |-> now]
          /\ fds' = held + 1
          /\ started' = TRUE
          /\ opened' = Append(opened, [start |-> s, name |-> file'])
          /\ UNCHANGED failed
       \/ /\ file' = NoFile
          /\ fds' = held
          /\ failed' = failed \cup {s}
          /\ UNCHANGED <<started, opened>>

OpenFile(r, s, held, count) ==
    /\ run' = r
    /\ offset' = 0
    /\ \/ /\ file' = [run |-> r, at |-> now]
          /\ fds' = held + 1
          /\ event' = 0
          /\ started' = TRUE
          /\ opened' = Append(opened, [start |-> s, name |-> file'])
          /\ UNCHANGED failed
       \/ /\ file' = NoFile
          /\ fds' = held
          /\ event' = count
          /\ failed' = failed \cup {s}
          /\ UNCHANGED <<started, opened>>

\* shmdriver::start: the processors, then the scan thread.
Start(r) ==
    /\ ctl = "stopped" /\ starts < MaxStarts
    /\ ctl' = "running"
    /\ starts' = starts + 1
    /\ OpenFile(r, starts + 1, fds, event)
    /\ watching' = TRUE
    /\ UNCHANGED <<now, turn, total, disk, left, backlog, given, hasty>>

\* The scan thread has completed an event: shmdriver::processEvent.
Hand ==
    /\ ctl # "stopped" /\ turn = 0 /\ Len(given) < MaxEvents
    /\ turn' = 1
    /\ given' = Append(given, starts)
    /\ UNCHANGED <<now, ctl, writerVars, monitorVars, starts, opened, failed, hasty>>

Has(processor) == turn > 0 /\ Order[turn] = processor
NextTurn == (turn + 1) % (Len(Order) + 1)

-----------------------------------------------------------------------------
(* basicwriter::processEvent.                                                *)

\* Mutant: the limit is compared too late.
FullLate(size) == size > Limit + 1

Full(size) == size > Limit

\* Mutant: the descriptor of the full file is not closed.
RotateWithoutClose ==
    /\ total' = 0
    /\ hasty' = IF now = file.at THEN hasty \cup {starts} ELSE hasty
    /\ OpenFile(run, starts, fds, event + 1)

\* The file is closed and the next one opened.
Rotate ==
    /\ total' = 0
    /\ hasty' = IF now = file.at THEN hasty \cup {starts} ELSE hasty
    /\ OpenFile(run, starts, fds - 1, event + 1)

\* The second conjunct is a fact of disks, not of the code: nobody writes more
\* than Limit bytes to a file within the second in which it was opened.
WriteEvent(size) ==
    /\ Has("writer") /\ started /\ file # NoFile
    /\ Full(offset - event * Header + size) => now > file.at
    /\ disk' = [disk EXCEPT ![file] =
          Overwrite(@, [at |-> offset, num |-> event, evt |-> Len(given), size |-> size])]
    /\ turn' = NextTurn
    /\ \/ /\ Full(total + size)
          /\ Rotate
       \/ /\ ~Full(total + size)
          /\ total' = total + size
          /\ offset' = offset + Header + size
          /\ event' = event + 1
          /\ UNCHANGED <<run, started, file, fds, opened, failed, hasty>>
    /\ UNCHANGED <<now, ctl, monitorVars, starts, given>>

\* Not started, or without a file: the total has not grown and is not above
\* Limit (TypeOK), so that nothing is rotated.
WriterSkips ==
    /\ Has("writer") /\ (~started \/ file = NoFile)
    /\ turn' = NextTurn
    /\ UNCHANGED <<now, ctl, writerVars, monitorVars, history>>

-----------------------------------------------------------------------------
(* monitorProcessor::processEvent: the directory is listed once, then the    *)
(* buffers are stored one after the other.  A store may fail, and one may    *)
(* replace a fragment of the same name: neither adds to the directory.       *)

MonitorSkips ==
    /\ Has("monitor") /\ left = 0
    /\ ~watching \/ backlog > Backlog * N
    /\ turn' = NextTurn
    /\ UNCHANGED <<now, ctl, writerVars, monitorVars, history>>

\* Mutant: stored whatever the directory holds.
MonitorListsNothing ==
    /\ Has("monitor") /\ left = 0 /\ watching
    /\ left' = N
    /\ UNCHANGED <<builderVars, writerVars, watching, backlog, history>>

MonitorLists ==
    /\ Has("monitor") /\ left = 0
    /\ watching /\ backlog <= Backlog * N
    /\ left' = N
    /\ UNCHANGED <<builderVars, writerVars, watching, backlog, history>>

MonitorStores ==
    /\ left > 0
    /\ left' = left - 1
    /\ backlog' \in {backlog, backlog + 1}
    /\ turn' = IF left = 1 THEN NextTurn ELSE turn
    /\ UNCHANGED <<now, ctl, writerVars, watching, history>>

-----------------------------------------------------------------------------
(* shmdriver::stop.                                                          *)

\* _running = false: the thread hands over what is left of its listing.
Stop ==
    /\ ctl = "running"
    /\ ctl' = "stopping"
    /\ UNCHANGED <<now, turn, writerVars, monitorVars, history>>

\* Mutant: no sleep.
JoinAtOnce ==
    /\ ctl = "stopping" /\ turn = 0
    /\ ctl' = "stopped"
    /\ started' = FALSE /\ watching' = FALSE
    /\ file' = NoFile /\ offset' = 0
    /\ fds' = IF file = NoFile THEN fds ELSE fds - 1
    /\ UNCHANGED <<now, turn, run, event, total, disk, left, backlog, history>>

\* The thread has been joined, the processors are stopped: the writer sleeps a
\* second before it closes its file.
Join ==
    /\ ctl = "stopping" /\ turn = 0 /\ now < MaxTime
    /\ ctl' = "stopped"
    /\ now' = now + 1
    /\ started' = FALSE /\ watching' = FALSE
    /\ file' = NoFile /\ offset' = 0
    /\ fds' = IF file = NoFile THEN fds ELSE fds - 1
    /\ UNCHANGED <<turn, run, event, total, disk, left, backlog, history>>

-----------------------------------------------------------------------------
(* Outside of the builder: the clock, and the consumer of the monitor's      *)
(* directory.                                                                *)

Tick ==
    /\ now < MaxTime
    /\ now' = now + 1
    /\ UNCHANGED <<ctl, turn, writerVars, monitorVars, history>>

Take ==
    /\ backlog > 0
    /\ backlog' = backlog - 1
    /\ UNCHANGED <<builderVars, writerVars, watching, left, history>>

Next ==
    \/ \E r \in Runs : Start(r)
    \/ Hand
    \/ \E size \in Sizes : WriteEvent(size)
    \/ WriterSkips
    \/ MonitorSkips \/ MonitorLists \/ MonitorStores
    \/ Stop \/ Join
    \/ Tick \/ Take

Spec == Init /\ [][Next]_vars

-----------------------------------------------------------------------------

\* The writer is done with the last event handed over ...
Passed == turn = 0 \/ \E p \in 1..(turn - 1) : Order[p] = "writer"

\* ... and with these events of start s.
Handled(s) == {i \in 1..Len(given) : given[i] = s /\ (i < Len(given) \/ Passed)}

\* A reader goes from record to record: it finds those with nothing but whole
\* records before them.
Found(name) ==
    {r \in disk[name] : \A byte \in 0..(r.at - 1) :
        \E q \in disk[name] : q.at <= byte /\ byte < End(q)}

\* The files of start s, and what a reader finds in each.
FilesOf(s) == {f \in 1..Len(opened) : opened[f].start = s}
Content(f) == Found(opened[f].name)

\* The records of the files of start s, file after file, are of the events in
\* Handled(s), of each once and in their order.
OnDisk(s) ==
    /\ \A i \in Handled(s) : \E f \in FilesOf(s) : \E r \in Content(f) : r.evt = i
    /\ \A f \in FilesOf(s) : \A r \in Content(f) : r.evt \in Handled(s)
    /\ \A f, g \in FilesOf(s) : \A q \in Content(f), r \in Content(g) :
          f < g \/ (f = g /\ q.at < r.at) => q.evt < r.evt

OpenedOnce(name) ==
    \A f, g \in 1..Len(opened) : opened[f].name = name /\ opened[g].name = name => f = g

\* Types.  The writer's total is never above Limit outside of processEvent: the
\* branch that rotates is taken in the call in which the limit is passed.
TypeOK ==
    /\ now \in 0..MaxTime /\ ctl \in {"stopped", "running", "stopping"}
    /\ turn \in 0..Len(Order)
    /\ run \in Nat /\ started \in BOOLEAN /\ file \in FileNames \cup {NoFile}
    /\ fds \in Nat /\ offset \in Nat /\ event \in Nat /\ total \in 0..Limit
    /\ disk \in [FileNames -> SUBSET Records]
    /\ watching \in BOOLEAN /\ left \in 0..N /\ backlog \in Nat
    /\ starts \in 0..MaxStarts /\ opened \in Seq([start : 1..MaxStarts, name : FileNames])
    /\ given \in Seq(1..MaxStarts) /\ Len(given) <= MaxEvents
    /\ failed \subseteq 1..MaxStarts /\ hasty \subseteq 1..MaxStarts

\* The files of a run hold its events, each once and in the order in which the
\* builder gave them, over all rotations, while the run lasts and after all
\* later runs: if every open succeeded, and none came in the same second as the
\* one before it.  (basicwriter.cc: the events are written to whatever _fdOut
\* is, under names that only the clock makes different.)
CleanRunIsOnDisk ==
    \A s \in (1..starts) \ (failed \cup hasty) : OnDisk(s)

\* The same without the condition on the clock, and of no more than the presence
\* of the event: what the documentation says of the writer.
RunIsOnDisk ==
    \A i \in 1..Len(given) :
        given[i] \in failed \/ i \notin Handled(given[i]) \/
            \E name \in FileNames : \E r \in Found(name) : r.evt = i

\* A reader finds all of a file whose name was opened once, and its records are
\* numbered from 0 without a gap, over rotations, failed opens, and whatever is
\* written to files of other names (_event, which only a successful open resets).
FileNumbers ==
    \A name \in FileNames : OpenedOnce(name) =>
        /\ disk[name] \subseteq Found(name)
        /\ \A q, r \in disk[name] : q.at < r.at => q.num < r.num
        /\ \A r \in disk[name] : \A n \in 0..r.num : \E q \in disk[name] : q.num = n

\* The process has one output file open while the writer has a file, and none
\* otherwise: no rotation, no failed open and no stop leaks a descriptor.
OneDescriptor ==
    /\ fds = IF file = NoFile THEN 0 ELSE 1
    /\ ctl = "stopped" => file = NoFile

\* Whatever the consumer does, the monitor's directory holds no more than the
\* fragments of Backlog + 1 events: the listing is old when the buffers are
\* stored, but nobody else stores in that directory.
MonitorBounded == backlog + left <= (Backlog + 1) * N
===============================================================================
