# Verification of levbdim

levbdim is a light data acquisition framework over DIM, CERN's distributed
information system. Front ends publish fragments of data; an event builder
stores them as files in shared memory, assembles the fragments of one trigger
into an event and hands it to processors; every process carries a finite state
machine that is driven by DIM commands and by a small web server; and a job
control daemon starts and kills the processes of a host.

This directory holds TLA+ models of that code, the TLC runs that check them, and
proofs that TLAPS checks. Line numbers below are those of the sources.

## 1. The system

| part | state it keeps | operations | meets |
|---|---|---|---|
| `datasource` | a DIM service, its buffer | `publish` sets the tags and updates the service | DIM |
| `datasocket` | a DIM subscription, its buffer | `infoHandler`, called by DIM's thread, stores the buffer | `shmdriver::store` |
| `shmdriver` | `_eventMap`, `_running`, `_run`, the registered sources and processors, the files of the memory directory and the markers in `closed/` | `store` (DIM thread); `ls`, `pull`, insertion, `processEvent`, `cleanBufferMap`, `purgeShm` (scanner thread); `start`, `stop` (command thread); registration | `datasocket`, the processors |
| `monitorProcessor`, `basicwriter` | a second memory directory; an output file, event and byte counters | `start`, `stop`, `processEvent` | called by the scanner |
| `fsm`, `fsmweb`, `fsmmessage` | `_state`, the table of transitions, the STATE service | `addTransition`, `processCommand`, `publishState` | callbacks of the process |
| `exServer` | `_event`, `_bx`, `_running`, sources, readout threads | CONFIGURE, START, STOP, HALT; the main loop; `readdata` | `fsm`, `datasource` |
| `exBuilder` | an event builder, a writer, data sockets | CONFIGURE, ADDSOURCES, REGISTER, START, STOP, HALT, DESTROY, LIST | `fsm`, `shmdriver`, `datasocket` |
| `fsmjob` | the jobs of the host, `m_processMap` | INITIALISE, REGISTRATION, REGISTERJOB, ENDREGISTRATION, START, KILL, DESTROY; KILLJOB, RESTARTJOB, REGISTERFILE | `fsm`, the host |
| `fileTailer` | none | the last lines of a file | `fsmjob`'s JOBLOG |
| `baseApplication` | a configuration and parameters | CREATE; GETCONFIG, GETPARAM, SETPARAM | `fsm`, `fsmwebCaller`, `mdbReader` |
| `fsmwebCaller` | the url of an application, its last answer | `sendTransition`, `sendCommand`, `queryState` | the web server of an application |
| `mdbReader`, `wget` | none | database and HTTP requests | `baseApplication`, `fsmjob` |

What is hard in it:

* **No lock anywhere but the file system.** The DIM thread writes a data file and
  then its marker; the scanner lists markers, reads files, and unlinks both. The
  order of the four file operations is the whole protocol.
* **Completeness is a number.** An event is complete when its entry has as many
  buffers as there are registered sources; nothing looks at whose they are.
* **Event numbers start again** with every run, crossings do not, and neither
  `_eventMap` nor the files are cleared by `start`.
* **Check then act.** `processCommand` compares the state, runs a callback that
  may take seconds, and assigns the state; the DIM thread and the web thread
  both call it. The web's direct commands (KILLJOB...) do not look at the state.
* **Counters read one by one.** A readout thread of `exServer` reads the event
  number four times for one fragment, and the crossing once, while the main thread
  increments both.
* **Objects deleted while others use them.** The builder deletes its sockets, whose
  buffers DIM's thread writes to, and itself, of which the web thread asks the event
  number; what protects either is who sends which command, and when.
* **A circular buffer of characters** whose lines may wrap, with pointers into it.
* **A caller that cannot tell** a request that was lost from one whose reply was.
* **A map of pids without notification.** SIGCHLD is ignored: the daemon never
  learns that a child ended, and pids are used again.

`PROJECT.json` lists these, at their lines, as hazards, each with the properties
that watch it or the reason why none does yet.

## 2. The modules

| module | models | composed with |
|---|---|---|
| `EventBuilder` | `shmdriver` with `datasocket` and the front ends | |
| `EventAssembly` | what the README promises of event building | refined by `EventBuilder` |
| `Fsm` | `fsm::processCommand` by several threads, `addTransition` | |
| `ExServer` | `exServer`, its main loop and readout threads | `INSTANCE Fsm` |
| `JobControl` | `fsmjob` on a host whose processes come and go | `INSTANCE Fsm` |
| `Processors` | `basicwriter` and `monitorProcessor` as `shmdriver` drives them | |
| `ExBuilder` | `exBuilder`: the lives of sockets, builder and registrations | `INSTANCE Fsm` |
| `BaseApplication` | `baseApplication`: CREATE, and SETPARAM beside it | `INSTANCE Fsm` |
| `WebControl` | `fsmwebCaller` and the web server of a `BaseApplication` | `EXTENDS BaseApplication` |
| `FileTailer` | `fileTailer` as `fsmjob`'s JOBLOG uses it | |
| `MCEventBuilder`, `MCFsm`, `MCExServer`, `MCJobControl`, `MCProcessors`, `MCExBuilder`, `MCWebControl` | the instances that TLC runs | |
| `EventBuilder_proof`, `Fsm_proof`, `ExServer_proof`, `JobControl_proof`, `Processors_proof`, `ExBuilder_proof`, `WebControl_proof`, `FileTailer_proof` | theorems | |

An operator that differs from a definition of the code in one place, as a bug
would, is written just before it and called its mutant: it serves to make sure
that a property can fail.

### EventBuilder

One thread runs all of DIM's handlers, so one handler is in progress at most
(`dim`). `StoreData` is `infoHandler` up to the data file, `StoreMarker` the
marker; `StoreFails` the early returns of `store`. The scanner has a program
counter: `List` or `ListMismatch` (the test of the number of files modulo `N`),
`Pull` (up to the unlink of the marker) and `Insert` (the unlink of the data
file, `push_back`, the test of the size and `processEvent`), `EndListing`
(`cleanBufferMap`), and `PurgeList`, `PurgeData`, `PurgeMarker`, `PurgeDone` for
`purgeShm`, whose two unlinks are two steps. `Insert` joins the unlink and what
follows because nothing but the scanner reads the map, and because the DIM
thread can only add to the files the unlink touches. `PullUnreadable` is `pull`
on a file that is gone: the code inserts the new buffer with what its memory
held.

A fragment is a record of its source, event number and crossing: at once the
content of a file and its name, as `shmdriver::name` makes it. Names are taken in
any order. `handed` is a history of the calls of the processors.

Trigger `k` counts the crossings up to `k`; its event number counts from 1 in each run. A
source reads the two counters one after the other (`exServer.cxx:94`), so that its fragment
of trigger `k` may carry another crossing than `k`: any that is not older than in its last
fragment (`Readable`; `MaxSkews` bounds how many do). The sources of an event may then
disagree, which is why `SameTimeTag` is stated for sources that read what belongs together,
and is checked over two runs only, where it fails all the same. DIM delivers what a source
publishes in order; it may deliver the last fragment again (`Publish`): a new subscription
does that, and so does the "no link" call of the handler, which works on the handler's own
buffer (`datasocket.cxx:19`). DIM is not part of this repository, and its behaviour is
modelled from that use.

### Fsm

`processCommand` has five steps for a thread: `Call` finds the transitions of the
command, `Skip` and `Match` walk them, one comparison each; the callback is the time
between `Match` and `Return`; `Assign` and `Publish` are the last two statements.
`Refuse` is the answer FAILED. `_state` is a string without a lock: while another
thread assigns it, a reader may see neither value (`Garbled`), and two writers may
leave such a mix behind.

### ExServer

The state machine is an instance of `Fsm`, whose callbacks get a content: `Start`,
`CreateReader`, `Started` for START, whose loop creates one thread at a time;
`Stop`, `Joined`, and `Destroy` for STOP and HALT. The main thread is `SeesRunning`,
`CountEvent`, `CountCrossing`; a readout thread goes through `SeesEvent`, `TagFirst`,
`TagEnd`, `ReadArgument` (twice, in either order, as C++ allows for arguments),
`PublishFragment`, `TakeLast`, or leaves by `Exit`. A source may have several
readout threads (`Copies`): nothing in the code prevents it but the state machine.

### JobControl

The daemon's callbacks, one step per fork and per kill, and the commands that the
web thread runs in any state, in two or three steps. The host (`Ends`, `Appears`)
ends any process at any time and gives pids to processes that are none of ours. REGISTERFILE tests
the state in one step (`Registerfile`) and clears map and jobs in the next (`RegisterfileJobs`).
A killed process is `dying` until it ends. `fork` succeeds.
`killProcess` erases its entry whatever the signal of the request does to the process
(`Fatal`); the runs are about signals that end it. With one that does not, a process
outlives KILL after one KILLJOB, since no later KILL finds it.

### Processors

`turn` is the loop of `shmdriver::processEvent` over the processors. `Start` is
`shmdriver::start` with `basicwriter::start` and `monitorProcessor::start` (no other
thread of the builder exists yet); `Stop` sets `_running`, and `Join` is the rest of
`stop` once the scan thread, which may hand over several more events, has ended: the
writer sleeps one second and closes its file. `WriteEvent` is the whole
`basicwriter::processEvent`, with the rotation and the `start` it calls
(`OpenFile`), whose `open` may fail. The monitor lists (`MonitorLists`, `MonitorSkips`)
and then stores one buffer at a time (`MonitorStores`) while a consumer reads
(`Take`).

The name of a file is the run and the second of the clock: `open` has neither O_EXCL nor
O_TRUNC, so that a name opened twice is written over from its beginning. A file is the set
of the records that are whole in it, each with its first byte, its `_event`, the event and
its size; a write destroys the records whose bytes it touches and leaves the others where
they are (`Overwrite`), also those behind it, which a reader may still reach if what is
before them is whole records (`Found`). A record is as long as its size and `Header`, the
bytes the writer adds and does not count in `_totalSize`. Sizes are sizes after compression.
The model assumes of the disk that more than `Limit` bytes (1900 MB) are not written to one
file within one second, and of the clock that it does not go back.

### ExBuilder

`EventBuilder` has the details of a run and a constant set of sources; `ExBuilder` has
what the commands do around it, and there `N` is what ADDSOURCES made it. A fragment
is the marker of its file. The callbacks of `exBuilder.cxx` are steps of the command
thread: `Configure`, `AddSource` (once for each source of the list), `Answered`, `Start`, `Stop`,
`Joined`, `Halted`, `Destroy`; the loop that deletes sockets is `DropBuffer` and
`DropInfo`, the two deletes of `~datasocket`, since DIM's thread may be in `infoHandler`
between any two of them (`Receive`, `StoreData`, `StoreMarker`, `StoreFails`). The scanner is
`ScanList`, `ScanPull`, `ScanEnd`, `ScanExit`, coarser than in `EventBuilder`: purging is one
step. `List` is the web command. `dead` says what the process died of: the model
stops there, since the code's behaviour is then undefined.

One operator sends one command at a time, by DIM (whose thread then runs no handler) or by
the web. He may name a source in ADDSOURCES any number of times, in one list or after a
HALT: `socket`, `registered`, the entries of `pool` and the updates `due` are numbers for
each source. `freed` is the source of the socket whose buffer is deleted and whose
subscription is not. `halted` counts the sockets HALT deleted since the builder was made. A
source publishes rising event numbers until it is started anew and begins again (`restarts`;
`renumbered`, if it did so under this builder). `obeyed` records whether the operator kept
to two rules, which nothing in the code enforces: sockets are deleted by DIM commands only
(`Obeys`), and LIST is asked between commands in a state that has a builder (`ObeysList`). A
command that uses a builder that is not there ends the process (`UseBuilder`). A source is
silent before its first publication, and DIM keeps the last publication for a subscription:
both are assumptions on DIM.

### BaseApplication and WebControl

CREATE takes a configuration from one of four places (`LoadFile`, `LoadUrl`, `LoadMongo`,
`LoadNothing`), each of which may fail in its own way: a file that is not there leaves the
last configuration, an HTTP failure is an empty string, and so null, the database gives
`{}`. Then `Missing` or `HostFound`, the walk through the entries of this host (`PassOver`,
`TakeParameter`, `NoneLeft`), `Answer` and `UserCreate`. Two threads may be in it at once. A
configuration is whether it lists this host, and the entries of this host: name, port,
instance and parameters. Assigning `_jConfig` or `_jParam` is one step; a file of which only
a part can be parsed counts as some document.

`WebControl` adds a caller in another process. A question is on the network, in the
server, or answered; `Fails` may strike at each of these moments, and the server goes on
all the same (`Command("web")`). `told` is `_answer`: what the caller knows.

### FileTailer

A step is one character of the file: `Store`, `StoreNewline`, or `GiveUp` when there is no
room. A character is its position, so that the properties can say which characters
of the file are in the buffer. `buff` starts with junk, as an array on the stack does.
Then `CopyLine`, once for each entry of `lines`, fills `buf`.
A JOBLOG for no line at all, or of a log that does not exist, is undefined in the code
(`lines[-1]`, `getc(NULL)`) and left out, as is `sprintf` of a line that contains a
format.

## 3. The runs

All complete with 2 workers in about two minutes or less; the largest, ExBuilderOneOperator,
has 3.0 million states.

| run | instance | what it shows |
|---|---|---|
| EventBuilderOneRun | 2 sources, 3 triggers, 1 run, 1 fragment with a crossing of its own | an event has one buffer of each source; a fragment is in one place (`Custody`); only late entries are dropped; the builder implements `EventAssembly` |
| EventBuilderAnyRun | 2 sources, 2 triggers, 2 runs, 1 redelivery, 1 unread buffer | what remains true without those assumptions: `HandedByNumber`, `NoneWaits`; and, until a marker is left without its file, stored files are consumed and `stop` returns |
| EventBuilderTwoRuns | 2 runs | *violation*: an event with buffers of two crossings |
| FsmTwoThreads | 2 threads, the 4 commands of the server and an unknown one | the published state is the machine's, and every call is answered, whatever the interleaving |
| ExServerOneThread | 1 command thread, 1 source, up to 2 threads on it, 3 events, 2 runs | each publication has a newer number than the last of its source in the run, and no earlier crossing; a header is never older than its payload; threads and sources live together; STOP and HALT return |
| JobControlOneThread | 1 client, 2 jobs, 3 pids | every child is in the map; none lives outside of RUNNING; nothing is deleted unkilled; no job runs twice |
| ProcessorsWriterFirst | 2 runs of one number, 5 events of sizes 1 and 3 with a header of 1, rotation above 3, 5 seconds, a monitor that skips above one event's fragments | the files of a run hold its events once and in order, unless an open failed or two opens of the run fell into one second; the records of a name opened once are all found, and numbered without gaps; the total, the descriptors and the monitor's directory are bounded |
| ProcessorsSecondRun | the same, 4 events | *violation*: without the condition on the clock an event of the second run is lost |
| ExBuilderOneOperator | 2 sources, 2 event numbers, 1 restart of the numbers, 2 registrations (of both sources, or twice of one), any sequence of commands | an operator who keeps the rules meets no division by zero and no deleted object; registrations are the sockets and those HALT deleted; no fragment of a source registered once is read into an entry that has one |
| FileTailerLogs | files of up to 9 characters with newlines anywhere, 1 to 3 lines, buffers of 2, 3, 5, 7, 8 characters | the last lines are intact in the buffer at any moment; it gives up only when they do not fit; unwrapped lines are printed |
| FileTailerWrapped | the same | *violation*: a wrapped line is printed with its first part twice |
| WebControlCaller | 3 configurations, one SETPARAM, 2 threads, one caller that may ask again | what the caller is told is what happened |

**The bounds and why they are enough.** Two sources are the least for which the number of
files can fail to be a multiple of `N`, and for which an event can mix sources; three
triggers let one entry grow older than `Delay` = 1 with a complete event after it. One
fragment with another crossing makes the sources of an event disagree, also when its entry's
age is measured. `AnyRun` has two triggers, two runs, one redelivery and a `Delay` of 0: an
event number that comes back needs two runs with one trigger each. The properties of
`EventBuilder` that matter are proved for all bounds (section 5). Two threads are what a
process has. In `ExServer` three events let a thread look late twice in one run; two runs
make the event number go back. In `JobControl` three pids for two jobs are enough for both
to live while one pid is taken by a stranger, and for a restarted job to get the pid of an
entry nobody removed. In `Processors` two runs show what is carried from one to the next,
and five events of two sizes are enough for a rotation in each run, or in one with events
before and after it, and for a large record to be written over two small ones of three; both
runs have the same number, which makes names as likely to collide as they can be. In
`ExBuilder` two sources make a number of files that is no multiple of `N`, and two events
let an old entry meet a complete younger one; two registrations are a source named twice, or
a HALT between them; nothing bounds the number of commands. What follows a broken rule is
explored with one registration at most and no restart of the numbers (`Explored`, the
constraint of its run): the properties that still say something there are `TypeOK` and
`RegisteredIsSubscribed`, which are proved. In `FileTailer` buffers of 2 to 8 characters and
files of 9 give lines that fit exactly, wrap, wrap onto the oldest line, and do not fit. In
`WebControl` the configurations hold entries that differ from the process in its port only,
and in its instance only, entries without parameters, and two with.

**Violations** are checked alone, each against a sentence of the README or of a
comment that the code does not keep; `PROJECT.json` quotes them. None of them is
an artefact of a bound: each counterexample is a sequence of steps of the program.
FileTailerWrapped is a slip of an index (`fileTailer.cxx:157-159`); the buffer itself
has the whole line, as FileTailerLogs shows. ProcessorsSecondRun is a
bug without any doubt: `_totalSize` is reset by a rotation and by nothing else, so a
second run begins with the total of the first, may rotate with its first event, and
when that happens in the second of its START the writer opens, by the same name, the
file it has just closed, and overwrites it.

## 4. Fairness

Weak fairness only, and only for threads that are running: the handler that has
begun to store, the scanner, the thread in `join_all` (`EventBuilder`); a thread in
`processCommand` (`Fsm`); command threads and readout threads (`ExServer`). Each of
them is a loop or straight-line code without a lock, and the operating system
schedules it. Nothing obliges anybody to send a command, the front ends to trigger,
or the main thread of the example to count. Weak fairness of the scanner as a
whole is enough: at each moment one of its steps is enabled until it is taken, save
at the top of its loop with no file. `EventBuilder` runs do not check deadlock: a
stopped builder at its bounds has nothing to do; neither do the runs of `Processors`,
which stop at the bound of the clock, of `ExBuilder`, which stop when the process is dead,
and of `FileTailer`, which end. In the other models some step is always possible.
`curlQuery` sets no timeout, so nothing obliges a question of `WebControl` to end, and no
liveness is claimed of it.

## 5. What is proved

TLAPS proves, for every value of the constants:

* `EventBuilder_proof`, from the assumptions named in `EventBuilder` (there is at
  least one source, finitely many; bounds are naturals):
  * `TypeCorrect`; it carries the facts on the scanner's program counter, such as
    that a buffer is in hand exactly between two halves of a step.
  * `NoneWaitsAlways` and `HandedByNumberAlways`: inductive together. An entry never
    reaches `N` buffers and stays, since the size is tested after each `push_back`;
    hence equality in that test is as good as an inequality.
  * `CustodyAlways` and `OneFragmentPerSourceAlways`, for one run in which DIM delivers each
    fragment once (`OneRun`), whatever crossings the sources read. The strengthening is
    `Custody`: a source delivers one fragment for an event number, everything on disk, in
    the map or handed over was delivered, each is in one place and there once, and what the
    scanner has listed can still be read. Without the last two parts a buffer could be
    counted twice, and the count of buffers would not be a count of sources. The theorem
    then counts: `N` distinct buffers of one event number, each the only one its source
    delivered, have `N` distinct sources, which are all of them. `OneRun` is needed: one
    redelivery (`MaxResends = 1`) violates `OneFragmentPerSource`, and so does a second run.
    Of crossings nothing is proved: `SameTimeTag` holds of no run in which a source may read
    another crossing, and of two runs not even otherwise (EventBuilderTwoRuns).
  * `DropsOnlyLateAlways`, under `OneRun`, from `TimeOfEvent`: the time that the cleaning
    compares with is that of an event that was handed over. Event 0 would break it, since its
    completion sets the time and nothing is handed over; `Custody` excludes it.
  * `ImplementsAssemblyAlways`, under `OneRun`: each step of the builder is a step of
    `EventAssembly` or leaves `pool` and `built` unchanged, where the pool is what is
    marked on disk, in the scanner's hand or in the map.
* `Fsm_proof`: `TypeCorrect`; `PublishedIsStateAlways`, for any number of threads (it is
  inductive once types are known: a publication that could send a stale or a torn string
  leaves some thread between assignment and publication); `AddedKeepsTables`: what
  `addTransition` builds satisfies `TableAssumption`.
* `ExServer_proof`: `ImplementsMachine`, the server implements `Fsm` with the constructor's
  table; and through it `PublishedIsStateAlways`, for any number of threads. `TypeCorrect`
  holds for any finite set of threads. For a server with one client,
  `ReadersHaveSourcesAlways`, `OneReaderPerSourceAlways`, `HeaderNotOlderAlways` and
  `NumbersIncreaseAlways`, for any sources, number of events and of runs. Their invariant
  has two halves. `Commanded` follows the client: `_running` says where its transition ends
  as soon as the callback has set it (`RunFlag`), threads are gone when it is false and the
  join is over (`Gone`), and what START has still to create a thread for has none
  (`ToCreate`). `ReadOut` follows a thread through `readdata`: the number goes back to 0
  only while no thread is there, so that what is read later is not older (`Tags`), and
  `last_evt` is not older than what was sent in this run (`Order`). `NumbersIncrease` is
  about the step that publishes, so that a publication like the last one would break it.
  With two clients the first two fail (section 6).

* `JobControl_proof`: `ChildrenAreKnownAlways`, `NoEntryUnlessRunningAlways`,
  `NoChildUnlessRunningAlways` and `OneProcessPerJobAlways`, for any sets of jobs and pids,
  under `OneClient`: one thread gives the commands, and a signal ends the process it
  reaches. The invariant (`IInv`) follows the thread: the map has entries only in RUNNING and
  within START and KILL; while KILL runs, what is left in the map is on its list; a job has one
  entry, which is that of its process; and of a job about to be forked nothing is left, in
  the map or on the host. `NoChildUnlessRunning` then follows from an empty map and from
  `ChildrenAreKnown`. Neither half of `OneClient` can go: on the
  instance of JobControlOneThread, a second thread violates each of the four, and a signal that
  a process may survive (`Fatal = {TRUE, FALSE}`) all but `NoEntryUnlessRunning`.
  Without `OneClient`, for any number of threads: `TypeCorrect`, `ImplementsMachine`, so
  that the commands outside of the machine never write its state, and `PublishedIsStateAlways`.

* `Processors_proof`: `TypeCorrect`, `OneDescriptorAlways`, `FileNumbersAlways` and
  `MonitorBoundedAlways`, for any order of the processors, sizes, limit and backlog. They
  are inductive together with three facts: an event is in hand during a run only; the
  monitor stores only while it has the event; and the bytes of the writer's file, up to its
  descriptor, are those of whole records numbered up to `_event`, if its name was opened
  once (`Position`, `Whole`), without which a record would be written after a hole. Of a
  name opened twice `FileNumbers` says nothing: a record as long as two old ones leaves the
  third, whose number is then one too high. `CleanRunIsOnDiskAlways` needs to know which
  files can have one name (`Names`): those of different runs cannot, since `stop` sleeps for
  a second, and those of a run only if two opens fell into one; and that the writer of a run
  in which this did not happen is at the end of its file (`Writing`).

* `ExBuilder_proof`, for any finite set of sources:
  * `RegisteredIsSubscribedAlways`. Between commands says too little to be inductive: the
    invariant keeps the account while there is a builder, in the middle of ADDSOURCES and of
    HALT's loop too (`Count`), and says where in a command there is one (`HasBuilder`); one
    thread at most is in a command (`OneCommand`), since the operator sends one at a time.
  * `TypeCorrect`, `RulesKeepItAliveAlways` and `EachFragmentOnceAlways`. The scanner runs
    only between START and the join of STOP or HALT; a socket is half deleted only within a
    deletion loop; and under the rules the thread that deletes sockets is DIM's, which is
    then not in `infoHandler`, so that nobody stores into what is gone. For
    `EachFragmentOnce` a marker implies a registration, and what was stored of a source that
    is registered once is older than the update in hand, and that older than the one to come
    (`Fresh`).
  * `ImplementsMachine` and `PublishedIsStateAlways`, as for the other users of `Fsm`.
* `WebControl_proof`: `ToldIsDoneAlways`, for any documents: the invariant says what each
  answer on its way, in the web thread's hand, in the reply or with the caller, tells of the
  application, and that a CREATE that is alone takes the machine from VOID to CREATED, where
  it stays. `StepsAreTheMachines`: each step is one of `Fsm` or leaves the machine alone.
  The initial state is not one of `Fsm`: the constructor sets VOID after CREATED was
  published.
* `FileTailer_proof`, for files of any length, any number of lines and any buffer:
  * `TypeCorrect`, that is, no write outside of an array; the part that makes it inductive
    is that a line was begun whenever the next character does not begin one.
  * `HoldsLastLinesAlways` and `GivesUpOnlyIfFullAlways`. The invariant (`Ring`) gives each kept
    line its place in the ring: how far its start is behind `buffp` is the number of
    characters, and of string ends, from there on (`Behind`), and that determines the slot, since at
    most one slot is lost where a lap ends (`skip`). What `testForRoom` adds is that `buffp` never
    reaches the oldest line of the lap before, so that a write disturbs no string. When it
    refuses, the oldest line is a whole lap behind but for one slot, and that is `Needed`.
  * `PrintsLastLinesAlways`: the entries gone through so far are printed, one after the
    other (`Printing`). No entry is left out because `buf` is full: all the lines kept
    were in the buffer at once (`Fits`), and `buf` is as large.

Only model-checked: the liveness properties (`StoredIsConsumed`, `StopReturns`,
`EveryCallAnswered`, `CommandsReturn`), since liveness under fairness and ENABLED are
out of the prover's reach. Every other property of the passing runs is a theorem; where a
theorem has a condition (`OneRun`, `OneClient`, one thread), it is that of the run.

## 6. How the parts fit, and what the checks say of the whole

`EventBuilder` assumes that every source publishes a fragment for every trigger, in order.
`ExServer` shows what the example front end gives: numbers increase within a run
(`NumbersIncrease`), and tags are not newer than headers (`HeaderNotOlder`), but numbers may
be left out: `last_evt=_event` is read after the publication (`TakeLast`), and START creates
its threads half a second apart. A fragment that is never published is, for the builder, one
that `StoreFails` lost: its event is never completed, waits in the map until a later event
is old enough, and no other event suffers; so safety of `EventBuilder` covers it. Conversely
two readout threads on a source, which two STARTs at once by DIM and by the web create
(`ExServer` with two command threads violates `OneReaderPerSource`), publish the same number
twice: a redelivery, and an event with two buffers of one source. `Processors` takes any
sequence of events that `EventBuilder` may hand over (`handed`): it asks nothing of their
numbers. Nor do numbers and crossings of one server match: `NumbersIncrease` says that
neither goes back, and no more; that is the skew `EventBuilder` admits.

`ExBuilder` says when `EventBuilder` may take for granted that the number of sources is the
number of those that send. `RegisteredIsSubscribed` is an exact account: the builder counts
the sockets there are, and those HALT deleted. So the number is right until a source is
named twice, or a HALT: HALT deletes the sockets and keeps the registrations, and CONFIGURED
is where it leads, so ADDSOURCES registers every source a second time, `N` is twice the
number of sources, and no event is complete before a DESTROY and a CONFIGURE. And
`EachFragmentOnce` says when a new subscription, or a builder configured anew, does not make
a fragment come twice: of a source named once, whose numbers did not begin anew. Neither
condition can go: the two sockets of a source named twice store each fragment, one after the
other, under one name, and if the scanner reads it between them the entry gets it twice
(with three event numbers TLC finds it); and a source that is started anew sends numbers the
map of the builder still has, which EventBuilderTwoRuns shows in detail. Without the rules
of the operator TLC finds the others: a CONFIGURE by the web while DIM's thread stores a
fragment, after which the buffer is gone, or the file arrives after the directory was purged
and a START without sources divides by zero; a LIST before the first CONFIGURE, or during
DESTROY.

In `JobControl` two clients at once break `NoChildUnlessRunning`: RESTARTJOB by the web, in any
state, forks a process that a KILL in progress no longer sees. A machine that is
refused a command is not a machine that did nothing (`ToldIsDone`): a caller whose reply was
lost is refused when it asks again, and an application whose CREATE failed is CREATED, so
that the error is told once and a second CREATE is refused.

## 7. What is not modelled, and the plan

Not modelled: the JSON of messages and configurations, the URL encoding, MongoDB beyond what
a query may answer, wget (pure input and output); zlib; the payload beyond its tags;
formatting and logging; what the child of `fork` does before `execve`, and a `fork` that
fails; `processEvents` and `processRunHeader` of `shmdriver`, which `start` no longer calls;
`fsmClient` and `findTail`, which no program of the repository uses; the programs of
`test/`, of which `dummyServer` repeats `exServer`; the command line `jobc.py`, a client
whose requests are the commands of `JobControl`.

The modules of the first plan are all written. What would add most next, in this order:

1. The descriptors JOBLOG leaves open, as a resource of `JobControl`.
2. A `fork` that fails, whose -1 becomes the pid of a RUNNING process.
3. Proofs for the event builder over several runs: what remains of `Custody` when
   `start` keeps the map of the run before.
