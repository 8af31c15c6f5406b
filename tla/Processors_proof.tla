--------------------------- MODULE Processors_proof ---------------------------
(***************************************************************************)
(* Proofs about the processors of an event builder (Processors), for every *)
(* order of registration, number of sources, set of sizes and limit: types *)
(* and bounds, the numbering of the records of a name that was opened      *)
(* once, and that a run whose files were opened, none within the second of *)
(* the one before it, is on disk.                                          *)
(***************************************************************************)
EXTENDS Processors, SequenceTheorems, TLAPS

\* A byte of the file is one of a whole record.
Covered(records, byte) == \E q \in records : q.at <= byte /\ byte < End(q)

\* What FileNumbers says of the records of a file.
Numbered(records) ==
    /\ \A r \in records : \A byte \in 0..(r.at - 1) : Covered(records, byte)
    /\ \A q, r \in records : q.at < r.at => q.num < r.num
    /\ \A r \in records : \A n \in 0..r.num : \E q \in records : q.num = n

\* The bytes of a file, up to one of them, are those of so many records.
Whole(records, bytes, count) ==
    /\ \A r \in records : End(r) <= bytes /\ r.num < count
    /\ \A n \in 0..(count - 1) : \E r \in records : r.num = n
    /\ \A byte \in 0..(bytes - 1) : Covered(records, byte)

LEMMA RecordTypes ==
    ASSUME NEW r \in Records
    PROVE  /\ r.at \in Nat /\ r.num \in Nat /\ r.evt \in Nat /\ r.size \in Nat /\ r.size > 0
           /\ End(r) \in Nat /\ r.at < End(r) /\ End(r) = r.at + Header + r.size
<1>1. r.at \in Nat /\ r.num \in Nat /\ r.evt \in Nat /\ r.size \in Sizes
  BY DEF Records
<1>2. r.size \in Nat /\ r.size > 0 /\ Header \in Nat
  <2>1. Sizes \subseteq Nat \ {0} /\ Header \in Nat
    BY ProcessorsAssumption
  <2>2. \A n \in Nat \ {0} : n \in Nat /\ n > 0
    OBVIOUS
  <2>3. QED
    BY <1>1, <2>1, <2>2
<1>3. End(r) = r.at + Header + r.size
  BY DEF End
<1>4. \A a, h, s \in Nat : s > 0 => a + h + s \in Nat /\ a < a + h + s
  OBVIOUS
<1>5. End(r) \in Nat /\ r.at < End(r)
  BY <1>1, <1>2, <1>3, <1>4
<1>6. QED
  BY <1>1, <1>2, <1>3, <1>5

\* A record that is written at the end of a file joins those that are there, and
\* the numbering goes on.
LEMMA AppendRecord ==
    ASSUME NEW records \in SUBSET Records, NEW bytes \in Nat, NEW count \in Nat,
           Whole(records, bytes, count), Numbered(records),
           NEW new \in Records, new.at = bytes, new.num = count
    PROVE  /\ Overwrite(records, new) = records \cup {new}
           /\ Whole(records \cup {new}, bytes + Header + new.size, count + 1)
           /\ Numbered(records \cup {new})
           /\ \A r \in records : r.at < new.at
<1>1. /\ End(new) \in Nat /\ bytes < End(new) /\ End(new) = bytes + Header + new.size
      /\ new.size \in Nat /\ Header \in Nat
  BY RecordTypes, ProcessorsAssumption
<1>2. \A r \in records : /\ r.at \in Nat /\ r.num \in Nat /\ End(r) \in Nat /\ r.at < End(r)
                         /\ End(r) <= bytes /\ r.num < count
  BY RecordTypes DEF Whole
<1>3. Overwrite(records, new) = records \cup {new}
  BY <1>2 DEF Overwrite
<1>4. \A byte \in 0..(bytes - 1) : Covered(records \cup {new}, byte)
  BY DEF Whole, Covered
<1>5. \A byte \in bytes..(End(new) - 1) : Covered(records \cup {new}, byte)
  BY <1>1 DEF Covered
<1>6. Whole(records \cup {new}, End(new), count + 1)
  <2>1. \A r \in records \cup {new} : End(r) <= End(new) /\ r.num < count + 1
    BY <1>1, <1>2
  <2>2. \A n \in 0..(count + 1 - 1) : \E r \in records \cup {new} : r.num = n
    <3>1. \A n \in 0..(count + 1 - 1) : n = count \/ n \in 0..(count - 1)
      OBVIOUS
    <3>2. QED
      BY <3>1 DEF Whole
  <2>3. \A byte \in 0..(End(new) - 1) : byte \in 0..(bytes - 1) \/ byte \in bytes..(End(new) - 1)
    BY <1>1
  <2>4. \A byte \in 0..(End(new) - 1) : Covered(records \cup {new}, byte)
    BY <1>4, <1>5, <2>3
  <2>5. QED
    BY <2>1, <2>2, <2>4 DEF Whole
<1>7. Numbered(records \cup {new})
  <2>1. ASSUME NEW r \in records \cup {new}, NEW byte \in 0..(r.at - 1)
        PROVE  Covered(records \cup {new}, byte)
    <3>1. r.at <= bytes /\ r.at \in Nat
      BY <1>2
    <3>2. byte \in 0..(bytes - 1)
      BY <3>1
    <3>3. QED
      BY <1>4, <3>2
  <2>2. \A q, r \in records \cup {new} : q.at < r.at => q.num < r.num
    BY <1>2 DEF Numbered
  <2>3. ASSUME NEW r \in records \cup {new}, NEW n \in 0..r.num
        PROVE  \E q \in records \cup {new} : q.num = n
    <3>1. CASE r = new /\ n = count
      BY <3>1
    <3>2. CASE r = new /\ n # count
      <4>1. n \in 0..(count - 1)
        BY <3>2
      <4>2. QED
        BY <4>1 DEF Whole
    <3>3. CASE r \in records
      BY <3>3 DEF Numbered
    <3>4. QED
      BY <3>1, <3>2, <3>3
  <2>4. QED
    BY <2>1, <2>2, <2>3 DEF Numbered
<1>8. QED
  BY <1>1, <1>2, <1>3, <1>6, <1>7

LEMMA NumbersAreNumbered ==
    /\ FileNumbers <=> \A name \in FileNames : OpenedOnce(name) => Numbered(disk[name])
    /\ FileNumbers' <=> \A name \in FileNames : OpenedOnce(name)' => Numbered(disk'[name])
  BY DEF FileNumbers, Numbered, Found, Covered

\* Of a file that is numbered a reader finds all.
LEMMA NumberedIsFound ==
    ASSUME NEW name
    PROVE  /\ Numbered(disk[name]) => Found(name) = disk[name]
           /\ Numbered(disk'[name]) => Found(name)' = disk'[name]
  BY DEF Numbered, Found, Covered

\* A name that is opened once was opened before or is the one that is opened now.
LEMMA OpenedOnceOnly ==
    ASSUME TypeOK, NEW e, opened' = Append(opened, e), NEW name, OpenedOnce(name)'
    PROVE  /\ OpenedOnce(name)
           /\ e.name = name => \A f \in 1..Len(opened) : opened[f].name # name
<1>1. opened \in Seq([start : 1..MaxStarts, name : FileNames])
  BY DEF TypeOK
<1>2. PICK L \in Nat : L = Len(opened)
  BY <1>1
<1>3. /\ Len(opened') = L + 1 /\ opened'[L + 1] = e
      /\ \A f \in 1..L : opened'[f] = opened[f]
  BY <1>1, <1>2
<1>4. \A f \in 1..L : f \in 1..(L + 1) /\ f # L + 1
  BY <1>2
<1>5. \A f, g \in 1..(L + 1) : opened'[f].name = name /\ opened'[g].name = name => f = g
  BY <1>3 DEF OpenedOnce
<1>6. OpenedOnce(name)
  BY <1>2, <1>3, <1>4, <1>5 DEF OpenedOnce
<1>7. ASSUME e.name = name, NEW f \in 1..Len(opened) PROVE opened[f].name # name
  <2>1. L + 1 \in 1..(L + 1)
    BY <1>2
  <2>2. QED
    BY <1>2, <1>3, <1>4, <1>5, <1>7, <2>1
<1>8. QED
  BY <1>6, <1>7

-----------------------------------------------------------------------------

\* An event is in hand only while a run lasts, and then there was a START with
\* one of the run numbers.
DuringRun ==
    /\ turn > 0 => ctl # "stopped"
    /\ ctl # "stopped" => starts > 0 /\ run \in Runs

\* What is on disk is in a file that was opened. The writer's file is the last that
\* was, and if its name was not opened before, the descriptor is at its end.
Position ==
    /\ \A name \in FileNames : disk[name] # {} =>
          \E f \in 1..Len(opened) : opened[f].name = name
    /\ file # NoFile =>
          /\ Len(opened) > 0 /\ opened[Len(opened)].name = file
          /\ OpenedOnce(file) => Whole(disk[file], offset, event)

\* The monitor stores while it has the event.
Storing == left > 0 => Has("monitor")

Inv == TypeOK /\ DuringRun /\ Storing /\ Position /\ OneDescriptor /\ FileNumbers /\ MonitorBounded

LEMMA InitInv == Init => Inv
<1> SUFFICES ASSUME Init PROVE Inv
  OBVIOUS
<1> USE ProcessorsAssumption, BoundsAssumption
<1>1. disk \in [FileNames -> SUBSET Records] /\ \A name \in FileNames : disk[name] = {}
  BY DEF Init
<1>2. TypeOK
  <2>1. Len(Order) = 2
    OBVIOUS
  <2>2. opened \in Seq([start : 1..MaxStarts, name : FileNames])
        /\ given \in Seq(1..MaxStarts) /\ Len(given) <= MaxEvents
    BY DEF Init
  <2>3. /\ now \in 0..MaxTime /\ ctl \in {"stopped", "running", "stopping"}
        /\ turn \in 0..Len(Order)
        /\ run \in Nat /\ file \in FileNames \cup {NoFile}
    BY <2>1 DEF Init
  <2>4. /\ fds \in Nat /\ offset \in Nat /\ event \in Nat /\ total \in 0..Limit
        /\ left \in 0..N /\ backlog \in Nat
        /\ starts \in 0..MaxStarts
        /\ failed \subseteq 1..MaxStarts /\ hasty \subseteq 1..MaxStarts
    BY DEF Init
  <2>6. started \in BOOLEAN /\ watching \in BOOLEAN
    BY Zenon DEF Init
  <2>5. QED
    BY <1>1, <2>2, <2>3, <2>4, <2>6, Zenon DEF TypeOK
<1>3. FileNumbers
  BY <1>1 DEF FileNumbers
<1>4. DuringRun /\ Storing /\ Position /\ OneDescriptor
  BY <1>1 DEF Init, DuringRun, Storing, Position, OneDescriptor
<1>5. MonitorBounded
  <2>1. (Backlog + 1) * N \in Nat
    OBVIOUS
  <2>2. QED
    BY <2>1 DEF Init, MonitorBounded
<1>6. QED
  BY <1>2, <1>3, <1>4, <1>5 DEF Inv

\* What an open, successful or not, does to the writer.
LEMMA OpenKeepsTypes ==
    ASSUME TypeOK, NEW r \in Runs, NEW s \in 1..MaxStarts, NEW held \in Nat,
           NEW count \in Nat, OpenFile(r, s, held, count)
    PROVE  /\ run' = r /\ run' \in Nat
           /\ started' \in BOOLEAN
           /\ \/ file' = NoFile /\ fds' = held
              \/ file' \in FileNames /\ file' # NoFile /\ fds' = held + 1 /\ event' = 0
           /\ event' \in Nat /\ fds' \in Nat /\ offset' \in Nat
           /\ opened' \in Seq([start : 1..MaxStarts, name : FileNames])
           /\ failed' \subseteq 1..MaxStarts
<1> USE ProcessorsAssumption, BoundsAssumption
<1>0. run' = r /\ r \in Nat /\ offset' \in Nat
  BY DEF OpenFile
<1>1. CASE /\ file' = [run |-> r, at |-> now]
           /\ fds' = held + 1
           /\ event' = 0
           /\ started' = TRUE
           /\ opened' = Append(opened, [start |-> s, name |-> file'])
           /\ UNCHANGED failed
  <2>1. file' \in FileNames /\ file' # NoFile
    BY <1>1 DEF TypeOK, FileNames
  <2>2. [start |-> s, name |-> file'] \in [start : 1..MaxStarts, name : FileNames]
    BY <2>1
  <2>3. opened' \in Seq([start : 1..MaxStarts, name : FileNames])
    BY <1>1, <2>2 DEF TypeOK
  <2>4. QED
    BY <1>0, <1>1, <2>1, <2>3 DEF TypeOK
<1>2. CASE /\ file' = NoFile
           /\ fds' = held
           /\ event' = count
           /\ failed' = failed \cup {s}
           /\ UNCHANGED <<started, opened>>
  BY <1>0, <1>2 DEF TypeOK
<1>3. QED
  BY <1>1, <1>2 DEF OpenFile

\* A file that is opened, whatever was written before, is empty or its name is not
\* opened once any more.
LEMMA OpenKeepsFiles ==
    ASSUME TypeOK, NEW r \in Runs, NEW s \in 1..MaxStarts, NEW held \in Nat,
           NEW count \in Nat, OpenFile(r, s, held, count),
           disk' \in [FileNames -> SUBSET Records],
           \A name \in FileNames : disk'[name] # {} =>
              \E f \in 1..Len(opened) : opened[f].name = name,
           \A name \in FileNames : OpenedOnce(name) => Numbered(disk'[name])
    PROVE  Position' /\ FileNumbers'
<1> USE BoundsAssumption
<1>1. CASE /\ file' = [run |-> r, at |-> now]
           /\ event' = 0
           /\ opened' = Append(opened, [start |-> s, name |-> file'])
           /\ offset' = 0
  <2>1. PICK name : name = file'
    OBVIOUS
  <2>2. PICK e : e = [start |-> s, name |-> name]
    OBVIOUS
  <2>3. name \in FileNames /\ e.name = name /\ opened' = Append(opened, e)
    BY <1>1, <2>1, <2>2 DEF TypeOK, FileNames
  <2>4. FileNumbers'
    BY <2>3, OpenedOnceOnly, NumbersAreNumbered
  <2>5. /\ Len(opened) \in Nat /\ Len(opened') = Len(opened) + 1
        /\ opened'[Len(opened) + 1] = e
        /\ \A f \in 1..Len(opened) : opened'[f] = opened[f]
    <3>1. opened \in Seq([start : 1..MaxStarts, name : FileNames])
      BY DEF TypeOK
    <3>2. QED
      BY <2>3, <3>1
  <2>6. ASSUME NEW other \in FileNames, disk'[other] # {}
        PROVE  \E f \in 1..Len(opened') : opened'[f].name = other
    <3>1. PICK f \in 1..Len(opened) : opened[f].name = other
      BY <2>6
    <3>2. f \in 1..Len(opened') /\ opened'[f].name = other
      BY <2>5, <3>1
    <3>3. QED
      BY <3>2
  <2>7. Len(opened') > 0 /\ opened'[Len(opened')].name = name
    BY <2>3, <2>5
  <2>8. ASSUME OpenedOnce(name)' PROVE Whole(disk'[name], offset', event')
    <3>1. \A f \in 1..Len(opened) : opened[f].name # name
      BY <2>3, <2>8, OpenedOnceOnly
    <3>2. disk'[name] = {}
      BY <2>3, <3>1
    <3>3. Whole({}, 0, 0)
      BY DEF Whole
    <3>4. QED
      BY <1>1, <3>2, <3>3
  <2>9. Position'
    BY <2>1, <2>6, <2>7, <2>8 DEF Position, OpenedOnce
  <2>10. QED
    BY <2>4, <2>9
<1>2. CASE file' = NoFile /\ UNCHANGED opened
  <2>1. FileNumbers'
    BY <1>2, NumbersAreNumbered DEF OpenedOnce
  <2>2. QED
    BY <1>2, <2>1 DEF Position
<1>3. QED
  BY <1>1, <1>2 DEF OpenFile

\* The steps of the other processor, of the clock and of the consumer: the
\* writer's variables and the builder's runs stay as they are.
LEMMA OthersKeepInv ==
    ASSUME Inv, UNCHANGED writerVars, UNCHANGED history, UNCHANGED ctl,
           now' \in 0..MaxTime, turn' \in 0..Len(Order), turn' > 0 => turn > 0,
           watching' \in BOOLEAN, left' \in 0..N, backlog' \in Nat, MonitorBounded', Storing'
    PROVE  Inv'
<1>1. TypeOK'
  BY Zenon DEF Inv, TypeOK, writerVars, history
<1>2. /\ disk' = disk /\ opened' = opened /\ file' = file /\ offset' = offset
      /\ event' = event /\ fds' = fds /\ run' = run /\ starts' = starts
  BY Zenon DEF writerVars, history
<1>3. DuringRun'
  BY <1>2, Zenon DEF Inv, DuringRun
<1>4. Position'
  BY <1>2, Zenon DEF Inv, Position, OpenedOnce
<1>5. OneDescriptor'
  BY <1>2, Zenon DEF Inv, OneDescriptor
<1>6. FileNumbers'
  BY <1>2, Zenon DEF Inv, FileNumbers, OpenedOnce, Found
<1>7. QED
  BY <1>1, <1>3, <1>4, <1>5, <1>6 DEF Inv

LEMMA TurnTypes ==
    ASSUME Inv, turn > 0
    PROVE  NextTurn \in 0..Len(Order)
<1>1. Len(Order) = 2
  BY ProcessorsAssumption
<1>2. QED
  BY <1>1 DEF Inv, TypeOK, NextTurn

LEMMA StepOthers ==
    ASSUME Inv, WriterSkips \/ MonitorSkips \/ MonitorLists \/ MonitorStores \/ Tick \/ Take
    PROVE  Inv'
<1> USE ProcessorsAssumption, BoundsAssumption
<1> DEFINE cap == (Backlog + 1) * N
<1>0. /\ now \in 0..MaxTime /\ turn \in 0..Len(Order) /\ watching \in BOOLEAN
      /\ left \in 0..N /\ backlog \in Nat /\ N \in Nat /\ Backlog \in Nat
  BY Zenon DEF Inv, TypeOK
<1>1. cap \in Nat /\ cap = Backlog * N + N /\ Backlog * N \in Nat
  BY <1>0
<1>2. backlog + left <= cap
  BY DEF Inv, MonitorBounded
<1>3. MonitorBounded' <=> backlog' + left' <= cap
  BY DEF MonitorBounded
<1> HIDE DEF cap
<1>4. Storing
  BY DEF Inv
<1>5. Has("writer") => ~Has("monitor")
  BY DEF Has
<1>6. CASE WriterSkips \/ MonitorSkips
  <2>1. turn' \in 0..Len(Order) /\ turn > 0
    BY <1>6, TurnTypes DEF WriterSkips, MonitorSkips, Has
  <2>2. UNCHANGED <<now, ctl, writerVars, monitorVars, history>>
    BY <1>6, Zenon DEF WriterSkips, MonitorSkips
  <2>3. MonitorBounded'
    BY <1>2, <1>3, <2>2 DEF monitorVars
  <2>4. left = 0
    BY <1>0, <1>4, <1>5, <1>6 DEF WriterSkips, MonitorSkips, Storing
  <2>5. Storing'
    BY <2>2, <2>4 DEF Storing, monitorVars
  <2>6. QED
    BY <1>0, <2>1, <2>2, <2>3, <2>5, OthersKeepInv, Zenon DEF monitorVars
<1>7. CASE MonitorLists
  <2>1. left' = N /\ UNCHANGED <<builderVars, writerVars, watching, backlog, history>>
    BY <1>7 DEF MonitorLists
  <2>2. N \in 0..N
    BY <1>0
  <2>3. MonitorBounded'
    BY <1>0, <1>1, <1>3, <1>7 DEF MonitorLists
  <2>4. Storing'
    BY <1>7, <2>1 DEF MonitorLists, Storing, Has, builderVars
  <2>5. QED
    BY <1>0, <2>1, <2>2, <2>3, <2>4, OthersKeepInv, Zenon DEF builderVars
<1>8. CASE MonitorStores
  <2>1. left' = left - 1 /\ left > 0 /\ (backlog' = backlog \/ backlog' = backlog + 1)
    BY <1>8 DEF MonitorStores
  <2>2. left' \in 0..N /\ backlog' \in Nat /\ MonitorBounded'
    BY <1>0, <1>1, <1>2, <1>3, <2>1
  <2>3. Has("monitor") /\ turn > 0
    BY <1>4, <2>1 DEF Storing, Has
  <2>4. turn' \in 0..Len(Order)
    BY <1>0, <1>8, <2>3, TurnTypes DEF MonitorStores
  <2>5. Storing'
    BY <1>0, <1>8, <2>1, <2>3 DEF MonitorStores, Storing, Has
  <2>6. UNCHANGED <<now, ctl, writerVars, watching, history>>
    BY <1>8, Zenon DEF MonitorStores
  <2>7. QED
    BY <1>0, <2>2, <2>3, <2>4, <2>5, <2>6, OthersKeepInv, Zenon
<1>9. CASE Tick
  <2>1. now' \in 0..MaxTime
    BY <1>0, <1>9 DEF Tick
  <2>2. UNCHANGED <<ctl, turn, writerVars, monitorVars, history>>
    BY <1>9, Zenon DEF Tick
  <2>3. MonitorBounded'
    BY <1>2, <1>3, <2>2 DEF monitorVars
  <2>4. Storing'
    BY <1>4, <2>2 DEF Storing, Has, monitorVars
  <2>5. QED
    BY <1>0, <2>1, <2>2, <2>3, <2>4, OthersKeepInv, Zenon DEF monitorVars
<1>10. CASE Take
  <2>1. backlog' = backlog - 1 /\ backlog > 0
    BY <1>10 DEF Take
  <2>2. UNCHANGED <<builderVars, writerVars, watching, left, history>>
    BY <1>10, Zenon DEF Take
  <2>3. backlog' \in Nat /\ MonitorBounded'
    BY <1>0, <1>1, <1>2, <1>3, <2>1, <2>2
  <2>4. Storing'
    BY <1>4, <2>2 DEF Storing, Has, builderVars
  <2>5. QED
    BY <1>0, <2>2, <2>3, <2>4, OthersKeepInv, Zenon DEF builderVars
<1>11. QED
  BY <1>6, <1>7, <1>8, <1>9, <1>10

LEMMA StepStart ==
    ASSUME Inv, NEW r \in Runs, Start(r)
    PROVE  Inv'
<1> USE ProcessorsAssumption, BoundsAssumption
<1>1. /\ TypeOK /\ DuringRun /\ Storing /\ Position /\ OneDescriptor /\ FileNumbers
      /\ MonitorBounded
  BY DEF Inv
<1>2. /\ starts + 1 \in 1..MaxStarts /\ starts' = starts + 1 /\ ctl' = "running"
      /\ fds \in Nat /\ event \in Nat /\ OpenFile(r, starts + 1, fds, event)
  BY <1>1 DEF Start, TypeOK
<1>3. UNCHANGED <<now, turn, total, disk, left, backlog, given, hasty>> /\ watching' = TRUE
  BY DEF Start
<1>4. /\ run' = r /\ run' \in Nat
      /\ started' \in BOOLEAN
      /\ \/ file' = NoFile /\ fds' = fds
         \/ file' \in FileNames /\ file' # NoFile /\ fds' = fds + 1 /\ event' = 0
      /\ event' \in Nat /\ fds' \in Nat /\ offset' \in Nat
      /\ opened' \in Seq([start : 1..MaxStarts, name : FileNames])
      /\ failed' \subseteq 1..MaxStarts
  BY <1>1, <1>2, OpenKeepsTypes
<1>5. TypeOK'
  <2>1. starts' \in 0..MaxStarts /\ file' \in FileNames \cup {NoFile}
    BY <1>2, <1>4
  <2>2. watching' \in BOOLEAN
    BY <1>3, Zenon
  <2>3. ctl' \in {"stopped", "running", "stopping"}
    BY <1>2
  <2>4. QED
    BY <1>1, <1>3, <1>4, <2>1, <2>2, <2>3, Zenon DEF TypeOK
<1>6. DuringRun'
  BY <1>1, <1>2, <1>4 DEF DuringRun, TypeOK
<1>7. Storing' /\ MonitorBounded'
  BY <1>1, <1>3 DEF Storing, Has, MonitorBounded
<1>8. Position' /\ FileNumbers'
  <2>1. disk' \in [FileNames -> SUBSET Records]
    BY <1>1, <1>3 DEF TypeOK
  <2>2. \A name \in FileNames : disk'[name] # {} =>
            \E f \in 1..Len(opened) : opened[f].name = name
    BY <1>1, <1>3 DEF Position
  <2>3. \A name \in FileNames : OpenedOnce(name) => Numbered(disk'[name])
    BY <1>1, <1>3, NumbersAreNumbered
  <2>4. QED
    BY <1>1, <1>2, <2>1, <2>2, <2>3, OpenKeepsFiles
<1>9. OneDescriptor'
  <2>1. fds = 0
    BY <1>1 DEF Start, OneDescriptor
  <2>2. QED
    BY <1>2, <1>4, <2>1 DEF OneDescriptor
<1>10. QED
  BY <1>5, <1>6, <1>7, <1>8, <1>9 DEF Inv

LEMMA StepBuilder ==
    ASSUME Inv, Hand \/ Stop \/ Join
    PROVE  Inv'
<1> USE ProcessorsAssumption, BoundsAssumption
<1>1. /\ TypeOK /\ DuringRun /\ Storing /\ Position /\ OneDescriptor /\ FileNumbers
      /\ MonitorBounded
  BY DEF Inv
<1>2. CASE Hand
  <2>1. /\ ctl # "stopped" /\ turn = 0 /\ turn' = 1 /\ given' = Append(given, starts)
        /\ UNCHANGED <<now, ctl, writerVars, monitorVars, starts, opened, failed, hasty>>
    BY <1>2 DEF Hand
  <2>2. turn' \in 0..Len(Order)
    BY <2>1
  <2>3. given' \in Seq(1..MaxStarts) /\ Len(given') <= MaxEvents
    <3>1. starts \in 1..MaxStarts /\ given \in Seq(1..MaxStarts)
      BY <1>1, <2>1 DEF DuringRun, TypeOK
    <3>2. Len(given) < MaxEvents
      BY <1>2 DEF Hand
    <3>3. QED
      BY <2>1, <3>1, <3>2
  <2>4. TypeOK'
    BY <1>1, <2>1, <2>2, <2>3, Zenon DEF TypeOK, writerVars, monitorVars
  <2>5. DuringRun' /\ Position' /\ OneDescriptor' /\ FileNumbers' /\ MonitorBounded'
    BY <1>1, <2>1 DEF DuringRun, Position, OneDescriptor, FileNumbers, MonitorBounded,
                      OpenedOnce, Found, writerVars, monitorVars
  <2>6. Storing'
    BY <1>1, <2>1 DEF Storing, Has, monitorVars
  <2>7. QED
    BY <2>4, <2>5, <2>6 DEF Inv
<1>3. CASE Stop
  <2>1. /\ ctl = "running" /\ ctl' = "stopping"
        /\ UNCHANGED <<now, turn, writerVars, monitorVars, history>>
    BY <1>3 DEF Stop
  <2>2. ctl' \in {"stopped", "running", "stopping"}
    BY <2>1
  <2>3. TypeOK'
    BY <1>1, <2>1, <2>2, Zenon DEF TypeOK, writerVars, monitorVars, history
  <2>4. /\ DuringRun' /\ Storing' /\ Position' /\ OneDescriptor' /\ FileNumbers'
        /\ MonitorBounded'
    BY <1>1, <2>1 DEF DuringRun, Storing, Has, Position, OneDescriptor, FileNumbers,
                      MonitorBounded, OpenedOnce, Found, writerVars, monitorVars, history
  <2>5. QED
    BY <2>3, <2>4 DEF Inv
<1>4. CASE Join
  <2>1. /\ ctl = "stopping" /\ turn = 0 /\ now < MaxTime
        /\ ctl' = "stopped" /\ now' = now + 1
        /\ file' = NoFile /\ offset' = 0
        /\ fds' = IF file = NoFile THEN fds ELSE fds - 1
        /\ UNCHANGED <<turn, run, event, total, disk, left, backlog, history>>
    BY <1>4 DEF Join
  <2>2. started' \in BOOLEAN /\ watching' \in BOOLEAN
    BY <1>4, Zenon DEF Join
  <2>3. now' \in 0..MaxTime /\ ctl' \in {"stopped", "running", "stopping"}
        /\ file' \in FileNames \cup {NoFile}
    BY <1>1, <2>1 DEF TypeOK
  <2>4. fds' = 0
    BY <1>1, <2>1 DEF OneDescriptor
  <2>5. fds' \in Nat /\ offset' \in Nat
    BY <2>1, <2>4
  <2>6. TypeOK'
    BY <1>1, <2>1, <2>2, <2>3, <2>5, Zenon DEF TypeOK, history
  <2>7. /\ DuringRun' /\ Storing' /\ Position' /\ OneDescriptor' /\ FileNumbers'
        /\ MonitorBounded'
    BY <1>1, <2>1, <2>4 DEF DuringRun, Storing, Has, Position, OneDescriptor, FileNumbers,
                            MonitorBounded, OpenedOnce, Found, history
  <2>8. QED
    BY <2>6, <2>7 DEF Inv
<1>5. QED
  BY <1>2, <1>3, <1>4

LEMMA StepWriteEvent ==
    ASSUME Inv, NEW size \in Sizes, WriteEvent(size)
    PROVE  Inv'
<1> USE ProcessorsAssumption, BoundsAssumption
<1>1. /\ TypeOK /\ DuringRun /\ Storing /\ Position /\ OneDescriptor /\ FileNumbers
      /\ MonitorBounded
  BY DEF Inv
<1>2. PICK r : r = [at |-> offset, num |-> event, evt |-> Len(given), size |-> size]
  OBVIOUS
<1>3. /\ Has("writer") /\ file # NoFile
      /\ disk' = [disk EXCEPT ![file] = Overwrite(disk[file], r)]
      /\ turn' = NextTurn
      /\ UNCHANGED <<now, ctl, monitorVars, starts, given>>
  BY <1>2 DEF WriteEvent
<1>4. /\ file \in FileNames /\ disk[file] \in SUBSET Records /\ event \in Nat /\ offset \in Nat
      /\ r \in Records /\ r.at = offset /\ r.num = event /\ r.size = size
  <2>1. file \in FileNames /\ event \in Nat /\ offset \in Nat
        /\ disk \in [FileNames -> SUBSET Records]
    BY <1>1, <1>3 DEF TypeOK
  <2>2. Len(given) \in Nat
    BY <1>1 DEF TypeOK
  <2>3. r \in Records
    BY <1>2, <2>1, <2>2 DEF Records
  <2>4. QED
    BY <1>2, <2>1, <2>3
<1>5. /\ disk' \in [FileNames -> SUBSET Records]
      /\ disk'[file] = Overwrite(disk[file], r)
      /\ \A name \in FileNames : name # file => disk'[name] = disk[name]
  <2>1. Overwrite(disk[file], r) \in SUBSET Records
    BY <1>4 DEF Overwrite
  <2>2. QED
    BY <1>1, <1>3, <1>4, <2>1 DEF TypeOK
<1>6. \A name \in FileNames : disk'[name] # {} =>
          \E f \in 1..Len(opened) : opened[f].name = name
  <2>1. Len(opened) \in Nat /\ Len(opened) > 0 /\ opened[Len(opened)].name = file
    BY <1>1, <1>3 DEF Position, TypeOK
  <2>2. \E f \in 1..Len(opened) : opened[f].name = file
    BY <2>1
  <2>3. QED
    BY <1>1, <1>5, <2>2 DEF Position
\* What the file holds, if its name was not opened before.
<1>7. ASSUME OpenedOnce(file)
      PROVE  Numbered(disk'[file]) /\ Whole(disk'[file], offset + Header + size, event + 1)
  <2>1. Whole(disk[file], offset, event) /\ Numbered(disk[file])
    BY <1>1, <1>3, <1>4, <1>7, NumbersAreNumbered DEF Position
  <2>2. PICK records \in SUBSET Records : records = disk[file]
    BY <1>4
  <2>3. /\ Overwrite(records, r) = records \cup {r}
        /\ Whole(records \cup {r}, offset + Header + r.size, event + 1)
        /\ Numbered(records \cup {r})
    BY <1>4, <2>1, <2>2, AppendRecord
  <2>4. QED
    BY <1>4, <1>5, <2>2, <2>3
<1>15. \A name \in FileNames : OpenedOnce(name) => Numbered(disk'[name])
  BY <1>1, <1>5, <1>7, NumbersAreNumbered
<1>8. turn > 0 /\ turn' \in 0..Len(Order)
  BY <1>3, TurnTypes DEF Has
<1>9. starts \in 1..MaxStarts /\ run \in Runs
  BY <1>1, <1>8 DEF DuringRun, TypeOK
<1>10. Storing' /\ MonitorBounded'
  <2>1. ~Has("monitor")
    BY <1>3 DEF Has
  <2>2. ~(left > 0)
    BY <1>1, <2>1 DEF Storing
  <2>3. QED
    BY <1>1, <1>3, <2>2 DEF Storing, MonitorBounded, monitorVars
<1>11. fds = 1
  BY <1>1, <1>3 DEF OneDescriptor
<1>12. CASE Rotate
  <2>1. /\ total' = 0 /\ OpenFile(run, starts, fds - 1, event + 1)
        /\ hasty' = IF now = file.at THEN hasty \cup {starts} ELSE hasty
    BY <1>12 DEF Rotate
  <2>2. hasty' \subseteq 1..MaxStarts /\ total' \in 0..Limit
    BY <1>1, <1>9, <2>1 DEF TypeOK
  <2>3. /\ run' = run /\ run' \in Nat
        /\ started' \in BOOLEAN
        /\ \/ file' = NoFile /\ fds' = fds - 1
           \/ file' \in FileNames /\ file' # NoFile /\ fds' = fds - 1 + 1 /\ event' = 0
        /\ event' \in Nat /\ fds' \in Nat /\ offset' \in Nat
        /\ opened' \in Seq([start : 1..MaxStarts, name : FileNames])
        /\ failed' \subseteq 1..MaxStarts
    <3>1. fds - 1 \in Nat /\ event + 1 \in Nat
      BY <1>4, <1>11
    <3>2. QED
      BY <1>1, <1>9, <2>1, <3>1, OpenKeepsTypes
  <2>4. file' \in FileNames \cup {NoFile}
    BY <2>3
  <2>5. TypeOK'
    BY <1>1, <1>3, <1>5, <1>8, <2>2, <2>3, <2>4, Zenon DEF TypeOK, monitorVars
  <2>6. DuringRun'
    BY <1>1, <1>3, <1>8, <1>9, <2>3 DEF DuringRun, TypeOK
  <2>7. Position' /\ FileNumbers'
    <3>1. fds - 1 \in Nat /\ event + 1 \in Nat
      BY <1>4, <1>11
    <3>2. QED
      BY <1>1, <1>5, <1>6, <1>9, <1>15, <2>1, <3>1, OpenKeepsFiles
  <2>8. OneDescriptor'
    BY <1>1, <1>3, <1>8, <1>11, <2>3 DEF OneDescriptor, DuringRun
  <2>9. QED
    BY <1>10, <2>5, <2>6, <2>7, <2>8 DEF Inv
<1>13. CASE /\ ~Full(total + size)
            /\ total' = total + size
            /\ offset' = offset + Header + size
            /\ event' = event + 1
            /\ UNCHANGED <<run, started, file, fds, opened, failed, hasty>>
  <2>1. total' \in 0..Limit /\ event' \in Nat /\ offset' \in Nat
    <3>1. size \in Nat /\ total \in 0..Limit /\ Limit \in Nat
      BY <1>1 DEF TypeOK
    <3>2. QED
      BY <1>4, <1>13, <3>1 DEF Full
  <2>2. TypeOK'
    BY <1>1, <1>3, <1>5, <1>8, <1>13, <2>1, Zenon DEF TypeOK, monitorVars
  <2>3. DuringRun' /\ OneDescriptor'
    BY <1>1, <1>3, <1>8, <1>13 DEF DuringRun, OneDescriptor
  <2>4. Position'
    <3>1. Len(opened') > 0 /\ opened'[Len(opened')].name = file
      BY <1>1, <1>3, <1>13 DEF Position
    <3>2. OpenedOnce(file) => Whole(disk'[file], offset', event')
      BY <1>7, <1>13
    <3>3. QED
      BY <1>6, <1>13, <3>1, <3>2 DEF Position, OpenedOnce
  <2>5. FileNumbers'
    BY <1>13, <1>15, NumbersAreNumbered DEF OpenedOnce
  <2>6. QED
    BY <1>10, <2>2, <2>3, <2>4, <2>5 DEF Inv
<1>14. QED
  BY <1>12, <1>13 DEF WriteEvent

LEMMA StepInv == Inv /\ [Next]_vars => Inv'
<1> SUFFICES ASSUME Inv, [Next]_vars PROVE Inv'
  OBVIOUS
<1>1. CASE \E r \in Runs : Start(r)
  BY <1>1, StepStart
<1>2. CASE \E size \in Sizes : WriteEvent(size)
  BY <1>2, StepWriteEvent
<1>3. CASE Hand \/ Stop \/ Join
  BY <1>3, StepBuilder
<1>4. CASE WriterSkips \/ MonitorSkips \/ MonitorLists \/ MonitorStores \/ Tick \/ Take
  BY <1>4, StepOthers
<1>5. CASE UNCHANGED vars
  <2>1. UNCHANGED <<builderVars, writerVars, monitorVars, history>>
    BY <1>5 DEF vars
  <2>2. /\ TypeOK' /\ DuringRun' /\ Storing' /\ Position' /\ OneDescriptor' /\ FileNumbers'
        /\ MonitorBounded'
    BY <2>1, Zenon DEF Inv, TypeOK, DuringRun, Storing, Has, Position, OneDescriptor,
                       FileNumbers, MonitorBounded, OpenedOnce, Found, builderVars, writerVars,
                       monitorVars, history
  <2>3. QED
    BY <2>2 DEF Inv
<1>6. QED
  BY <1>1, <1>2, <1>3, <1>4, <1>5 DEF Next

THEOREM InvAlways == Spec => []Inv
  BY InitInv, StepInv, PTL DEF Spec

\* Type correctness (processEvent of the writer leaves its total at most Limit).
THEOREM TypeCorrect == Spec => []TypeOK
<1>1. Inv => TypeOK
  BY DEF Inv
<1>2. QED
  BY <1>1, InvAlways, PTL

\* No rotation, failed open or stop leaks a descriptor (start, stop, line 108).
THEOREM OneDescriptorAlways == Spec => []OneDescriptor
<1>1. Inv => OneDescriptor
  BY DEF Inv
<1>2. QED
  BY <1>1, InvAlways, PTL

\* A reader finds the records of a file whose name was opened once, numbered from
\* 0 without a gap (_event).
THEOREM FileNumbersAlways == Spec => []FileNumbers
<1>1. Inv => FileNumbers
  BY DEF Inv
<1>2. QED
  BY <1>1, InvAlways, PTL

\* The monitor's directory is bounded, whatever its consumer does (line 44 of
\* monitorProcessor.cxx).
THEOREM MonitorBoundedAlways == Spec => []MonitorBounded
<1>1. Inv => MonitorBounded
  BY DEF Inv
<1>2. QED
  BY <1>1, InvAlways, PTL

-----------------------------------------------------------------------------
(* What a run leaves on disk.                                              *)

\* Only a run in which two opens came within a second has two files of a name,
\* and the name of no other run's file.
Names ==
    /\ \A f \in 1..Len(opened) :
          /\ opened[f].start \in 1..starts /\ opened[f].name.at <= now
          /\ ctl = "stopped" => opened[f].name.at < now
    /\ \A f, g \in 1..Len(opened) : f < g =>
          /\ opened[f].name.at <= opened[g].name.at
          /\ opened[f].start # opened[g].start \/ opened[f].start \notin hasty =>
                opened[f].name.at < opened[g].name.at
    /\ file # NoFile =>
          Len(opened) > 0 /\ opened[Len(opened)] = [start |-> starts, name |-> file]

\* The event in hand is one of this run; a run in which no open failed has a
\* file.
Writing ==
    /\ \A i \in 1..Len(given) : given[i] <= starts
    /\ turn > 0 => Len(given) > 0 /\ given[Len(given)] = starts
    /\ failed \subseteq 1..starts /\ hasty \subseteq 1..starts
    /\ ctl # "stopped" /\ starts \notin failed => started /\ file # NoFile

DiskInv == Inv /\ Names /\ Writing /\ CleanRunIsOnDisk

LEMMA OpenedTypes ==
    ASSUME TypeOK
    PROVE  /\ Len(opened) \in Nat /\ Len(given) \in Nat
           /\ \A f \in 1..Len(opened) :
                 /\ opened[f].start \in 1..MaxStarts /\ opened[f].name \in FileNames
                 /\ opened[f].name.at \in 0..MaxTime
           /\ \A i \in 1..Len(given) : given[i] \in 1..MaxStarts
<1>1. /\ opened \in Seq([start : 1..MaxStarts, name : FileNames]) /\ given \in Seq(1..MaxStarts)
  BY DEF TypeOK
<1>2. ASSUME NEW S, NEW q \in Seq(S)
      PROVE  Len(q) \in Nat /\ \A f \in 1..Len(q) : q[f] \in S
  OBVIOUS
<1>3. \A name \in FileNames : name.at \in 0..MaxTime
  BY DEF FileNames
<1>4. /\ Len(opened) \in Nat
      /\ \A f \in 1..Len(opened) : opened[f] \in [start : 1..MaxStarts, name : FileNames]
  BY <1>1, <1>2
<1>5. Len(given) \in Nat /\ \A i \in 1..Len(given) : given[i] \in 1..MaxStarts
  BY <1>1, <1>2
<1>6. \A f \in 1..Len(opened) :
        /\ opened[f].start \in 1..MaxStarts /\ opened[f].name \in FileNames
        /\ opened[f].name.at \in 0..MaxTime
  BY <1>3, <1>4
<1> QED
  BY <1>4, <1>5, <1>6

\* What the properties say of a run depends on these only.
LEMMA OnDiskStays ==
    ASSUME NEW s, OnDisk(s), Handled(s)' = Handled(s), FilesOf(s)' = FilesOf(s),
           \A f \in FilesOf(s) : Content(f)' = Content(f)
    PROVE  OnDisk(s)'
BY DEF OnDisk

\* What a reader finds in a file is what it finds under its name.
LEMMA ContentIsFound ==
    ASSUME NEW f, NEW name
    PROVE  /\ opened[f].name = name => Content(f) = Found(name)
           /\ opened'[f].name = name => Content(f)' = Found(name)'
           /\ disk'[name] = disk[name] => Found(name)' = Found(name)
BY DEF Content, Found

LEMMA NamesStay ==
    ASSUME TypeOK, Names, UNCHANGED <<opened, starts, hasty>>, file' \in {file, NoFile},
           now' \in Nat, now' >= now, ctl' = "stopped" => ctl = "stopped" \/ now' > now
    PROVE  Names'
<1>1. now \in Nat
  BY BoundsAssumption DEF TypeOK
<1>2. ASSUME NEW f \in 1..Len(opened) 
      PROVE  /\ opened[f].start \in 1..starts /\ opened[f].name.at <= now'
             /\ ctl' = "stopped" => opened[f].name.at < now'
  <2>1. opened[f].name.at \in Nat /\ opened[f].name.at <= now /\ opened[f].start \in 1..starts
          /\ (ctl = "stopped" => opened[f].name.at < now)
    BY OpenedTypes DEF Names
  <2> QED
    BY <1>1, <2>1
<1> QED
  BY <1>2 DEF Names

\* A processor other than the writer passes the event on.
LEMMA PassedOn ==
    ASSUME TypeOK, Has("monitor"), turn' = NextTurn
    PROVE  Passed' = Passed
<1> USE ProcessorsAssumption
<1>0. turn \in 1..2
  <2>1. Len(Order) = 2
    OBVIOUS
  <2>2. turn \in 0..Len(Order) /\ turn > 0
    BY Zenon DEF TypeOK, Has
  <2> QED
    BY <2>1, <2>2
<1>1. CASE Order = << "writer", "monitor" >>
  <2>1. turn = 2 /\ turn' = 0
    BY <1>0, <1>1 DEF Has, NextTurn
  <2> QED
    BY <1>1, <2>1 DEF Passed
<1>2. CASE Order = << "monitor", "writer" >>
  <2>1. turn = 1 /\ turn' = 2
    BY <1>0, <1>2 DEF Has, NextTurn
  <2> QED
    BY <1>2, <2>1 DEF Passed
<1> QED
  BY <1>1, <1>2

LEMMA WriterPasses ==
    ASSUME TypeOK, Has("writer"), turn' = NextTurn
    PROVE  ~Passed /\ Passed'
<1> USE ProcessorsAssumption
<1>0. turn \in 1..2
  <2>1. Len(Order) = 2
    OBVIOUS
  <2>2. turn \in 0..Len(Order) /\ turn > 0
    BY Zenon DEF TypeOK, Has
  <2> QED
    BY <2>1, <2>2
<1>1. CASE Order = << "writer", "monitor" >>
  <2>1. turn = 1 /\ turn' = 2
    BY <1>0, <1>1 DEF Has, NextTurn
  <2> QED
    BY <1>1, <2>1 DEF Passed
<1>2. CASE Order = << "monitor", "writer" >>
  <2>1. turn = 2 /\ turn' = 0
    BY <1>0, <1>2 DEF Has, NextTurn
  <2> QED
    BY <1>2, <2>1 DEF Passed
<1> QED
  BY <1>1, <1>2

\* All but the writer's own steps: the disk stays, and what the writer is done
\* with of a run without a failed open.
LEMMA DiskStays ==
    ASSUME DiskInv, UNCHANGED <<opened, disk, starts, failed, hasty>>,
           \A s \in 1..starts : s \notin failed => Handled(s)' = Handled(s)
    PROVE  CleanRunIsOnDisk'
<1> SUFFICES ASSUME NEW s \in 1..starts, s \notin failed, s \notin hasty
             PROVE  OnDisk(s)'
  BY DEF CleanRunIsOnDisk
<1>1. OnDisk(s) /\ Handled(s)' = Handled(s)
  BY DEF DiskInv, CleanRunIsOnDisk
<1>2. FilesOf(s)' = FilesOf(s) /\ \A f \in FilesOf(s) : Content(f)' = Content(f)
  BY DEF FilesOf, Content, Found
<1> QED
  BY <1>1, <1>2, OnDiskStays

LEMMA OthersKeepDisk ==
    ASSUME DiskInv, WriterSkips \/ MonitorSkips \/ MonitorLists \/ MonitorStores
                      \/ Tick \/ Take \/ Stop
    PROVE  Names' /\ Writing' /\ CleanRunIsOnDisk'
<1> USE DEF DiskInv, Inv
<1>1. UNCHANGED <<writerVars, starts, opened, given, failed, hasty>>
  BY DEF WriterSkips, MonitorSkips, MonitorLists, MonitorStores, Tick, Take, Stop, history
<1>2. now' \in Nat /\ now' >= now /\ (ctl' = "stopped" => ctl = "stopped")
  <2>1. now \in Nat
    BY BoundsAssumption DEF TypeOK
  <2>2. now' = now \/ now' = now + 1
    BY DEF WriterSkips, MonitorSkips, MonitorLists, MonitorStores, Tick, Take, Stop, builderVars
  <2>3. ctl' = ctl \/ ctl' = "stopping"
    BY DEF WriterSkips, MonitorSkips, MonitorLists, MonitorStores, Tick, Take, Stop, builderVars
  <2> QED
    BY <2>1, <2>2, <2>3
<1>3. ctl' # "stopped" => ctl # "stopped"
  BY DEF WriterSkips, MonitorSkips, MonitorLists, MonitorStores, Tick, Take, Stop, builderVars
<1>4. Storing
  OBVIOUS
<1>5. \/ Has("writer") /\ (~started \/ file = NoFile)
      \/ Has("monitor") /\ turn' = NextTurn
      \/ turn' = turn
  BY <1>4 DEF WriterSkips, MonitorSkips, MonitorLists, MonitorStores, Tick, Take, Stop,
              builderVars, Storing
<1>6. turn' > 0 => turn > 0
  BY <1>5 DEF Has
<1>7. Names'
  BY <1>1, <1>2, NamesStay DEF writerVars
<1>8. Writing'
  BY <1>1, <1>3, <1>6 DEF Writing, writerVars
<1>9. ASSUME NEW s \in 1..starts, s \notin failed PROVE Handled(s)' = Handled(s)
  <2>1. CASE Has("writer") /\ (~started \/ file = NoFile)
    <3>1. turn > 0 /\ ctl # "stopped"
      BY <2>1 DEF Has, DuringRun
    <3>2. starts \in failed /\ given[Len(given)] = starts
      BY <2>1, <3>1 DEF Writing
    <3>3. \A i \in 1..Len(given) : given[i] = s => i < Len(given)
      BY <1>9, <3>2, OpenedTypes
    <3> QED
      BY <1>1, <3>3 DEF Handled
  <2>2. CASE Has("monitor") /\ turn' = NextTurn
    BY <1>1, <2>2, PassedOn DEF Handled
  <2>3. CASE turn' = turn
    BY <1>1, <2>3 DEF Handled, Passed
  <2> QED
    BY <1>5, <2>1, <2>2, <2>3
<1> QED
  BY <1>1, <1>7, <1>8, <1>9, DiskStays DEF writerVars

LEMMA BuilderKeepsDisk ==
    ASSUME DiskInv, Hand \/ Join
    PROVE  Names' /\ Writing' /\ CleanRunIsOnDisk'
<1> USE DEF DiskInv, Inv
<1>1. CASE Hand
  <2>1. /\ ctl # "stopped" /\ turn = 0 /\ turn' = 1 /\ given' = Append(given, starts)
        /\ UNCHANGED <<now, ctl, writerVars, starts, opened, failed, hasty>>
    BY <1>1 DEF Hand
  <2>2. /\ Len(given) \in Nat /\ Len(given') = Len(given) + 1
        /\ given'[Len(given) + 1] = starts
        /\ \A i \in 1..Len(given) : given'[i] = given[i]
    <3>1. given \in Seq(1..MaxStarts) /\ starts \in 1..MaxStarts
      BY <2>1, BoundsAssumption DEF TypeOK, DuringRun
    <3> QED
      BY <2>1, <3>1
  <2>3. Names'
    <3>1. now \in Nat
      BY BoundsAssumption DEF TypeOK
    <3> QED
      BY <2>1, <3>1, NamesStay DEF writerVars
  <2>4. starts \in Nat
    BY BoundsAssumption DEF TypeOK
  <2>5. Writing'
    <3>1. \A i \in 1..Len(given') : given'[i] <= starts
      BY <2>2, <2>4 DEF Writing
    <3> QED
      BY <2>1, <2>2, <3>1 DEF Writing, writerVars
  <2>6. ASSUME NEW s \in 1..starts PROVE Handled(s)' = Handled(s)
    <3>1. Passed /\ ~Passed'
      BY <2>1 DEF Passed
    <3>2. Handled(s) = {i \in 1..Len(given) : given[i] = s}
      BY <3>1 DEF Handled
    <3>3. Handled(s)' = {i \in 1..Len(given') : given'[i] = s /\ i < Len(given')}
      BY <3>1 DEF Handled
    <3> QED
      BY <2>2, <3>2, <3>3
  <2> QED
    BY <2>1, <2>3, <2>5, <2>6, DiskStays DEF writerVars
<1>2. CASE Join
  <2>1. /\ turn = 0 /\ ctl' = "stopped" /\ now' = now + 1 /\ file' = NoFile
        /\ UNCHANGED <<turn, event, disk, starts, opened, given, failed, hasty>>
    BY <1>2 DEF Join, history
  <2>2. Names'
    <3>1. now \in Nat
      BY BoundsAssumption DEF TypeOK
    <3> QED
      BY <2>1, <3>1, NamesStay
  <2>3. Writing'
    BY <2>1 DEF Writing
  <2>4. \A s \in 1..starts : Handled(s)' = Handled(s)
    BY <2>1 DEF Handled, Passed
  <2> QED
    BY <2>1, <2>2, <2>3, <2>4, DiskStays
<1> QED
  BY <1>1, <1>2

\* A file that was opened in this second is new, unless its own run opened one
\* in the same second.
LEMMA NewFile ==
    ASSUME TypeOK, Names, NEW r \in Runs, NEW s \in 1..MaxStarts, starts <= s,
           file' = [run |-> r, at |-> now], now' = now, starts' = s, ctl' # "stopped",
           opened' = Append(opened, [start |-> s, name |-> file']),
           hasty \subseteq hasty',
           \A f \in 1..Len(opened) :
               opened[f].start # s \/ opened[f].start \notin hasty' => opened[f].name.at < now
    PROVE  Names'
<1> DEFINE F == Len(opened) + 1
           new == [start |-> s, name |-> file']
<1>1. Len(opened) \in Nat /\ now \in Nat /\ starts \in Nat
  BY OpenedTypes, BoundsAssumption DEF TypeOK
<1>2. /\ Len(opened') = F /\ opened'[F] = new
      /\ \A f \in 1..Len(opened) : opened'[f] = opened[f]
  <2>1. opened \in Seq([start : 1..MaxStarts, name : FileNames])
    BY DEF TypeOK
  <2> QED
    BY <2>1
<1>3. /\ new.start = s /\ new.name = file' /\ new.name.at = now
  OBVIOUS
<1> HIDE DEF new
<1>4. ASSUME NEW f \in 1..Len(opened')
      PROVE  /\ opened'[f].start \in 1..starts' /\ opened'[f].name.at <= now'
             /\ opened'[f].name.at \in Nat
  <2>1. CASE f = F
    BY <1>1, <1>2, <1>3, <2>1
  <2>2. CASE f # F
    <3>1. f \in 1..Len(opened)
      BY <1>1, <1>2, <2>2
    <3>2. opened[f].start \in 1..starts /\ opened[f].name.at <= now /\ opened[f].name.at \in Nat
      BY <3>1, OpenedTypes DEF Names
    <3> QED
      BY <1>1, <1>2, <3>1, <3>2
  <2> QED
    BY <2>1, <2>2
<1>5. ASSUME NEW f \in 1..Len(opened'), NEW g \in 1..Len(opened'), f < g
      PROVE  /\ opened'[f].name.at <= opened'[g].name.at
             /\ opened'[f].start # opened'[g].start \/ opened'[f].start \notin hasty' =>
                   opened'[f].name.at < opened'[g].name.at
  <2>1. f \in 1..Len(opened) /\ opened'[f] = opened[f]
    BY <1>1, <1>2, <1>5
  <2>2. CASE g = F
    <3>1. opened'[g].start = s /\ opened'[g].name.at = now
      BY <1>2, <1>3, <2>2
    <3>2. opened[f].name.at <= now
      BY <2>1 DEF Names
    <3> QED
      BY <2>1, <3>1, <3>2
  <2>3. CASE g # F
    <3>1. g \in 1..Len(opened) /\ opened'[g] = opened[g]
      BY <1>1, <1>2, <2>3
    <3>2. /\ opened[f].name.at <= opened[g].name.at
          /\ opened[f].start # opened[g].start \/ opened[f].start \notin hasty =>
                opened[f].name.at < opened[g].name.at
      BY <1>5, <2>1, <3>1 DEF Names
    <3> QED
      BY <2>1, <3>1, <3>2
  <2> QED
    BY <2>2, <2>3
<1>6. Len(opened') > 0 /\ opened'[Len(opened')] = [start |-> starts', name |-> file']
  BY <1>1, <1>2 DEF new
<1> QED
  BY <1>4, <1>5, <1>6 DEF Names

\* Nothing is on disk under a name of this second, if all files are older.
LEMMA Unused ==
    ASSUME TypeOK, Position, NEW name \in FileNames, name.at = now,
           \A f \in 1..Len(opened) : opened[f].name.at < now
    PROVE  disk[name] = {}
<1>1. now \in Nat
  BY BoundsAssumption DEF TypeOK
<1>2. \A f \in 1..Len(opened) : opened[f].name # name
  BY <1>1, OpenedTypes
<1> QED
  BY <1>2 DEF Position

LEMMA StartKeepsDisk ==
    ASSUME DiskInv, NEW r \in Runs, Start(r)
    PROVE  Names' /\ Writing' /\ CleanRunIsOnDisk'
<1> USE DEF DiskInv, Inv
<1>1. /\ ctl = "stopped" /\ ctl' # "stopped" /\ starts' = starts + 1
      /\ starts + 1 \in 1..MaxStarts /\ starts \in Nat
      /\ OpenFile(r, starts + 1, fds, event)
      /\ UNCHANGED <<now, turn, disk, given, hasty>>
  BY BoundsAssumption DEF Start, TypeOK
<1>2. turn = 0 /\ now \in Nat
  BY <1>1, BoundsAssumption DEF DuringRun, TypeOK
<1>3. \A f \in 1..Len(opened) : opened[f].name.at < now /\ opened[f].start \in 1..starts
  BY <1>1 DEF Names
<1>4. \A i \in 1..Len(given) : given[i] \in Nat /\ given[i] <= starts
  BY OpenedTypes DEF Writing
<1>5. \A s \in 1..starts : Handled(s)' = Handled(s)
  BY <1>1 DEF Handled, Passed
<1>6. \A s : s = starts + 1 => Handled(s)' = {}
  BY <1>1, <1>4 DEF Handled
<1>7. failed \subseteq 1..starts /\ hasty \subseteq 1..starts
  BY DEF Writing
<1>8. ASSUME NEW s \in 1..starts, s \notin failed, s \notin hasty PROVE OnDisk(s)
  BY <1>8 DEF CleanRunIsOnDisk
<1>9. CASE /\ file' = [run |-> r, at |-> now]
           /\ event' = 0 /\ started' = TRUE
           /\ opened' = Append(opened, [start |-> starts + 1, name |-> file'])
           /\ failed' = failed
  <2>1. Names'
    BY <1>1, <1>3, <1>9, NewFile
  <2>2. file' \in FileNames /\ file' # NoFile /\ file'.at = now
    BY <1>9, BoundsAssumption DEF TypeOK, FileNames
  <2>3. PICK name \in FileNames : name = file' /\ disk[name] = {}
    BY <1>3, <2>2, Unused
  <2>4. Writing'
    BY <1>1, <1>2, <1>4, <1>7, <1>9, <2>2 DEF Writing
  <2>5. /\ Len(opened) \in Nat /\ Len(opened') = Len(opened) + 1
        /\ opened'[Len(opened) + 1].start = starts + 1
        /\ opened'[Len(opened) + 1].name = file'
        /\ \A f \in 1..Len(opened) : opened'[f] = opened[f]
    <3>1. opened \in Seq([start : 1..MaxStarts, name : FileNames])
      BY DEF TypeOK
    <3> QED
      BY <1>9, <3>1
  <2>6. ASSUME NEW s \in 1..starts, s \notin failed, s \notin hasty PROVE OnDisk(s)'
    <3>1. FilesOf(s)' = FilesOf(s)
      BY <1>1, <2>5 DEF FilesOf
    <3>2. \A f \in FilesOf(s) : Content(f)' = Content(f)
      BY <1>1, <2>5 DEF FilesOf, Content, Found
    <3> QED
      BY <1>5, <1>8, <2>6, <3>1, <3>2, OnDiskStays
  <2>7. ASSUME NEW s, s = starts + 1 PROVE OnDisk(s)'
    <3>1. \A f \in FilesOf(s)' : Content(f)' = {}
      <4>1. \A f \in FilesOf(s)' : f = Len(opened) + 1
        BY <1>1, <1>3, <2>5, <2>7 DEF FilesOf
      <4>2. Found(name)' = {}
        BY <1>1, <2>3 DEF Found
      <4>3. \A f \in FilesOf(s)' : opened'[f].name = name
        BY <2>3, <2>5, <4>1
      <4> QED
        BY <4>2, <4>3, ContentIsFound
    <3> QED
      BY <1>6, <2>7, <3>1 DEF OnDisk
  <2>8. CleanRunIsOnDisk'
    <3>1. \A s \in (1..starts') \ (failed' \cup hasty') :
             s = starts + 1 \/ (s \in 1..starts /\ s \notin failed /\ s \notin hasty)
      BY <1>1, <1>9
    <3>2. \A s \in (1..starts') \ (failed' \cup hasty') : OnDisk(s)'
      BY <2>6, <2>7, <3>1, Zenon
    <3> QED
      BY <3>2, Zenon DEF CleanRunIsOnDisk
  <2> QED
    BY <2>1, <2>4, <2>8
<1>10. CASE /\ file' = NoFile
            /\ failed' = failed \cup {starts + 1}
            /\ UNCHANGED <<started, opened>>
  <2>1. Names'
    <3>1. \A f \in 1..Len(opened) : opened[f].start \in 1..starts' /\ opened[f].name.at <= now
      BY <1>1, <1>3, OpenedTypes DEF Names
    <3> QED
      BY <1>1, <1>10, <3>1 DEF Names
  <2>2. Writing'
    BY <1>1, <1>2, <1>4, <1>7, <1>10 DEF Writing
  <2>3. CleanRunIsOnDisk'
    <3>1. \A s \in (1..starts') \ (failed' \cup hasty') :
             s \in 1..starts /\ s \notin failed /\ s \notin hasty
      BY <1>1, <1>10
    <3>2. ASSUME NEW s \in 1..starts, s \notin failed, s \notin hasty PROVE OnDisk(s)'
      <4>1. FilesOf(s)' = FilesOf(s) /\ \A f \in FilesOf(s) : Content(f)' = Content(f)
        BY <1>1, <1>10 DEF FilesOf, Content, Found
      <4> QED
        BY <1>5, <1>8, <3>2, <4>1, OnDiskStays
    <3> QED
      BY <3>1, <3>2 DEF CleanRunIsOnDisk
  <2> QED
    BY <2>1, <2>2, <2>3
<1> QED
  BY <1>1, <1>9, <1>10 DEF OpenFile

\* A record of a new event, the last of all, at the end of the last file.
LEMMA OnDiskGrows ==
    ASSUME NEW s, OnDisk(s), NEW L \in Nat, NEW F \in FilesOf(s), NEW new,
           \A f \in FilesOf(s) : f \in Nat /\ f <= F,
           \A i \in Handled(s) : i \in Nat /\ i < L,
           Handled(s)' = Handled(s) \cup {L},
           FilesOf(s) \subseteq FilesOf(s)',
           \A f \in FilesOf(s)' : f \in FilesOf(s) \/ Content(f)' = {},
           \A f \in FilesOf(s) : f # F => Content(f)' = Content(f),
           Content(F)' = Content(F) \cup {new}, new.evt = L, new.at \in Nat,
           \A q \in Content(F) : q.at \in Nat /\ q.at < new.at
    PROVE  OnDisk(s)'
<1>1. ASSUME NEW f \in FilesOf(s), NEW q \in Content(f)
      PROVE  q \in Content(f)' /\ q.evt \in Handled(s)
  BY DEF OnDisk
<1>2. ASSUME NEW f \in FilesOf(s)', NEW q \in Content(f)'
      PROVE  /\ f \in FilesOf(s)
             /\ (q \in Content(f) /\ q.evt \in Handled(s)) \/ (f = F /\ q = new)
  <2>1. f \in FilesOf(s)
    BY <1>2
  <2>2. q \in Content(f) \/ (f = F /\ q = new)
    BY <1>2, <2>1
  <2> QED
    BY <1>1, <2>1, <2>2
<1>3. ASSUME NEW i \in Handled(s)'
      PROVE  \E f \in FilesOf(s)' : \E q \in Content(f)' : q.evt = i
  <2>1. CASE i = L
    <3>1. F \in FilesOf(s)' /\ new \in Content(F)'
      OBVIOUS
    <3> QED
      BY <2>1, <3>1
  <2>2. CASE i \in Handled(s)
    <3>1. PICK f \in FilesOf(s) : \E q \in Content(f) : q.evt = i
      BY <2>2 DEF OnDisk
    <3>2. PICK q \in Content(f) : q.evt = i
      BY <3>1
    <3>3. f \in FilesOf(s)' /\ q \in Content(f)'
      BY <1>1, <3>2
    <3> QED
      BY <3>2, <3>3
  <2> QED
    BY <2>1, <2>2
<1>4. ASSUME NEW f \in FilesOf(s)', NEW q \in Content(f)'
      PROVE  q.evt \in Handled(s)'
  BY <1>2, <1>4
<1>5. ASSUME NEW f \in FilesOf(s)', NEW g \in FilesOf(s)', NEW q \in Content(f)',
             NEW r \in Content(g)', f < g \/ (f = g /\ q.at < r.at)
      PROVE  q.evt < r.evt
  <2>1. f \in FilesOf(s) /\ g \in FilesOf(s) /\ f <= F /\ g <= F /\ f \in Nat /\ g \in Nat
    BY <1>2, <1>5
  <2>2. CASE f = F /\ q = new
    <3>1. g = F /\ new.at < r.at
      BY <1>5, <2>1, <2>2
    <3>2. r = new \/ (r \in Content(F) /\ r.at \in Nat /\ r.at < new.at)
      BY <1>2, <3>1
    <3> QED
      BY <3>1, <3>2
  <2>3. CASE q \in Content(f) /\ q.evt \in Handled(s)
    <3>1. CASE r \in Content(g)
      BY <1>5, <2>1, <2>3, <3>1 DEF OnDisk
    <3>2. CASE r = new
      BY <2>3, <3>2
    <3> QED
      BY <1>2, <3>1, <3>2
  <2> QED
    BY <1>2, <2>2, <2>3
<1> QED
  BY <1>3, <1>4, <1>5 DEF OnDisk

\* The writer's step, up to a rotation: what it does to the files, and that the
\* event in hand joins those it is done with.
LEMMA WriteFacts ==
    ASSUME DiskInv, NEW size \in Sizes, WriteEvent(size)
    PROVE  /\ Len(opened) \in Nat /\ Len(opened) > 0 /\ Len(given) \in Nat
           /\ opened[Len(opened)] = [start |-> starts, name |-> file]
           /\ file \in FileNames /\ event \in Nat
           /\ \A name \in FileNames : name # file => disk'[name] = disk[name]
           /\ \A name \in FileNames : disk'[name] # {} =>
                 \E f \in 1..Len(opened) : opened[f].name = name
           /\ \A name : name = file /\ starts \notin hasty =>
                 \E new : /\ new.evt = Len(given) /\ new.at \in Nat
                          /\ Found(name)' = Found(name) \cup {new}
                          /\ \A q \in Found(name) : q.at \in Nat /\ q.at < new.at
           /\ \A s : Handled(s)' = IF s = starts THEN Handled(s) \cup {Len(given)} ELSE Handled(s)
           /\ \A s : \A i \in Handled(s) : i \in Nat /\ i < Len(given)
<1> USE DEF DiskInv, Inv
<1>13. PICK new : new = [at |-> offset, num |-> event, evt |-> Len(given), size |-> size]
  OBVIOUS
<1>1. /\ Has("writer") /\ file # NoFile /\ turn' = NextTurn
      /\ disk' = [disk EXCEPT ![file] = Overwrite(disk[file], new)]
      /\ UNCHANGED given
  BY <1>13 DEF WriteEvent
<1>2. /\ file \in FileNames /\ event \in Nat /\ offset \in Nat
      /\ disk \in [FileNames -> SUBSET Records]
  BY <1>1 DEF TypeOK
<1>3. Len(opened) \in Nat /\ Len(given) \in Nat
  BY OpenedTypes
<1>4. Len(opened) > 0 /\ opened[Len(opened)] = [start |-> starts, name |-> file]
  BY <1>1 DEF Names
<1>5. new \in Records /\ new.at = offset /\ new.num = event /\ new.evt = Len(given)
  BY <1>2, <1>3, <1>13 DEF Records
<1>7. /\ disk'[file] = Overwrite(disk[file], new)
      /\ \A name \in FileNames : name # file => disk'[name] = disk[name]
  BY <1>1, <1>2
<1>14. ASSUME NEW name \in FileNames, disk'[name] # {}
       PROVE  \E f \in 1..Len(opened) : opened[f].name = name
  <2>1. CASE name = file
    BY <1>3, <1>4, <2>1
  <2>2. CASE name # file
    BY <1>7, <1>14, <2>2 DEF Position
  <2> QED
    BY <2>1, <2>2
<1>8. ASSUME NEW name, name = file, starts \notin hasty
      PROVE  /\ Found(name)' = Found(name) \cup {new}
             /\ \A q \in Found(name) : q.at \in Nat /\ q.at < new.at
  <2>1. PICK L \in Nat : L = Len(opened) /\ L > 0
    BY <1>3, <1>4
  <2>2. ASSUME NEW f \in 1..L, opened[f].name = name PROVE f = L
    <3>1. SUFFICES ASSUME f < L PROVE FALSE
      BY <2>1
    <3>2. L \in 1..L
      BY <2>1
    <3>3. opened[L].start = starts /\ opened[L].name = name
      BY <1>4, <1>8, <2>1
    <3>4. opened[f].start # starts \/ opened[f].start \notin hasty
      BY <1>8
    <3>5. opened[f].name.at < opened[L].name.at
      BY <2>1, <3>1, <3>2, <3>3, <3>4 DEF Names
    <3>6. name.at \in Nat
      BY <1>2, <1>8 DEF FileNames
    <3> QED
      BY <2>2, <3>3, <3>5, <3>6
  <2>3. OpenedOnce(name)
    BY <2>1, <2>2 DEF OpenedOnce
  <2>4. Whole(disk[name], offset, event)
    BY <1>1, <1>8, <2>3 DEF Position, OpenedOnce
  <2>5. Numbered(disk[name])
    BY <1>2, <1>8, <2>3, NumbersAreNumbered
  <2>6. PICK records \in SUBSET Records : records = disk[name]
    BY <1>2, <1>8
  <2>7. /\ Overwrite(records, new) = records \cup {new} /\ Numbered(records \cup {new})
        /\ \A r \in records : r.at < new.at
    BY <1>2, <1>5, <2>4, <2>5, <2>6, AppendRecord
  <2>8. disk'[name] = records \cup {new}
    BY <1>7, <1>8, <2>6, <2>7
  <2>9. Found(name)' = records \cup {new} /\ Found(name) = records
    BY <2>5, <2>6, <2>7, <2>8, NumberedIsFound
  <2>10. \A r \in records : r.at \in Nat
    BY DEF Records
  <2> QED
    BY <2>7, <2>9, <2>10
<1>9. ~Passed /\ Passed'
  BY <1>1, WriterPasses
<1>10. turn > 0
  BY <1>1 DEF Has
<1>11. Len(given) > 0 /\ given[Len(given)] = starts
  BY <1>10 DEF Writing
<1>12. ASSUME NEW s
       PROVE  /\ Handled(s)' = IF s = starts THEN Handled(s) \cup {Len(given)} ELSE Handled(s)
              /\ \A i \in Handled(s) : i \in Nat /\ i < Len(given)
  <2>1. Handled(s)' = {i \in 1..Len(given) : given[i] = s}
    BY <1>1, <1>9 DEF Handled
  <2>2. Handled(s) = {i \in 1..Len(given) : given[i] = s /\ i < Len(given)}
    BY <1>9 DEF Handled
  <2>3. Len(given) \in 1..Len(given) /\ \A i \in 1..Len(given) : i = Len(given) \/ i < Len(given)
    BY <1>3, <1>11
  <2> QED
    BY <1>11, <2>1, <2>2, <2>3
<1>15. \A name : name = file /\ starts \notin hasty =>
          \E n : /\ n.evt = Len(given) /\ n.at \in Nat
                 /\ Found(name)' = Found(name) \cup {n}
                 /\ \A q \in Found(name) : q.at \in Nat /\ q.at < n.at
  BY <1>2, <1>5, <1>8
<1> QED
  BY <1>2, <1>3, <1>4, <1>7, <1>12, <1>14, <1>15

LEMMA WriteKeepsDisk ==
    ASSUME DiskInv, NEW size \in Sizes, WriteEvent(size)
    PROVE  Names' /\ Writing' /\ CleanRunIsOnDisk'
<1> USE DEF DiskInv, Inv
<1>9. PICK F : F = Len(opened)
  OBVIOUS
<1>1. /\ F \in Nat /\ F > 0 /\ Len(given) \in Nat
      /\ opened[F].start = starts /\ opened[F].name = file
      /\ file \in FileNames /\ event \in Nat
      /\ \A name \in FileNames : name # file => disk'[name] = disk[name]
      /\ \A name : name = file /\ starts \notin hasty =>
            \E new : /\ new.evt = Len(given) /\ new.at \in Nat
                     /\ Found(name)' = Found(name) \cup {new}
                     /\ \A q \in Found(name) : q.at \in Nat /\ q.at < new.at
      /\ \A s : Handled(s)' = IF s = starts THEN Handled(s) \cup {Len(given)} ELSE Handled(s)
      /\ \A s : \A i \in Handled(s) : i \in Nat /\ i < Len(given)
  BY <1>9, WriteFacts
<1>2. /\ UNCHANGED <<now, ctl, starts, given>> /\ turn' = NextTurn /\ turn > 0 /\ started
      /\ file # NoFile /\ ctl # "stopped"
  BY DEF WriteEvent, Has, DuringRun
<1>3. now \in Nat /\ starts \in 1..MaxStarts /\ file.at \in Nat /\ run \in Runs
  BY <1>1, <1>2, BoundsAssumption DEF TypeOK, DuringRun, FileNames
<1>4. file.at <= now
  BY <1>1, <1>9 DEF Names
<1>5. ASSUME NEW f \in 1..F, f # F
      PROVE  /\ opened[f].name.at \in Nat /\ opened[f].name.at <= file.at
             /\ opened[f].start # starts \/ starts \notin hasty => opened[f].name.at < file.at
  <2>1. f < F /\ F \in 1..F
    BY <1>1, <1>5
  <2> QED
    BY <1>1, <1>9, <2>1, OpenedTypes DEF Names
<1>7. /\ \A i \in 1..Len(given) : given[i] <= starts
      /\ Len(given) > 0 /\ given[Len(given)] = starts
      /\ failed \subseteq 1..starts /\ hasty \subseteq 1..starts
  BY <1>2 DEF Writing
<1>8. starts \in 1..starts
  BY <1>3
\* What the step does to the files of a run, whether a new one is opened or not.
<1>10. ASSUME NEW s \in 1..starts, s \notin failed, s \notin hasty,
              FilesOf(s) \subseteq FilesOf(s)',
              \A f \in FilesOf(s) : opened'[f] = opened[f],
              \A f \in FilesOf(s)' :
                f \in FilesOf(s) \/ (s = starts /\ Content(f)' = {})
       PROVE  OnDisk(s)'
  <2>1. OnDisk(s)
    BY <1>10 DEF CleanRunIsOnDisk
  <2>2. \A f \in FilesOf(s) : f \in 1..F /\ opened[f].start = s /\ opened[f].name \in FileNames
    BY <1>9, OpenedTypes DEF FilesOf
  <2>3. \A f \in FilesOf(s) : f # F => Content(f)' = Content(f)
    <3> SUFFICES ASSUME NEW f \in FilesOf(s), f # F PROVE Content(f)' = Content(f)
      OBVIOUS
    <3>1. opened[f].name.at < file.at /\ opened[f].name.at \in Nat
      BY <1>5, <1>10, <2>2
    <3>2. opened[f].name # file
      BY <1>3, <3>1
    <3> QED
      BY <1>1, <1>10, <2>2, <3>2, ContentIsFound
  <2>4. CASE s # starts
    <3>1. F \notin FilesOf(s) /\ FilesOf(s)' = FilesOf(s)
      BY <1>1, <1>10, <2>2, <2>4
    <3>2. Handled(s)' = Handled(s)
      BY <1>1, <2>4
    <3> QED
      BY <2>1, <2>3, <3>1, <3>2, OnDiskStays
  <2>5. CASE s = starts
    <3>1. F \in FilesOf(s)
      BY <1>1, <1>9, <2>5 DEF FilesOf
    <3>2. PICK name : name = file
      OBVIOUS
    <3>7. opened[F].name = name /\ opened'[F].name = name
      BY <1>1, <1>10, <3>1, <3>2
    <3>8. Content(F) = Found(name) /\ Content(F)' = Found(name)'
      BY <3>7, ContentIsFound
    <3>3. \A f \in FilesOf(s) : f \in Nat /\ f <= F
      BY <1>1, <2>2
    <3>4. \A f \in FilesOf(s)' : f \in FilesOf(s) \/ Content(f)' = {}
      BY <1>10
    <3>5. Handled(s)' = Handled(s) \cup {Len(given)}
      BY <1>1, <2>5
    <3>6. PICK new : /\ new.evt = Len(given) /\ new.at \in Nat
                     /\ Content(F)' = Content(F) \cup {new}
                     /\ \A q \in Content(F) : q.at \in Nat /\ q.at < new.at
      BY <1>1, <1>10, <2>5, <3>2, <3>8
    <3> QED
      BY <1>1, <1>10, <2>1, <2>3, <3>1, <3>3, <3>4, <3>5, <3>6, OnDiskGrows
  <2> QED
    BY <2>4, <2>5
<1>11. CASE UNCHANGED <<run, started, file, fds, opened, failed, hasty>> /\ event' = event + 1
  <2>1. Names'
    BY <1>2, <1>9, <1>11 DEF Names
  <2>2. Writing'
    BY <1>1, <1>2, <1>7, <1>11 DEF Writing
  <2>3. ASSUME NEW s \in 1..starts, s \notin failed, s \notin hasty PROVE OnDisk(s)'
    <3>1. FilesOf(s)' = FilesOf(s)
      BY <1>11 DEF FilesOf
    <3> QED
      BY <1>10, <1>11, <2>3, <3>1
  <2> QED
    BY <1>2, <1>11, <2>1, <2>2, <2>3 DEF CleanRunIsOnDisk
<1>12. CASE Rotate
  <2>1. hasty' = IF now = file.at THEN hasty \cup {starts} ELSE hasty
    BY <1>12 DEF Rotate
  <2>2. hasty \subseteq hasty' /\ hasty' \subseteq 1..starts
    BY <1>7, <1>8, <2>1
  <2>3. CASE /\ file' = [run |-> run, at |-> now]
             /\ event' = 0 /\ started' = TRUE
             /\ opened' = Append(opened, [start |-> starts, name |-> file'])
             /\ failed' = failed
    <3>1. ASSUME NEW f \in 1..F, opened[f].start # starts \/ starts \notin hasty'
          PROVE  opened[f].name.at < now
      <4>1. CASE f # F
        <5>1. opened[f].name.at < file.at /\ opened[f].name.at \in Nat
          BY <1>5, <2>2, <3>1, <4>1
        <5> QED
          BY <1>3, <1>4, <5>1
      <4>2. CASE f = F
        <5>1. now # file.at
          BY <1>1, <2>1, <3>1, <4>2
        <5> QED
          BY <1>1, <1>3, <1>4, <4>2, <5>1
      <4> QED
        BY <4>1, <4>2
    <3>2. Names'
      <4>1. \A f \in 1..Len(opened) :
               opened[f].start # starts \/ opened[f].start \notin hasty' => opened[f].name.at < now
        BY <1>9, <3>1
      <4>2. starts <= starts /\ ctl' # "stopped" /\ starts' = starts /\ now' = now
        BY <1>2, <1>3
      <4> QED
        BY <1>3, <1>9, <2>2, <2>3, <4>1, <4>2, NewFile
    <3>3. file' \in FileNames /\ file' # NoFile /\ file'.at = now
      BY <1>3, <2>3, BoundsAssumption DEF TypeOK, FileNames
    <3>8. PICK name \in FileNames : name = file'
      BY <3>3
    <3>4. starts \notin hasty' => Found(name)' = {}
      <4>1. SUFFICES ASSUME starts \notin hasty' PROVE Found(name)' = {}
        OBVIOUS
      <4>2. name # file
        BY <2>1, <3>3, <3>8, <4>1
      <4>3. disk[name] = {}
        BY <1>9, <3>1, <3>3, <3>8, <4>1, Unused
      <4>4. disk'[name] = {}
        BY <1>1, <4>2, <4>3
      <4> QED
        BY <4>4 DEF Found
    <3>5. Writing'
      BY <1>2, <1>7, <2>2, <2>3, <3>3 DEF Writing
    <3>6. /\ Len(opened') = F + 1
          /\ opened'[F + 1].start = starts /\ opened'[F + 1].name = file'
          /\ \A f \in 1..F : opened'[f] = opened[f]
      <4>1. opened \in Seq([start : 1..MaxStarts, name : FileNames])
        BY DEF TypeOK
      <4> QED
        BY <1>9, <2>3, <4>1
    <3>7. ASSUME NEW s \in 1..starts, s \notin failed, s \notin hasty' PROVE OnDisk(s)'
      <4>1. \A f \in FilesOf(s) : f \in 1..F /\ opened'[f] = opened[f]
        BY <1>9, <3>6 DEF FilesOf
      <4>2. FilesOf(s) \subseteq FilesOf(s)'
        BY <1>1, <1>9, <3>6 DEF FilesOf
      <4>3. ASSUME NEW f \in FilesOf(s)'
            PROVE  f \in FilesOf(s) \/ (s = starts /\ Content(f)' = {})
        <5>1. CASE f = F + 1
          <6>1. s = starts /\ opened'[f].name = name
            BY <3>6, <3>8, <5>1 DEF FilesOf
          <6>2. Content(f)' = Found(name)'
            BY <6>1, ContentIsFound
          <6> QED
            BY <3>4, <3>7, <6>1, <6>2
        <5>2. CASE f # F + 1
          BY <1>1, <1>9, <3>6, <5>2 DEF FilesOf
        <5> QED
          BY <5>1, <5>2
      <4> QED
        BY <1>10, <2>2, <3>7, <4>1, <4>2, <4>3
    <3> QED
      BY <1>2, <2>3, <3>2, <3>5, <3>7 DEF CleanRunIsOnDisk
  <2>4. CASE /\ file' = NoFile
             /\ failed' = failed \cup {starts}
             /\ UNCHANGED <<started, opened>>
    <3>1. Names'
      <4>1. \A f, g \in 1..Len(opened) : f < g =>
              /\ opened[f].name.at <= opened[g].name.at
              /\ opened[f].start # opened[g].start \/ opened[f].start \notin hasty' =>
                    opened[f].name.at < opened[g].name.at
        BY <2>2 DEF Names
      <4> QED
        BY <1>2, <1>9, <2>4, <4>1 DEF Names
    <3>2. Writing'
      BY <1>2, <1>7, <1>8, <2>2, <2>4 DEF Writing
    <3>3. ASSUME NEW s \in 1..starts, s \notin failed', s \notin hasty' PROVE OnDisk(s)'
      <4>1. FilesOf(s)' = FilesOf(s)
        BY <2>4 DEF FilesOf
      <4> QED
        BY <1>10, <2>2, <2>4, <3>3, <4>1
    <3> QED
      BY <1>2, <3>1, <3>2, <3>3 DEF CleanRunIsOnDisk
  <2>5. OpenFile(run, starts, fds - 1, event + 1)
    BY <1>12 DEF Rotate
  <2> QED
    BY <2>3, <2>4, <2>5 DEF OpenFile
<1> QED
  BY <1>11, <1>12 DEF WriteEvent

LEMMA InitDisk == ASSUME Init PROVE DiskInv
<1>1. Inv
  BY InitInv
<1>2. Len(opened) = 0 /\ Len(given) = 0 /\ starts = 0 /\ turn = 0 /\ ctl = "stopped"
        /\ file = NoFile /\ failed = {} /\ hasty = {}
  BY DEF Init
<1>4. Names
  BY <1>2 DEF Names
<1>5. Writing
  BY <1>2 DEF Writing
<1>6. CleanRunIsOnDisk
  BY <1>2 DEF CleanRunIsOnDisk
<1> QED
  BY <1>1, <1>4, <1>5, <1>6 DEF DiskInv

LEMMA StepDisk == DiskInv /\ [Next]_vars => DiskInv'
<1> SUFFICES ASSUME DiskInv, [Next]_vars PROVE DiskInv'
  OBVIOUS
<1>1. Inv'
  BY StepInv DEF DiskInv
<1>2. CASE UNCHANGED vars
  <2>1. UNCHANGED <<now, ctl, turn, started, file, event, disk, starts, opened, given, failed, hasty>>
    BY <1>2 DEF vars, builderVars, writerVars, history
  <2>2. Names' /\ Writing'
    BY <2>1 DEF DiskInv, Names, Writing
  <2>3. \A s \in 1..starts : Handled(s)' = Handled(s)
    BY <2>1 DEF Handled, Passed
  <2> QED
    BY <1>1, <2>1, <2>2, <2>3, DiskStays DEF DiskInv
<1>3. ASSUME Next PROVE Names' /\ Writing' /\ CleanRunIsOnDisk'
  BY <1>3, OthersKeepDisk, BuilderKeepsDisk, StartKeepsDisk, WriteKeepsDisk DEF Next
<1> QED
  BY <1>1, <1>2, <1>3 DEF DiskInv

\* A run in which every open succeeds, none within the second of the one before
\* it, is on disk: each event once, in order, file after file, and no later run
\* touches it (basicwriter.cc:21-51, 79-114).
THEOREM CleanRunIsOnDiskAlways == Spec => []CleanRunIsOnDisk
<1>1. DiskInv => CleanRunIsOnDisk
  BY DEF DiskInv
<1>2. QED
  BY <1>1, InitDisk, StepDisk, PTL DEF Spec
===============================================================================
