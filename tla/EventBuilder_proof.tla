------------------------- MODULE EventBuilder_proof -------------------------
(***************************************************************************)
(* Theorems about EventBuilder, for every value of its constants.          *)
(***************************************************************************)
EXTENDS EventBuilder, FiniteSetTheorems, TLAPS

\* There is at least one source.
LEMMA SourceCount == N \in Nat /\ N > 0
  BY SourcesAssumption, FS_CardinalityType, FS_EmptySet DEF N

LEMMA BufferTypes ==
    /\ NoBuffer \notin Buffers
    /\ Fragments \subseteq Buffers
    /\ Garbage \subseteq Buffers
    /\ \A b \in Buffers : b.evt \in EventNumbers /\ b.bx \in Crossings
  BY NamesAssumption, BoundsAssumption DEF Buffers, Fragments, Garbage, EventNumbers, Crossings

\* What appending a buffer does to an entry.
LEMMA AppendFacts ==
  ASSUME NEW S, NEW q \in Seq(S), NEW b \in S
  PROVE  /\ Append(q, b) \in Seq(S)
         /\ Len(Append(q, b)) = Len(q) + 1
         /\ Append(q, b) # << >>
         /\ Append(q, b)[1] \in S
         /\ Append(q, b)[Len(q) + 1] = b
         /\ \A i \in 1 .. Len(q) : Append(q, b)[i] = q[i]
<1>1. Append(q, b) \in Seq(S) /\ Len(Append(q, b)) = Len(q) + 1
  OBVIOUS
<1>2. Append(q, b)[1] \in S
  BY <1>1
<1>3. Append(q, b) # << >>
  <2>1. Len(<< >>) = 0 /\ Len(q) \in Nat
    OBVIOUS
  <2>2. Len(Append(q, b)) # 0
    BY <1>1, <2>1
  <2> QED
    BY <2>1, <2>2, Zenon
<1> QED
  BY <1>1, <1>2, <1>3

LEMMA RangeOfAppend ==
  ASSUME NEW S, NEW q \in Seq(S), NEW b \in S
  PROVE  Range(Append(q, b)) = Range(q) \cup {b}
<1>1. /\ DOMAIN Append(q, b) = 1 .. (Len(q) + 1)
      /\ DOMAIN q = 1 .. Len(q)
      /\ Len(q) \in Nat
  BY AppendFacts
<1>2. \A i \in 1 .. Len(q) : Append(q, b)[i] = q[i]
  BY AppendFacts
<1>3. Append(q, b)[Len(q) + 1] = b
  BY AppendFacts
<1>4. 1 .. (Len(q) + 1) = (1 .. Len(q)) \cup {Len(q) + 1}
  BY <1>1
<1> QED
  BY <1>1, <1>2, <1>3, <1>4, Zenon DEF Range

LEMMA RangeInSet ==
  ASSUME NEW S, NEW q \in Seq(S)
  PROVE  Range(q) \in SUBSET S
<1>1. \A i \in DOMAIN q : q[i] \in S
  OBVIOUS
<1> QED
  BY <1>1, Zenon DEF Range

\* Sequences with the same elements are equal.
LEMMA SameElements ==
  ASSUME NEW S, NEW q \in Seq(S), NEW p \in Seq(S), Len(p) = Len(q),
         \A i \in 1 .. Len(q) : p[i] = q[i]
  PROVE  p = q
  OBVIOUS

LEMMA RangeOfEmpty == Range(<< >>) = {}
<1>1. DOMAIN << >> = {}
  OBVIOUS
<1> QED
  BY <1>1, Zenon DEF Range

-----------------------------------------------------------------------------
(* The type invariant: it is inductive.                                    *)

LEMMA TypeInit == Init => TypeOK
<1> SUFFICES ASSUME Init PROVE TypeOK
  OBVIOUS
<1>1. sent \in [Sources -> Seq(Crossings)] /\ \A s \in Sources : Len(sent[s]) <= Len(tags)
  BY DEF Init
<1> QED
  BY <1>1, BoundsAssumption, BufferTypes DEF Init, TypeOK, EventNumbers, Crossings

LEMMA TypeStep == TypeOK /\ [Next]_vars => TypeOK'
<1> SUFFICES ASSUME TypeOK, [Next]_vars PROVE TypeOK'
  OBVIOUS
<1> USE BoundsAssumption, BufferTypes
<1>1. CASE Trigger
  <2>1. Len(tags) - base + 1 \in 1 .. MaxTriggers
    BY <1>1 DEF Trigger, TypeOK
  <2>2. tags' \in Seq(1 .. MaxTriggers) /\ Len(tags') = Len(tags) + 1
    BY <1>1, <2>1 DEF Trigger, TypeOK
  <2>3. /\ base' \in 0 .. Len(tags') /\ sent' \in [Sources -> Seq(Crossings)]
        /\ \A s \in Sources : Len(sent'[s]) <= Len(tags')
    <3>1. \A s \in Sources : Len(sent[s]) \in Nat /\ Len(sent[s]) <= Len(tags)
      BY DEF TypeOK
    <3> QED
      BY <1>1, <2>2, <3>1 DEF Trigger, TypeOK
  <2> QED
    BY <1>1, <2>2, <2>3 DEF Trigger, TypeOK, shmVars, ctlVars, scanVars, mapVars
<1>2. ASSUME NEW s \in Sources, NEW f \in Fragments, Publish(s, f)
      PROVE  /\ sent' \in [Sources -> Seq(Crossings)]
             /\ \A r \in Sources : Len(sent'[r]) <= Len(tags)
             /\ resends' \in 0 .. MaxResends
  <2>1. Len(tags) \in Nat /\ \A r \in Sources : Len(sent[r]) <= Len(tags)
    BY DEF TypeOK
  <2>2. CASE /\ Len(sent[s]) < Len(tags)
             /\ \E b \in Readable(s) : sent' = [sent EXCEPT ![s] = Append(@, b)]
             /\ UNCHANGED resends
    <3>1. PICK b \in Crossings : sent' = [sent EXCEPT ![s] = Append(@, b)]
      BY <2>2 DEF Readable
    <3>2. Append(sent[s], b) \in Seq(Crossings) /\ Len(Append(sent[s], b)) = Len(sent[s]) + 1
          /\ Len(sent[s]) \in Nat
      BY AppendFacts DEF TypeOK
    <3>3. \A r \in Sources : sent'[r] = IF r = s THEN Append(sent[s], b) ELSE sent[r]
      BY <3>1 DEF TypeOK
    <3>4. \A r \in Sources : Len(sent'[r]) <= Len(tags)
      BY <2>1, <2>2, <3>2, <3>3
    <3> QED
      BY <2>2, <3>1, <3>2, <3>4 DEF TypeOK
  <2>3. CASE /\ resends < MaxResends
             /\ resends' = resends + 1
             /\ UNCHANGED sent
    BY <2>1, <2>3 DEF TypeOK
  <2> QED
    BY <1>2, <2>2, <2>3 DEF Publish
<1>3. ASSUME NEW s \in Sources, StoreData(s) PROVE TypeOK'
  BY <1>2, <1>3 DEF StoreData, TypeOK, ctlVars, scanVars, mapVars
<1>4. ASSUME NEW s \in Sources, StoreFails(s) PROVE TypeOK'
  BY <1>2, <1>4 DEF StoreFails, TypeOK, ctlVars, scanVars, mapVars
<1>5. CASE StoreMarker
  BY <1>5 DEF StoreMarker, TypeOK, envVars, ctlVars, scanVars, mapVars
<1>6. CASE List
  BY <1>6 DEF List, TypeOK, envVars, shmVars, ctlVars, Crossings
<1>7. CASE ListMismatch
  BY <1>7 DEF ListMismatch, TypeOK, envVars, shmVars, ctlVars, mapVars
<1>8. CASE PurgeList
  BY <1>8 DEF PurgeList, TypeOK, envVars, shmVars, ctlVars, mapVars
<1>9. ASSUME NEW n \in listing, PurgeData(n) PROVE TypeOK'
  BY <1>9 DEF PurgeData, TypeOK, envVars, ctlVars, mapVars
<1>10. CASE PurgeMarker
  BY <1>10 DEF PurgeMarker, TypeOK, envVars, ctlVars, mapVars
<1>11. CASE PurgeDone
  BY <1>11 DEF PurgeDone, TypeOK, envVars, shmVars, ctlVars, mapVars
<1>12. ASSUME NEW n \in listing, Pull(n) PROVE TypeOK'
  BY <1>12 DEF Pull, TypeOK, envVars, ctlVars, mapVars
<1>13. ASSUME NEW n \in listing, PullUnreadable(n) PROVE TypeOK'
  BY <1>13 DEF PullUnreadable, TypeOK, envVars, shmVars, ctlVars
<1>14. CASE Insert
  <2> DEFINE e == buf.evt
             entry == Pushed(e, buf)
  <2>1. buf \in Buffers /\ e \in EventNumbers
    BY <1>14 DEF Insert, TypeOK
  <2>2. entry \in Seq(Buffers) /\ entry # << >> /\ entry[1] \in Buffers
    <3>1. eventMap[e] \in Seq(Buffers)
      BY <2>1 DEF TypeOK
    <3> QED
      BY <2>1, <3>1, AppendFacts DEF Pushed
  <2>3. twrite' \in Crossings
    BY <1>14, <2>2 DEF Insert, TypeOK
  <2>4. \/ eventMap' = [eventMap EXCEPT ![e] = entry]
        \/ eventMap' = [eventMap EXCEPT ![e] = << >>]
    BY <1>14 DEF Insert, ProcessEvent
  <2>5. eventMap' \in [EventNumbers -> Seq(Buffers)]
    <3>1. eventMap \in [EventNumbers -> Seq(Buffers)] /\ << >> \in Seq(Buffers)
      BY DEF TypeOK
    <3> HIDE DEF e, entry
    <3> QED
      BY <2>1, <2>2, <2>4, <3>1
  <2>6. \/ UNCHANGED handed
        \/ handed' = Append(handed, [run |-> run, evt |-> e, frags |-> entry])
    BY <1>14 DEF Insert, ProcessEvent
  <2>7. handed' \in Seq([run : 0 .. MaxRuns, evt : EventNumbers, frags : Seq(Buffers)])
    <3> HIDE DEF e, entry
    <3> DEFINE R == [run : 0 .. MaxRuns, evt : EventNumbers, frags : Seq(Buffers)]
               r == [run |-> run, evt |-> e, frags |-> entry]
    <3>1. r \in R /\ handed \in Seq(R)
      BY <2>1, <2>2 DEF TypeOK
    <3> HIDE DEF R
    <3>2. Append(handed, r) \in Seq(R)
      BY <3>1, AppendFacts
    <3> QED
      BY <2>6, <3>1, <3>2 DEF R
  <2>8. /\ UNCHANGED <<envVars, dim, closed, ctlVars, listing, garbage>>
        /\ data' = data \ {buf} /\ buf' = NoBuffer /\ scan' = "pull" /\ scan = "insert"
    BY <1>14 DEF Insert
  <2> HIDE DEF e, entry
  <2> QED
    BY <2>3, <2>5, <2>7, <2>8 DEF TypeOK, envVars, ctlVars
<1>15. CASE EndListing
  <2>1. eventMap' \in [EventNumbers -> Seq(Buffers)]
    BY <1>15 DEF EndListing, TypeOK
  <2> QED
    BY <1>15, <2>1 DEF EndListing, TypeOK, envVars, shmVars, ctlVars, Crossings
<1>16. CASE Exit
  BY <1>16 DEF Exit, TypeOK, envVars, shmVars, ctlVars, mapVars
<1>17. CASE Start
  BY <1>17 DEF Start, TypeOK, shmVars, mapVars
<1>18. CASE Stop
  BY <1>18 DEF Stop, TypeOK, envVars, shmVars, scanVars, mapVars
<1>19. CASE Join
  BY <1>19 DEF Join, TypeOK, envVars, shmVars, scanVars, mapVars
<1>20. CASE UNCHANGED vars
  BY <1>20 DEF vars, TypeOK, envVars, shmVars, ctlVars, scanVars, mapVars
<1> QED
  BY <1>1, <1>3, <1>4, <1>5, <1>6, <1>7, <1>8, <1>9, <1>10, <1>11, <1>12, <1>13,
     <1>14, <1>15, <1>16, <1>17, <1>18, <1>19, <1>20 DEF Next, FrontEnd, Scanner

\* Every variable keeps its type in every run of the event builder.
THEOREM TypeCorrect == Spec => []TypeOK
  BY TypeInit, TypeStep, PTL DEF Spec

-----------------------------------------------------------------------------
(* What holds however often DIM delivers a fragment, and over any number   *)
(* of runs: the map never keeps a complete entry, and what is handed over  *)
(* is complete by number.                                                  *)

\* Only the insertion of a buffer and the end of a listing touch the map, and
\* only the insertion calls the processors.
LEMMA MapStep == [Next]_vars => Insert \/ EndListing \/ UNCHANGED <<eventMap, handed>>
  BY DEF Next, FrontEnd, Scanner, vars, mapVars,
         Trigger, StoreData, StoreFails, StoreMarker, List, ListMismatch, PurgeList, PurgeData,
         PurgeMarker, PurgeDone, Pull, PullUnreadable, Exit, Start, Stop, Join

HandedType == [run : 0 .. MaxRuns, evt : EventNumbers, frags : Seq(Buffers)]

\* The two outcomes of an insertion, with the facts the invariants need.
LEMMA InsertCases ==
  ASSUME TypeOK, Insert
  PROVE  \E e \in EventNumbers, entry \in Seq(Buffers) :
           /\ buf \in Buffers /\ e = buf.evt
           /\ entry = Append(eventMap[e], buf)
           /\ Len(entry) = Len(eventMap[e]) + 1
           /\ Range(entry) = Range(eventMap[e]) \cup {buf}
           /\ \/ /\ ~Complete(entry) \/ e = 0
                 /\ eventMap' = [eventMap EXCEPT ![e] = entry]
                 /\ handed' = handed
              \/ /\ Complete(entry) /\ e # 0
                 /\ eventMap' = [eventMap EXCEPT ![e] = << >>]
                 /\ Range(handed') =
                      Range(handed) \cup {[run |-> run, evt |-> e, frags |-> entry]}
<1> DEFINE e == buf.evt
           entry == Pushed(e, buf)
           r == [run |-> run, evt |-> e, frags |-> entry]
<1>1. buf \in Buffers /\ e \in EventNumbers
  BY BufferTypes DEF Insert, TypeOK
<1>2. eventMap[e] \in Seq(Buffers)
  BY <1>1 DEF TypeOK
<1>3. /\ entry \in Seq(Buffers)
      /\ Len(entry) = Len(eventMap[e]) + 1
      /\ Range(entry) = Range(eventMap[e]) \cup {buf}
  BY <1>1, <1>2, AppendFacts, RangeOfAppend DEF Pushed
<1>4. r \in HandedType /\ handed \in Seq(HandedType)
  BY <1>1, <1>3 DEF TypeOK, HandedType
<1>5. Range(Append(handed, r)) = Range(handed) \cup {r}
  BY <1>4, RangeOfAppend
<1>6. \/ /\ ~Complete(entry) \/ e = 0
         /\ eventMap' = [eventMap EXCEPT ![e] = entry]
         /\ handed' = handed
      \/ /\ Complete(entry) /\ e # 0
         /\ eventMap' = [eventMap EXCEPT ![e] = << >>]
         /\ handed' = Append(handed, r)
  BY DEF Insert, ProcessEvent
<1> HIDE DEF e, entry
<1>7. e = buf.evt /\ entry = Append(eventMap[e], buf)
  BY DEF e, entry, Pushed
<1> QED
  BY <1>1, <1>3, <1>5, <1>6, <1>7

\* A finished listing only empties entries.
LEMMA EndListingCases ==
  ASSUME TypeOK, EndListing
  PROVE  /\ handed' = handed
         /\ \A e \in EventNumbers : eventMap'[e] \in {eventMap[e], << >>}
  BY DEF EndListing, TypeOK

LEMMA CountInit == Init => NoneWaits /\ HandedByNumber
  BY SourceCount, RangeOfEmpty DEF Init, NoneWaits, HandedByNumber

LEMMA CountStep ==
  TypeOK /\ NoneWaits /\ HandedByNumber /\ [Next]_vars => NoneWaits' /\ HandedByNumber'
<1> SUFFICES ASSUME TypeOK, NoneWaits, HandedByNumber, [Next]_vars
             PROVE  NoneWaits' /\ HandedByNumber'
  OBVIOUS
<1> USE SourceCount
<1>1. CASE Insert
  <2>1. PICK e \in EventNumbers, entry \in Seq(Buffers) :
           /\ buf \in Buffers /\ e = buf.evt
           /\ entry = Append(eventMap[e], buf)
           /\ Len(entry) = Len(eventMap[e]) + 1
           /\ Range(entry) = Range(eventMap[e]) \cup {buf}
           /\ \/ /\ ~Complete(entry) \/ e = 0
                 /\ eventMap' = [eventMap EXCEPT ![e] = entry]
                 /\ handed' = handed
              \/ /\ Complete(entry) /\ e # 0
                 /\ eventMap' = [eventMap EXCEPT ![e] = << >>]
                 /\ Range(handed') =
                      Range(handed) \cup {[run |-> run, evt |-> e, frags |-> entry]}
    BY <1>1, InsertCases
  <2>2. eventMap \in [EventNumbers -> Seq(Buffers)]
    BY DEF TypeOK
  <2>3. \A b \in Range(entry) : b.evt = e
    BY <2>1 DEF NoneWaits
  <2>4. NoneWaits'
    <3> SUFFICES ASSUME NEW d \in EventNumbers
                 PROVE  /\ d # 0 => Len(eventMap'[d]) < N
                        /\ \A b \in Range(eventMap'[d]) : b.evt = d
      BY DEF NoneWaits
    <3>1. CASE d # e
      BY <2>1, <2>2, <3>1 DEF NoneWaits
    <3>2. CASE d = e /\ (~Complete(entry) \/ e = 0)
      <4>1. Len(eventMap[e]) \in Nat /\ (e # 0 => Len(eventMap[e]) < N)
        BY <2>2, <3>2 DEF NoneWaits
      <4>2. e # 0 => Len(entry) < N
        BY <2>1, <3>2, <4>1 DEF Complete
      <4> QED
        BY <2>1, <2>2, <2>3, <3>2, <4>2
    <3>3. CASE d = e /\ Complete(entry) /\ e # 0
      BY <2>1, <2>2, <3>3, RangeOfEmpty
    <3> QED
      BY <3>1, <3>2, <3>3
  <2>5. HandedByNumber'
    <3> SUFFICES ASSUME NEW h \in Range(handed')
                 PROVE  /\ h.evt # 0
                        /\ Len(h.frags) = N
                        /\ \A b \in Range(h.frags) : b.evt = h.evt
      BY DEF HandedByNumber
    <3>1. CASE h \in Range(handed)
      BY <3>1 DEF HandedByNumber
    <3>2. CASE h = [run |-> run, evt |-> e, frags |-> entry] /\ Complete(entry) /\ e # 0
      BY <2>3, <3>2 DEF Complete
    <3> QED
      BY <2>1, <3>1, <3>2
  <2> QED
    BY <2>4, <2>5
<1>2. CASE EndListing
  <2>1. NoneWaits'
    <3> SUFFICES ASSUME NEW d \in EventNumbers
                 PROVE  /\ d # 0 => Len(eventMap'[d]) < N
                        /\ \A b \in Range(eventMap'[d]) : b.evt = d
      BY DEF NoneWaits
    <3>1. eventMap'[d] \in {eventMap[d], << >>}
      BY <1>2, EndListingCases
    <3> QED
      BY <3>1, RangeOfEmpty DEF NoneWaits
  <2> QED
    BY <1>2, <2>1, EndListingCases DEF HandedByNumber
<1>3. CASE UNCHANGED <<eventMap, handed>>
  BY <1>3 DEF NoneWaits, HandedByNumber
<1> QED
  BY <1>1, <1>2, <1>3, MapStep

\* No complete event waits in the map, in any run of the event builder.
THEOREM NoneWaitsAlways == Spec => []NoneWaits
  BY TypeCorrect, CountInit, CountStep, PTL DEF Spec

\* What the processors get under an event number is N buffers of that number.
THEOREM HandedByNumberAlways == Spec => []HandedByNumber
  BY TypeCorrect, CountInit, CountStep, PTL DEF Spec

-----------------------------------------------------------------------------
(* One run, each fragment delivered once: the custody of a fragment.       *)

LEMMA CustodyInit == Init => Custody
<1> SUFFICES ASSUME Init PROVE Custody
  OBVIOUS
<1>1. Numbered /\ Listings /\ MarkerHasData
  BY DEF Init, Numbered, Listings, MarkerHasData
<1>2. \A e \in EventNumbers : eventMap[e] = << >> /\ Range(eventMap[e]) = {}
  BY RangeOfEmpty DEF Init
<1>3. Range(handed) = {}
  BY RangeOfEmpty DEF Init
<1>4. AllIssued /\ NoCopies
  BY <1>2, <1>3 DEF Init, AllIssued, NoCopies, IsInjective
<1>5. OnePlace
  BY <1>2, <1>3, NamesAssumption, BufferTypes DEF Init, OnePlace, InMap, InHand
<1> QED
  BY <1>1, <1>4, <1>5 DEF Custody

\* The steps of the DIM thread: a fragment that is new everywhere.
LEMMA CustodyStore ==
  ASSUME OneRun, TypeOK, Custody, NEW s \in Sources, StoreData(s) \/ StoreFails(s)
  PROVE  Custody'
<1> USE DEF Custody
<1>1. PICK f \in Fragments :
        /\ Publish(s, f)
        /\ dim = NoBuffer
        /\ data' \in {data, data \cup {f}}
        /\ dim' \in {f, NoBuffer}
        /\ dim' = f => f \in data'
  <2>1. CASE StoreData(s)
    BY <2>1 DEF StoreData
  <2>2. CASE StoreFails(s)
    <3>1. PICK f \in Fragments : Publish(s, f) /\ data' \in {data, data \cup {f}}
      BY <2>2 DEF StoreFails
    <3>2. dim = NoBuffer /\ dim' = NoBuffer /\ f # NoBuffer
      BY <2>2, BufferTypes DEF StoreFails
    <3> QED
      BY <3>1, <3>2
  <2> QED
    BY <2>1, <2>2
<1>2. UNCHANGED <<tags, base, closed, main, run, scan, listing, buf, eventMap, handed>>
  BY DEF StoreData, StoreFails, ctlVars, scanVars, mapVars
<1>3. PICK b \in Crossings :
        /\ Len(sent[s]) < Len(tags)
        /\ f = Fragment(s, Len(sent[s]) + 1, b)
        /\ sent' = [sent EXCEPT ![s] = Append(@, b)]
  BY <1>1 DEF Publish, Readable, OneRun, TypeOK
<1> DEFINE k == Len(sent[s]) + 1
<1>4. f.src = s /\ f.evt = k /\ f.bx = b
  <2>1. k \in DOMAIN tags
    BY <1>3 DEF TypeOK
  <2> QED
    BY <1>3, <2>1 DEF Fragment, Numbered
<1>14. /\ sent[s] \in Seq(Crossings) /\ k \notin DOMAIN sent[s]
       /\ sent'[s] = Append(sent[s], b)
       /\ DOMAIN sent'[s] = DOMAIN sent[s] \cup {k} /\ sent'[s][k] = b
       /\ \A e \in DOMAIN sent[s] : sent'[s][e] = sent[s][e]
       /\ \A r \in Sources : r # s => sent'[r] = sent[r]
  <2>1. sent[s] \in Seq(Crossings) /\ DOMAIN sent[s] = 1 .. Len(sent[s]) /\ Len(sent[s]) \in Nat
    BY DEF TypeOK
  <2>2. sent'[s] = Append(sent[s], b) /\ \A r \in Sources : r # s => sent'[r] = sent[r]
    BY <1>3 DEF TypeOK
  <2>3. DOMAIN Append(sent[s], b) = 1 .. k /\ 1 .. k = (1 .. Len(sent[s])) \cup {k}
    BY <2>1
  <2> QED
    BY <2>1, <2>2, <2>3, AppendFacts
<1> HIDE DEF k
<1>5. ~Issued(f) /\ Issued(f)'
  BY <1>1, <1>4, <1>14 DEF Issued
<1>6. \A g : Issued(g) => Issued(g)'
  <2> SUFFICES ASSUME NEW g, Issued(g) PROVE Issued(g)'
    OBVIOUS
  <2>1. g \in Fragments /\ g.src \in Sources
    BY DEF Issued, Fragments
  <2>2. CASE g.src = s
    BY <1>14, <2>2 DEF Issued
  <2>3. CASE g.src # s
    BY <1>14, <2>1, <2>3 DEF Issued
  <2> QED
    BY <2>2, <2>3
<1>7. Numbered' /\ Listings'
  BY <1>2 DEF Numbered, Listings
<1>8. AllIssued'
  BY <1>1, <1>2, <1>5, <1>6 DEF AllIssued
<1>9. NoCopies' /\ MarkerHasData'
  BY <1>1, <1>2 DEF NoCopies, MarkerHasData
<1>10. OnePlace'
  <2>1. f \notin data \cup closed /\ ~InMap(f) /\ \A h \in Range(handed) : f \notin Range(h.frags)
    BY <1>5 DEF AllIssued, InMap
  <2>2. ~InHand(f)
    BY <2>1 DEF OnePlace
  <2>3. \A g : (InMap(g)' <=> InMap(g)) /\ (InHand(g)' <=> InHand(g))
    BY <1>2 DEF InMap, InHand
  <2> QED
    BY <1>1, <1>2, <2>1, <2>2, <2>3, BufferTypes DEF OnePlace
<1> QED
  BY <1>7, <1>8, <1>9, <1>10

\* The insertion moves a fragment from the disk to the map, and with the last
\* fragment of an event all of them to the processors.
LEMMA CustodyInsert ==
  ASSUME TypeOK, NoneWaits, Custody, Insert
  PROVE  Custody'
<1> USE DEF Custody
<1>1. PICK e \in EventNumbers, entry \in Seq(Buffers) :
           /\ buf \in Buffers /\ e = buf.evt
           /\ entry = Append(eventMap[e], buf)
           /\ Len(entry) = Len(eventMap[e]) + 1
           /\ Range(entry) = Range(eventMap[e]) \cup {buf}
           /\ \/ /\ ~Complete(entry) \/ e = 0
                 /\ eventMap' = [eventMap EXCEPT ![e] = entry]
                 /\ handed' = handed
              \/ /\ Complete(entry) /\ e # 0
                 /\ eventMap' = [eventMap EXCEPT ![e] = << >>]
                 /\ Range(handed') =
                      Range(handed) \cup {[run |-> run, evt |-> e, frags |-> entry]}
  BY InsertCases
<1>2. /\ scan = "insert" /\ scan' = "pull" /\ buf' = NoBuffer
      /\ data' = data \ {buf}
      /\ UNCHANGED <<tags, base, sent, dim, closed, main, run, listing>>
  BY DEF Insert, envVars, ctlVars
<1>3. /\ buf \in Fragments /\ buf \in data /\ buf \notin closed /\ buf # dim
      /\ Issued(buf) /\ ~InMap(buf)
      /\ \A h \in Range(handed) : buf \notin Range(h.frags)
  BY <1>2 DEF Listings, OnePlace, InHand, AllIssued
<1>4. eventMap \in [EventNumbers -> Seq(Buffers)]
  BY DEF TypeOK
<1>5. \A f \in Range(entry) : Issued(f) /\ f.evt = e
  BY <1>1, <1>3 DEF AllIssued, NoneWaits
<1>6. IsInjective(entry)
  <2>1. DOMAIN entry = 1 .. (Len(eventMap[e]) + 1) /\ DOMAIN eventMap[e] = 1 .. Len(eventMap[e])
    BY <1>1, <1>4
  <2>2. \A i \in 1 .. Len(eventMap[e]) : entry[i] = eventMap[e][i] /\ entry[i] # buf
    <3>1. buf \notin Range(eventMap[e])
      BY <1>3 DEF InMap
    <3>2. \A i \in 1 .. Len(eventMap[e]) : entry[i] = eventMap[e][i]
      BY <1>1, <1>4, AppendFacts
    <3> QED
      BY <2>1, <3>1, <3>2 DEF Range
  <2>3. entry[Len(eventMap[e]) + 1] = buf
    BY <1>1, <1>4, AppendFacts
  <2>4. IsInjective(eventMap[e]) /\ Len(eventMap[e]) \in Nat
    BY <1>4 DEF NoCopies
  <2> QED
    BY <2>1, <2>2, <2>3, <2>4 DEF IsInjective
<1>7. \A f : Issued(f)' <=> Issued(f)
  BY <1>2 DEF Issued
<1>12. \A d \in EventNumbers :
         eventMap'[d] = eventMap[d] \/ (d = e /\ eventMap'[d] \in {entry, << >>})
  BY <1>1, <1>4
<1>13. \A d \in EventNumbers :
         \A f \in Range(eventMap'[d]) : f \in Range(eventMap[d]) \/ f = buf
  BY <1>1, <1>12, RangeOfEmpty
<1>14. \A h \in Range(handed') :
         h \in Range(handed) \/ (h.frags = entry /\ Complete(entry) /\ e # 0)
  BY <1>1
<1>8. Numbered' /\ Listings' /\ MarkerHasData'
  BY <1>2, <1>3 DEF Numbered, Listings, MarkerHasData
<1>9. AllIssued'
  <2>1. \A f \in (data \cup closed)' : Issued(f)'
    BY <1>2, <1>7 DEF AllIssued
  <2>2. \A d \in EventNumbers : \A f \in Range(eventMap'[d]) : Issued(f)'
    BY <1>3, <1>7, <1>13 DEF AllIssued
  <2>3. \A h \in Range(handed') : \A f \in Range(h.frags) : Issued(f)'
    BY <1>5, <1>7, <1>14 DEF AllIssued
  <2> QED
    BY <2>1, <2>2, <2>3 DEF AllIssued
<1>10. NoCopies'
  <2>1. IsInjective(<< >>)
    BY DEF IsInjective
  <2> QED
    BY <1>6, <1>12, <1>14, <2>1 DEF NoCopies
<1>11. OnePlace'
  <2>1. \A f : InMap(f)' => InMap(f) \/ f = buf
    BY <1>13 DEF InMap
  <2>2. ASSUME Complete(entry), e # 0, NEW f \in Range(entry)
        PROVE  ~InMap(f)' /\ f \notin (data \cup closed)'
    <3>1. f = buf \/ f \in Range(eventMap[e])
      BY <1>1
    <3>2. f \notin data' \cup closed'
      BY <1>2, <1>3, <1>5, <2>2, <3>1 DEF OnePlace, InMap, Issued
    <3>3. \A d \in EventNumbers : f \notin Range(eventMap'[d])
      BY <1>1, <1>3, <1>4, <1>5, <2>2, RangeOfEmpty DEF NoneWaits, InMap
    <3> QED
      BY <3>2, <3>3 DEF InMap
  <2>3. \A f : ~InHand(f)'
    BY <1>2 DEF InHand
  <2>4. ASSUME NEW f \in Fragments, f \in (data \cup closed)'
        PROVE  ~InMap(f)'
    BY <1>2, <1>3, <2>1, <2>4 DEF OnePlace
  <2>5. ASSUME NEW f \in Fragments, f \in (data \cup closed)' \/ InMap(f)'
        PROVE  \A h \in Range(handed') : f \notin Range(h.frags)
    <3>1. \A h \in Range(handed) : f \notin Range(h.frags)
      BY <1>2, <1>3, <2>1, <2>5 DEF OnePlace
    <3>2. Complete(entry) /\ e # 0 => f \notin Range(entry)
      BY <2>2, <2>5
    <3> QED
      BY <1>14, <3>1, <3>2
  <2>6. ASSUME NEW f \in Fragments, f = dim'
        PROVE  f \in (data \ closed)'
    BY <1>2, <1>3, <2>6 DEF OnePlace
  <2> QED
    BY <2>3, <2>4, <2>5, <2>6 DEF OnePlace
<1> QED
  BY <1>8, <1>9, <1>10, <1>11

\* A step that leaves the map, the history and the deliveries alone keeps what
\* is said of them.
LEMMA CustodyFrame ==
  ASSUME TypeOK, Custody, UNCHANGED <<sent, eventMap, handed>>,
         data' \subseteq data, closed' \subseteq closed \cup {dim}, dim \in Fragments \/ closed' \subseteq closed
  PROVE  /\ AllIssued' /\ NoCopies'
         /\ \A f : InMap(f)' <=> InMap(f)
<1>1. \A f : Issued(f)' <=> Issued(f)
  BY DEF Issued
<1>2. \A f \in (data \cup closed)' : f \in data \cup closed
  BY DEF Custody, OnePlace
<1> QED
  BY <1>1, <1>2 DEF Custody, AllIssued, NoCopies, InMap

LEMMA CustodyStep ==
  ASSUME OneRun
  PROVE  TypeOK /\ NoneWaits /\ Custody /\ [Next]_vars => Custody'
<1> SUFFICES ASSUME TypeOK, NoneWaits, Custody, [Next]_vars PROVE Custody'
  OBVIOUS
<1>1. ASSUME NEW s \in Sources, StoreData(s) \/ StoreFails(s) PROVE Custody'
  BY <1>1, CustodyStore
<1>2. CASE Insert
  BY <1>2, CustodyInsert
<1>3. CASE EndListing
  <2>1. \A e \in EventNumbers : eventMap'[e] \in {eventMap[e], << >>}
    BY <1>3, EndListingCases
  <2>2. \A e \in EventNumbers : \A f \in Range(eventMap'[e]) : f \in Range(eventMap[e])
    BY <2>1, RangeOfEmpty
  <2>3. UNCHANGED <<envVars, dim, shmVars, ctlVars, listing, buf, handed>> /\ scan' = "top"
        /\ scan = "pull" /\ listing = {}
    BY <1>3 DEF EndListing
  <2>4. \A f : Issued(f)' <=> Issued(f)
    BY <2>3 DEF Issued, envVars
  <2>5. AllIssued'
    BY <2>2, <2>3, <2>4 DEF Custody, AllIssued, shmVars
  <2>6. NoCopies'
    BY <2>1, <2>3 DEF Custody, NoCopies, IsInjective
  <2>7. Numbered' /\ Listings' /\ MarkerHasData'
    BY <2>3 DEF Custody, Numbered, Listings, MarkerHasData, envVars, shmVars, ctlVars
  <2>8. OnePlace'
    <3>1. \A f : InMap(f)' => InMap(f)
      BY <2>2 DEF InMap
    <3>2. \A f : ~InHand(f)'
      BY <2>3 DEF InHand
    <3> QED
      BY <2>3, <3>1, <3>2 DEF Custody, OnePlace, shmVars
  <2> QED
    BY <2>5, <2>6, <2>7, <2>8 DEF Custody
<1>4. CASE Trigger
  <2>1. UNCHANGED <<base, sent, resends, dim, shmVars, ctlVars, scanVars, mapVars>>
    BY <1>4 DEF Trigger
  <2>2. Numbered'
    <3>1. main = "running" /\ base = 0 /\ tags' = Append(tags, Len(tags) - base + 1)
      BY <1>4 DEF Trigger, Custody, Numbered
    <3>2. tags \in Seq(1 .. MaxTriggers) /\ tags' = Append(tags, Len(tags) + 1)
      BY <3>1 DEF TypeOK
    <3>3. \A k \in DOMAIN tags' : tags'[k] = k
      BY <3>2 DEF Custody, Numbered
    <3> QED
      BY <2>1, <3>1, <3>3 DEF Custody, Numbered, ctlVars
  <2>3. AllIssued' /\ NoCopies' /\ (\A f : InMap(f)' <=> InMap(f))
    BY <2>1, CustodyFrame DEF shmVars, mapVars
  <2> QED
    BY <2>1, <2>2, <2>3
    DEF Custody, Listings, MarkerHasData, OnePlace, InHand, shmVars, scanVars, mapVars
<1>5. CASE StoreMarker
  <2>1. UNCHANGED <<envVars, data, ctlVars, scanVars, mapVars>> /\ dim' = NoBuffer
        /\ dim \in Fragments /\ closed' \subseteq closed \cup {dim} /\ closed \subseteq closed'
    BY <1>5 DEF StoreMarker, TypeOK
  <2>2. AllIssued' /\ NoCopies' /\ (\A f : InMap(f)' <=> InMap(f))
    BY <2>1, CustodyFrame DEF envVars, mapVars
  <2>3. Numbered' /\ Listings'
    BY <2>1 DEF Custody, Numbered, Listings, envVars, ctlVars, scanVars
  <2>4. dim \in data \ closed
    BY <2>1 DEF Custody, OnePlace
  <2>5. MarkerHasData'
    BY <2>1, <2>4 DEF Custody, MarkerHasData, scanVars
  <2>6. OnePlace'
    BY <2>1, <2>2, <2>4, BufferTypes DEF Custody, OnePlace, InHand, scanVars, mapVars
  <2> QED
    BY <2>2, <2>3, <2>5, <2>6 DEF Custody
<1>6. CASE List \/ ListMismatch \/ PurgeList \/ PurgeDone \/ Exit
  <2>1. UNCHANGED <<envVars, dim, shmVars, ctlVars, buf, eventMap, handed>> /\ listing' \subseteq closed
        /\ scan \in {"top", "purge", "unlink"} /\ scan' \in {"pull", "purge", "unlink", "top", "off"}
        /\ (scan' \in {"purge", "top", "off"} => listing' = {})
    BY <1>6 DEF List, ListMismatch, PurgeList, PurgeDone, Exit, Custody, Listings, mapVars
  <2>2. AllIssued' /\ NoCopies' /\ (\A f : InMap(f)' <=> InMap(f))
    BY <2>1, CustodyFrame DEF envVars, shmVars
  <2>3. Numbered' /\ Listings' /\ MarkerHasData'
    BY <2>1 DEF Custody, Numbered, Listings, MarkerHasData, envVars, shmVars, ctlVars
  <2>4. OnePlace'
    BY <2>1, <2>2 DEF Custody, OnePlace, InHand, shmVars
  <2> QED
    BY <2>2, <2>3, <2>4 DEF Custody
<1>7. ASSUME NEW n \in listing, PurgeData(n) PROVE Custody'
  <2>1. UNCHANGED <<envVars, dim, closed, ctlVars, listing, mapVars>> /\ data' = data \ {n}
        /\ scan = "unlink" /\ scan' = "unmark" /\ buf' = n /\ n \in closed
    BY <1>7 DEF PurgeData, Custody, Listings
  <2>2. AllIssued' /\ NoCopies' /\ (\A f : InMap(f)' <=> InMap(f))
    BY <2>1, CustodyFrame DEF envVars, mapVars
  <2>3. Numbered' /\ Listings' /\ MarkerHasData'
    BY <2>1 DEF Custody, Numbered, Listings, MarkerHasData, envVars, ctlVars
  <2>4. OnePlace'
    BY <2>1, <2>2 DEF Custody, OnePlace, InHand, mapVars
  <2> QED
    BY <2>2, <2>3, <2>4 DEF Custody
<1>8. CASE PurgeMarker
  <2>1. UNCHANGED <<envVars, dim, data, ctlVars, mapVars>> /\ closed' = closed \ {buf}
        /\ listing' = listing \ {buf} /\ scan = "unmark" /\ scan' = "unlink" /\ buf' = NoBuffer
    BY <1>8 DEF PurgeMarker
  <2>2. AllIssued' /\ NoCopies' /\ (\A f : InMap(f)' <=> InMap(f))
    BY <2>1, CustodyFrame DEF envVars, mapVars
  <2>3. Numbered' /\ Listings' /\ MarkerHasData'
    BY <2>1 DEF Custody, Numbered, Listings, MarkerHasData, envVars, ctlVars
  <2>4. OnePlace'
    BY <2>1, <2>2 DEF Custody, OnePlace, InHand, mapVars
  <2> QED
    BY <2>2, <2>3, <2>4 DEF Custody
<1>9. ASSUME NEW n \in listing, Pull(n) PROVE Custody'
  <2>1. UNCHANGED <<envVars, dim, data, ctlVars, mapVars>> /\ closed' = closed \ {n}
        /\ listing' = listing \ {n} /\ scan = "pull" /\ scan' = "insert" /\ buf' = n
        /\ n \in data /\ n \in closed /\ n \in Fragments
    BY <1>9 DEF Pull, Custody, Listings, TypeOK
  <2>2. AllIssued' /\ NoCopies' /\ (\A f : InMap(f)' <=> InMap(f))
    BY <2>1, CustodyFrame DEF envVars, mapVars
  <2>3. Numbered' /\ Listings' /\ MarkerHasData'
    BY <2>1 DEF Custody, Numbered, Listings, MarkerHasData, envVars, ctlVars
  <2>4. OnePlace'
    BY <2>1, <2>2 DEF Custody, OnePlace, InHand, mapVars
  <2> QED
    BY <2>2, <2>3, <2>4 DEF Custody
<1>10. ASSUME NEW n \in listing, PullUnreadable(n) PROVE Custody'
  BY <1>10 DEF PullUnreadable, Custody, Listings, MarkerHasData
<1>11. CASE Start
  <2>1. UNCHANGED <<tags, sent, resends, dim, shmVars, listing, buf, mapVars>>
        /\ run' = run + 1 /\ run < 1 /\ base' = Len(tags) /\ scan = "off" /\ scan' = "top"
    BY <1>11 DEF Start, OneRun, TypeOK
  <2>2. AllIssued' /\ NoCopies' /\ (\A f : InMap(f)' <=> InMap(f))
    BY <2>1, CustodyFrame DEF shmVars, mapVars
  <2>3. run = 0
    BY <2>1 DEF TypeOK
  <2>4. Numbered'
    BY <2>1, <2>3 DEF Custody, Numbered
  <2>5. Listings' /\ MarkerHasData'
    BY <2>1 DEF Custody, Listings, MarkerHasData, shmVars
  <2>6. OnePlace'
    BY <2>1, <2>2 DEF Custody, OnePlace, InHand, shmVars, mapVars
  <2> QED
    BY <2>2, <2>4, <2>5, <2>6 DEF Custody
<1>12. CASE Stop \/ Join \/ UNCHANGED vars
  <2>1. UNCHANGED <<envVars, dim, shmVars, run, scanVars, mapVars>>
        /\ (main' = "stopped" \/ main' = main \/ run # 0)
    BY <1>12 DEF Stop, Join, vars, ctlVars, Custody, Numbered
  <2>2. AllIssued' /\ NoCopies' /\ (\A f : InMap(f)' <=> InMap(f))
    BY <2>1, CustodyFrame DEF envVars, shmVars, mapVars
  <2>3. Numbered' /\ Listings' /\ MarkerHasData'
    BY <2>1 DEF Custody, Numbered, Listings, MarkerHasData, envVars, shmVars, scanVars
  <2>4. OnePlace'
    BY <2>1, <2>2 DEF Custody, OnePlace, InHand, shmVars, scanVars, mapVars
  <2> QED
    BY <2>2, <2>3, <2>4 DEF Custody
<1> QED
  BY <1>1, <1>2, <1>3, <1>4, <1>5, <1>6, <1>7, <1>8, <1>9, <1>10, <1>11, <1>12
  DEF Next, FrontEnd, Scanner

\* In one run without redelivery a fragment is in one place, once, from the
\* handler that stores it to the processors that get it.
THEOREM CustodyAlways ==
  ASSUME OneRun
  PROVE  Spec => []Custody
  BY TypeCorrect, NoneWaitsAlways, CustodyInit, CustodyStep, PTL DEF Spec

-----------------------------------------------------------------------------
(* What a built event is, in one run without redelivery.                   *)

\* The fragments of one event are told apart by their sources, whatever crossing
\* they carry: a source has one fragment for an event.
LEMMA SameEventSameSource ==
  ASSUME NEW f, NEW g, Issued(f), Issued(g), f.src = g.src, f.evt = g.evt
  PROVE  f = g
  BY DEF Issued, Fragments

\* N different fragments of one event come from all the sources.
LEMMA AllSources ==
  ASSUME NEW q \in Seq(Fragments), Len(q) = N, IsInjective(q), NEW e,
         \A f \in Range(q) : Issued(f) /\ f.evt = e
  PROVE  {f.src : f \in Range(q)} = Sources
<1> DEFINE src == [i \in 1 .. N |-> q[i].src]
<1>1. DOMAIN q = 1 .. N /\ \A i \in 1 .. N : q[i] \in Fragments /\ q[i] \in Range(q)
  BY SourceCount DEF Range
<1>2. src \in [1 .. N -> Sources]
  BY <1>1 DEF Fragments
<1>3. ASSUME NEW i \in 1 .. N, NEW j \in 1 .. N, src[i] = src[j] PROVE i = j
  <2>1. q[i] = q[j]
    BY <1>1, <1>3, SameEventSameSource
  <2> QED
    BY <1>1, <2>1 DEF IsInjective
<1>4. src \in Injection(1 .. N, Sources)
  BY <1>2, <1>3, Zenon DEF Injection, IsInjective
<1>5. Cardinality(1 .. N) = Cardinality(Sources)
  <2>1. N = Cardinality(Sources)
    BY DEF N
  <2> QED
    BY <2>1, SourceCount, FS_Interval
<1>6. src \in Surjection(1 .. N, Sources)
  BY <1>4, <1>5, SourcesAssumption, FS_Injection, Zenon
<1>7. \A s \in Sources : \E i \in 1 .. N : q[i].src = s
  BY <1>6 DEF Surjection
<1>8. \A s \in Sources : s \in {f.src : f \in Range(q)}
  BY <1>1, <1>7
<1>9. \A f \in Range(q) : f.src \in Sources
  BY <1>1 DEF Range, Fragments
<1> QED
  BY <1>8, <1>9

LEMMA HandedFrags ==
  ASSUME TypeOK, Custody, HandedByNumber, NEW h \in Range(handed)
  PROVE  /\ h.frags \in Seq(Fragments)
         /\ Len(h.frags) = N
         /\ IsInjective(h.frags)
         /\ \A f \in Range(h.frags) : Issued(f) /\ f.evt = h.evt
<1>1. h \in HandedType
  <2>1. handed \in Seq(HandedType)
    BY DEF TypeOK, HandedType
  <2>2. \A i \in DOMAIN handed : handed[i] \in HandedType
    BY <2>1
  <2> QED
    BY <2>2, Zenon DEF Range
<1>2. h.frags \in Seq(Buffers) /\ Len(h.frags) = N /\ IsInjective(h.frags)
  BY <1>1 DEF HandedType, HandedByNumber, Custody, NoCopies
<1>3. \A f \in Range(h.frags) : Issued(f) /\ f \in Fragments /\ f.evt = h.evt
  BY DEF Custody, AllIssued, Issued, HandedByNumber
<1>4. \A i \in 1 .. Len(h.frags) : h.frags[i] \in Fragments
  BY <1>2, <1>3 DEF Range
<1> QED
  BY <1>2, <1>3, <1>4

LEMMA BuiltEvents == TypeOK /\ HandedByNumber /\ Custody => OneFragmentPerSource
<1> SUFFICES ASSUME TypeOK, HandedByNumber, Custody, NEW h \in Range(handed)
             PROVE  {b.src : b \in Range(h.frags)} = Sources
  BY DEF OneFragmentPerSource
<1> QED
  BY HandedFrags, AllSources

\* In one run without redelivery an event holds one fragment of each source.
THEOREM OneFragmentPerSourceAlways ==
  ASSUME OneRun
  PROVE  Spec => []OneFragmentPerSource
  BY TypeCorrect, HandedByNumberAlways, CustodyAlways, BuiltEvents, PTL

-----------------------------------------------------------------------------
(* What cleanBufferMap compares with is an event that was handed over.     *)

TimeOfEvent == twrite # 0 => \E h \in Range(handed) : h.frags[1].bx = twrite

LEMMA InsertTime ==
  ASSUME TypeOK, Custody, Insert
  PROVE  \/ UNCHANGED <<twrite, handed>>
         \/ \E h \in Range(handed') : h.frags[1].bx = twrite'
<1> DEFINE e == buf.evt
           entry == Pushed(e, buf)
           r == [run |-> run, evt |-> e, frags |-> entry]
<1>1. buf \in Fragments
  BY DEF Insert, Custody, Listings
<1>2. e # 0 /\ e \in EventNumbers /\ buf \in Buffers
  BY <1>1, BufferTypes DEF Fragments
<1>3. CASE ~Complete(entry)
  BY <1>3 DEF Insert
<1>4. CASE Complete(entry)
  <2>1. twrite' = entry[1].bx /\ handed' = Append(handed, r)
    BY <1>2, <1>4 DEF Insert, ProcessEvent
  <2>2. entry \in Seq(Buffers)
    BY <1>2, AppendFacts DEF TypeOK, Pushed
  <2>3. r \in HandedType /\ handed \in Seq(HandedType)
    BY <1>2, <2>2 DEF TypeOK, HandedType
  <2>4. r \in Range(handed')
    BY <2>1, <2>3, RangeOfAppend
  <2>5. r.frags[1].bx = entry[1].bx
    OBVIOUS
  <2> QED
    BY <2>1, <2>4, <2>5
<1> QED
  BY <1>3, <1>4

LEMMA TimeStep ==
  ASSUME TypeOK, Custody, TimeOfEvent, [Next]_vars
  PROVE  TimeOfEvent'
<1>1. CASE Insert
  BY <1>1, InsertTime DEF TimeOfEvent
<1>2. CASE ~Insert
  <2>1. twrite' = 0 \/ UNCHANGED <<twrite, handed>>
    BY <1>2 DEF Next, FrontEnd, Scanner, vars, mapVars, Trigger, StoreData, StoreFails, StoreMarker,
         List, ListMismatch, PurgeList, PurgeData, PurgeMarker, PurgeDone, Pull, PullUnreadable, Exit,
         EndListing, Start, Stop, Join
  <2> QED
    BY <2>1 DEF TimeOfEvent
<1> QED
  BY <1>1, <1>2

\* One event leaves the map by itself: handed over, or too old.
LEMMA DropStep ==
  ASSUME TypeOK, TimeOfEvent, [Next]_vars, NEW e \in EventNumbers,
         eventMap[e] # << >>, eventMap'[e] = << >>
  PROVE  \/ /\ Len(handed') = Len(handed) + 1
            /\ handed'[Len(handed')].evt = e
         \/ \E h \in Range(handed) : eventMap[e][1].bx + Delay < h.frags[1].bx
<1>1. CASE Insert
  <2> DEFINE n == buf.evt
             entry == Pushed(n, buf)
             r == [run |-> run, evt |-> n, frags |-> entry]
  <2>1. buf \in Buffers /\ n \in EventNumbers
    BY <1>1, BufferTypes DEF Insert, TypeOK
  <2>2. entry \in Seq(Buffers) /\ entry # << >>
    <3>1. eventMap[n] \in Seq(Buffers)
      BY <2>1 DEF TypeOK
    <3>2. Pushed(n, buf) = Append(eventMap[n], buf)
      BY DEF Pushed
    <3> HIDE DEF n
    <3> QED
      BY <2>1, <3>1, <3>2, AppendFacts
  <2>3. r \in HandedType /\ handed \in Seq(HandedType)
    BY <2>1, <2>2 DEF TypeOK, HandedType
  <2>4. \/ eventMap' = [eventMap EXCEPT ![n] = entry]
        \/ /\ eventMap' = [eventMap EXCEPT ![n] = << >>]
           /\ handed' = Append(handed, r)
    BY <1>1 DEF Insert, ProcessEvent
  <2> HIDE DEF entry, n
  <2>5. eventMap' = [eventMap EXCEPT ![n] = << >>] /\ handed' = Append(handed, r) /\ n = e
    BY <2>1, <2>2, <2>4 DEF TypeOK
  <2>6. Len(Append(handed, r)) = Len(handed) + 1 /\ Append(handed, r)[Len(handed) + 1] = r
    BY <2>3, AppendFacts
  <2>7. r.evt = e
    BY <2>5
  <2> QED
    BY <2>5, <2>6, <2>7
<1>2. CASE EndListing
  <2>1. twrite # 0 /\ eventMap[e][1].bx + Delay < twrite
    BY <1>2 DEF EndListing, TooOld, TypeOK
  <2> QED
    BY <2>1 DEF TimeOfEvent
<1> QED
  BY <1>1, <1>2, MapStep

\* In one run without redelivery an event leaves the map handed over or late,
\* never because of the state an earlier listing left (cleanBufferMap).
THEOREM DropsOnlyLateAlways ==
  ASSUME OneRun
  PROVE  Spec => DropsOnlyLate
<1> DEFINE Late ==
      \A e \in EventNumbers :
          eventMap[e] # << >> /\ eventMap'[e] = << >> =>
            \/ /\ Len(handed') = Len(handed) + 1
               /\ handed'[Len(handed')].evt = e
            \/ \E h \in Range(handed) :
                  eventMap[e][1].bx + Delay < h.frags[1].bx
<1>1. Init => TimeOfEvent
  BY DEF Init, TimeOfEvent
<1>2. TypeOK /\ Custody /\ TimeOfEvent /\ [Next]_vars => TimeOfEvent'
  BY TimeStep
<1>3. TypeOK /\ TimeOfEvent /\ [Next]_vars => [Late]_vars
  BY DropStep
<1> QED
  BY <1>1, <1>2, <1>3, TypeCorrect, CustodyAlways, PTL DEF Spec, DropsOnlyLate

-----------------------------------------------------------------------------
(* In one run without redelivery the event builder implements EventAssembly,*)
(* for every value of the constants.                                       *)

Built == [i \in DOMAIN handed |-> Range(handed[i].frags)]

\* What is available, in the terms of the custody of a fragment.
Free == closed \cup {f \in Fragments : InMap(f) \/ InHand(f)}

LEMMA AvailableIsFree == Available = Free /\ Available' = Free'
<1>1. Available = Free
  BY DEF Available, Free, InMap, InHand
<1>2. Available' = Free'
  BY DEF Available, Free, InMap, InHand
<1> QED
  BY <1>1, <1>2

LEMMA RefinedInit == Init => Assembly!Init
<1> SUFFICES ASSUME Init PROVE Assembly!Init
  OBVIOUS
<1>1. Available = {}
  BY RangeOfEmpty DEF Init, Available
<1>2. Built = << >>
  BY DEF Init, Built
<1> QED
  BY <1>1, <1>2 DEF Assembly!Init, Built

\* A step that moves no fragment and builds nothing is a stuttering step.
LEMMA Stutter ==
  ASSUME UNCHANGED <<eventMap, handed>>,
         \A f \in Fragments : (f \in closed' \/ InHand(f)') <=> (f \in closed \/ InHand(f)),
         TypeOK, TypeOK'
  PROVE  UNCHANGED Assembly!vars
<1>1. \A f : InMap(f)' <=> InMap(f)
  BY DEF InMap
<1>2. closed \subseteq Fragments /\ closed' \subseteq Fragments
  BY DEF TypeOK
<1>3. Available' = Available
  BY <1>1, <1>2, AvailableIsFree DEF Free
<1>4. Built' = Built
  BY DEF Built
<1> QED
  BY <1>3, <1>4 DEF Assembly!vars, Built

LEMMA RefinedLoss ==
  ASSUME UNCHANGED handed, Available' \subseteq Available
  PROVE  Assembly!Next
<1>1. Built' = Built
  BY DEF Built
<1>2. Assembly!Lose
  BY <1>1 DEF Assembly!Lose, Built
<1> QED
  BY <1>2 DEF Assembly!Next

\* The end of a listing gives up the fragments of the entries it erases.
LEMMA RefinedEndListing ==
  ASSUME TypeOK, EndListing
  PROVE  Assembly!Next
<1>1. \A e \in EventNumbers : \A f \in Range(eventMap'[e]) : f \in Range(eventMap[e])
  BY EndListingCases, RangeOfEmpty
<1>2. \A f : InMap(f)' => InMap(f)
  BY <1>1 DEF InMap
<1>3. closed' = closed /\ handed' = handed /\ \A f : ~InHand(f)'
  BY DEF EndListing, shmVars, InHand
<1>4. Available' \subseteq Available
  BY <1>2, <1>3, AvailableIsFree DEF Free
<1> QED
  BY <1>3, <1>4, RefinedLoss

LEMMA RefinedPurge ==
  ASSUME TypeOK, PurgeMarker
  PROVE  Assembly!Next
<1>1. UNCHANGED <<eventMap, handed>> /\ closed' \subseteq closed /\ \A f : ~InHand(f)'
  BY DEF PurgeMarker, mapVars, InHand
<1>2. \A f : InMap(f)' <=> InMap(f)
  BY <1>1 DEF InMap
<1>3. Available' \subseteq Available
  BY <1>1, <1>2, AvailableIsFree DEF Free
<1> QED
  BY <1>1, <1>3, RefinedLoss

\* The marker makes a fragment available.
LEMMA RefinedStore ==
  ASSUME TypeOK, StoreMarker
  PROVE  Assembly!Next \/ UNCHANGED Assembly!vars
<1>1. dim \in Fragments /\ UNCHANGED <<eventMap, handed, scan, buf>>
      /\ (closed' = closed \/ closed' = closed \cup {dim})
  BY DEF StoreMarker, TypeOK, scanVars, mapVars
<1>2. \A f : (InMap(f)' <=> InMap(f)) /\ (InHand(f)' <=> InHand(f))
  BY <1>1 DEF InMap, InHand
<1>3. Built' = Built
  BY <1>1 DEF Built
<1>4. CASE closed' = closed
  <2>1. Available' = Available
    BY <1>2, <1>4, AvailableIsFree DEF Free
  <2> QED
    BY <1>3, <2>1 DEF Assembly!vars, Built
<1>5. CASE closed' = closed \cup {dim}
  <2>1. Available' = Available \cup {dim}
    BY <1>2, <1>5, AvailableIsFree DEF Free
  <2>2. dim \in Assembly!Fragments
    BY <1>1 DEF Assembly!Fragments, Fragments, Assembly!Crossings, Crossings
  <2>3. Assembly!Receive
    BY <1>3, <2>1, <2>2 DEF Assembly!Receive, Built
  <2> QED
    BY <2>3 DEF Assembly!Next
<1> QED
  BY <1>1, <1>4, <1>5

\* The whole event e is in an entry that is complete.
LEMMA CompleteEntry ==
  ASSUME NEW entry \in Seq(Buffers), NEW e, Complete(entry), IsInjective(entry),
         \A f \in Range(entry) : Issued(f) /\ f.evt = e
  PROVE  \E bx \in [Sources -> Crossings] : Range(entry) = Assembly!WholeEvent(e, bx)
<1> DEFINE bx == [s \in Sources |-> sent[s][e]]
<1>1. DOMAIN entry = 1 .. N /\ Len(entry) = N
  BY SourceCount DEF Complete
<1>2. \A i \in 1 .. N : entry[i] \in Fragments
  BY <1>1 DEF Range, Issued
<1>3. entry \in Seq(Fragments)
  BY <1>1, <1>2
<1>4. {f.src : f \in Range(entry)} = Sources
  BY <1>1, <1>3, AllSources
<1>5. ASSUME NEW f \in Range(entry)
      PROVE  f = [src |-> f.src, evt |-> e, bx |-> bx[f.src]] /\ f.src \in Sources /\ f.bx \in Crossings
  <2>1. f \in Fragments /\ f.evt = e /\ f.bx = sent[f.src][e] /\ f.src \in Sources
    BY DEF Issued, Fragments
  <2> QED
    BY <2>1 DEF Fragments
<1>6. bx \in [Sources -> Crossings]
  <2>1. ASSUME NEW s \in Sources PROVE bx[s] \in Crossings
    <3>1. PICK f \in Range(entry) : f.src = s
      BY <1>4
    <3> QED
      BY <1>5, <3>1 DEF Issued
  <2> QED
    BY <2>1
<1> HIDE DEF bx
<1>7. \A f \in Range(entry) : f \in Assembly!WholeEvent(e, bx)
  BY <1>5 DEF Assembly!WholeEvent
<1>8. ASSUME NEW g \in Assembly!WholeEvent(e, bx) PROVE g \in Range(entry)
  <2>1. PICK s \in Sources : g = [src |-> s, evt |-> e, bx |-> bx[s]]
    BY DEF Assembly!WholeEvent
  <2>2. PICK f \in Range(entry) : f.src = s
    BY <1>4
  <2> QED
    BY <1>5, <2>1, <2>2
<1>9. Range(entry) = Assembly!WholeEvent(e, bx)
  BY <1>7, <1>8
<1> QED
  BY <1>6, <1>9

LEMMA RefinedInsert ==
  ASSUME TypeOK, NoneWaits, HandedByNumber, Custody, Insert, Custody'
  PROVE  Assembly!Next \/ UNCHANGED Assembly!vars
<1>1. buf \in Fragments /\ buf \notin closed /\ ~InMap(buf) /\ Issued(buf) /\ scan = "insert"
      /\ (\A h \in Range(handed) : buf \notin Range(h.frags))
      /\ closed' = closed /\ (\A f : ~InHand(f)')
  BY DEF Insert, Custody, Listings, OnePlace, AllIssued, InHand
<1> DEFINE e == buf.evt
           entry == Pushed(e, buf)
           r == [run |-> run, evt |-> e, frags |-> entry]
<1>2. e \in EventNumbers /\ e # 0 /\ e \in 1 .. MaxTriggers /\ eventMap[e] \in Seq(Buffers)
      /\ buf \in Buffers
  BY <1>1, BufferTypes, BoundsAssumption DEF Fragments, TypeOK, EventNumbers
<1>3. entry \in Seq(Buffers) /\ Range(entry) = Range(eventMap[e]) \cup {buf}
      /\ entry = Append(eventMap[e], buf)
  BY <1>2, AppendFacts, RangeOfAppend DEF Pushed
<1>4. \/ /\ ~Complete(entry)
         /\ eventMap' = [eventMap EXCEPT ![e] = entry]
         /\ handed' = handed
      \/ /\ Complete(entry)
         /\ eventMap' = [eventMap EXCEPT ![e] = << >>]
         /\ handed' = Append(handed, r)
  BY <1>2 DEF Insert, ProcessEvent
<1>5. eventMap \in [EventNumbers -> Seq(Buffers)]
  BY DEF TypeOK
<1>6. \A d \in EventNumbers : d # e => eventMap'[d] = eventMap[d]
  BY <1>4, <1>5
<1>7. CASE ~Complete(entry)
  <2>1. handed' = handed /\ eventMap'[e] = entry
    BY <1>2, <1>4, <1>5, <1>7
  <2>2. \A f : InMap(f)' <=> InMap(f) \/ f = buf
    BY <1>2, <1>3, <1>6, <2>1 DEF InMap
  <2>3. Available' = Available
    BY <1>1, <2>2, AvailableIsFree DEF Free, InHand
  <2> QED
    BY <2>1, <2>3 DEF Assembly!vars
<1>8. CASE Complete(entry)
  <2>1. handed' = Append(handed, r) /\ eventMap'[e] = << >>
    BY <1>2, <1>4, <1>5, <1>8
  <2>2. \A f \in Range(entry) : f \in Fragments /\ f.evt = e /\ Issued(f)
    BY <1>1, <1>2, <1>3 DEF NoneWaits, Custody, AllIssued, Issued
  <2>3. \A f \in Range(entry) : ~InMap(f)' /\ f \notin closed'
    <3>1. \A f \in Range(entry) : f \notin closed
      BY <1>1, <1>2, <1>3, <2>2 DEF Custody, OnePlace, InMap
    <3>2. \A f \in Range(entry) : \A d \in EventNumbers : f \notin Range(eventMap'[d])
      BY <1>1, <1>6, <2>1, <2>2, RangeOfEmpty DEF NoneWaits
    <3> QED
      BY <1>1, <3>1, <3>2 DEF InMap
  <2>4. \A f : f \notin Range(entry) => (InMap(f)' <=> InMap(f))
    BY <1>2, <1>3, <1>6, <2>1, RangeOfEmpty DEF InMap
  <2>5. Available' = Available \ Range(entry)
    BY <1>1, <1>3, <2>3, <2>4, AvailableIsFree DEF Free, InHand
  <2>6. Range(entry) \subseteq Available
    BY <1>1, <1>2, <1>3, <2>2, AvailableIsFree DEF Free, InMap, InHand
  <2>7. r \in HandedType /\ handed \in Seq(HandedType)
    BY <1>2, <1>3 DEF TypeOK, HandedType
  <2>8. r \in Range(handed')
    BY <2>1, <2>7, RangeOfAppend
  <2>9. IsInjective(entry)
    BY <2>8 DEF Custody, NoCopies
  <2>10. PICK bx \in [Sources -> Crossings] : Range(entry) = Assembly!WholeEvent(e, bx)
    <3> HIDE DEF entry, r, e
    <3> QED
      BY <1>3, <1>8, <2>2, <2>9, CompleteEntry
  <2>11. ASSUME NEW i \in DOMAIN handed, NEW f \in Range(handed[i].frags)
         PROVE  f.evt # e
    <3> SUFFICES ASSUME f.evt = e PROVE FALSE
      OBVIOUS
    <3>1. handed[i] \in Range(handed)
      BY DEF Range
    <3>2. handed[i].evt = e /\ {g.src : g \in Range(handed[i].frags)} = Sources
      BY <3>1, HandedFrags, AllSources
    <3>3. PICK g \in Range(handed[i].frags) : g.src = buf.src
      BY <1>1, <3>2 DEF Fragments
    <3>4. Issued(g) /\ g.evt = e
      BY <3>1, <3>2, HandedFrags
    <3>5. g = buf
      BY <1>1, <3>3, <3>4, SameEventSameSource
    <3> QED
      BY <1>1, <3>1, <3>5
  <2>12. Built' = Append(Built, Range(entry))
    <3> DEFINE S == SUBSET Buffers
    <3>1. DOMAIN handed = 1 .. Len(handed) /\ Len(handed) \in Nat
          /\ DOMAIN handed' = 1 .. (Len(handed) + 1)
          /\ (\A i \in 1 .. Len(handed) : handed'[i] = handed[i])
          /\ handed'[Len(handed) + 1] = r
      BY <2>1, <2>7, AppendFacts
    <3>2. \A i \in 1 .. Len(handed) : Range(handed[i].frags) \in S
      <4>1. \A i \in 1 .. Len(handed) : handed[i].frags \in Seq(Buffers)
        <5> HIDE DEF r, entry
        <5>1. \A i \in 1 .. Len(handed) : handed[i] \in HandedType
          BY <2>7
        <5>2. \A h \in HandedType : h.frags \in Seq(Buffers)
          BY DEF HandedType
        <5> QED
          BY <5>1, <5>2
      <4> QED
        BY <4>1, RangeInSet
    <3>3. Built \in Seq(S) /\ Len(Built) = Len(handed) /\ Range(entry) \in S
      BY <1>3, <3>1, <3>2, RangeInSet DEF Built
    <3>4. Built' = [i \in 1 .. (Len(handed) + 1) |-> Range(handed'[i].frags)]
      BY <3>1 DEF Built
    <3>5. \A i \in 1 .. Len(handed) : Built'[i] = Built[i]
      BY <3>1, <3>4 DEF Built
    <3>6. Built'[Len(handed) + 1] = Range(entry)
      BY <3>1, <3>4
    <3> HIDE DEF entry, r, S
    <3>7. \A i \in 1 .. (Len(handed) + 1) : i \in 1 .. Len(handed) \/ i = Len(handed) + 1
      BY <3>1
    <3>8. Built' \in Seq(S) /\ Len(Built') = Len(handed) + 1
      <4>1. \A i \in 1 .. Len(handed) : Built[i] \in S
        BY <3>3
      <4>2. \A i \in 1 .. (Len(handed) + 1) : Built'[i] \in S
        BY <3>3, <3>5, <3>6, <3>7, <4>1
      <4> QED
        BY <3>1, <3>4, <4>2
    <3>9. Append(Built, Range(entry)) \in Seq(S)
          /\ Len(Append(Built, Range(entry))) = Len(handed) + 1
          /\ Append(Built, Range(entry))[Len(handed) + 1] = Range(entry)
          /\ \A i \in 1 .. Len(handed) : Append(Built, Range(entry))[i] = Built[i]
      BY <3>3, AppendFacts
    <3>10. \A i \in 1 .. (Len(handed) + 1) : Built'[i] = Append(Built, Range(entry))[i]
      BY <3>1, <3>5, <3>6, <3>9
    <3> QED
      BY <3>8, <3>9, <3>10, SameElements
  <2>13. Assembly!Build(e, bx)
    <3> HIDE DEF entry, r
    <3>1. \A done \in Assembly!Range(Built) : \E i \in DOMAIN handed : done = Range(handed[i].frags)
      BY DEF Assembly!Range, Built
    <3>2. \A done \in Assembly!Range(Built) : \A f \in done : f.evt # e
      BY <2>11, <3>1
    <3> QED
      BY <2>5, <2>6, <2>10, <2>12, <3>2 DEF Assembly!Build, Built
  <2> QED
    BY <1>2, <2>10, <2>13 DEF Assembly!Next, Assembly!Crossings, Crossings
<1> QED
  BY <1>7, <1>8

-----------------------------------------------------------------------------

LEMMA RefinedStep ==
  TypeOK /\ TypeOK' /\ NoneWaits /\ HandedByNumber /\ Custody /\ Custody' /\ [Next]_vars
    => [Assembly!Next]_(Assembly!vars)
<1> SUFFICES ASSUME TypeOK, TypeOK', NoneWaits, HandedByNumber, Custody, Custody', [Next]_vars
             PROVE  Assembly!Next \/ UNCHANGED Assembly!vars
  OBVIOUS
<1>1. CASE Insert
  BY <1>1, RefinedInsert
<1>2. CASE EndListing
  BY <1>2, RefinedEndListing
<1>3. CASE PurgeMarker
  BY <1>3, RefinedPurge
<1>4. CASE StoreMarker
  BY <1>4, RefinedStore
<1>5. ASSUME NEW n \in listing, Pull(n)
      PROVE  UNCHANGED Assembly!vars
  <2>1. n \in closed /\ closed' = closed \ {n} /\ UNCHANGED <<eventMap, handed>>
        /\ scan = "pull" /\ scan' = "insert" /\ buf' = n
    BY <1>5 DEF Pull, mapVars, Custody, Listings
  <2>2. \A f : (f \in closed' \/ InHand(f)') <=> (f \in closed \/ InHand(f))
    BY <2>1 DEF InHand
  <2> QED
    BY <2>1, <2>2, Stutter
<1>6. ASSUME NEW n \in listing, PullUnreadable(n)
      PROVE  FALSE
  BY <1>6 DEF PullUnreadable, Custody, Listings, MarkerHasData
<1>7. CASE \/ UNCHANGED <<closed, scan, buf, eventMap, handed>>
           \/ /\ UNCHANGED <<closed, eventMap, handed>>
              /\ scan # "insert" /\ scan' # "insert"
  <2>1. \A f : (f \in closed' \/ InHand(f)') <=> (f \in closed \/ InHand(f))
    BY <1>7 DEF InHand
  <2> QED
    BY <1>7, <2>1, Stutter
<1>8. CASE Trigger \/ (\E s \in Sources : StoreData(s) \/ StoreFails(s)) \/ Stop \/ Join
           \/ UNCHANGED vars
  BY <1>7, <1>8
  DEF Trigger, StoreData, StoreFails, Stop, Join, vars, shmVars, scanVars, mapVars
<1>9. CASE List \/ ListMismatch \/ PurgeList \/ PurgeDone \/ Exit
           \/ (\E n \in listing : PurgeData(n))
  BY <1>7, <1>9
  DEF List, ListMismatch, PurgeList, PurgeDone, Exit, PurgeData, shmVars, mapVars
<1>10. CASE Start
  <2>1. scan = "off"
    BY <1>10 DEF Start, TypeOK
  <2> QED
    BY <1>7, <1>10, <2>1 DEF Start, shmVars, mapVars
<1> QED
  BY <1>1, <1>2, <1>3, <1>4, <1>5, <1>6, <1>8, <1>9, <1>10 DEF Next, FrontEnd, Scanner

\* The event builder implements event assembly: each event is built once, from
\* one fragment of every source, whatever crossings the sources read for it.
THEOREM ImplementsAssemblyAlways ==
  ASSUME OneRun
  PROVE  Spec => ImplementsAssembly
<1>1. Spec => Assembly!Init /\ [][Assembly!Next]_(Assembly!vars)
  BY TypeCorrect, NoneWaitsAlways, HandedByNumberAlways, CustodyAlways, RefinedInit, RefinedStep,
     PTL DEF Spec
<1> QED
  BY <1>1 DEF ImplementsAssembly, Assembly!Spec
=============================================================================
